------------------------------ MODULE MCBTree ------------------------------
(* Small instances of the B-tree of a memtable for TLC.  A behaviour runs   *)
(* the one that `part' names: lookups and iterators that begin on an empty  *)
(* tree (..Early), and such that begin when three or four keys are there,   *)
(* so that leaves with neighbours and index nodes split under them.  With   *)
(* three entries in a full index node a split leaves room in its parent.    *)
EXTENDS Integers, TLC

CONSTANTS t1, t2, t3, t4

VARIABLES part, node, nodes, rd, cl, wr, th, started, completed

vars == <<node, nodes, rd, cl, wr, th, started, completed>>

LookupsEarly == INSTANCE BTree WITH
    Inserters <- {t1, t2}, Readers <- {t3}, Iterators <- {}, NumKeys <- 3,
    LeafCap <- 2, IndexCap <- 3, MaxNodes <- 12, MaxInserts <- 4, Before <- 0,
    Grow <- BOOLEAN, MaxReads <- 1, Walks <- {}
Lookups == INSTANCE BTree WITH
    Inserters <- {t1, t2}, Readers <- {t3}, Iterators <- {}, NumKeys <- 3,
    LeafCap <- 1, IndexCap <- 3, MaxNodes <- 12, MaxInserts <- 4, Before <- 2,
    Grow <- {FALSE}, MaxReads <- 1, Walks <- {}
ScansEarly == INSTANCE BTree WITH
    Inserters <- {t3}, Readers <- {}, Iterators <- {t4}, NumKeys <- 3,
    LeafCap <- 2, IndexCap <- 3, MaxNodes <- 12, MaxInserts <- 3, Before <- 0,
    Grow <- BOOLEAN, MaxReads <- 1,
    Walks <- {<<1, 4, 1, "ge", "next">>, <<2, 3, 2, "ge", "next">>,
              <<1, 4, 4, "lt", "prev">>}
Scans == INSTANCE BTree WITH
    Inserters <- {t3}, Readers <- {}, Iterators <- {t4}, NumKeys <- 4,
    LeafCap <- 2, IndexCap <- 3, MaxNodes <- 12, MaxInserts <- 5, Before <- 4,
    Grow <- BOOLEAN, MaxReads <- 1,
    Walks <- {<<1, 5, 2, "ge", "next">>, <<2, 4, 2, "ge", "next">>,
              <<1, 5, 5, "lt", "prev">>}
Races == INSTANCE BTree WITH
    Inserters <- {t1, t2}, Readers <- {}, Iterators <- {t3}, NumKeys <- 4,
    LeafCap <- 1, IndexCap <- 3, MaxNodes <- 12, MaxInserts <- 5, Before <- 3,
    Grow <- {FALSE}, MaxReads <- 1, Walks <- {<<1, 4, 3, "ge", "next">>}

(* For what must happen in the end: two inserters, and one beside an        *)
(* iterator.                                                                *)

Pairs == INSTANCE BTree WITH
    Inserters <- {t1, t2}, Readers <- {}, Iterators <- {}, NumKeys <- 4,
    LeafCap <- 1, IndexCap <- 3, MaxNodes <- 12, MaxInserts <- 5, Before <- 3,
    Grow <- {FALSE}, MaxReads <- 1, Walks <- {}
Beside == INSTANCE BTree WITH
    Inserters <- {t1}, Readers <- {}, Iterators <- {t2}, NumKeys <- 4,
    LeafCap <- 1, IndexCap <- 3, MaxNodes <- 12, MaxInserts <- 4, Before <- 3,
    Grow <- {FALSE}, MaxReads <- 1, Walks <- {<<1, 4, 3, "ge", "next">>}

-----------------------------------------------------------------------------

TreesInit ==
    \/ part = "lookups_early" /\ LookupsEarly!Init
    \/ part = "lookups" /\ Lookups!Init
    \/ part = "scans_early" /\ ScansEarly!Init
    \/ part = "scans" /\ Scans!Init
    \/ part = "races" /\ Races!Init

\* A part ends when every call has returned; TLC reports any other end.
Finished == /\ part = "lookups_early" => LookupsEarly!AllReturned
            /\ part = "lookups" => Lookups!AllReturned
            /\ part = "scans_early" => ScansEarly!AllReturned
            /\ part = "scans" => Scans!AllReturned
            /\ part = "races" => Races!AllReturned
            /\ part = "pairs" => Pairs!AllReturned
            /\ part = "beside" => Beside!AllReturned
            /\ UNCHANGED vars

TreesNext ==
    /\ UNCHANGED part
    /\ \/ part = "lookups_early" /\ LookupsEarly!Next
       \/ part = "lookups" /\ Lookups!Next
       \/ part = "scans_early" /\ ScansEarly!Next
       \/ part = "scans" /\ Scans!Next
       \/ part = "races" /\ Races!Next
       \/ Finished

TreesSpec == TreesInit /\ [][TreesNext]_<<part, vars>>

\* Where t1 and t2 run, both insert.
TwoInserters == Permutations({t1, t2})

CallsInit == \/ part = "pairs" /\ Pairs!Init
             \/ part = "beside" /\ Beside!Init

CallsNext ==
    /\ UNCHANGED part
    /\ \/ part = "pairs" /\ Pairs!Next
       \/ part = "beside" /\ Beside!Next
       \/ Finished

\* BTree.Fairness of the one that runs.
CallsSpec ==
    /\ CallsInit /\ [][CallsNext]_<<part, vars>>
    /\ \A t \in {t1, t2} :
          /\ SF_vars(\/ part = "pairs" /\ Pairs!InsertStep(t)
                     \/ part = "beside" /\ (IF t = t1 THEN Beside!InsertStep(t)
                                            ELSE Beside!IterStep(t)))
          /\ SF_vars(\/ part = "pairs" /\ Pairs!NextGiveUp(t)
                     \/ part = "beside" /\ t = t1 /\ Beside!NextGiveUp(t))

-----------------------------------------------------------------------------
(* Properties, each defined and explained in BTree.                         *)

\* BTree.LookupSees: a lookup sees every insertion that had returned before it
\* began, whatever splits it meets on its way down; IterationIsComplete: an
\* iteration shows the keys of its range that were there from the start, each
\* once and in order, while the leaves under it, before it and at its end split.
ReadsSeeInserts == /\ part = "lookups_early" => LookupsEarly!LookupSees
                   /\ part = "lookups" => Lookups!LookupSees
                   /\ part = "scans_early" => ScansEarly!IterationIsComplete
                   /\ part = "scans" => Scans!IterationIsComplete
                   /\ part = "races" => Races!IterationIsComplete

\* BTree.NobodyIsStuck: inserters, lookups and iterators never wait for each
\* other's node locks in a circle.
NobodyIsStuck == /\ part = "lookups_early" => LookupsEarly!NobodyIsStuck
                 /\ part = "lookups" => Lookups!NobodyIsStuck
                 /\ part = "scans_early" => ScansEarly!NobodyIsStuck
                 /\ part = "scans" => Scans!NobodyIsStuck
                 /\ part = "races" => Races!NobodyIsStuck

\* BTree.CallsReturn: insertions that start over and splits that are given up
\* come to an end, beside each other and beside an iterator.
CallsReturn == \A t \in {t1, t2} : Pairs!InCall(t) ~> ~Pairs!InCall(t)
=============================================================================
