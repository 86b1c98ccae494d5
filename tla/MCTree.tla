------------------------------- MODULE MCTree -------------------------------
(* Small instances of the log-structured tree for TLC, checked side by      *)
(* side: memtables and their incorporation (Core), the trunk's compactions  *)
(* (Trunk, on one pivot with many tasks at once, on leaves that split, and  *)
(* with an index that splits), the life of trunk nodes (TrunkRefs) and range scans             *)
(* (RangeIterator).  A behaviour runs one of them, which `part' names; the  *)
(* variables of the others rest at Unused, Core's at its initial values.    *)
EXTENDS Core, TLC, Sequences

CONSTANTS t1, t2, k1, k2, m1, m2, r1

VARIABLES
    part,
    root, log, states, mod, asserted,                               \* Trunk
    ref, kids, current, claim, pending, gcLock, work, held, sweep,
    mods,                                                       \* TrunkRefs
    db, cuts, st, start, type, alias, lo, hi, pos, canNext, canPrev, from, dir,
    lost                                                       \* RangeIterator

Parts == {"readers", "writers", "trunk1", "trunk2", "trunk3", "refs",
          "range"}

\* One thread inserts while the other looks up and iterates, or both insert;
\* the database may be closed or crash and is opened again.
InsertAndRead == (t1 :> {"insert"}) @@ (t2 :> {"lookup", "iterate"})
TwoInserters == (t1 :> {"insert"}) @@ (t2 :> {"insert"})

Writers == INSTANCE Core WITH Roles <- TwoInserters, MaxMounts <- 3,
                              MayCrash <- TRUE

\* Key 1 is only ever updated, so that every lost, repeated or misplaced
\* branch shows; the other keys are put, deleted and updated again.
Branches(n) ==
    LET B(kind) == {[k \in 1 .. n |-> IF k = 1 THEN "upd" ELSE kind]}
    IN  <<B("put"), B("del"), B("upd")>>

T1 == INSTANCE Trunk WITH NumKeys <- 1,
                          Batches <- [g \in 1 .. 5 |-> {<<"upd">>}],
                          target_fanout <- 2, TaskThreads <- 3
T2 == INSTANCE Trunk WITH NumKeys <- 2, Batches <- Branches(2),
                          target_fanout <- 2, TaskThreads <- 1
T3 == INSTANCE Trunk WITH NumKeys <- 3, Batches <- SubSeq(Branches(3), 1, 2),
                          target_fanout <- 2, TaskThreads <- 1

Refs == INSTANCE TrunkRefs WITH NumAddrs <- 9, Modifiers <- {m1, m2},
          Readers <- {r1}, Swept <- {2}, Fanout <- 2, MaxMods <- 2,
          root <- current, mod <- work

Range == INSTANCE RangeIterator WITH NumKeys <- 4

Unused == "unused"

trunkVars == <<root, log, states, mod, asserted>>
refsVars == <<ref, kids, current, claim, pending, gcLock, work, held, sweep, mods>>
rangeVars == <<db, cuts, st, start, type, alias, lo, hi, pos, canNext, canPrev,
               from, dir, lost>>

TrunkRests == root = Unused /\ log = Unused /\ states = Unused /\ mod = Unused
              /\ asserted = Unused
RefsRests == /\ ref = Unused /\ kids = Unused /\ current = Unused
             /\ claim = Unused /\ pending = Unused /\ gcLock = Unused
             /\ work = Unused /\ held = Unused /\ sweep = Unused /\ mods = Unused
RangeRests == /\ db = Unused /\ cuts = Unused /\ st = Unused /\ start = Unused
              /\ type = Unused /\ alias = Unused /\ lo = Unused /\ hi = Unused
              /\ pos = Unused /\ canNext = Unused /\ canPrev = Unused
              /\ from = Unused /\ dir = Unused /\ lost = Unused

TreeInit ==
    /\ part \in Parts
    /\ Init
    /\ CASE part = "trunk1" -> T1!Init
         [] part = "trunk2" -> T2!Init
         [] part = "trunk3" -> T3!Init
         [] OTHER -> TrunkRests
    /\ IF part = "refs" THEN Refs!Init ELSE RefsRests
    /\ IF part = "range" THEN Range!Init ELSE RangeRests

\* The trunk's parts stop when every branch is incorporated and every task done.
Finished == /\ part \in {"trunk1", "trunk2", "trunk3", "refs"}
            /\ UNCHANGED <<part, vars, trunkVars, refsVars, rangeVars>>

TreeNext ==
    \/ part = "readers" /\ Next /\ UNCHANGED <<part, trunkVars, refsVars, rangeVars>>
    \/ part = "writers" /\ Writers!Next
       /\ UNCHANGED <<part, trunkVars, refsVars, rangeVars>>
    \/ part = "trunk1" /\ T1!Next /\ UNCHANGED <<part, vars, refsVars, rangeVars>>
    \/ part = "trunk2" /\ T2!Next /\ UNCHANGED <<part, vars, refsVars, rangeVars>>
    \/ part = "trunk3" /\ T3!Next /\ UNCHANGED <<part, vars, refsVars, rangeVars>>
    \/ part = "refs" /\ Refs!Next /\ UNCHANGED <<part, vars, trunkVars, rangeVars>>
    \/ part = "range" /\ Range!Next /\ UNCHANGED <<part, vars, trunkVars, refsVars>>
    \/ Finished

TreeSpec == TreeInit /\ [][TreeNext]_<<part, vars, trunkVars, refsVars, rangeVars>>

\* Trunk.ViewIsMerge: a lookup in the trunk returns the merge of everything
\* incorporated, whatever compactions have been done or are under way; and
\* every node it passes is well formed as trunk_node_is_well_formed_* require
\* (Trunk.TypeOK).
ViewIsMerge == /\ part = "trunk1" => T1!TypeOK /\ T1!ViewIsMerge
               /\ part = "trunk2" => T2!TypeOK /\ T2!ViewIsMerge
               /\ part = "trunk3" => T3!TypeOK /\ T3!ViewIsMerge

\* Trunk.TasksFindWork: a compaction that was not abandoned finds the bundles
\* and the pivot it was made for; NoTaskNoState: no pivot state outlives its
\* last task.
TasksFindWork == /\ part = "trunk1" => T1!TasksFindWork /\ T1!NoTaskNoState
                 /\ part = "trunk2" => T2!TasksFindWork /\ T2!NoTaskNoState
                 /\ part = "trunk3" => T3!TasksFindWork /\ T3!NoTaskNoState

\* TrunkRefs.ReadersAreSafe: no node a lookup stands on is freed under it;
\* CountsAreExact: a node's reference count is the number of roots and nodes
\* that name it; LookupsDelayNoChild: collecting with the list of pending nodes
\* locked never meets a node that a lookup holds.
NodesLiveAsNeeded ==
    part = "refs" => /\ Refs!ReadersAreSafe
                     /\ Refs!CountsAreExact
                     /\ Refs!LookupsDelayNoChild

\* RangeIterator.MovesAreAdjacent: a move goes to the adjacent live key, across
\* the leaves it has to open on its way.
MovesAreAdjacent == part = "range" => Range!MovesAreAdjacent
=============================================================================
