--------------------------- MODULE RangeIterator ---------------------------
(***************************************************************************)
(* The range iterator of core.c.  It merges the memtables and the branches *)
(* on the path to one leaf of the trunk, bounded by the leaf's range       *)
(* (local_min_key, local_max_key), and starts again on the neighbouring    *)
(* leaf when it runs off the end.  It keeps references on the branches it  *)
(* reads, so the leaf it is on does not change under it, but between two   *)
(* starts the trunk may split leaves.                                      *)
(*                                                                         *)
(* A start that finds its leaf exhausted starts again with a key that      *)
(* points into its own local_max_key (or local_min_key) buffer.  Collecting*)
(* the branches of the new leaf writes the new bound into that buffer,     *)
(* unless the bound is an infinity, which has no bytes: `alias' says which *)
(* buffer the start key lives in.                                          *)
(***************************************************************************)
EXTENDS Integers, FiniteSets, FiniteSetsExt, Sequences

CONSTANT NumKeys

VARIABLES db,     \* the live keys
          cuts,   \* the boundaries between the trunk's leaves
          st,     \* closed, starting or open
          start, type, alias,   \* arguments of the start under way
          lo, hi,               \* local_min_key, local_max_key
          pos, canNext, canPrev,
          from, dir,            \* ghost: the key and direction of the last move
          lost                  \* ghost: a start key was overwritten

vars == <<db, cuts, st, start, type, alias, lo, hi, pos, canNext, canPrev, from, dir, lost>>

Keys == 1 .. NumKeys
NegInf == 0
PosInf == NumKeys + 1

Leaves == LET b == cuts \cup {NegInf, PosInf}
          IN {<<x, y>> \in b \X b : x < y /\ \A z \in b : z <= x \/ y <= z}

\* trunk_collect_branches: the leaf a start key leads to; going backwards, the
\* leaf that ends at the key rather than the one that begins there.
LeafFor(k, ty) ==
  IF ty = "lt" THEN CHOOSE l \in Leaves : l[1] < k /\ k <= l[2]
  ELSE CHOOSE l \in Leaves : l[1] <= k /\ k < l[2]

\* Where the merge iterator stands: a key, or one of the leaf's ends.
FirstIn(S, end) == IF S = {} THEN end ELSE Min(S)
LastIn(S, end) == IF S = {} THEN end ELSE Max(S)
InLeaf(l) == {k \in db : l[1] <= k /\ k < l[2]}

-----------------------------------------------------------------------------
Open(k) ==
  /\ st = "closed"
  /\ st' = "starting" /\ start' = k /\ type' = "ge" /\ alias' = "none"
  /\ from' = k - 1 /\ dir' = "next"
  /\ UNCHANGED <<db, cuts, lo, hi, pos, canNext, canPrev, lost>>

\* What the start key holds once the new bounds are in the buffers.
StartAfter(l) == CASE alias = "max" /\ l[2] # PosInf -> l[2]
                   [] alias = "min" /\ l[1] # NegInf -> l[1]
                   [] OTHER -> start

\* core_range_iterator_init on the current trunk: forward.
StartForward ==
  LET l == LeafFor(start, "ge")
      s == StartAfter(l)
      p == FirstIn({k \in InLeaf(l) : k >= s}, l[2])
  IN /\ st = "starting" /\ type = "ge"
     /\ lo' = l[1] /\ hi' = l[2] /\ lost' = (lost \/ s # start)
     /\ IF p = l[2] /\ l[2] < PosInf
        THEN /\ start' = l[2] /\ alias' = "max"
             /\ UNCHANGED <<st, pos, canNext, canPrev>>
        ELSE /\ st' = "open" /\ pos' = p
             /\ canNext' = (p # l[2])
             /\ canPrev' = (p # l[2] \/ InLeaf(l) # {})
             /\ UNCHANGED <<start, alias>>
     /\ UNCHANGED <<db, cuts, type, from, dir>>

\* The same, backward from a leaf's lower bound.
StartBackward ==
  LET l == LeafFor(start, "lt")
      s == StartAfter(l)
      p == LastIn({k \in InLeaf(l) : k < s}, l[1] - 1)
  IN /\ st = "starting" /\ type = "lt"
     /\ lo' = l[1] /\ hi' = l[2] /\ lost' = (lost \/ s # start)
     /\ IF p = l[1] - 1 /\ l[1] > NegInf
        THEN /\ start' = l[1] /\ alias' = "min"
             /\ UNCHANGED <<st, pos, canNext, canPrev>>
        ELSE /\ st' = "open" /\ pos' = p
             /\ canPrev' = (p # l[1] - 1)
             /\ canNext' = (p # l[1] - 1 \/ InLeaf(l) # {})
             /\ UNCHANGED <<start, alias>>
     /\ UNCHANGED <<db, cuts, type, from, dir>>

\* core_range_iterator_next; the key of a restart is a copy here.
NextKey ==
  LET p == FirstIn({k \in db : pos < k /\ lo <= k /\ k < hi}, hi)
  IN /\ st = "open" /\ canNext
     /\ from' = pos /\ dir' = "next" /\ canPrev' = TRUE
     /\ IF p = hi /\ hi < PosInf
        THEN /\ st' = "starting" /\ start' = hi /\ type' = "ge" /\ alias' = "none"
             /\ UNCHANGED <<pos, canNext>>
        ELSE /\ pos' = p /\ canNext' = (p # hi)
             /\ UNCHANGED <<st, start, type, alias>>
     /\ UNCHANGED <<db, cuts, lo, hi, lost>>

\* A mistake in PrevKey: the restart searches from the upper bound of the leaf.
PrevKeyHigh ==
  LET p == LastIn({k \in db : k < pos /\ lo <= k /\ k < hi}, lo - 1)
  IN /\ st = "open" /\ canPrev
     /\ from' = pos /\ dir' = "prev" /\ canNext' = TRUE
     /\ IF p = lo - 1 /\ lo > NegInf
        THEN /\ st' = "starting" /\ start' = lo /\ type' = "ge" /\ alias' = "none"
             /\ UNCHANGED <<pos, canPrev>>
        ELSE /\ pos' = p /\ canPrev' = (p # lo - 1)
             /\ UNCHANGED <<st, start, type, alias>>
     /\ UNCHANGED <<db, cuts, lo, hi, lost>>

\* core_range_iterator_prev
PrevKey ==
  LET p == LastIn({k \in db : k < pos /\ lo <= k /\ k < hi}, lo - 1)
  IN /\ st = "open" /\ canPrev
     /\ from' = pos /\ dir' = "prev" /\ canNext' = TRUE
     /\ IF p = lo - 1 /\ lo > NegInf
        THEN /\ st' = "starting" /\ start' = lo /\ type' = "lt" /\ alias' = "none"
             /\ UNCHANGED <<pos, canPrev>>
        ELSE /\ pos' = p /\ canPrev' = (p # lo - 1)
             /\ UNCHANGED <<st, start, type, alias>>
     /\ UNCHANGED <<db, cuts, lo, hi, lost>>

Close ==
  /\ st = "open" /\ st' = "closed" /\ lost' = FALSE
  /\ UNCHANGED <<db, cuts, start, type, alias, lo, hi, pos, canNext, canPrev, from, dir>>

\* A leaf of the trunk is split by a flush.
SplitLeaf(k) ==
  /\ k \notin cuts /\ cuts' = cuts \cup {k}
  /\ UNCHANGED <<db, st, start, type, alias, lo, hi, pos, canNext, canPrev, from, dir, lost>>

-----------------------------------------------------------------------------
Init ==
  /\ db \in SUBSET Keys /\ cuts \in SUBSET (Keys \ {1})
  /\ st = "closed" /\ start = 1 /\ type = "ge" /\ alias = "none"
  /\ lo = NegInf /\ hi = PosInf /\ pos = 1 /\ canNext = FALSE /\ canPrev = FALSE
  /\ from = 0 /\ dir = "next" /\ lost = FALSE

Next ==
  \/ \E k \in Keys : Open(k)
  \/ StartForward \/ StartBackward \/ NextKey \/ PrevKey \/ Close
  \/ \E k \in Keys \ {1} : SplitLeaf(k)

Spec == Init /\ [][Next]_vars

-----------------------------------------------------------------------------
(* Properties. *)

\* The iterator has moved, and no key lies between where it was and where it is.
Adjacent ==
  st = "open" =>
    IF dir = "next" THEN from < pos /\ \A k \in db : ~(from < k /\ k < pos)
    ELSE pos < from /\ \A k \in db : ~(pos < k /\ k < from)

\* Whatever leaves are split meanwhile, a move goes to the next or the previous
\* live key, also across leaves and back again, as long as no start key was
\* overwritten while it was in use (core_range_iterator_init, _next, _prev).
MovesAreAdjacent == ~lost => Adjacent

\* The iterator starts at the given key and no key is skipped
\* (splinterdb_iterator_init, splinterdb_iterator_next).
NoKeySkipped == Adjacent
=============================================================================
