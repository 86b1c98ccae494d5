------------------------------- MODULE BTree -------------------------------
(***************************************************************************)
(* The B-tree of a memtable (btree.c): threads insert while others look    *)
(* keys up and iterate. Nodes are locked as cache pages are: readers share *)
(* a node, a claim excludes other claims, a write lock also excludes       *)
(* readers: its flag, set with the step before, keeps new ones out while   *)
(* the lock's own step waits for the others to leave. A step is one lock   *)
(* operation that may block or fail, with what the thread does under its   *)
(* locks up to the next one. A leaf maps keys to the number of updates     *)
(* merged into their message; an index node maps pivots to children. Sizes *)
(* are counted in entries; a message that grows (big) may not fit in its   *)
(* place, and how the bytes of the entries place the cut of a split is     *)
(* left open. Positions count from 0, as in the code.                      *)
(***************************************************************************)
EXTENDS Integers, Sequences, FiniteSets

CONSTANTS
    Inserters, Readers, Iterators,      \* threads, by what they do
    NumKeys,
    LeafCap, IndexCap,  \* entries of a full leaf and of a full index node
    MaxNodes,           \* bound: nodes allocated
    MaxInserts,         \* bound: insertions
    Before,             \* bound: so many, each of another key, run one by one
                        \* before all other calls
    Grow,               \* whether messages grow: a set of BOOLEANs
    MaxReads,           \* bound: lookups and iterations of a thread
    Walks               \* <<min, max, start, rule, direction>> of iterators

VARIABLES
    node,       \* address -> [height, keys, kids, next, prev, generation]
    nodes,      \* the addresses in use
    rd,         \* address -> <<thread, slot>> of the read locks
    cl, wr,     \* address -> thread that has the claim, the write flag
    th,         \* thread -> label and locals
    started,    \* key -> insertions that were called
    completed   \* key -> insertions that have returned

vars == <<node, nodes, rd, cl, wr, th, started, completed>>
locks == <<rd, cl, wr>>
ghosts == <<started, completed>>

Threads == Inserters \cup Readers \cup Iterators
Keys == 1 .. NumKeys
Addrs == 1 .. MaxNodes
ROOT == 1
NONE == 0

Blank == [height |-> 0, keys |-> <<>>, kids |-> <<>>, next |-> NONE,
          prev |-> NONE, generation |-> 0]

Idle == [pc |-> "idle", key |-> 0, par |-> NONE, child |-> NONE, cidx |-> 0,
         old |-> 0, big |-> FALSE, stale |-> FALSE, cut |-> 0,
         right |-> NONE, next |-> NONE, floor |-> 0, res |-> 0, cur |-> NONE,
         idx |-> 0, cmin |-> 0, end |-> NONE, egen |-> 0, eidx |-> 0,
         walk |-> <<>>, must |-> {}, out |-> <<>>, ret |-> "", reads |-> 0]

\* btree_create
Init ==
    /\ node = [a \in Addrs |-> Blank]
    /\ nodes = {1}
    /\ rd = [a \in Addrs |-> {}]
    /\ cl = [a \in Addrs |-> NONE]
    /\ wr = [a \in Addrs |-> NONE]
    /\ th = [t \in Threads |-> Idle]
    /\ started = [k \in Keys |-> 0]
    /\ completed = [k \in Keys |-> 0]

-----------------------------------------------------------------------------
\* Nodes

NumEntries(n) == Len(node[n].keys)
NumLE(s, k) == Cardinality({i \in DOMAIN s : s[i] <= k})
Has(n, k) == \E i \in DOMAIN node[n].keys : node[n].keys[i] = k

\* btree_find_pivot, btree_find_tuple: the last entry that is not larger.
Find(n, k) == NumLE(node[n].keys, k) - 1

\* find_key_in_node
Position(n, k, rule) ==
    CASE rule = "lt" -> Find(n, k) - (IF Has(n, k) THEN 1 ELSE 0)
      [] rule = "le" -> Find(n, k)
      [] rule = "ge" -> Find(n, k) + (IF Has(n, k) THEN 0 ELSE 1)
      [] rule = "gt" -> Find(n, k) + 1

Max0(i) == IF i < 0 THEN 0 ELSE i
ChildFor(n, k) == node[n].kids[Max0(Find(n, k)) + 1]

InsertAt(s, i, x) == SubSeq(s, 1, i) \o <<x>> \o SubSeq(s, i + 1, Len(s))

\* btree_try_perform_leaf_incorporate_spec on contents nd, for the insertion
\* whose spec found old updates of key k.
Incorporate(nd, k, old) ==
    LET i == NumLE(nd.keys, k)
        there == i > 0 /\ nd.keys[i] = k
    IN  [nd EXCEPT !.keys = IF there THEN @ ELSE InsertAt(@, i, k),
                   !.kids = IF there THEN [@ EXCEPT ![i] = old + 1]
                            ELSE InsertAt(@, i, old + 1),
                   !.generation = @ + 1]

\* btree_create_leaf_incorporate_spec: the updates its message merges with.
OldOf(n, k) == IF Has(n, k) THEN node[n].kids[Find(n, k) + 1] ELSE 0

\* btree_can_perform_leaf_incorporate_spec
Fits(n, t) == NumEntries(n) < LeafCap \/ (Has(n, th[t].key) /\ ~th[t].big)

IsFull(n) == NumEntries(n) >= IndexCap
NeedsFix(n, k) == Find(n, k) < 0 \/ IsFull(n)

SetMinKey(nd, k) ==
    IF nd.keys[1] <= k THEN nd ELSE [nd EXCEPT !.keys[1] = k]

\* An index node is split in the middle: its entries are of one size.
SplitAt(n) == (NumEntries(n) + 1) \div 2

LeftPart(nd, left) ==
    [nd EXCEPT !.keys = SubSeq(@, 1, left), !.kids = SubSeq(@, 1, left)]

RightPart(nd, left) ==
    [nd EXCEPT !.keys = SubSeq(@, left + 1, Len(@)),
               !.kids = SubSeq(@, left + 1, Len(@))]

\* btree_grow_root: the contents of the root move to a new child.
Grown(nd, new) == [nd EXCEPT !.height = @ + 1, !.keys = <<nd.keys[1]>>,
                             !.kids = <<new>>]

-----------------------------------------------------------------------------
\* btree_alloc: an address that is not in use, and its allocation.
Unused == Addrs \ nodes
New == CHOOSE n \in Unused : \A m \in Unused : n <= m
Alloc == Unused # {} /\ nodes' = nodes \cup {New}

-----------------------------------------------------------------------------
\* Locks

Free(n) == wr[n] = NONE
Alone(t, n) == \A r \in rd[n] : r[1] = t
Get(t, i, n) == rd' = [rd EXCEPT ![n] = @ \cup {<<t, i>>}]

\* Everything thread t holds on the nodes of S.
ReleaseAll(t, S) ==
    /\ rd' = [n \in Addrs |-> IF n \in S THEN {r \in rd[n] : r[1] # t} ELSE rd[n]]
    /\ cl' = [n \in Addrs |-> IF n \in S /\ cl[n] = t THEN NONE ELSE cl[n]]
    /\ wr' = [n \in Addrs |-> IF n \in S /\ wr[n] = t THEN NONE ELSE wr[n]]

At(t, label) == th[t].pc = label
Go(t, l) == th' = [th EXCEPT ![t].pc = l]

\* goto start_over
StartOver(t) ==
    /\ ReleaseAll(t, Addrs)
    /\ th' = [th EXCEPT ![t] = [Idle EXCEPT !.pc = "root", !.key = th[t].key,
                                            !.big = th[t].big]]

\* The claim of n is there: take it and set the write flag of w.
ClaimAndFlag(t, n, w) ==
    /\ cl' = [cl EXCEPT ![n] = t]
    /\ wr' = [wr EXCEPT ![w] = t]

Return(t) ==
    /\ th' = [th EXCEPT ![t] = Idle]
    /\ completed' = [completed EXCEPT ![th[t].key] = @ + 1]
    /\ UNCHANGED started

-----------------------------------------------------------------------------
\* btree_insert: down to the leaf

Inserted == LET S[k \in 0 .. NumKeys] == IF k = 0 THEN 0 ELSE started[k] + S[k - 1]
            IN  S[NumKeys]

InsertBegin(t, k, big) ==
    /\ At(t, "idle") /\ Inserted < MaxInserts
    /\ Inserted < Before => completed = started /\ started[k] = 0
    /\ th' = [th EXCEPT ![t].pc = "root", ![t].key = k, ![t].big = big]
    /\ started' = [started EXCEPT ![k] = @ + 1]
    /\ UNCHANGED <<node, nodes, locks, completed>>

GetRoot(t) ==
    /\ At(t, "root") /\ Free(ROOT)
    /\ Get(t, 1, ROOT)
    /\ Go(t, "at_root")
    /\ UNCHANGED <<node, nodes, cl, wr, ghosts>>

\* The root is an index that needs no change: go to a child.
RootDescend(t) ==
    /\ At(t, "at_root") /\ node[ROOT].height > 0 /\ ~NeedsFix(ROOT, th[t].key)
    /\ th' = [th EXCEPT ![t].pc = "descend", ![t].par = ROOT,
                        ![t].cidx = Find(ROOT, th[t].key)]
    /\ UNCHANGED <<node, nodes, locks, ghosts>>

RootClaim(t) ==
    /\ At(t, "at_root") /\ (node[ROOT].height = 0 \/ NeedsFix(ROOT, th[t].key))
    /\ IF cl[ROOT] = NONE
         THEN ClaimAndFlag(t, ROOT, ROOT) /\ Go(t, "root_lock") /\ UNCHANGED rd
         ELSE StartOver(t)
    /\ UNCHANGED <<node, nodes, ghosts>>

RootInsert(t) ==
    /\ At(t, "root_lock") /\ Alone(t, ROOT) /\ node[ROOT].height = 0 /\ Fits(ROOT, t)
    /\ node' = [node EXCEPT ![ROOT] =
                    Incorporate(@, th[t].key, OldOf(ROOT, th[t].key))]
    /\ ReleaseAll(t, {ROOT})
    /\ Return(t)
    /\ UNCHANGED nodes

RootGrowLeaf(t) ==
    /\ At(t, "root_lock") /\ Alone(t, ROOT) /\ node[ROOT].height = 0
    /\ ~Fits(ROOT, t) /\ Alloc
    /\ node' = [node EXCEPT ![New] = node[ROOT],
                            ![ROOT] = Grown(node[ROOT], New)]
    /\ cl' = [cl EXCEPT ![ROOT] = NONE]
    /\ wr' = [wr EXCEPT ![ROOT] = NONE]
    /\ Go(t, "at_root")
    /\ UNCHANGED <<rd, ghosts>>

\* The smallest pivot is lowered and a full root grows; if the pivot has no
\* room (late) only the grown root gets it.
RootFix(t, late) ==
    /\ At(t, "root_lock") /\ Alone(t, ROOT) /\ node[ROOT].height > 0
    /\ late => IsFull(ROOT) /\ Find(ROOT, th[t].key) < 0
    /\ LET k == th[t].key
           fixed == IF late THEN node[ROOT] ELSE SetMinKey(node[ROOT], k)
       IN  IF IsFull(ROOT)
             THEN /\ Alloc
                  /\ node' = [node EXCEPT ![New] = fixed,
                                 ![ROOT] = SetMinKey(Grown(fixed, New), k)]
                  /\ th' = [th EXCEPT ![t].pc = "descend", ![t].par = ROOT,
                                      ![t].cidx = 0]
             ELSE /\ node' = [node EXCEPT ![ROOT] = fixed]
                  /\ th' = [th EXCEPT ![t].pc = "descend", ![t].par = ROOT,
                                      ![t].cidx = Max0(Find(ROOT, k))]
                  /\ UNCHANGED nodes
    /\ cl' = [cl EXCEPT ![ROOT] = NONE]
    /\ wr' = [wr EXCEPT ![ROOT] = NONE]
    /\ UNCHANGED <<rd, ghosts>>

\* The child is locked before the parent is let go.
Descend(t) ==
    LET c == node[th[t].par].kids[th[t].cidx + 1]
    IN  /\ At(t, "descend") /\ Free(c)
        /\ Get(t, 1, c)
        /\ th' = [th EXCEPT ![t].child = c, ![t].old = OldOf(c, th[t].key),
                    ![t].pc = IF node[th[t].par].height > 1 THEN "index" ELSE "leaf"]
        /\ UNCHANGED <<node, nodes, cl, wr, ghosts>>

IndexStep(t) ==
    LET c == th[t].child
    IN  /\ At(t, "index") /\ ~NeedsFix(c, th[t].key)
        /\ ReleaseAll(t, {th[t].par})
        /\ th' = [th EXCEPT ![t].pc = "descend", ![t].par = c,
                            ![t].cidx = Find(c, th[t].key)]
        /\ UNCHANGED <<node, nodes, ghosts>>

\* The parent is claimed, then the child; both attempts may fail.
IndexClaimParent(t) ==
    LET p == th[t].par
    IN  /\ At(t, "index") /\ NeedsFix(th[t].child, th[t].key)
        /\ IF cl[p] = NONE
             THEN cl' = [cl EXCEPT ![p] = t] /\ Go(t, "index_claim") /\ UNCHANGED <<rd, wr>>
             ELSE StartOver(t)
        /\ UNCHANGED <<node, nodes, ghosts>>

IndexClaim(t) ==
    LET c == th[t].child
    IN  /\ At(t, "index_claim")
        /\ IF cl[c] = NONE
             THEN ClaimAndFlag(t, c, th[t].par) /\ Go(t, "index_lock") /\ UNCHANGED rd
             ELSE StartOver(t)
        /\ UNCHANGED <<node, nodes, ghosts>>

\* The parent is locked first; it stays locked while the child is waited for.
IndexLock(t) ==
    /\ At(t, "index_lock") /\ Alone(t, th[t].par)
    /\ wr' = [wr EXCEPT ![th[t].child] = t]
    /\ Go(t, "index_fix")
    /\ UNCHANGED <<node, nodes, rd, cl, ghosts>>

\* The child is locked and its smallest pivot lowered; a full child is split,
\* its right part entered in the parent, and the thread goes on in the part it
\* needs.  (Readers that reach either part wait until both are complete.)
IndexFix(t) ==
    LET p == th[t].par
        c == th[t].child
        k == th[t].key
        fixed == SetMinKey(node[c], k)
        left == SplitAt(c)
        goes == Max0(Find(c, k))
    IN  /\ At(t, "index_fix") /\ Alone(t, c)
        /\ IF ~IsFull(c)
             THEN /\ node' = [node EXCEPT ![c] = fixed]
                  /\ th' = [th EXCEPT ![t].pc = "descend", ![t].par = c,
                                      ![t].cidx = goes]
                  /\ rd' = [rd EXCEPT ![p] = {}]
                  /\ UNCHANGED nodes
             ELSE /\ Alloc
                  /\ node' = [node EXCEPT
                       ![p].keys = InsertAt(@, th[t].cidx + 1, fixed.keys[left + 1]),
                       ![p].kids = InsertAt(@, th[t].cidx + 1, New),
                       ![c] = LeftPart(fixed, left),
                       ![New] = RightPart(fixed, left)]
                  /\ IF goes < left
                       THEN th' = [th EXCEPT ![t].pc = "descend", ![t].par = c,
                                             ![t].cidx = goes]
                            /\ rd' = [rd EXCEPT ![p] = {}]
                       ELSE th' = [th EXCEPT ![t].pc = "descend", ![t].par = New,
                                             ![t].cidx = goes - left]
                            /\ rd' = [rd EXCEPT ![p] = {}, ![c] = {}, ![New] = {<<t, 1>>}]
        /\ cl' = [cl EXCEPT ![p] = NONE, ![c] = NONE]
        /\ wr' = [wr EXCEPT ![p] = NONE, ![c] = NONE]
        /\ UNCHANGED ghosts

-----------------------------------------------------------------------------
\* btree_insert: in the leaf

LeafClaim(t) ==
    LET c == th[t].child
    IN  /\ At(t, "leaf") /\ Fits(c, t)
        /\ IF cl[c] = NONE
             THEN /\ rd' = [rd EXCEPT ![th[t].par] = @ \ {<<t, 1>>}]
                  /\ ClaimAndFlag(t, c, c)
                  /\ Go(t, "leaf_lock")
             ELSE StartOver(t)
        /\ UNCHANGED <<node, nodes, ghosts>>

\* The insertion in place, also after a defragmentation.
LeafInsert(t) ==
    /\ At(t, "leaf_lock") /\ Alone(t, th[t].child)
    /\ node' = [node EXCEPT ![th[t].child] = Incorporate(@, th[t].key, th[t].old)]
    /\ ReleaseAll(t, {th[t].child})
    /\ Return(t)
    /\ UNCHANGED nodes

\* No room: the parent is claimed, then the leaf, which may have to be let
\* go and taken again while another thread has it.
ParentClaim(t) ==
    /\ At(t, "leaf") /\ ~Fits(th[t].child, t)
    /\ IF cl[th[t].par] = NONE
         THEN cl' = [cl EXCEPT ![th[t].par] = t] /\ Go(t, "claim") /\ UNCHANGED <<rd, wr>>
         ELSE StartOver(t)
    /\ UNCHANGED <<node, nodes, ghosts>>

ChildClaim(t) ==
    LET c == th[t].child
    IN  /\ At(t, "claim")
        /\ IF cl[c] = NONE
             THEN cl' = [cl EXCEPT ![c] = t] /\ Go(t, "plan") /\ UNCHANGED rd
             ELSE /\ rd' = [rd EXCEPT ![c] = @ \ {<<t, 1>>}]
                  /\ th' = [th EXCEPT ![t].pc = "reget", ![t].stale = TRUE]
                  /\ UNCHANGED cl
        /\ UNCHANGED <<node, nodes, wr, ghosts>>

ChildReget(t) ==
    /\ At(t, "reget") /\ Free(th[t].child)
    /\ Get(t, 1, th[t].child)
    /\ Go(t, "claim")
    /\ UNCHANGED <<node, nodes, cl, wr, ghosts>>

\* A mistake in SpecFor: the spec is not rebuilt after the leaf was let go.
SpecForKept(t) == th[t].old

SpecFor(t) == IF th[t].stale THEN OldOf(th[t].child, th[t].key) ELSE th[t].old

\* The leaf with the new entry, as the split distributes it.
After(t) == Incorporate(node[th[t].child], th[t].key, th[t].old)

\* Enough dead space: the parent is let go and the leaf is defragmented.
PlanDefragment(t) ==
    /\ At(t, "plan") /\ Has(th[t].child, th[t].key)
    /\ rd' = [rd EXCEPT ![th[t].par] = @ \ {<<t, 1>>}]
    /\ cl' = [cl EXCEPT ![th[t].par] = NONE]
    /\ wr' = [wr EXCEPT ![th[t].child] = t]
    /\ th' = [th EXCEPT ![t].pc = "leaf_lock", ![t].old = SpecFor(t)]
    /\ UNCHANGED <<node, nodes, ghosts>>

\* Where the leaf, the new entry counted, may be divided: by bytes, so that
\* neither side stays empty.
SplittingPlans(t) ==
    LET c == th[t].child
    IN  1 .. NumEntries(c) - (IF Has(c, th[t].key) THEN 1 ELSE 0)

\* The split is planned and a locked right node allocated.
PlanSplit(t) ==
    /\ At(t, "plan") /\ Alloc
    /\ wr' = [wr EXCEPT ![New] = t, ![th[t].par] = t]
    /\ \E cut \in SplittingPlans(t) :
         th' = [th EXCEPT ![t].pc = "parent_lock", ![t].old = SpecFor(t),
                          ![t].cut = cut, ![t].right = New,
                          ![t].next = node[th[t].child].next]
    /\ UNCHANGED <<node, rd, cl, ghosts>>

ParentLock(t) ==
    /\ At(t, "parent_lock") /\ Alone(t, th[t].par)
    /\ IF th[t].next = NONE
         THEN wr' = [wr EXCEPT ![th[t].child] = t] /\ Go(t, "child_lock")
         ELSE UNCHANGED wr /\ Go(t, "next_get")
    /\ UNCHANGED <<node, nodes, rd, cl, ghosts>>

NextGet(t) ==
    /\ At(t, "next_get") /\ Free(th[t].next)
    /\ Get(t, 1, th[t].next)
    /\ Go(t, "next_claim")
    /\ UNCHANGED <<node, nodes, cl, wr, ghosts>>

NextClaim(t) ==
    LET n == th[t].next
    IN  /\ At(t, "next_claim")
        /\ IF cl[n] = NONE
             THEN ClaimAndFlag(t, n, n) /\ Go(t, "next_lock") /\ UNCHANGED rd
             ELSE /\ rd' = [rd EXCEPT ![n] = @ \ {<<t, 1>>}]
                  /\ Go(t, "next_get") /\ UNCHANGED <<cl, wr>>
        /\ UNCHANGED <<node, nodes, ghosts>>

\* A mistake in NextGiveUp: the claim is tried for ever.
NextGiveUpNever(t) == FALSE /\ UNCHANGED vars

\* After a hundred attempts the split is given up.  (The new node is lost: no
\* thread has seen it, and its address is taken again here.)
NextGiveUp(t) ==
    /\ At(t, "next_claim") /\ cl[th[t].next] # NONE
    /\ StartOver(t)
    /\ nodes' = nodes \ {th[t].right}
    /\ UNCHANGED <<node, ghosts>>

NextLock(t) ==
    /\ At(t, "next_lock") /\ Alone(t, th[t].next)
    /\ wr' = [wr EXCEPT ![th[t].child] = t]
    /\ Go(t, "child_lock")
    /\ UNCHANGED <<node, nodes, rd, cl, ghosts>>

\* All locks are held: the right node is entered in the parent, which is
\* let go.
ChildLock(t) ==
    LET p == th[t].par
    IN  /\ At(t, "child_lock") /\ Alone(t, th[t].child)
        /\ node' = [node EXCEPT
              ![p].keys = InsertAt(@, th[t].cidx + 1, After(t).keys[th[t].cut + 1]),
              ![p].kids = InsertAt(@, th[t].cidx + 1, th[t].right)]
        /\ rd' = [rd EXCEPT ![p] = @ \ {<<t, 1>>}]
        /\ cl' = [cl EXCEPT ![p] = NONE]
        /\ wr' = [wr EXCEPT ![p] = NONE]
        /\ Go(t, IF th[t].next = NONE THEN "build" ELSE "link")
        /\ UNCHANGED <<nodes, ghosts>>

LinkNext(t) ==
    /\ At(t, "link")
    /\ node' = [node EXCEPT ![th[t].next].prev = th[t].right]
    /\ ReleaseAll(t, {th[t].next})
    /\ Go(t, "build")
    /\ UNCHANGED <<nodes, ghosts>>

BuildRight(t) ==
    LET a == After(t)
    IN  /\ At(t, "build")
        /\ node' = [node EXCEPT ![th[t].right] =
                [a EXCEPT !.keys = SubSeq(@, th[t].cut + 1, Len(@)),
                          !.kids = SubSeq(@, th[t].cut + 1, Len(@)),
                          !.prev = th[t].child]]
        /\ ReleaseAll(t, {th[t].right})
        /\ Go(t, "truncate")
        /\ UNCHANGED <<nodes, ghosts>>

TruncateLeft(t) ==
    LET a == After(t)
    IN  /\ At(t, "truncate")
        /\ node' = [node EXCEPT ![th[t].child] =
                [a EXCEPT !.keys = SubSeq(@, 1, th[t].cut),
                          !.kids = SubSeq(@, 1, th[t].cut),
                          !.next = th[t].right]]
        /\ ReleaseAll(t, {th[t].child})
        /\ Return(t)
        /\ UNCHANGED nodes

-----------------------------------------------------------------------------
\* btree_lookup

LookupBegin(t, k) ==
    /\ At(t, "idle") /\ th[t].reads < MaxReads /\ Inserted >= Before
    /\ th' = [th EXCEPT ![t].pc = "l_root", ![t].key = k,
                        ![t].floor = completed[k], ![t].reads = @ + 1]
    /\ UNCHANGED <<node, nodes, locks, ghosts>>

LookupRoot(t) ==
    /\ At(t, "l_root") /\ Free(ROOT)
    /\ Get(t, 1, ROOT)
    /\ th' = [th EXCEPT ![t].pc = "l_down", ![t].cur = ROOT]
    /\ UNCHANGED <<node, nodes, cl, wr, ghosts>>

\* Hand over hand: the child is locked, then the node is let go.
HandOver(t, i, n, c) ==
    /\ Free(c)
    /\ rd' = [rd EXCEPT ![c] = @ \cup {<<t, i>>}, ![n] = @ \ {<<t, i>>}]

LookupDown(t) ==
    LET c == ChildFor(th[t].cur, th[t].key)
    IN  /\ At(t, "l_down") /\ node[th[t].cur].height > 0
        /\ HandOver(t, 1, th[t].cur, c)
        /\ th' = [th EXCEPT ![t].cur = c]
        /\ UNCHANGED <<node, nodes, cl, wr, ghosts>>

LookupLeaf(t) ==
    /\ At(t, "l_down") /\ node[th[t].cur].height = 0
    /\ rd' = [rd EXCEPT ![th[t].cur] = @ \ {<<t, 1>>}]
    /\ th' = [th EXCEPT ![t].pc = "l_done", ![t].cur = NONE,
                        ![t].res = OldOf(th[t].cur, th[t].key)]
    /\ UNCHANGED <<node, nodes, cl, wr, ghosts>>

Forget(t) ==
    /\ th[t].pc \in {"l_done", "i_done"}
    /\ th' = [th EXCEPT ![t] = [Idle EXCEPT !.reads = th[t].reads]]
    /\ UNCHANGED <<node, nodes, locks, ghosts>>

-----------------------------------------------------------------------------
\* Iterators over [min, max), from start, towards larger or smaller keys

WalkMin(t) == th[t].walk[1]
WalkMax(t) == th[t].walk[2]
WalkStart(t) == th[t].walk[3]
WalkRule(t) == th[t].walk[4]
Forward(t) == th[t].walk[5] = "next"

\* btree_iterator_init; start lies between min and max.
IterBegin(t, w) ==
    /\ At(t, "idle") /\ th[t].reads < MaxReads /\ Inserted >= Before
    /\ th' = [th EXCEPT ![t].pc = "i_root", ![t].walk = w, ![t].reads = @ + 1,
                        ![t].must = {k \in Keys : completed[k] > 0}]
    /\ UNCHANGED <<node, nodes, locks, ghosts>>

IterRoot(t) ==
    /\ At(t, "i_root") /\ Free(ROOT)
    /\ Get(t, 1, ROOT)
    /\ th' = [th EXCEPT ![t].pc = "i_down", ![t].cur = ROOT]
    /\ UNCHANGED <<node, nodes, cl, wr, ghosts>>

IterDown(t) ==
    LET c == ChildFor(th[t].cur, WalkStart(t))
    IN  /\ At(t, "i_down") /\ node[th[t].cur].height > 0
        /\ HandOver(t, 1, th[t].cur, c)
        /\ th' = [th EXCEPT ![t].cur = c]
        /\ UNCHANGED <<node, nodes, cl, wr, ghosts>>

\* A mistake in IterClaim: the first leaf is only read while the end is looked up.
IterClaimNot(t) ==
    /\ At(t, "i_down") /\ node[th[t].cur].height = 0
    /\ th' = [th EXCEPT ![t].pc = "e_root", ![t].ret = "init"]
    /\ UNCHANGED <<node, nodes, locks, ghosts>>

\* The first leaf is claimed while the end is looked up.
IterClaim(t) ==
    LET c == th[t].cur
    IN  /\ At(t, "i_down") /\ node[c].height = 0
        /\ IF cl[c] = NONE
             THEN /\ cl' = [cl EXCEPT ![c] = t]
                  /\ th' = [th EXCEPT ![t].pc = "e_root", ![t].ret = "init"]
                  /\ UNCHANGED rd
             ELSE /\ rd' = [rd EXCEPT ![c] = @ \ {<<t, 1>>}]
                  /\ th' = [th EXCEPT ![t].pc = "i_root", ![t].cur = NONE]
                  /\ UNCHANGED cl
        /\ UNCHANGED <<node, nodes, wr, ghosts>>

\* btree_iterator_find_end
EndRoot(t) ==
    /\ At(t, "e_root") /\ Free(ROOT)
    /\ Get(t, 2, ROOT)
    /\ th' = [th EXCEPT ![t].pc = "e_down", ![t].child = ROOT]
    /\ UNCHANGED <<node, nodes, cl, wr, ghosts>>

EndDown(t) ==
    LET c == ChildFor(th[t].child, WalkMax(t))
    IN  /\ At(t, "e_down") /\ node[th[t].child].height > 0
        /\ HandOver(t, 2, th[t].child, c)
        /\ th' = [th EXCEPT ![t].child = c]
        /\ UNCHANGED <<node, nodes, cl, wr, ghosts>>

EndFound(t) ==
    LET e == th[t].child
    IN  /\ At(t, "e_down") /\ node[e].height = 0
        /\ rd' = [rd EXCEPT ![e] = @ \ {<<t, 2>>}]
        /\ th' = [th EXCEPT ![t].end = e, ![t].egen = node[e].generation,
                            ![t].eidx = Position(e, WalkMax(t), "ge"),
                            ![t].child = NONE,
                            ![t].pc = IF th[t].ret = "init" THEN "i_pos" ELSE "i_next_get"]
        /\ UNCHANGED <<node, nodes, cl, wr, ghosts>>

\* curr_min_idx in leaf n: -1 if the keys before it belong to the range too.
MinIdx(t, n) ==
    LET i == Position(n, WalkMin(t), "ge")
    IN  IF ~Has(n, WalkMin(t)) /\ i = 0 /\ node[n].prev # NONE THEN -1 ELSE i

\* The rest of find_btree_node_and_get_idx_bounds.
IterPosition(t) ==
    LET c == th[t].cur
        i == Position(c, WalkStart(t), WalkRule(t))
        m == MinIdx(t, c)
    IN  /\ At(t, "i_pos")
        /\ cl' = [cl EXCEPT ![c] = NONE]
        /\ th' = [th EXCEPT ![t].idx = i, ![t].cmin = m,
                 ![t].pc = IF c # th[t].end /\ i = NumEntries(c) THEN "i_next"
                           ELSE IF m = -1 /\ i = -1 THEN "i_prev" ELSE "i_ready"]
        /\ UNCHANGED <<node, nodes, rd, wr, ghosts>>

CanNext(t) ==
    th[t].cur # th[t].end
        \/ (th[t].idx < th[t].eidx /\ th[t].cmin # th[t].eidx)
CanPrev(t) ==
    th[t].idx >= th[t].cmin
        /\ (th[t].cmin # th[t].eidx \/ th[t].cur # th[t].end)

\* btree_iterator_next_leaf: the next leaf is taken after this one is let go.
NextLeaf(t) ==
    /\ At(t, "i_next")
    /\ rd' = [rd EXCEPT ![th[t].cur] = @ \ {<<t, 1>>}]
    /\ th' = [th EXCEPT ![t].pc = "i_next_get", ![t].cur = node[th[t].cur].next,
                        ![t].idx = 0,
                        ![t].cmin = IF th[t].ret = "init" THEN 0 ELSE -1]
    /\ UNCHANGED <<node, nodes, cl, wr, ghosts>>

\* The leaf at the end has changed since its position was looked up.
EndIsStale(t) ==
    th[t].cur = th[t].end /\ node[th[t].cur].generation # th[t].egen

NextLeafGet(t) ==
    /\ At(t, "i_next_get") /\ Free(th[t].cur)
    /\ IF EndIsStale(t)
         THEN th' = [th EXCEPT ![t].pc = "e_root", ![t].ret = "again"] /\ UNCHANGED rd
         ELSE Get(t, 1, th[t].cur) /\ th' = [th EXCEPT ![t].pc = "i_ready", ![t].ret = ""]
    /\ UNCHANGED <<node, nodes, cl, wr, ghosts>>

\* btree_iterator_prev_leaf; res keeps the leaf it comes from.
PrevLeaf(t) ==
    /\ At(t, "i_prev")
    /\ rd' = [rd EXCEPT ![th[t].cur] = @ \ {<<t, 1>>}]
    /\ th' = [th EXCEPT ![t].pc = "i_prev_get", ![t].cur = node[th[t].cur].prev,
                        ![t].res = th[t].cur]
    /\ UNCHANGED <<node, nodes, cl, wr, ghosts>>

\* The leaf before may have been split meanwhile: go right to the neighbour.
PrevLeafGet(t) ==
    LET c == th[t].cur
    IN  /\ At(t, "i_prev_get") /\ Free(c)
        /\ IF node[c].next # th[t].res
             THEN th' = [th EXCEPT ![t].cur = node[c].next] /\ UNCHANGED rd
             ELSE /\ Get(t, 1, c)
                  /\ th' = [th EXCEPT ![t].pc = "i_ready", ![t].res = 0,
                        ![t].idx = NumEntries(c) - 1, ![t].ret = "",
                        ![t].cmin = IF WalkMin(t) < node[c].keys[1]
                                    THEN (IF node[c].prev = NONE THEN 0 ELSE -1)
                                    ELSE Position(c, WalkMin(t), "ge")]
        /\ UNCHANGED <<node, nodes, cl, wr, ghosts>>

\* The caller's loop.  From a position that was found with "ge" or "gt" the
\* caller steps back before it looks at the first key.
Turns(t) == ~Forward(t) /\ WalkRule(t) \in {"ge", "gt"} /\ th[t].floor = 0

IterLoop(t) ==
    LET c == th[t].cur
        n == NumEntries(c)
        i == th[t].idx + IF Forward(t) THEN 1 ELSE -1
        more == IF Turns(t) THEN TRUE
                ELSE IF Forward(t) THEN CanNext(t) ELSE CanPrev(t)
        out == IF Turns(t) THEN th[t].out
               ELSE Append(th[t].out, node[c].keys[th[t].idx + 1])
    IN  /\ At(t, "i_ready")
        /\ IF ~more
             THEN /\ rd' = [rd EXCEPT ![c] = @ \ {<<t, 1>>}]
                  /\ th' = [th EXCEPT ![t].pc = "i_done", ![t].cur = NONE]
             ELSE /\ th' = [th EXCEPT ![t].idx = i, ![t].out = out, ![t].floor = 1,
                        ![t].ret = "",
                        ![t].pc = IF Forward(t) /\ i = n
                                        /\ (c # th[t].end \/ (i < th[t].eidx /\ th[t].cmin # th[t].eidx))
                                    THEN "i_next"
                                  ELSE IF ~Forward(t) /\ th[t].cmin = -1 /\ i = -1
                                    THEN "i_prev" ELSE "i_ready"]
                  /\ UNCHANGED rd
        /\ UNCHANGED <<node, nodes, cl, wr, ghosts>>

-----------------------------------------------------------------------------

InsertStep(t) ==
    \/ GetRoot(t) \/ RootDescend(t) \/ RootClaim(t) \/ RootInsert(t)
    \/ RootGrowLeaf(t) \/ \E late \in BOOLEAN : RootFix(t, late)
    \/ Descend(t) \/ IndexStep(t) \/ IndexClaimParent(t)
    \/ IndexClaim(t) \/ IndexLock(t) \/ IndexFix(t)
    \/ LeafClaim(t) \/ LeafInsert(t) \/ ParentClaim(t) \/ ChildClaim(t)
    \/ ChildReget(t) \/ PlanDefragment(t) \/ PlanSplit(t) \/ ParentLock(t)
    \/ NextGet(t) \/ NextClaim(t) \/ NextGiveUp(t) \/ NextLock(t) \/ ChildLock(t)
    \/ LinkNext(t) \/ BuildRight(t) \/ TruncateLeft(t)

\* btree_lookup_node_async takes the same steps and may be suspended between.
ReadStep(t) == LookupRoot(t) \/ LookupDown(t) \/ LookupLeaf(t) \/ Forget(t)

IterStep(t) ==
    \/ IterRoot(t) \/ IterDown(t) \/ IterClaim(t) \/ EndRoot(t) \/ EndDown(t)
    \/ EndFound(t) \/ IterPosition(t) \/ NextLeaf(t) \/ NextLeafGet(t)
    \/ PrevLeaf(t) \/ PrevLeafGet(t) \/ IterLoop(t) \/ Forget(t)

Next ==
    \/ \E t \in Inserters : \/ \E k \in Keys, b \in Grow : InsertBegin(t, k, b)
                            \/ InsertStep(t)
    \/ \E t \in Readers : ReadStep(t) \/ \E k \in Keys : LookupBegin(t, k)
    \/ \E t \in Iterators : IterStep(t) \/ \E w \in Walks : IterBegin(t, w)

Spec == Init /\ [][Next]_vars

-----------------------------------------------------------------------------

\* A lookup sees every update whose insertion had returned before it began,
\* merged once each, whatever splits it meets on its way down.
LookupSees ==
    \A t \in Readers : At(t, "l_done") =>
        /\ th[t].res >= th[t].floor
        /\ th[t].res <= started[th[t].key]

Ascending(s) == \A i, j \in DOMAIN s : i < j => s[i] < s[j]
Descending(s) == \A i, j \in DOMAIN s : i < j => s[i] > s[j]

\* The keys an iteration has to return, of those in K.
Wanted(t, K) ==
    {k \in K : /\ WalkMin(t) <= k /\ k < WalkMax(t)
               /\ IF Forward(t)
                    THEN IF WalkRule(t) = "ge" THEN k >= WalkStart(t) ELSE k > WalkStart(t)
                    ELSE IF WalkRule(t) \in {"le", "gt"} THEN k <= WalkStart(t)
                         ELSE k < WalkStart(t)}

\* An iteration returns every key of its range that was in the tree when it
\* began, none outside of its range, in order and only once, while the
\* leaves under it split and the leaf at its end changes.
IterationIsComplete ==
    \A t \in Iterators : At(t, "i_done") =>
        LET out == {th[t].out[i] : i \in DOMAIN th[t].out}
        IN  /\ IF Forward(t) THEN Ascending(th[t].out) ELSE Descending(th[t].out)
            /\ Wanted(t, th[t].must) \subseteq out
            /\ out \subseteq Wanted(t, {k \in Keys : started[k] > 0})

InCall(t) == th[t].pc \notin {"idle", "l_done", "i_done"}
AllReturned == \A t \in Threads : ~InCall(t)

\* Who has to let go before a thread at t's place goes on: whoever has the
\* flag of the node it wants to read, the readers of the node it locks, and, of
\* a leaf it let go to claim it later, whoever has the claim.  An attempt to
\* claim waits for nobody.
Writer(n) == {wr[n]} \ {NONE}
Claimer(n) == {cl[n]} \ {NONE}
OthersIn(t, n) == {r[1] : r \in rd[n]} \ {t}

WaitsFor(t) ==
    LET pc == th[t].pc
        down(n, k) == IF node[n].height = 0 THEN {} ELSE Writer(ChildFor(n, k))
    IN  CASE pc \in {"root", "l_root", "i_root", "e_root"} -> Writer(ROOT)
          [] pc = "descend" -> Writer(node[th[t].par].kids[th[t].cidx + 1])
          [] pc = "l_down" -> down(th[t].cur, th[t].key)
          [] pc = "i_down" -> down(th[t].cur, WalkStart(t))
          [] pc = "e_down" -> down(th[t].child, WalkMax(t))
          [] pc = "next_get" -> Writer(th[t].next)
          [] pc \in {"i_next_get", "i_prev_get"} -> Writer(th[t].cur)
          [] pc = "reget" -> Writer(th[t].child) \cup Claimer(th[t].child)
          [] pc = "root_lock" -> OthersIn(t, ROOT)
          [] pc \in {"index_lock", "parent_lock"} -> OthersIn(t, th[t].par)
          [] pc \in {"index_fix", "leaf_lock", "child_lock"} -> OthersIn(t, th[t].child)
          [] pc = "next_lock" -> OthersIn(t, th[t].next)
          [] OTHER -> {}

\* Inserters, lookups and iterators that go down from parents to children, from
\* leaves to their right and, for the end of a range, from a claimed leaf back
\* to the root, never wait for each other in a circle, nor for a call that has
\* returned without letting go.
NobodyIsStuck ==
    /\ \A t \in Threads : WaitsFor(t) \subseteq {u \in Threads : InCall(u)}
    /\ \A S \in SUBSET Threads : S # {} => \E t \in S : WaitsFor(t) \cap S = {}

\* A thread in a call goes on; a lock that is free again and again is obtained
\* (PageCache.LockGranted), and a claim is not tried more than a hundred times.
Fairness ==
    /\ \A t \in Inserters : SF_vars(InsertStep(t)) /\ SF_vars(NextGiveUp(t))
    /\ \A t \in Readers : SF_vars(ReadStep(t))
    /\ \A t \in Iterators : SF_vars(IterStep(t))

FairSpec == Spec /\ Fairness

\* Every call returns: insertions that start over because others have their
\* claims, and splits that give up, do not chase each other for ever.
CallsReturn == \A t \in Threads : InCall(t) ~> ~InCall(t)

\* Walks for a small instance: one that starts in the middle of its range and
\* goes backwards.
BackwardWalk == {<<1, 4, 2, "ge", "prev">>}
=============================================================================
