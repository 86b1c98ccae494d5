----------------------------- MODULE BTreePack -----------------------------
(* btree_pack: building a branch bottom up from an iterator (btree.c).  The *)
(* nodes of a height are filled one after the other; those of the extent    *)
(* that is being filled, the edge of that height, stay locked.  When the    *)
(* next node falls into another extent the edge is entered into the height  *)
(* above, which may fill an extent there in turn.  At the end what is left  *)
(* is linked, and the node on top copied into the root page.                *)
(*                                                                          *)
(* A step is a tuple.  The request is one record, and its functions map it  *)
(* to what it is afterwards.  Keys are 2, 4, ..., so that a lookup can fall *)
(* between; a node holds a number of entries.  Every height has a batch of  *)
(* the mini allocator, which holds the next extent of it in reserve.        *)
(* Abstracted: message bytes and key bytes, which are summed as num_kvs is, *)
(* and fingerprints.                                                        *)
EXTENDS Naturals, Sequences, FiniteSets, SequencesExt, TLC

CONSTANTS LeafCap, IndexCap,  \* entries of a leaf, of an index node
          PagesPerExtent,
          MaxTuples,          \* bound: tuples of the input
          InputClocks,        \* clocks of the pages that are read
          TP_CLOCK_MAX,
          None

Heights == 0 .. MaxTuples
Root == <<"root">>            \* the page that btree_create allocates

VARIABLES
    input,       \* number of tuples the iterator shows; its keys are 2, 4, ...
    max_tuples,  \* req->max_tuples
    req,         \* the btree_pack_req with the pages it allocates
    outcome      \* "new", "running", "ok", "limit" or "error"

vars == <<input, max_tuples, req, outcome>>

Larger(a, b) == IF a > b THEN a ELSE b
ShareExtent(a, b) == a[1] = b[1]
                       /\ a[2] \div PagesPerExtent = b[2] \div PagesPerExtent
NewNode(h) == [height |-> h, entries |-> <<>>, next |-> None, prev |-> None,
               next_extent |-> None]

-----------------------------------------------------------------------------
(* The request.                                                             *)

\* mini_init clears the mini allocator, its ci_le_ei included
\* (routing_filter_add sets the flag afterwards).
MiniInit(ci_le_ei) == FALSE

\* btree_pack_setup_start with btree_create, for a request whose inputs have
\* registered their clocks (only if ~ci_le_ei).
SetupStart(ci_le_ei, clock) ==
    [ci_le_ei |-> ci_le_ei, hot |-> MiniInit(ci_le_ei),
     height |-> 0, num_tuples |-> 0, root |-> Root,
     edge |-> [h \in Heights |-> <<>>],
     kvs |-> [h \in Heights |-> [i \in 1 .. PagesPerExtent |-> 0]],
     nodes |-> (Root :> NewNode(0)), clock |-> (Root :> 1),
     locked |-> {}, used |-> [h \in Heights |-> 0],
     extents |-> {<<h, 0>> : h \in Heights} \cup {Root},
     input_sum |-> clock, input_count |-> IF ci_le_ei THEN 0 ELSE 1,
     input_max |-> clock,
     level_count |-> [h \in Heights |-> 0], level_max |-> [h \in Heights |-> 0]]

CurrentNode(r, h) == Last(r.edge[h])

\* cache_set_page_clock saturates.
SetClock(r, addr, c) ==
    [r EXCEPT !.clock[addr] = IF c > TP_CLOCK_MAX THEN TP_CLOCK_MAX ELSE c]

\* The extents the meta pages of the mini allocator record: those with pages.
Recorded(r) == {e \in r.extents \ {Root} :
                  e[2] * PagesPerExtent < r.used[e[1]]}

\* mini_release: the extents in reserve are freed.
MiniRelease(r) == [r EXCEPT !.extents = Recorded(r) \cup {Root}]

\* mini_dec_ref of the only reference: what is recorded, then the meta pages.
MiniDecRef(r) == [r EXCEPT !.extents = @ \ (Recorded(r) \cup {Root})]

\* btree_alloc; mini_alloc begins the extent in reserve and gets another.
AllocNode(r, h, addr) ==
    [r EXCEPT !.used[h] = @ + 1,
              !.extents = IF r.used[h] % PagesPerExtent = 0
                          THEN @ \cup {<<h, r.used[h] \div PagesPerExtent + 1>>}
                          ELSE @,
              !.nodes = @ @@ (addr :> NewNode(h)),
              !.clock = @ @@ (addr :> IF r.hot THEN TP_CLOCK_MAX ELSE 1),
              !.locked = @ \cup {addr}]

\* What the level below has seen is used up by its parent.
TakeLevel(r, h) ==
    IF h > 0 /\ r.level_count[h - 1] > 0
    THEN [r EXCEPT !.level_count[h - 1] = 0, !.level_max[h - 1] = 0] ELSE r

\* Its clock counts for the level above; a leaf counts with its inputs.
CountLevel(r, h, c) ==
    [r EXCEPT !.level_count[h] = @ + 1,
              !.level_max[h] = Larger(@, IF h = 0 THEN Larger(r.input_max, c)
                                                  ELSE c),
              !.input_max = IF h = 0 THEN 0 ELSE @]

\* The clock of a new node: that of the pages it is made from, at least 1, if
\* the branch lives longer than a page stays in the cache.
InheritClock(r, h, addr) ==
    LET alloc_clock == r.clock[addr]
        inherited   == IF h = 0 THEN r.input_sum \div r.input_count
                       ELSE r.level_max[h - 1]
        final       == Larger(1, inherited)
    IN  CASE r.ci_le_ei -> CountLevel(TakeLevel(r, h), h, alloc_clock)
          [] ~r.ci_le_ei /\ r.input_count > 0 ->
               CountLevel(SetClock(TakeLevel(r, h), addr, final), h,
                          IF h = 0 THEN alloc_clock ELSE final)
          [] OTHER -> r

\* One clock for the pages of an extent: the average for leaves, else the max.
NormalizeExtent(r, h) ==
    LET edge   == r.edge[h]
        clocks == [i \in DOMAIN edge |-> r.clock[edge[i]]]
        common == IF h = 0 THEN FoldSeq(+, 0, clocks) \div Len(edge)
                           ELSE FoldSeq(Larger, 0, clocks)
    IN  IF r.ci_le_ei THEN r
        ELSE FoldSeq(LAMBDA addr, q : SetClock(q, addr, common), r, edge)

\* A mistake in ClearStats: the slot keeps the count of the node it had.
ClearStatsNot(r, h, i) == r

ClearStats(r, h, i) == [r EXCEPT !.kvs[h][i] = 0]

RECURSIVE CreateNextNode(_, _), LinkNode(_, _, _, _), LinkFrom(_, _, _, _)

\* btree_pack_link_node: enter the i-th node of the edge into the level above.
LinkNode(r, h, i, next_extent) ==
    LET addr  == r.edge[h][i]
        pivot == r.nodes[addr].entries[1].key
        kvs   == r.kvs[h][i]
        open  == [r EXCEPT !.nodes[addr].next_extent = next_extent,
                           !.locked = @ \ {addr}]
        full  == \/ open.edge[h + 1] = <<>>
                 \/ Len(r.nodes[CurrentNode(open, h + 1)].entries) = IndexCap
        above == IF full THEN CreateNextNode(open, h + 1) ELSE open
        slot  == Len(above.edge[h + 1])
        entry == [key |-> pivot, child |-> addr, kvs |-> kvs]
        done  == [above EXCEPT
                    !.nodes[CurrentNode(above, h + 1)].entries =
                       Append(@, entry),
                    !.kvs[h + 1][slot] = @ + kvs]
    IN  ClearStats(done, h, i)

LinkFrom(r, h, i, next_extent) ==
    IF i > Len(r.edge[h]) THEN [r EXCEPT !.edge[h] = <<>>]
    ELSE LinkFrom(LinkNode(r, h, i, next_extent), h, i + 1, next_extent)

\* btree_pack_link_extent
LinkExtent(r, h, next_extent) ==
    LinkFrom(NormalizeExtent(r, h), h, 1, next_extent)

\* btree_pack_create_next_node
CreateNextNode(r, h) ==
    LET addr  == <<h, r.used[h]>>
        fresh == InheritClock(AllocNode(r, h, addr), h, addr)
        old   == CurrentNode(r, h)
        tied  == [fresh EXCEPT !.nodes[old].next = addr,
                               !.nodes[addr].prev = old]
        ready == IF r.edge[h] = <<>> THEN fresh
                 ELSE IF ShareExtent(old, addr) THEN tied
                 ELSE LinkExtent(tied, h, addr)
    IN  [ready EXCEPT !.height = Larger(@, h),
                      !.edge[h] = Append(@, addr)]

\* btree_pack_loop
AddTuple(r, k) ==
    LET leaf == \/ r.edge[0] = <<>>
                \/ Len(r.nodes[CurrentNode(r, 0)].entries) = LeafCap
        q    == IF leaf THEN CreateNextNode(r, 0) ELSE r
    IN  [q EXCEPT !.nodes[CurrentNode(q, 0)].entries = Append(@, [key |-> k]),
                  !.kvs[0][Len(q.edge[0])] = @ + 1,
                  !.num_tuples = @ + 1]

RECURSIVE LinkUp(_, _)
LinkUp(r, h) ==
    IF h < r.height \/ Len(r.edge[h]) > 1
    THEN LinkUp(LinkExtent(r, h, None), h + 1) ELSE r

\* btree_pack_post_loop: an empty tree is given back, else the top is copied.
PostLoop(r) ==
    LET q   == LinkUp(r, 0)
        top == q.edge[q.height][1]
    IN  IF r.num_tuples = 0
        THEN [MiniDecRef(MiniRelease(r)) EXCEPT !.root = None]
        ELSE MiniRelease([q EXCEPT !.nodes[Root] = [q.nodes[top] EXCEPT
                                                      !.next_extent = None],
                                   !.locked = @ \ {top}])

\* btree_pack_abort unlocks the edges and drops the tree; req->root_addr and
\* the extents in reserve are left.
Aborted(r) ==
    MiniDecRef([r EXCEPT
       !.locked = @ \ UNION {Range(r.edge[h]) : h \in 0 .. r.height}])

-----------------------------------------------------------------------------
(* btree_pack.                                                              *)

Init == /\ input \in 0 .. MaxTuples
        /\ max_tuples \in {MaxTuples - 1, MaxTuples}
        /\ req = None
        /\ outcome = "new"

Start(ci_le_ei, clock) ==
    /\ outcome = "new"
    /\ req' = SetupStart(ci_le_ei, IF ci_le_ei THEN 0 ELSE clock)
    /\ outcome' = "running"
    /\ UNCHANGED <<input, max_tuples>>

CanNext == outcome = "running" /\ req.num_tuples < input

\* iterator_next may move to another page, whose clock replaces that of the
\* one it leaves (btree_iterator_next_leaf).
NextInput(r, clock) ==
    IF r.ci_le_ei THEN r
    ELSE [r EXCEPT !.input_sum = clock, !.input_max = Larger(@, clock)]

PackTuple(clock) ==
    /\ CanNext
    /\ req.num_tuples < max_tuples
    /\ req' = NextInput(AddTuple(req, 2 * (req.num_tuples + 1)), clock)
    /\ UNCHANGED <<input, max_tuples, outcome>>

LimitExceeded ==
    /\ CanNext
    /\ req.num_tuples >= max_tuples
    /\ req' = Aborted(req)
    /\ outcome' = "limit"
    /\ UNCHANGED <<input, max_tuples>>

\* A tuple of no valid type, before it is added, or iterator_next that fails.
InputError(added) ==
    /\ CanNext
    /\ req.num_tuples < max_tuples
    /\ req' = Aborted(IF added THEN AddTuple(req, 2 * (req.num_tuples + 1))
                               ELSE req)
    /\ outcome' = "error"
    /\ UNCHANGED <<input, max_tuples>>

Finish ==
    /\ outcome = "running"
    /\ req.num_tuples = input
    /\ req' = PostLoop(req)
    /\ outcome' = "ok"
    /\ UNCHANGED <<input, max_tuples>>

Next == \/ \E c \in InputClocks : \/ PackTuple(c)
                                  \/ \E ci \in BOOLEAN : Start(ci, c)
        \/ LimitExceeded \/ Finish
        \/ \E added \in BOOLEAN : InputError(added)

Spec == Init /\ [][Next]_vars

-----------------------------------------------------------------------------
(* What a reader of the finished tree finds.                                *)

Entries(addr) == req.nodes[addr].entries

RECURSIVE Below(_), Search(_, _)

\* The keys beneath a node, from left to right.
Below(addr) ==
    IF req.nodes[addr].height = 0
    THEN [i \in DOMAIN Entries(addr) |-> Entries(addr)[i].key]
    ELSE FlattenSeq([i \in DOMAIN Entries(addr) |->
                       Below(Entries(addr)[i].child)])

\* Whether a lookup finds a key: by the last pivot that is not larger.
Search(addr, k) ==
    LET es  == Entries(addr)
        lower == {i \in DOMAIN es : es[i].key <= k}
        pos == IF lower = {} THEN 1 ELSE CHOOSE i \in lower :
                                           \A j \in lower : j <= i
    IN  IF req.nodes[addr].height = 0 THEN es[pos].key = k
        ELSE Search(es[pos].child, k)

RECURSIVE Reach(_)
Reach(addr) == IF req.nodes[addr].height = 0 THEN {addr}
               ELSE {addr} \cup UNION {Reach(e.child) : e \in Range(Entries(addr))}
Tree == Reach(Root) \ {Root}

(* A branch is its input, however the extents and heights fall: its leaves  *)
(* hold the tuples in order, a lookup finds a key if and only if it was in  *)
(* the input, every pivot is the first key beneath it and comes with the    *)
(* number of tuples beneath it, siblings are chained in both directions and *)
(* know the next extent, and the pages of an extent have one clock.         *)
(* The extents it keeps are those of its pages, of an empty branch none.    *)
(* However the pack ends, it holds no lock.                                 *)
PackIsExact ==
    /\ outcome \notin {"new", "running"} => req.locked = {}
    /\ outcome = "ok" => (req.root = None <=> input = 0)
    /\ outcome = "ok" =>
         req.extents = UNION {{Root, <<addr[1], addr[2] \div PagesPerExtent>>} :
                                addr \in DOMAIN req.nodes \ {Root}}
    /\ outcome = "ok" /\ input > 0 =>
         /\ Below(Root) = [i \in 1 .. input |-> 2 * i]
         /\ \A k \in 1 .. 2 * MaxTuples + 1 :
              Search(Root, k) <=> k % 2 = 0 /\ k <= 2 * input
         /\ \A addr \in Reach(Root) : req.nodes[addr].height > 0 =>
              \A e \in Range(Entries(addr)) : /\ e.key = Below(e.child)[1]
                                              /\ e.kvs = Len(Below(e.child))
         /\ \A a, b \in Tree :
              /\ a[1] = b[1] /\ b[2] = a[2] + 1 =>
                   /\ req.nodes[a].next = b /\ req.nodes[b].prev = a
                   /\ ~ShareExtent(a, b) => req.nodes[a].next_extent = b
              /\ ShareExtent(a, b) =>
                   /\ req.nodes[a].next_extent = req.nodes[b].next_extent
                   /\ ~req.ci_le_ei => req.clock[a] = req.clock[b]

(* Allocations are matched by deallocations: a pack that ends without a     *)
(* branch, because its input was empty or because it failed, leaves no      *)
(* extent allocated.  rc_allocator.c:753-770 asserts it for the whole disk, *)
(* and the tests call it after the last branch is gone.                     *)
NoExtentLeft ==
    outcome \in {"limit", "error"} \/ (outcome = "ok" /\ input = 0) =>
        req.extents = {}

(* A branch that will be compacted again before the cache would evict it is *)
(* kept in the cache until then: its pages start with the highest clock.    *)
(* btree.c:3215 and btree.c:3342 rely on the flag of the mini allocator.    *)
CompactionOutputIsHot ==
    outcome = "ok" /\ input > 0 /\ req.ci_le_ei =>
        \A addr \in Tree : req.clock[addr] = TP_CLOCK_MAX
=============================================================================
