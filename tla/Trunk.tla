------------------------------- MODULE Trunk -------------------------------
(***************************************************************************)
(* The trunk (trunk.c): a copy-on-write tree of nodes over branches.  A    *)
(* memtable's branch arrives at the root as an inflight bundle, is flushed *)
(* towards the leaves, and is merged in the background, per pivot, into    *)
(* the pivot's own bundle.  Nodes are never changed once written, so a     *)
(* tree is a value here: `root' holds the whole tree in its on-disk form.  *)
(* The references that keep written nodes alive are in TrunkRefs.          *)
(*                                                                         *)
(* A branch is its key -> message map with an identity that stands for its *)
(* address; a maplet is the set of <<index, branch id>> pairs it was built *)
(* from.  Tuple counts and sizes, which only decide when to flush and how  *)
(* to split, are choices.                                                  *)
(***************************************************************************)
EXTENDS Integers, Sequences, FiniteSets, SequencesExt

CONSTANTS NumKeys,      \* the keys are 1 .. NumKeys
          Batches,      \* bound: what each incorporated branch may hold, in order of
                        \* incorporation: a sequence of sets of functions Keys -> kinds
          target_fanout,
          TaskThreads   \* threads that run compaction tasks

VARIABLES root,     \* the current tree, on-disk form
          log,      \* ghost: what every incorporated branch held, in order
          states,   \* trunk_pivot_state objects by identity
          mod,      \* the modification holding the claim: idle, or an incorporation's stage
          asserted  \* ghost: the platform_asserts that failed

vars == <<root, log, states, mod, asserted>>

-----------------------------------------------------------------------------
Keys == 1 .. NumKeys
NegInf == 1             \* no key is below key 1
PosInf == NumKeys + 1

\* A message: definitive or not, with the updates it carries, newest first.
NoMsg == [def |-> FALSE, gens |-> << >>]
Msg(kind, g) == CASE kind = "put" -> [def |-> TRUE, gens |-> <<g>>]
                  [] kind = "del" -> [def |-> TRUE, gens |-> << >>]
                  [] kind = "upd" -> [def |-> FALSE, gens |-> <<g>>]
                  [] OTHER -> NoMsg

\* merge_tuples: a newer message absorbs the older one.
Merge(new, old) == IF new.def THEN new
                   ELSE [def |-> old.def, gens |-> new.gens \o old.gens]

\* merge_tuples_final: nothing older exists; a deletion disappears.
Final(m) == IF m.gens = << >> THEN NoMsg ELSE [def |-> TRUE, gens |-> m.gens]

\* Oldest first in the sequence; the newest message wins.
MergeAll(msgs) == FoldLeft(LAMBDA acc, m : Merge(m, acc), NoMsg, msgs)

-----------------------------------------------------------------------------
(* Bundles and nodes in memory. *)

\* Bundles hold branches oldest first; the empty maplet is NULL_ROUTING_FILTER.
EmptyBundle == [maplet |-> {}, branches |-> << >>]
SingleBundle(b) == [maplet |-> {}, branches |-> <<b>>]
BundleAddBranches(bndl, maplet, bs) == [maplet |-> maplet, branches |-> bndl.branches \o bs]

EmptyLeaf(lo, hi) ==
  [height |-> 0, keys |-> <<lo, hi>>, child |-> << >>, ifs |-> <<0>>,
   pb |-> <<EmptyBundle>>, inflight |-> << >>, old |-> 0]

NumChildren(node) == Len(node.pb)
IsLeaf(node) == node.height = 0
Inflight(node, i) == SubSeq(node.inflight, node.ifs[i] + 1, Len(node.inflight))
HasReceived(node, i) == node.ifs[i] <= node.old /\ node.old < Len(node.inflight)
FirstLive(node) == CHOOSE n \in Range(node.ifs) : \A m \in Range(node.ifs) : n <= m

WellFormed(node) ==
  /\ Len(node.keys) = NumChildren(node) + 1 /\ NumChildren(node) >= 1
  /\ node.old <= Len(node.inflight)
  /\ IsLeaf(node) => NumChildren(node) = 1
  /\ \A i \in 1 .. NumChildren(node) :
       /\ node.keys[i] < node.keys[i + 1]
       /\ node.ifs[i] <= Len(node.inflight)
       /\ ~IsLeaf(node) => node.child[i].height = node.height - 1

-----------------------------------------------------------------------------
(* The on-disk form: inflight bundles newest first, only the live ones, and *)
(* for every pivot the number of them that are its own.                     *)

Serialize(node) ==
  LET first == FirstLive(node) IN
  [height |-> node.height, keys |-> node.keys, child |-> node.child, pb |-> node.pb,
   live |-> [i \in 1 .. NumChildren(node) |-> Len(node.inflight) - node.ifs[i]],
   bundles |-> Reverse(SubSeq(node.inflight, first + 1, Len(node.inflight)))]

Deserialize(disk) ==
  [height |-> disk.height, keys |-> disk.keys, child |-> disk.child, pb |-> disk.pb,
   ifs |-> [i \in 1 .. Len(disk.pb) |-> Len(disk.bundles) - disk.live[i]],
   inflight |-> Reverse(disk.bundles), old |-> Len(disk.bundles)]

-----------------------------------------------------------------------------
(* Lookup. *)

\* The branches a bundle's lookup reads, newest first: without a maplet the
\* only branch, otherwise those the maplet names for the key.
Found(bndl, k) ==
  IF bndl.maplet = {} THEN DOMAIN bndl.branches
  ELSE {i \in DOMAIN bndl.branches :
          \E p \in bndl.maplet : p.idx = i - 1 /\ k \in p.keys}

BundleLookup(bndl, k, acc) ==
  LET Step(a, i) == IF a.def \/ i \notin Found(bndl, k) THEN a
                    ELSE Merge(a, bndl.branches[i].kv[k])
  IN FoldRightDomain(LAMBDA i, a : Step(a, i), bndl.branches, acc)

FindPivot(disk, k) ==
  CHOOSE i \in 1 .. Len(disk.pb) : disk.keys[i] <= k /\ k < disk.keys[i + 1]

RECURSIVE MergeLookup(_, _, _)
MergeLookup(disk, k, acc) ==
  LET i == FindPivot(disk, k)
      afterInflight == FoldLeft(LAMBDA a, b : IF a.def THEN a ELSE BundleLookup(b, k, a),
                                acc, SubSeq(disk.bundles, 1, disk.live[i]))
      afterPivot == IF afterInflight.def THEN afterInflight
                    ELSE BundleLookup(disk.pb[i], k, afterInflight)
  IN IF afterPivot.def \/ disk.height = 0 THEN afterPivot
     ELSE MergeLookup(disk.child[i], k, afterPivot)

\* The value a lookup of k returns.
Value(disk, k) == Final(MergeLookup(disk, k, NoMsg)).gens

-----------------------------------------------------------------------------
(* Pivot states: the compactions under way for one pivot. *)

InMap(key, height) == {s \in DOMAIN states : states[s].inMap /\ s[1] = key /\ s[2] = height}
NumCompactions(key, height) ==
  IF InMap(key, height) = {} THEN 0
  ELSE Len(states[CHOOSE s \in InMap(key, height) : TRUE].comps)
TotalBundles(st) == FoldLeft(LAMBDA n, bc : n + bc.nb, 0, st.comps)

EventualNumBranches(node, i) ==
  Len(node.pb[i].branches) + NumCompactions(node.keys[i], node.height)
    + (IF HasReceived(node, i) THEN 1 ELSE 0)

-----------------------------------------------------------------------------
(* Flushing.  Each operator returns the set of outcomes it may have: the    *)
(* nodes written, the nodes whose pivots are to be compacted once the new   *)
(* root is in place, and the pivots whose compactions are abandoned.        *)

Outcome(nodes, tasks, abandon) == [nodes |-> nodes, tasks |-> tasks, abandon |-> abandon]

ReceiveBundles(node, routed, recv) ==
  [node EXCEPT !.inflight = @ \o (IF routed.branches = << >> THEN << >> ELSE <<routed>>) \o recv]

\* A part of a leaf receives all that was live in it.
LeafPart(leaf, min, max) ==
  ReceiveBundles(EmptyLeaf(min, max), leaf.pb[1], Inflight(leaf, 1))

\* The keys a leaf may be cut at: byte counts and estimates choose among them.
SplitPivots(leaf) == SUBSET {k \in Keys : leaf.keys[1] < k /\ k < leaf.keys[2]}

\* A leaf cut at the keys in C.
LeafSplit(leaf, C) ==
  LET bounds == <<leaf.keys[1]>> \o SetToSortSeq(C, <) \o <<leaf.keys[2]>>
  IN [j \in 1 .. Len(bounds) - 1 |-> LeafPart(leaf, bounds[j], bounds[j + 1])]

SerializeAll(nodes) == [j \in DOMAIN nodes |-> Serialize(nodes[j])]

RestoreBalanceLeaf(leaf) ==
  LET kept  == IF EventualNumBranches(leaf, 1) <= target_fanout THEN {<<leaf>>} ELSE {}
      ways  == IF kept = {} THEN SplitPivots(leaf) ELSE SplitPivots(leaf) \ {{}}
  IN {Outcome(SerializeAll(n), n, {}) : n \in kept}
       \cup {LET n == LeafSplit(leaf, C)
             IN Outcome(SerializeAll(n), n, {<<leaf.keys[1], 0>>}) : C \in ways}

IndexSplit(index) ==
  LET n == NumChildren(index)
      parts == (n + target_fanout - 1) \div target_fanout
      First(i) == (i * n) \div parts
  IN [p \in 1 .. parts |->
        LET lo == First(p - 1) + 1
            hi == First(p)
        IN [index EXCEPT !.keys = SubSeq(@, lo, hi + 1), !.child = SubSeq(@, lo, hi),
                         !.ifs = SubSeq(@, lo, hi), !.pb = SubSeq(@, lo, hi)]]

\* The index after its children were dealt with: how[i] is << >> for a child
\* left alone and the nodes that replace it for a child that was flushed to.
ReplaceChildren(index, how) ==
  LET n == NumChildren(index)
      Per(f(_), g(_)) == FlattenSeq([i \in 1 .. n |-> IF how[i] = << >> THEN <<f(i)>> ELSE g(i)])
      Each(i, v) == [j \in DOMAIN how[i] |-> v]
  IN [index EXCEPT
        !.keys = Append(Per(LAMBDA i : index.keys[i],
                            LAMBDA i : [j \in DOMAIN how[i] |-> how[i][j].keys[1]]),
                        index.keys[n + 1]),
        !.child = Per(LAMBDA i : index.child[i], LAMBDA i : how[i]),
        !.ifs = Per(LAMBDA i : index.ifs[i], LAMBDA i : Each(i, Len(index.inflight))),
        !.pb = Per(LAMBDA i : index.pb[i], LAMBDA i : Each(i, EmptyBundle))]

RECURSIVE FlushThenCompact(_, _, _)

\* Children with too many branches are flushed to; any other may be, when it
\* holds too many tuples or is the fullest.
RestoreBalanceIndex(index) ==
  LET n == NumChildren(index)
      Kept == Outcome(<< >>, << >>, {})
      Flushed(i) == {[o EXCEPT !.abandon = @ \cup {<<index.keys[i], index.height>>}] :
                       o \in FlushThenCompact(Deserialize(index.child[i]), index.pb[i],
                                              Inflight(index, i))}
      Ways(i) == IF EventualNumBranches(index, i) > target_fanout THEN Flushed(i)
                 ELSE {Kept} \cup Flushed(i)
      ways == [i \in 1 .. n |-> Ways(i)]
  IN {LET parts == IndexSplit(ReplaceChildren(index, [i \in 1 .. n |-> c[i].nodes]))
      IN Outcome(SerializeAll(parts),
                 FlattenSeq([i \in 1 .. n |-> c[i].tasks]) \o parts,
                 UNION {c[i].abandon : i \in 1 .. n}) :
      c \in {f \in [1 .. n -> UNION Range(ways)] : \A i \in 1 .. n : f[i] \in ways[i]}}

FlushThenCompact(node, routed, recv) ==
  LET received == ReceiveBundles(node, routed, recv)
  IN IF IsLeaf(node) THEN RestoreBalanceLeaf(received) ELSE RestoreBalanceIndex(received)

RECURSIVE BuildNewRoots(_)
BuildNewRoots(nodes) ==
  LET n == Len(nodes)
      newRoot == [height |-> nodes[1].height + 1,
                  keys |-> Append([i \in 1 .. n |-> nodes[i].keys[1]], PosInf),
                  child |-> nodes, ifs |-> [i \in 1 .. n |-> 0],
                  pb |-> [i \in 1 .. n |-> EmptyBundle], inflight |-> << >>, old |-> 0]
  IN IF n = 1 THEN nodes[1] ELSE BuildNewRoots(SerializeAll(IndexSplit(newRoot)))

-----------------------------------------------------------------------------
(* Incorporation of a memtable's branch: prepare, commit and cleanup run in  *)
(* one thread, which keeps the claim on the root lock from the first to the  *)
(* last.                                                                     *)

MemtableBranch(batch, g) ==
  [id |-> [lo |-> NegInf, hi |-> PosInf, h |-> -1, gens |-> {g}],
   kv |-> [k \in Keys |-> Msg(batch[k], g)]]

Idle == [stage |-> "idle"]
Running == asserted = {}

\* trunk_pivot_state_map_abandon_entry: an entry leaves the map at once; the
\* tasks that hold it find the flag.
Abandon(ab, sts) ==
  [s \in DOMAIN sts |-> IF sts[s].inMap /\ <<s[1], s[2]>> \in ab
                        THEN [sts[s] EXCEPT !.abandoned = TRUE, !.inMap = FALSE]
                        ELSE sts[s]]

IncorporatePrepare ==
  /\ Running /\ mod = Idle /\ Len(log) < Len(Batches)
  /\ LET g == Len(log) + 1
     IN \E batch \in Batches[g] : \E o \in FlushThenCompact(Deserialize(root), EmptyBundle,
                             <<SingleBundle(MemtableBranch(batch, g))>>) :
          /\ mod' = [stage |-> "prepared", new |-> BuildNewRoots(o.nodes), tasks |-> o.tasks,
                     batch |-> batch]
          /\ states' = Abandon(o.abandon, states)
  /\ UNCHANGED <<root, log, asserted>>

IncorporateCommit ==
  /\ Running /\ mod.stage = "prepared"
  /\ root' = mod.new
  /\ log' = Append(log, mod.batch)
  /\ mod' = [stage |-> "committed", tasks |-> mod.tasks]
  /\ UNCHANGED <<states, asserted>>

\* bundle_compaction_create: the compaction takes the bundles that no earlier
\* compaction of the pivot has taken.  Only a leaf whose pivot bundle is
\* empty and has no compaction before it may drop what is deleted.
NewCompaction(node, i, st) ==
  [inputs |-> FlattenSeq([j \in 1 .. Len(node.inflight) - node.ifs[i] - TotalBundles(st) |->
                            node.inflight[node.ifs[i] + TotalBundles(st) + j].branches]),
   nb |-> Len(node.inflight) - node.ifs[i] - TotalBundles(st),
   full |-> IsLeaf(node) /\ st.comps = << >> /\ node.pb[i].branches = << >>,
   st |-> "new", out |-> << >>]

FreshState(node, i) ==
  [ub |-> node.keys[i + 1], maplet |-> node.pb[i].maplet, nbr |-> Len(node.pb[i].branches),
   comps |-> << >>, ending |-> {}, refs |-> 0, btasks |-> 0, mt |-> -1, initiated |-> FALSE,
   abandoned |-> FALSE, failed |-> FALSE, inMap |-> TRUE]

\* One pivot of a node that was written: the state is found or made, given one
\* more compaction and one more task, which holds a reference.
Enqueue(sts, node, i) ==
  LET mine == {s \in DOMAIN sts : sts[s].inMap /\ s[1] = node.keys[i] /\ s[2] = node.height}
      id   == IF mine = {} THEN <<node.keys[i], node.height, Len(log)>> ELSE CHOOSE s \in mine : TRUE
      st   == IF mine = {} THEN FreshState(node, i) ELSE sts[id]
      st1  == [st EXCEPT !.comps = Append(@, NewCompaction(node, i, st)),
                         !.refs = @ + 1, !.btasks = @ + 1]
  IN [s \in DOMAIN sts \cup {id} |-> IF s = id THEN st1 ELSE sts[s]]

ReceivedPivots(tasks) ==
  FlattenSeq([t \in DOMAIN tasks |->
    SelectSeq([i \in 1 .. NumChildren(tasks[t]) |-> [node |-> tasks[t], i |-> i]],
              LAMBDA p : HasReceived(p.node, p.i))])

\* The assertion of bundle_compaction_create for one pivot.
TakesNewBundles(sts, node, i) ==
  LET mine == {s \in DOMAIN sts : sts[s].inMap /\ s[1] = node.keys[i] /\ s[2] = node.height}
  IN node.old = node.ifs[i] + (IF mine = {} THEN 0
                               ELSE TotalBundles(sts[CHOOSE s \in mine : TRUE]))

IncorporateCleanup ==
  /\ Running /\ mod.stage = "committed"
  /\ LET todo == ReceivedPivots(mod.tasks)
     IN IF \A t \in DOMAIN todo : TakesNewBundles(states, todo[t].node, todo[t].i)
        THEN /\ states' = FoldLeft(LAMBDA sts, p : Enqueue(sts, p.node, p.i), states, todo)
             /\ UNCHANGED asserted
        ELSE /\ asserted' = {"first_new_bundle == node->num_old_bundles"}
             /\ UNCHANGED states
  /\ mod' = Idle
  /\ UNCHANGED <<root, log>>

-----------------------------------------------------------------------------
(* Bundle compaction tasks. *)

\* trunk_pivot_state_map_release_entry: the last reference destroys the state.
Put(s, st) ==
  states' = [t \in (IF st.refs = 0 THEN DOMAIN states \ {s} ELSE DOMAIN states) |->
               IF t = s THEN st ELSE states[t]]
Release(s, st) == Put(s, [st EXCEPT !.refs = @ - 1])

\* enqueue_maplet_compaction
EnqueueMaplet(st) ==
  IF st.initiated THEN st
  ELSE [st EXCEPT !.initiated = TRUE, !.mt = 0, !.refs = @ + 1]

\* Tasks being run: each occupies a thread of the task system.
RunningTasks == {<<s, i>> \in UNION {{s} \X (0 .. Len(states[s].comps)) : s \in DOMAIN states} :
                   IF i = 0 THEN states[s].mt > 0
                   ELSE states[s].comps[i].st \in {"picked", "packing"}}
EndingTasks == UNION {{s} \X states[s].ending : s \in DOMAIN states}
ThreadFree == Cardinality(RunningTasks) + Cardinality(EndingTasks) < TaskThreads

BundleStart(s) ==
  /\ Running /\ ThreadFree /\ states[s].btasks > 0
  /\ LET st == [states[s] EXCEPT !.btasks = @ - 1]
         todo == {i \in DOMAIN st.comps : st.comps[i].st = "new"}
     IN IF st.abandoned THEN Release(s, st) /\ UNCHANGED asserted
        ELSE IF todo = {} THEN asserted' = {"bc != NULL"} /\ UNCHANGED states
        ELSE /\ Put(s, [st EXCEPT !.comps[CHOOSE i \in todo : \A j \in todo : i <= j].st = "picked"])
             /\ UNCHANGED asserted
  /\ UNCHANGED <<root, log, mod>>

\* Nothing is packed for a pivot whose maplet could not be applied.
BundleCheck(s, i) ==
  /\ Running /\ states[s].comps[i].st = "picked"
  /\ IF states[s].failed
     THEN Release(s, [states[s] EXCEPT !.comps[i].st = "failed"])
     ELSE Put(s, [states[s] EXCEPT !.comps[i].st = "packing"])
  /\ UNCHANGED <<root, log, mod, asserted>>

\* The merge of the inputs over the pivot's range; an empty result is no branch.
Pack(s, st, bc) ==
  LET M(k) == MergeAll([j \in DOMAIN bc.inputs |-> bc.inputs[j].kv[k]])
      kv == [k \in Keys |-> IF s[1] <= k /\ k < st.ub
                            THEN (IF bc.full THEN Final(M(k)) ELSE M(k)) ELSE NoMsg]
  IN IF \A k \in Keys : kv[k] = NoMsg THEN << >>
     ELSE <<[id |-> [lo |-> s[1], hi |-> st.ub, h |-> s[2],
                     gens |-> UNION {bc.inputs[j].id.gens : j \in DOMAIN bc.inputs}],
             kv |-> kv]>>

\* The result is entered before the lock of the list is taken.  From here on
\* the task is known by the place of its compaction in the list: a maplet task
\* may take the compaction off before this task has the lock.
BundleStore(s, i) ==
  /\ Running /\ states[s].comps[i].st = "packing"
  /\ Put(s, [states[s] EXCEPT !.comps[i].st = "ok",
                              !.comps[i].out = Pack(s, states[s], states[s].comps[i]),
                              !.ending = @ \cup {i}])
  /\ UNCHANGED <<root, log, mod, asserted>>

\* A mistake in BundleFinish: every compaction that ends asks for the maplet's.
BundleFinishAny(s, i) ==
  /\ Running /\ i \in states[s].ending
  /\ Release(s, EnqueueMaplet([states[s] EXCEPT !.ending = @ \ {i}]))
  /\ UNCHANGED <<root, log, mod, asserted>>

\* Under the lock: the compaction at the head of the list asks for the maplet's.
BundleFinish(s, i) ==
  /\ Running /\ i \in states[s].ending
  /\ LET st == [states[s] EXCEPT !.ending = @ \ {i}]
     IN Release(s, IF i = 1 THEN EnqueueMaplet(st) ELSE st)
  /\ UNCHANGED <<root, log, mod, asserted>>

-----------------------------------------------------------------------------
(* Maplet compaction tasks: put the results of finished compactions, oldest  *)
(* first, into the pivot's bundle.                                           *)

Prefix(st) == CHOOSE n \in 0 .. Len(st.comps) :
                /\ \A i \in 1 .. n : st.comps[i].st = "ok"
                /\ n < Len(st.comps) => st.comps[n + 1].st # "ok"

MapletStart(s) ==
  /\ Running /\ ThreadFree /\ states[s].mt = 0
  /\ LET st == states[s]
     IN IF st.abandoned
        THEN Release(s, [st EXCEPT !.failed = TRUE, !.mt = -1]) /\ UNCHANGED asserted
        ELSE IF Prefix(st) = 0 THEN asserted' = {"last != NULL"} /\ UNCHANGED states
        ELSE Put(s, [st EXCEPT !.mt = Prefix(st)]) /\ UNCHANGED asserted
  /\ UNCHANGED <<root, log, mod>>

\* What the task applies: the outputs of the first n compactions.
Outputs(st, n) == FlattenSeq([i \in 1 .. n |-> st.comps[i].out])
InputBundles(st, n) == FoldLeft(LAMBDA m, bc : m + bc.nb, 0, SubSeq(st.comps, 1, n))
MapletEntry(b, idx) == [idx |-> idx, id |-> b.id, keys |-> {k \in Keys : b.kv[k] # NoMsg}]
NewMaplet(st, n) ==
  st.maplet \cup {MapletEntry(Outputs(st, n)[j], st.nbr + j - 1) : j \in DOMAIN Outputs(st, n)}

\* A mistake in Matches: only the pivot's keys are compared.
MatchesKeys(s, st, n, node, i) ==
  /\ node.ifs[i] + InputBundles(st, n) <= Len(node.inflight)
  /\ node.keys[i] = s[1] /\ node.keys[i + 1] = st.ub

\* pivot_matches_compaction
Matches(s, st, n, node, i) ==
  /\ node.ifs[i] + InputBundles(st, n) <= Len(node.inflight)
  /\ node.keys[i] = s[1] /\ node.keys[i + 1] = st.ub
  /\ node.pb[i].maplet = st.maplet
  /\ node.inflight[node.ifs[i] + 1].branches[1].id = st.comps[1].inputs[1].id

\* trunk_apply_changes with trunk_apply_changes_maplet_compaction
RECURSIVE ApplyChanges(_, _, _, _)
ApplyChanges(disk, s, st, n) ==
  LET node == Deserialize(disk)
      hits == {i \in 1 .. NumChildren(node) : Matches(s, st, n, node, i)}
      i == CHOOSE x \in hits : \A y \in hits : x <= y
      below == {c \in 1 .. NumChildren(node) : node.keys[c] < st.ub /\ s[1] < node.keys[c + 1]}
      sub == [c \in below |-> ApplyChanges(node.child[c], s, st, n)]
  IN IF node.height = s[2]
     THEN IF hits = {} THEN [disk |-> Serialize(node), found |-> FALSE]
          ELSE [disk |-> Serialize([node EXCEPT
                            !.pb[i] = BundleAddBranches(@, NewMaplet(st, n), Outputs(st, n)),
                            !.ifs[i] = @ + InputBundles(st, n)]),
                found |-> TRUE]
     ELSE [disk |-> Serialize([node EXCEPT !.child = [c \in DOMAIN @ |->
                                 IF c \in below THEN sub[c].disk ELSE @[c]]]),
           found |-> \E c \in below : sub[c].found]

MapletApply(s) ==
  /\ Running /\ mod = Idle /\ states[s].mt > 0
  /\ LET st == states[s]
         n  == st.mt
         r  == ApplyChanges(root, s, st, n)
         done == [st EXCEPT !.mt = -1, !.maplet = NewMaplet(st, n),
                            !.nbr = @ + Len(Outputs(st, n)),
                            !.comps = SubSeq(@, n + 1, Len(@)),
                            !.ending = {i - n : i \in @}, !.initiated = FALSE]
     IN /\ root' = r.disk
        /\ IF r.found
           THEN Release(s, IF done.comps # << >> /\ done.comps[1].st = "ok"
                           THEN EnqueueMaplet(done) ELSE done)
           ELSE Release(s, [st EXCEPT !.mt = -1, !.failed = TRUE, !.inMap = FALSE])
  /\ UNCHANGED <<log, mod, asserted>>

-----------------------------------------------------------------------------
EmptyRoot == Serialize(EmptyLeaf(NegInf, PosInf))

Init ==
  /\ root = EmptyRoot
  /\ log = << >>
  /\ states = << >>
  /\ mod = Idle
  /\ asserted = {}

Incorporate == \/ IncorporatePrepare
               \/ IncorporateCommit \/ IncorporateCleanup

Compact(s) == \/ BundleStart(s) \/ MapletStart(s) \/ MapletApply(s)
              \/ \E i \in DOMAIN states[s].comps : BundleCheck(s, i) \/ BundleStore(s, i)
              \/ \E i \in states[s].ending : BundleFinish(s, i)

Next == Incorporate \/ \E s \in DOMAIN states : Compact(s)

Spec == Init /\ [][Next]_vars

-----------------------------------------------------------------------------
(* Properties. *)

RECURSIVE WellFormedTree(_)
WellFormedTree(disk) ==
  /\ WellFormed(Deserialize(disk))
  /\ disk.height > 0 => \A i \in DOMAIN disk.child :
       /\ disk.child[i].keys[1] = disk.keys[i]
       /\ Last(disk.child[i].keys) = disk.keys[i + 1]
       /\ WellFormedTree(disk.child[i])

\* Every written tree is well formed: its nodes cover the whole key space and
\* every child covers exactly the range its parent gives it
\* (trunk_node_is_well_formed_leaf, trunk_node_is_well_formed_index).
TypeOK ==
  /\ WellFormedTree(root)
  /\ root.keys[1] = NegInf /\ Last(root.keys) = PosInf
  /\ \A s \in DOMAIN states : states[s].refs >= 1

\* What a lookup finds in the tree is the merge of everything incorporated,
\* in order, whatever flushes, splits and compactions have done and however
\* they overlapped (trunk_merge_lookup).
ViewIsMerge ==
  \A k \in Keys :
    Value(root, k) = Final(MergeAll([g \in DOMAIN log |-> Msg(log[g][k], g)])).gens

\* A task that runs finds the work it was queued for: a compaction that has
\* not started, or a finished one at the head of the list (the assertions of
\* bundle_compaction_task and maplet_compaction_task).
TasksFindWork == asserted \cap {"bc != NULL", "last != NULL"} = {}

\* When no task is left no pivot state is left either, so that
\* trunk_context_deinit finds its map empty.
NoTaskNoState ==
  \A s \in DOMAIN states : \/ states[s].btasks > 0 \/ states[s].mt >= 0
                           \/ states[s].ending # {}
                           \/ \E i \in DOMAIN states[s].comps :
                                states[s].comps[i].st \in {"picked", "packing"}

\* Every bundle a pivot still has to compact belongs to a compaction of the
\* pivot's state, so that a new compaction starts where the last one ended
\* (the assertion of bundle_compaction_create).
CompactionTakesNewBundles == "first_new_bundle == node->num_old_bundles" \notin asserted

\* Batches for a small instance: key 1 is only ever updated, the other is put,
\* deleted, updated and left out.
FourBatches ==
    LET B(kind) == {[k \in Keys |-> IF k = 1 THEN "upd" ELSE kind]}
    IN  <<B("put"), B("del"), B("upd"), B("none")>>
=============================================================================
