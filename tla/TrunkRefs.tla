----------------------------- MODULE TrunkRefs -----------------------------
(***************************************************************************)
(* How the trunk's written nodes are kept and freed (trunk.c).  A node's   *)
(* address is counted once for the root pointer and once for every written *)
(* parent.  A modification writes a new root sharing the children it does  *)
(* not replace, swaps the root pointer and drops the reference on the old  *)
(* root.  Lookups hold pages, not references: a node that lost its last    *)
(* reference while a page of it is held goes onto the list of pending      *)
(* collections, which the end of a modification works through.  An         *)
(* eviction sweep holds a page too, of any node, for a moment.             *)
(*                                                                         *)
(* The tree has two levels.  What collecting does next is an explicit      *)
(* stack per thread, so that the recursion of trunk_ondisk_node_gc can be  *)
(* interleaved with lookups and with the other modifying threads.          *)
(***************************************************************************)
EXTENDS Integers, Sequences, FiniteSets, SequencesExt

CONSTANTS NumAddrs,   \* bound: extents for trunk nodes
          Modifiers,  \* threads that modify the trunk
          Readers,    \* threads that look up
          Swept,      \* bound: the addresses the clock hand comes past
          Fanout,     \* children of the root
          MaxMods     \* bound: modifications of a behaviour

VARIABLES ref,        \* allocator reference counts of the addresses
          kids,       \* the children a written node records
          root,       \* context->root
          claim,      \* holder of the claim on the root lock
          pending,    \* context->pending_gcs, oldest first
          gcLock,     \* holder of pending_gcs_lock
          mod,        \* per modifying thread: stage, old root, stack of work
          held,       \* per lookup: the nodes whose pages it holds, root
                      \*   first, and whether it has been at a leaf
          sweep,      \* the node of the page the clock hand tries to evict
          mods        \* ghost: modifications begun

vars == <<ref, kids, root, claim, pending, gcLock, mod, held, sweep, mods>>

Addrs == 1 .. NumAddrs

AL_FREE == 0
AL_NO_REFS == 1
AL_ONE_REF == 2
None == "none"
NoAddr == 0

NoLookup == [pages |-> << >>, done |-> FALSE]

\* treepass_in_use: somebody has a reference on the page, whoever it is.
LookedUp(a) == \E r \in Readers : a \in Range(held[r].pages)
InUse(a) == LookedUp(a) \/ sweep = a
Free == {a \in Addrs : ref[a] = AL_FREE}

\* The number of references a node holds on each address.
Times(seq, a) == Cardinality({i \in DOMAIN seq : seq[i] = a})

-----------------------------------------------------------------------------
(* Lookups: from the root to a leaf.  The caller keeps the root's page until *)
(* the end.                                                                  *)

\* trunk_init_root_handle: the root pointer is read and its page taken while
\* the root lock is held, so the root cannot be replaced in between.
ReadRoot(r) ==
  /\ held[r] = NoLookup
  /\ held' = [held EXCEPT ![r].pages = <<root>>]
  /\ UNCHANGED <<ref, kids, root, claim, pending, gcLock, mod, sweep, mods>>

\* The child's page is taken while the root's is held.
ReadChild(r, i) ==
  LET top == Head(held[r].pages) IN
  /\ Len(held[r].pages) = 1 /\ ~held[r].done /\ i \in DOMAIN kids[top]
  /\ held' = [held EXCEPT ![r] = [pages |-> <<top, kids[top][i]>>, done |-> TRUE]]
  /\ UNCHANGED <<ref, kids, root, claim, pending, gcLock, mod, sweep, mods>>

\* The leaf's page is given back at the end of trunk_merge_lookup, the root's
\* by its caller.
LeaveNode(r) ==
  LET rest == Front(held[r].pages) IN
  /\ held[r].pages # << >>
  /\ held' = [held EXCEPT ![r] = IF rest = << >> THEN NoLookup
                                 ELSE [@ EXCEPT !.pages = rest]]
  /\ UNCHANGED <<ref, kids, root, claim, pending, gcLock, mod, sweep, mods>>

\* treepass_try_evict takes a reference on a page that is clean, also of a node
\* that nobody looks at, and gives it back whether it evicts the page or not.
SweepTake(a) ==
  /\ sweep = NoAddr /\ ref[a] # AL_FREE
  /\ sweep' = a
  /\ UNCHANGED <<ref, kids, root, claim, pending, gcLock, mod, held, mods>>

SweepLeave ==
  /\ sweep # NoAddr
  /\ sweep' = NoAddr
  /\ UNCHANGED <<ref, kids, root, claim, pending, gcLock, mod, held, mods>>

-----------------------------------------------------------------------------
(* Modifications. *)

ModificationBegin(m) ==
  /\ mod[m].stage = "idle" /\ claim = None /\ mods < MaxMods
  /\ claim' = m /\ mods' = mods + 1
  /\ mod' = [mod EXCEPT ![m].stage = "build"]
  /\ UNCHANGED <<ref, kids, root, pending, gcLock, held, sweep>>

\* trunk_apply_changes_internal: the children in S are rewritten, then the
\* root with a reference on every child it names; the references that came
\* with the rewritten children are given back.
Build(m, S, new) ==
  LET old == kids[root]
      child == [i \in DOMAIN old |-> IF i \in S THEN new[i] ELSE old[i]]
      top == new[0]
  IN /\ mod[m].stage = "build"
     /\ kids' = [kids EXCEPT ![top] = child]
     /\ ref' = [a \in Addrs |-> IF a = top THEN AL_ONE_REF
                                ELSE IF \E i \in S : new[i] = a THEN AL_ONE_REF
                                ELSE ref[a] + Times(child, a)]
     /\ mod' = [mod EXCEPT ![m].stage = "swap", ![m].new = top]
     /\ UNCHANGED <<root, claim, pending, gcLock, held, sweep, mods>>

\* trunk_set_root, or trunk_incorporate_commit and the first part of
\* trunk_incorporate_cleanup.
SetRoot(m) ==
  /\ mod[m].stage = "swap"
  /\ root' = mod[m].new
  /\ mod' = [mod EXCEPT ![m].stage = "drop", ![m].work = <<[op |-> "dec", addr |-> root]>>]
  /\ UNCHANGED <<ref, kids, claim, pending, gcLock, held, sweep, mods>>

\* trunk_modification_end gives up the claim first, then collects.
ModificationEnd(m) ==
  /\ mod[m].stage = "drop" /\ mod[m].work = << >>
  /\ claim' = None
  /\ mod' = [mod EXCEPT ![m].stage = "lock"]
  /\ UNCHANGED <<ref, kids, root, pending, gcLock, held, sweep, mods>>

-----------------------------------------------------------------------------
(* trunk_ondisk_node_dec_ref and trunk_ondisk_node_gc: the top of the        *)
(* thread's stack.                                                           *)

Collecting(m) == mod[m].stage \in {"drop", "gc"} /\ mod[m].work # << >>
Top(m) == Head(mod[m].work)

\* The recursion of trunk_ondisk_node_gc: the children first, the node last.
GcWork(a) == [i \in DOMAIN kids[a] |-> [op |-> "dec", addr |-> kids[a][i]]]
               \o <<[op |-> "free", addr |-> a]>>

DecRef(m) ==
  LET a == Top(m).addr IN
  /\ Collecting(m) /\ Top(m).op = "dec"
  /\ ref' = [ref EXCEPT ![a] = @ - 1]
  /\ mod' = [mod EXCEPT ![m].work =
               IF ref[a] - 1 # AL_NO_REFS THEN Tail(@)
               ELSE <<[op |-> "check", addr |-> a]>> \o Tail(@)]
  /\ UNCHANGED <<kids, root, claim, pending, gcLock, held, sweep, mods>>

\* A mistake in CheckInUse: a node without references is collected at once.
CheckInUseNever(m) ==
  LET a == Top(m).addr IN
  /\ Collecting(m) /\ Top(m).op = "check"
  /\ mod' = [mod EXCEPT ![m].work = GcWork(a) \o Tail(@)]
  /\ UNCHANGED <<ref, kids, root, claim, pending, gcLock, held, sweep, mods>>

\* cache_in_use is asked after the count dropped.
CheckInUse(m) ==
  LET a == Top(m).addr IN
  /\ Collecting(m) /\ Top(m).op = "check"
  /\ mod' = [mod EXCEPT ![m].work = IF InUse(a) THEN <<[op |-> "defer", addr |-> a]>> \o Tail(@)
                                    ELSE GcWork(a) \o Tail(@)]
  /\ UNCHANGED <<ref, kids, root, claim, pending, gcLock, held, sweep, mods>>

\* The list's lock is taken, the node appended and the lock given back.  The
\* lock is not recursive: a thread that already holds it waits for itself.
Defer(m) ==
  /\ Collecting(m) /\ Top(m).op = "defer" /\ gcLock = None
  /\ pending' = Append(pending, Top(m).addr)
  /\ mod' = [mod EXCEPT ![m].work = Tail(@)]
  /\ UNCHANGED <<ref, kids, root, claim, gcLock, held, sweep, mods>>

\* cache_extent_discard, which waits for the references on the pages, and the
\* last allocator_dec_ref.
FreeNode(m) ==
  LET a == Top(m).addr IN
  /\ Collecting(m) /\ Top(m).op = "free" /\ ~InUse(a)
  /\ ref' = [ref EXCEPT ![a] = @ - 1]
  /\ kids' = [kids EXCEPT ![a] = << >>]
  /\ mod' = [mod EXCEPT ![m].work = Tail(@)]
  /\ UNCHANGED <<root, claim, pending, gcLock, held, sweep, mods>>

-----------------------------------------------------------------------------
(* perform_pending_gcs: in order, up to the first node still in use. *)

LockPending(m) ==
  /\ mod[m].stage = "lock" /\ gcLock = None
  /\ gcLock' = m
  /\ mod' = [mod EXCEPT ![m].stage = "gc"]
  /\ UNCHANGED <<ref, kids, root, claim, pending, held, sweep, mods>>

GcNext(m) ==
  /\ mod[m].stage = "gc" /\ mod[m].work = << >>
  /\ pending # << >> /\ ~InUse(Head(pending))
  /\ mod' = [mod EXCEPT ![m].work = GcWork(Head(pending))]
  /\ pending' = Tail(pending)
  /\ UNCHANGED <<ref, kids, root, claim, gcLock, held, sweep, mods>>

UnlockPending(m) ==
  /\ mod[m].stage = "gc" /\ mod[m].work = << >>
  /\ ~(pending # << >> /\ ~InUse(Head(pending)))
  /\ gcLock' = None
  /\ mod' = [mod EXCEPT ![m].stage = "idle"]
  /\ UNCHANGED <<ref, kids, root, claim, pending, held, sweep, mods>>

-----------------------------------------------------------------------------
\* The first tree: a root over Fanout leaves, each counted once.
Init ==
  /\ root = 1
  /\ kids = [a \in Addrs |-> IF a = 1 THEN [i \in 1 .. Fanout |-> i + 1] ELSE << >>]
  /\ ref = [a \in Addrs |-> IF a <= Fanout + 1 THEN AL_ONE_REF ELSE AL_FREE]
  /\ claim = None /\ pending = << >> /\ gcLock = None /\ mods = 0
  /\ mod = [m \in Modifiers |-> [stage |-> "idle", new |-> 1, work |-> << >>]]
  /\ held = [r \in Readers |-> NoLookup]
  /\ sweep = NoAddr

\* A fresh address for the root (index 0) and for every rewritten child: the
\* lowest free ones, as addresses are interchangeable.
FreshFor(S) ==
  LET want == SetToSortSeq(S \cup {0}, <)
      have == SetToSortSeq(Free, <)
  IN [i \in S \cup {0} |-> have[CHOOSE j \in DOMAIN want : want[j] = i]]

Modify(m) ==
  \/ ModificationBegin(m) \/ SetRoot(m) \/ ModificationEnd(m)
  \/ mod[m].stage = "build" /\ \E S \in SUBSET (1 .. Fanout) :
       Cardinality(S) < Cardinality(Free) /\ Build(m, S, FreshFor(S))

Collect(m) == DecRef(m) \/ CheckInUse(m) \/ Defer(m) \/ FreeNode(m)
Pending(m) == LockPending(m) \/ GcNext(m) \/ UnlockPending(m)
Read(r) == ReadRoot(r) \/ (\E i \in 1 .. Fanout : ReadChild(r, i)) \/ LeaveNode(r)

Next == \/ \E m \in Modifiers : Modify(m) \/ Collect(m) \/ Pending(m)
        \/ \E r \in Readers : Read(r)
        \/ (\E a \in Swept : SweepTake(a)) \/ SweepLeave

Spec == Init /\ [][Next]_vars

\* Every thread goes on: a modification in progress ends unless it waits for a
\* lock, and a lookup and a sweep give their pages back.  A discard gets the
\* page although sweeps come and go, as its claim and its write flag turn them
\* away (PageCache).
FairSpec ==
  /\ Spec
  /\ \A m \in Modifiers : WF_vars(Modify(m) \/ Collect(m) \/ Pending(m))
                         /\ SF_vars(FreeNode(m))
  /\ \A r \in Readers : WF_vars(LeaveNode(r))
  /\ WF_vars(SweepLeave)

-----------------------------------------------------------------------------
(* Properties. *)

\* No lookup ever holds a page of a node that was freed, and the children it
\* may go on to are still counted: the check of cache_in_use and the list of
\* pending collections are enough although lookups take no references.
ReadersAreSafe ==
  \A r \in Readers : \A i \in DOMAIN held[r].pages :
    LET a == held[r].pages[i] IN
    /\ ref[a] # AL_FREE
    /\ \A j \in DOMAIN kids[a] : ref[kids[a][j]] \notin {AL_FREE, AL_NO_REFS}

\* When no modification and no collection is under way every address is
\* counted exactly as often as it is pointed to, so nothing leaks.
CountsAreExact ==
  (\A m \in Modifiers : mod[m].stage \in {"idle", "lock"}) =>
    \A a \in Addrs :
      LET parents == {p \in Addrs : a \in Range(kids[p])}
          pointers == Cardinality(parents) + (IF a = root THEN 1 ELSE 0)
      IN IF a \in Range(pending) THEN ref[a] = AL_NO_REFS /\ pointers = 0
         ELSE ref[a] = (IF pointers = 0 THEN AL_FREE ELSE AL_NO_REFS + pointers)

\* A thread that collects with the list of pending nodes locked cannot defer a
\* node (trunk.c:2601).  No lookup makes it: while a lookup holds a page of a
\* node, the root it came from is in use and counts the node.
LookupsDelayNoChild ==
  \A m \in Modifiers :
    gcLock = m /\ Collecting(m) /\ Top(m).op \in {"check", "defer"} =>
      ~LookedUp(Top(m).addr)

\* Once no more modifications begin, a thread that collects pending nodes
\* finishes, as trunk_context_deinit, which collects them and then asserts
\* that the list is empty, requires.
CollectionEnds == \A m \in Modifiers : (mod[m].stage = "gc") ~> (mod[m].stage = "idle")
=============================================================================
