-------------------------------- MODULE Core --------------------------------
(***************************************************************************)
(* Memtables and their way into the trunk (memtable.c, core.c): inserts    *)
(* into the memtable of the current generation, rotation when it is full,  *)
(* compaction of a finalized memtable into a branch, incorporation of the  *)
(* branches in generation order, lookups and iterators that read the       *)
(* memtables from the newest down and then a snapshot of the trunk,        *)
(* recycling of memtables by reference count, closing and opening.         *)
(*                                                                         *)
(* Abstractions: the batch reader/writer locks are sets of threads (their  *)
(* exclusion is BatchRWLock's WriterAlone); a B-tree is a map from keys to *)
(* the number of the insert that wrote them last, 0 for none; a message is *)
(* definitive (an insert or a delete); the trunk root is the map it        *)
(* represents (module Trunk); a branch is named by its generation.         *)
(***************************************************************************)
EXTENDS Integers, FiniteSets

CONSTANTS
    Threads,        \* client threads
    UserKeys,
    N,              \* CORE_NUM_MEMTABLES
    Capacity,       \* inserts after which a memtable is full
    MaxInserts,     \* bound: inserts of a behaviour
    MaxMounts,      \* bound: times the database is opened
    MayCrash,       \* the process may end without closing
    Roles           \* thread -> the calls it makes

ASSUME CoreAssumption ==
    /\ N \in Nat \ {0, 1} /\ Capacity \in Nat \ {0} /\ MaxInserts \in Nat
    /\ MaxMounts \in Nat /\ MayCrash \in BOOLEAN
    /\ IsFiniteSet(Threads) /\ UserKeys # {}

Slots == 0 .. N - 1
Gens == 0 .. MaxInserts + 1
Values == 0 .. MaxInserts
Maps == [UserKeys -> Values]
Empty == [k \in UserKeys |-> 0]
States == {"READY", "FINALIZED", "COMPACTING", "COMPACTED", "ASSIGNED",
           "INCORPORATED"}
\* a search takes the first answer from the newest tree down
Over(new, old) == [k \in UserKeys |-> IF new[k] # 0 THEN new[k] ELSE old[k]]

VARIABLES
    generation, to_incorporate, retired, is_empty,  \* memtable_context
    mt,         \* slot -> memtable
    cmt,        \* slot -> generation whose branch the compacted memtable names
    branch,     \* generation -> packed branch, with its references
    trunk,      \* root of the trunk
    prepared,   \* root that trunk_incorporate_prepare built
    task,       \* generation -> its flush task
    op,         \* thread -> the call it is in
    super,      \* super block on disk
    open,       \* "open", "closing" or "closed"
    mounts,     \* times the database was opened (bound)
    inserts,    \* inserts called (bound)
    latest,     \* key -> last insert applied (history)
    clean       \* the database was closed since it was last opened (history)

ctxt == <<generation, to_incorporate, retired, is_empty>>
store == <<mt, cmt, branch, trunk, prepared>>
life == <<super, open, mounts, clean>>
vars == <<ctxt, store, task, op, life, latest, inserts>>

Slot(g) == g % N
Mt(g) == mt[Slot(g)]

NoOp == [pc |-> "idle", key |-> CHOOSE k \in UserKeys : TRUE, gen |-> 0,
         end |-> 0, root |-> Empty, floor |-> Empty, val |-> 0, hold |-> {}]
NoTask == [pc |-> "none", gen |-> 0]

(* Locks of the batch rwlock: who is between which calls. *)
InsertReaders == {t \in Threads : op[t].pc \in {"rotate", "insert", "end"}}
InsertClaimers == {t \in Threads : op[t].pc \in {"lock", "advance"}}
InsertWriters == {t \in Threads : op[t].pc = "advance"}
LookupReaders == {t \in Threads : op[t].pc \in {"memtables", "collect"}}
LookupsBlocked == \E g \in Gens : task[g].pc = "commit"

(* memtable_context_create, with memtable_init for every slot *)
FreshMemtables ==
    [s \in Slots |-> [state |-> "READY", gen |-> s, ref |-> 1,
                      tuples |-> Empty, count |-> 0]]

(* core_create *)
Init ==
    /\ generation = 0 /\ to_incorporate = 0 /\ retired = -1 /\ is_empty = TRUE
    /\ mt = FreshMemtables
    /\ cmt = [s \in Slots |-> -1]
    /\ branch = [g \in Gens |-> [tuples |-> Empty, refs |-> 0]]
    /\ trunk = Empty /\ prepared = Empty
    /\ task = [g \in Gens |-> NoTask]
    /\ op = [t \in Threads |-> NoOp]
    /\ super = [root |-> Empty, unmounted |-> FALSE]
    /\ open = "open" /\ mounts = 1 /\ clean = FALSE
    /\ latest = Empty /\ inserts = 0

At(t, pc) == op[t].pc = pc
Move(t, pc) == op' = [op EXCEPT ![t].pc = pc]

(***************************************************************************)
(* Insert                                                                  *)
(***************************************************************************)
\* memtable_is_full: the extents of the memtable's mini allocator
Full(m) == m.count >= Capacity

(* core_insert, core_memtable_insert *)
InsertCall(t, k) ==
    /\ "insert" \in Roles[t] /\ open = "open" /\ At(t, "idle")
    /\ inserts < MaxInserts /\ inserts' = inserts + 1
    /\ op' = [op EXCEPT ![t].pc = "begin", ![t].key = k]
    /\ UNCHANGED <<ctxt, store, task, life, latest>>

\* mistake: rotates without looking whether the next memtable is ready
InsertBeginUnchecked(t) ==
    /\ At(t, "begin") /\ InsertWriters = {} /\ Mt(generation).state = "READY"
    /\ op' = [op EXCEPT ![t].gen = generation,
                  ![t].pc = IF Full(Mt(generation)) THEN "rotate" ELSE "insert"]
    /\ UNCHANGED <<ctxt, store, task, life, latest, inserts>>

\* memtable_maybe_rotate_and_begin_insert up to the choice: with the insert
\* lock held for reading the generation cannot move.  A memtable that is not
\* ready, or a full one whose successor is not, sends the caller round again.
InsertBegin(t) ==
    /\ At(t, "begin") /\ InsertWriters = {}
    /\ Mt(generation).state = "READY"
    /\ \/ /\ ~Full(Mt(generation))
          /\ op' = [op EXCEPT ![t].pc = "insert", ![t].gen = generation]
       \/ /\ Full(Mt(generation)) /\ Mt(generation + 1).state = "READY"
          /\ op' = [op EXCEPT ![t].pc = "rotate", ![t].gen = generation]
    /\ UNCHANGED <<ctxt, store, task, life, latest, inserts>>

\* memtable_try_begin_insert_rotation: the claim, or back to the beginning
RotateClaim(t) ==
    /\ At(t, "rotate")
    /\ Move(t, IF InsertClaimers = {} THEN "lock" ELSE "begin")
    /\ UNCHANGED <<ctxt, store, task, life, latest, inserts>>

\* ... and the lock, once the readers have left; lookups, which do not take
\* this lock, may see the memtable finalized before the generation moves
RotateFinalize(t) ==
    /\ At(t, "lock") /\ InsertReaders = {}
    /\ Mt(op[t].gen).state = "READY"
    /\ mt' = [mt EXCEPT ![Slot(op[t].gen)].state = "FINALIZED"]
    /\ Move(t, "advance")
    /\ UNCHANGED <<ctxt, cmt, branch, trunk, prepared, task, life, latest, inserts>>

\* core_memtable_flush: one task per finalized generation
Flush(g) == task' = [task EXCEPT ![g] = [pc |-> "queued", gen |-> g]]

RotateAdvance(t) ==
    /\ At(t, "advance")
    /\ generation' = generation + 1
    /\ is_empty' = TRUE
    /\ Flush(op[t].gen)
    /\ Move(t, "begin")
    /\ UNCHANGED <<to_incorporate, retired, store, life, latest, inserts>>

\* memtable_insert: the tuple reaches the memtable's B-tree
MemtableInsert(t) ==
    LET g == op[t].gen  k == op[t].key  v == latest[k] + 1 IN
    /\ At(t, "insert")
    /\ mt' = [mt EXCEPT ![Slot(g)].tuples[k] = v, ![Slot(g)].count = @ + 1]
    /\ is_empty' = FALSE
    /\ latest' = [latest EXCEPT ![k] = v]
    /\ Move(t, "end")
    /\ UNCHANGED <<generation, to_incorporate, retired, cmt, branch, trunk,
                   prepared, task, life, inserts>>

\* memtable_end_insert
EndInsert(t) ==
    /\ At(t, "end")
    /\ Move(t, "idle")
    /\ UNCHANGED <<ctxt, store, task, life, latest, inserts>>

(***************************************************************************)
(* Flush task of generation g (core_memtable_flush_internal)               *)
(***************************************************************************)
Go(g, pc) == task' = [task EXCEPT ![g].pc = pc]

CompactBegin(g) ==
    /\ task[g].pc = "queued" /\ Mt(g).gen = g /\ Mt(g).state = "FINALIZED"
    /\ mt' = [mt EXCEPT ![Slot(g)].state = "COMPACTING"]
    /\ Go(g, "compact")
    /\ UNCHANGED <<ctxt, cmt, branch, trunk, prepared, op, life, latest, inserts>>

\* core_memtable_compact: btree_pack of the memtable into a branch
CompactEnd(g) ==
    /\ task[g].pc = "compact" /\ Mt(g).state = "COMPACTING"
    /\ branch' = [branch EXCEPT ![g] = [tuples |-> Mt(g).tuples, refs |-> 1]]
    /\ cmt' = [cmt EXCEPT ![Slot(g)] = g]
    /\ mt' = [mt EXCEPT ![Slot(g)].state = "COMPACTED"]
    /\ Go(g, "start")
    /\ UNCHANGED <<ctxt, trunk, prepared, op, life, latest, inserts>>

\* memtable_try_transition(COMPACTED, INCORPORATION_ASSIGNED) on generation h
Assigned(h) ==
    IF Mt(h).state = "COMPACTED"
    THEN [mt EXCEPT ![Slot(h)].state = "ASSIGNED"] ELSE mt

\* core_try_start_incorporate, under the incorporation mutex
TryStart(g) ==
    LET mine == Mt(g).gen = g /\ g = to_incorporate
                  /\ Mt(g).state = "COMPACTED" IN
    /\ task[g].pc = "start"
    /\ mt' = IF mine THEN Assigned(g) ELSE mt
    /\ Go(g, IF mine THEN "prepare" ELSE "done")
    /\ UNCHANGED <<ctxt, cmt, branch, trunk, prepared, op, life, latest, inserts>>

\* mistake: the new branch goes below the trunk's content
PrepareBelow(g) ==
    LET h == task[g].gen  b == cmt[Slot(h)] IN
    /\ task[g].pc = "prepare" /\ Mt(h).gen = h
    /\ prepared' = Over(trunk, branch[b].tuples)
    /\ branch' = [branch EXCEPT ![b].refs = @ + 1]
    /\ Go(g, "release")
    /\ UNCHANGED <<ctxt, mt, cmt, trunk, op, life, latest, inserts>>

\* core_memtable_incorporate: trunk_incorporate_prepare takes a reference to
\* the branch for the new root
Prepare(g) ==
    LET h == task[g].gen  b == cmt[Slot(h)] IN
    /\ task[g].pc = "prepare" /\ Mt(h).gen = h
    /\ prepared' = Over(branch[b].tuples, trunk)
    /\ branch' = [branch EXCEPT ![b].refs = @ + 1]
    /\ Go(g, "release")
    /\ UNCHANGED <<ctxt, mt, cmt, trunk, op, life, latest, inserts>>

\* ... and the compacted memtable's own reference is dropped
ReleaseBranch(g) ==
    /\ task[g].pc = "release"
    /\ branch' = [branch EXCEPT ![cmt[Slot(task[g].gen)]].refs = @ - 1]
    /\ Go(g, "block")
    /\ UNCHANGED <<ctxt, mt, cmt, trunk, prepared, op, life, latest, inserts>>

\* memtable_block_lookups: no lookup begins from here on ...
BlockLookups(g) ==
    /\ task[g].pc = "block"
    /\ Go(g, "commit")
    /\ UNCHANGED <<ctxt, store, op, life, latest, inserts>>

\* mistake: retires the generation beside running lookups
CommitUnblocked(g) ==
    /\ task[g].pc = "commit"
    /\ mt' = [mt EXCEPT ![Slot(task[g].gen)].state = "INCORPORATED"]
    /\ retired' = retired + 1
    /\ trunk' = prepared
    /\ Go(g, "recycle")
    /\ UNCHANGED <<generation, to_incorporate, is_empty, cmt, branch,
                   prepared, op, life, latest, inserts>>

\* ... and once those under way have left, the memtable is incorporated,
\* its generation retired and the new root installed
Commit(g) ==
    LET h == task[g].gen IN
    /\ task[g].pc = "commit" /\ LookupReaders = {}
    /\ mt' = [mt EXCEPT ![Slot(h)].state = "INCORPORATED"]
    /\ retired' = retired + 1
    /\ trunk' = prepared
    /\ Go(g, "recycle")
    /\ UNCHANGED <<generation, to_incorporate, is_empty, cmt, branch,
                   prepared, op, life, latest, inserts>>

\* mistakes: recycles while others hold references; never recycles
DecRefAlways(m) == [state |-> "READY", gen |-> m.gen + N, ref |-> 1,
                    tuples |-> Empty, count |-> 0]
DecRefNever(m) == [m EXCEPT !.ref = @ - 1]

\* memtable_dec_ref_maybe_recycle: without references the memtable becomes
\* the ready one of generation + N
DecRef(m) ==
    IF m.ref > 1 THEN [m EXCEPT !.ref = @ - 1]
    ELSE [state |-> "READY", gen |-> m.gen + N, ref |-> 1,
          tuples |-> Empty, count |-> 0]

Recycle(g) ==
    /\ task[g].pc = "recycle"
    /\ mt' = [mt EXCEPT ![Slot(task[g].gen)] = DecRef(@)]
    /\ Go(g, "continue")
    /\ UNCHANGED <<ctxt, cmt, branch, trunk, prepared, op, life, latest, inserts>>

\* mistake: the turn is passed on only to a branch that is already packed
TryContinueReady(g) ==
    LET h == task[g].gen + 1
        ready == Mt(h).gen = h /\ Mt(h).state = "COMPACTED" IN
    /\ task[g].pc = "continue"
    /\ mt' = IF ready THEN Assigned(h) ELSE mt
    /\ to_incorporate' = IF ready THEN h ELSE to_incorporate
    /\ task' = [task EXCEPT ![g] =
                  [pc |-> IF ready THEN "prepare" ELSE "done", gen |-> h]]
    /\ UNCHANGED <<generation, retired, is_empty, cmt, branch, trunk,
                   prepared, op, life, latest, inserts>>

\* core_try_continue_incorporate: the next generation is this task's if its
\* branch is ready; otherwise its own task finds it next in line
TryContinue(g) ==
    LET h == task[g].gen + 1  known == Mt(h).gen = h IN
    /\ task[g].pc = "continue"
    /\ mt' = IF known THEN Assigned(h) ELSE mt
    /\ to_incorporate' = IF known THEN h ELSE to_incorporate
    /\ task' = [task EXCEPT ![g] =
                  [pc |-> IF known /\ Mt(h).state = "COMPACTED"
                          THEN "prepare" ELSE "done", gen |-> h]]
    /\ UNCHANGED <<generation, retired, is_empty, cmt, branch, trunk,
                   prepared, op, life, latest, inserts>>

FlushStep(g) ==
    \/ CompactBegin(g) \/ CompactEnd(g) \/ TryStart(g) \/ Prepare(g)
    \/ ReleaseBranch(g) \/ BlockLookups(g) \/ Commit(g) \/ Recycle(g) \/ TryContinue(g)

\* A trunk compaction replaces an incorporated branch and drops its
\* reference to it.
TrunkDrop(g) ==
    /\ g <= retired /\ branch[g].refs > 0
    /\ branch[g].refs > Cardinality({t \in Threads :
                          [gen |-> g, packed |-> TRUE] \in op[t].hold})
    /\ branch' = [branch EXCEPT ![g].refs = @ - 1]
    /\ UNCHANGED <<ctxt, mt, cmt, trunk, prepared, task, op, life, latest, inserts>>

(***************************************************************************)
(* Lookup and iterator                                                     *)
(***************************************************************************)
\* core_memtable_root_addr_for_lookup: the branch once it is packed
Packed(g) == Mt(g).state \in {"COMPACTED", "ASSIGNED"}
Tree(g, packed) == IF packed THEN branch[cmt[Slot(g)]].tuples ELSE Mt(g).tuples

\* mistake: stops at the generation to incorporate, not at the retired one
LookupBeginShort(t, k) ==
    /\ "lookup" \in Roles[t] /\ open = "open" /\ At(t, "idle")
    /\ ~LookupsBlocked
    /\ op' = [op EXCEPT ![t] = [@ EXCEPT !.pc = "memtables", !.key = k,
                  !.gen = generation, !.end = to_incorporate,
                  !.floor = latest]]
    /\ UNCHANGED <<ctxt, store, task, life, latest, inserts>>

(* core_lookup, core_lookup_async *)
LookupBegin(t, k) ==
    /\ "lookup" \in Roles[t] /\ open = "open" /\ At(t, "idle")
    /\ ~LookupsBlocked
    /\ op' = [op EXCEPT ![t] = [@ EXCEPT !.pc = "memtables", !.key = k,
                  !.gen = generation, !.end = retired, !.floor = latest]]
    /\ UNCHANGED <<ctxt, store, task, life, latest, inserts>>

\* core_memtable_lookup on one generation; a definitive answer ends it
LookupMemtable(t) ==
    LET g == op[t].gen  v == Tree(g, Packed(g))[op[t].key] IN
    /\ At(t, "memtables") /\ g # op[t].end
    /\ op' = [op EXCEPT ![t] =
                IF v # 0 THEN [@ EXCEPT !.pc = "found", !.val = v]
                ELSE [@ EXCEPT !.gen = g - 1]]
    /\ UNCHANGED <<ctxt, store, task, life, latest, inserts>>

\* trunk_init_root_handle, memtable_end_lookup; later trunk_merge_lookup
LookupRoot(t) ==
    /\ At(t, "memtables") /\ op[t].gen = op[t].end
    /\ op' = [op EXCEPT ![t] = [@ EXCEPT !.pc = "trunk", !.root = trunk]]
    /\ UNCHANGED <<ctxt, store, task, life, latest, inserts>>

LookupTrunk(t) ==
    /\ At(t, "trunk")
    /\ op' = [op EXCEPT ![t] = [@ EXCEPT !.pc = "found",
                                         !.val = op[t].root[op[t].key]]]
    /\ UNCHANGED <<ctxt, store, task, life, latest, inserts>>

\* the call returns
Return(t) ==
    /\ At(t, "found")
    /\ op' = [op EXCEPT ![t] = NoOp]
    /\ UNCHANGED <<ctxt, store, task, life, latest, inserts>>

\* core_lookup_async takes the same steps; its coroutine may be suspended
\* between them.
LookupStep(t) == LookupMemtable(t) \/ LookupRoot(t) \/ LookupTrunk(t)

(* core_range_iterator_init: the references it takes *)
IterBegin(t) ==
    /\ "iterate" \in Roles[t] /\ open = "open" /\ At(t, "idle")
    /\ ~LookupsBlocked
    /\ op' = [op EXCEPT ![t] = [@ EXCEPT !.pc = "collect", !.gen = generation,
                                         !.end = retired, !.floor = latest]]
    /\ UNCHANGED <<ctxt, store, task, life, latest, inserts>>

IterCollect(t) ==
    LET g == op[t].gen  packed == Packed(g) IN
    /\ At(t, "collect") /\ g # op[t].end
    /\ op' = [op EXCEPT ![t] = [@ EXCEPT !.gen = g - 1,
                !.hold = op[t].hold \cup {[gen |-> g, packed |-> packed]}]]
    /\ IF packed
       THEN branch' = [branch EXCEPT ![cmt[Slot(g)]].refs = @ + 1]
              /\ UNCHANGED mt
       ELSE mt' = [mt EXCEPT ![Slot(g)].ref = @ + 1] /\ UNCHANGED branch
    /\ UNCHANGED <<ctxt, cmt, trunk, prepared, task, life, latest, inserts>>

IterRoot(t) ==
    /\ At(t, "collect") /\ op[t].gen = op[t].end
    /\ op' = [op EXCEPT ![t] = [@ EXCEPT !.pc = "iterate", !.root = trunk]]
    /\ UNCHANGED <<ctxt, store, task, life, latest, inserts>>

(* core_range_iterator_deinit: one reference after the other *)
IterClose(t) ==
    /\ At(t, "iterate")
    /\ Move(t, "release")
    /\ UNCHANGED <<ctxt, store, task, life, latest, inserts>>

IterRelease(t) ==
    \E h \in op[t].hold :
        /\ At(t, "release")
        /\ \A o \in op[t].hold : o.gen <= h.gen
        /\ op' = [op EXCEPT ![t].hold = @ \ {h}]
        /\ IF h.packed
           THEN branch' = [branch EXCEPT ![h.gen].refs = @ - 1]
                  /\ UNCHANGED mt
           ELSE mt' = [mt EXCEPT ![Slot(h.gen)] = DecRef(@)]
                  /\ UNCHANGED branch
        /\ UNCHANGED <<ctxt, cmt, trunk, prepared, task, life, latest, inserts>>

IterEnd(t) ==
    /\ At(t, "release") /\ op[t].hold = {}
    /\ op' = [op EXCEPT ![t] = NoOp]
    /\ UNCHANGED <<ctxt, store, task, life, latest, inserts>>

(***************************************************************************)
(* Closing and opening                                                     *)
(***************************************************************************)
Idle == \A t \in Threads : At(t, "idle")
Quiescent == \A g \in Gens : task[g].pc \in {"none", "done"}

\* memtable_force_finalize, of the current generation
ForceFinalize ==
    /\ Mt(generation).state = "READY"
    /\ mt' = [mt EXCEPT ![Slot(generation)].state = "FINALIZED"]
    /\ generation' = generation + 1
    /\ is_empty' = TRUE
    /\ UNCHANGED <<to_incorporate, retired>>

\* core_prepare_for_shutdown: the current memtable, when anything was
\* inserted into it, is finalized and flushed
PrepareForShutdown ==
    /\ open = "open" /\ Idle
    /\ open' = "closing"
    /\ \/ /\ is_empty
          /\ UNCHANGED <<ctxt, mt, task>>
       \/ ~is_empty /\ ForceFinalize /\ Flush(generation)
    /\ UNCHANGED <<cmt, branch, trunk, prepared, op, super, mounts, latest,
                   inserts, clean>>

\* core_set_super_block
SuperBlock(root, unmounted) == [root |-> root, unmounted |-> unmounted]

\* core_unmount after task_perform_until_quiescent: the super block names
\* the root and says that it is complete
Unmount ==
    /\ open = "closing" /\ Quiescent
    /\ super' = SuperBlock(trunk, TRUE)
    /\ open' = "closed" /\ clean' = TRUE
    /\ UNCHANGED <<ctxt, store, task, op, mounts, latest, inserts>>

\* the process ends without closing; nothing is replayed
Crash ==
    /\ MayCrash /\ open = "open"
    /\ open' = "closed" /\ clean' = FALSE
    /\ UNCHANGED <<ctxt, store, task, op, super, mounts, latest, inserts>>

\* mistake: trusts the root of a super block that is not marked unmounted
MountAnyRoot ==
    /\ open = "closed" /\ mounts < MaxMounts
    /\ generation' = 0 /\ to_incorporate' = 0 /\ retired' = -1
    /\ is_empty' = TRUE
    /\ mt' = FreshMemtables
    /\ cmt' = [s \in Slots |-> -1]
    /\ branch' = [g \in Gens |-> [tuples |-> Empty, refs |-> 0]]
    /\ trunk' = super.root /\ prepared' = super.root
    /\ task' = [g \in Gens |-> NoTask]
    /\ op' = [t \in Threads |-> NoOp]
    /\ super' = [super EXCEPT !.unmounted = FALSE]
    /\ open' = "open" /\ mounts' = mounts + 1
    /\ latest' = IF clean THEN latest ELSE Empty
    /\ clean' = FALSE
    /\ UNCHANGED inserts

\* The root counts only if the super block says it is complete ...
MountedRoot == IF super.unmounted THEN super.root ELSE Empty

\* ... and core_mount makes the super block say that it is not from now on.
Mount ==
    LET root == MountedRoot IN
    /\ open = "closed" /\ mounts < MaxMounts
    /\ generation' = 0 /\ to_incorporate' = 0 /\ retired' = -1
    /\ is_empty' = TRUE
    /\ mt' = FreshMemtables
    /\ cmt' = [s \in Slots |-> -1]
    /\ branch' = [g \in Gens |-> [tuples |-> Empty, refs |-> 0]]
    /\ trunk' = root /\ prepared' = root
    /\ task' = [g \in Gens |-> NoTask]
    /\ op' = [t \in Threads |-> NoOp]
    /\ super' = SuperBlock(root, FALSE)
    /\ open' = "open" /\ mounts' = mounts + 1
    /\ latest' = IF clean THEN latest ELSE Empty
    /\ clean' = FALSE
    /\ UNCHANGED inserts

Stopped == open = "closed" /\ mounts = MaxMounts /\ UNCHANGED vars

Next ==
    \/ \E t \in Threads, k \in UserKeys : InsertCall(t, k) \/ LookupBegin(t, k)
    \/ \E t \in Threads :
          \/ InsertBegin(t) \/ RotateClaim(t) \/ RotateFinalize(t)
          \/ RotateAdvance(t) \/ MemtableInsert(t) \/ EndInsert(t)
          \/ LookupStep(t) \/ Return(t)
          \/ IterBegin(t) \/ IterCollect(t) \/ IterRoot(t)
          \/ IterClose(t) \/ IterRelease(t) \/ IterEnd(t)
    \/ \E g \in Gens : FlushStep(g) \/ TrunkDrop(g)
    \/ PrepareForShutdown \/ Unmount \/ Crash \/ Mount \/ Stopped

Spec == Init /\ [][Next]_vars

\* Background threads take and run the queued flush tasks, and a lookup or an
\* iterator's collection of references comes to its end.
Fairness ==
    /\ \A g \in Gens : WF_vars(FlushStep(g))
    /\ \A t \in Threads :
          WF_vars(LookupMemtable(t) \/ LookupRoot(t)
                    \/ IterCollect(t) \/ IterRoot(t))

FairSpec == Spec /\ Fairness

(***************************************************************************)
(* Properties                                                              *)
(***************************************************************************)
TaskPcs == {"none", "queued", "compact", "start", "prepare", "release",
            "block", "commit", "recycle", "continue", "done"}
OpPcs == {"idle", "begin", "rotate", "lock", "advance", "insert", "end",
          "memtables", "trunk", "found", "collect", "iterate", "release"}

TypeOK ==
    /\ generation \in Gens /\ to_incorporate \in Gens
    /\ retired \in Gens \cup {-1} /\ is_empty \in BOOLEAN
    /\ mt \in [Slots -> [state : States, gen : Nat, ref : Nat \ {0},
                         tuples : Maps, count : Nat]]
    /\ cmt \in [Slots -> Gens \cup {-1}]
    /\ branch \in [Gens -> [tuples : Maps, refs : Nat]]
    /\ trunk \in Maps /\ prepared \in Maps
    /\ task \in [Gens -> [pc : TaskPcs, gen : Gens]]
    /\ op \in [Threads -> [pc : OpPcs, key : UserKeys, gen : Gens \cup {-1},
                           end : Gens \cup {-1}, root : Maps, floor : Maps,
                           val : Values,
                           hold : SUBSET [gen : Gens, packed : BOOLEAN]]]
    /\ super \in [root : Maps, unmounted : BOOLEAN]
    /\ open \in {"open", "closing", "closed"}
    /\ mounts \in 1 .. MaxMounts /\ inserts \in 0 .. MaxInserts
    /\ latest \in Maps /\ clean \in BOOLEAN

\* What a lookup of k would answer now: the memtables of the generations not
\* yet retired, newest first, then the trunk.
Search(k) ==
    LET hits == {g \in retired + 1 .. generation : Tree(g, Packed(g))[k] # 0}
        newest == CHOOSE g \in hits : \A o \in hits : o <= g
    IN  IF hits = {} THEN trunk[k] ELSE Tree(newest, Packed(newest))[k]

\* Every insert that was applied is where a lookup finds it, and nothing
\* older hides it, in every state between rotation, compaction,
\* incorporation and recycling, and after the database is opened again: a
\* database that was closed has everything, one that was not opens empty.
ViewIsLatest ==
    open = "open" => \A k \in UserKeys : Search(k) = latest[k]

\* A lookup that runs beside inserts, rotations and incorporations answers
\* with an insert at least as new as the last one before it began.
LookupFresh ==
    \A t \in Threads : At(t, "found") =>
        op[t].val >= op[t].floor[op[t].key]

\* What an open iterator reads through its references: the memtables and
\* branches it holds stay its own until it lets them go, and with the trunk
\* root it took they still show every insert that preceded it.
IterStable ==
    \A t \in Threads :
        /\ \A h \in op[t].hold :
              IF h.packed THEN branch[h.gen].refs > 0
              ELSE Mt(h.gen).gen = h.gen
        /\ At(t, "iterate") => \A k \in UserKeys :
              \/ op[t].root[k] >= op[t].floor[k]
              \/ \E h \in op[t].hold :
                    IF h.packed
                    THEN branch[h.gen].tuples[k] >= op[t].floor[k]
                    ELSE Mt(h.gen).tuples[k] >= op[t].floor[k]

\* Assertions on generations and states along the way (core_get_memtable,
\* memtable_ok_to_lookup, memtable_transition,
\* memtable_increment_to_generation_retired, req.num_tuples > 0): a thread
\* that is about to evaluate one finds it true.  Those made in the middle of a
\* step, on the generation just advanced (memtable.c:155) and on the state of a
\* memtable that an iterator recycles (memtable.c:254), are not among them.
AssertionsHold ==
    open # "closed" =>
    /\ \A t \in Threads :
          /\ At(t, "memtables") \/ At(t, "collect") =>
                /\ op[t].gen - op[t].end <= N
                /\ op[t].gen # op[t].end =>
                      /\ Mt(op[t].gen).gen = op[t].gen
                      /\ Mt(op[t].gen).state # "INCORPORATED"
                      /\ Packed(op[t].gen) =>
                            branch[cmt[Slot(op[t].gen)]].refs > 0
          /\ At(t, "lock") => Mt(op[t].gen).state = "READY"
          /\ At(t, "insert") => Mt(op[t].gen).gen = op[t].gen
    /\ \A g \in Gens :
          LET h == task[g].gen IN
          /\ task[g].pc = "queued" =>
                Mt(g).gen = g /\ Mt(g).state = "FINALIZED"
          /\ task[g].pc = "compact" => Mt(g).tuples # Empty
          /\ task[g].pc \in {"prepare", "release", "block", "commit"} =>
                /\ Mt(h).gen = h /\ Mt(h).state = "ASSIGNED"
                /\ retired + 1 = h /\ h = to_incorporate
          /\ task[g].pc = "recycle" => Mt(h).state = "INCORPORATED"

\* The generations that lookups must search fit the memtables there are.
WindowBound == open = "open" => generation - retired <= N

\* Every finalized memtable reaches the trunk: whichever of the two tasks
\* comes second, the one that packs generation g or the one that finishes
\* g - 1, incorporates it.
FinalizedIsIncorporated ==
    \A g \in Gens : task[g].pc = "queued" ~> (retired >= g \/ open = "closed")

\* The assertion of memtable_force_finalize when a database is closed.
ForceFinalizeAssertion ==
    open = "closing" => generation - retired <= N

\* Roles for a small instance: threads that insert, and close.
InsertOnly == [t \in Threads |-> {"insert"}]
=============================================================================
