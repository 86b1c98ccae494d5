---------------------------- MODULE RcAllocator ----------------------------
(***************************************************************************)
(* The extent allocator of rc_allocator.c: one reference count per extent, *)
(* a shared hand that the allocating threads move with fetch-and-add, and  *)
(* a meta page that holds the super block addresses of the root ids.  A    *)
(* count of 0 is a free extent, an allocation sets it to 2.  The counts    *)
(* reach the disk only when the allocator is unmounted, the meta page      *)
(* whenever it changes.                                                    *)
(***************************************************************************)
EXTENDS Naturals, FiniteSets

CONSTANTS
    AllocThreads,
    extent_capacity,    \* cfg->extent_capacity
    RootIds,            \* ids of the tables on the device
    MAX_ROOT_IDS,       \* RC_ALLOCATOR_MAX_ROOT_IDS
    MaxRefs,            \* bound: references to an extent
    MaxMounts           \* bound: how often the device is mounted again

\* What the theorems assume: there is room for the allocator's own extents.
RcAssumption == extent_capacity \in Nat /\ extent_capacity >= 2
ASSUME RcConstants == RcAssumption

VARIABLES
    ref_count,      \* extent -> count in memory
    hand,           \* al->hand % extent_capacity
    splinters,      \* meta_page->splinters: slot -> root id, or NONE
    disk_count,     \* what unmount wrote, until mount has read it
    disk_splinters, \* what the last change of the meta page wrote
    mounted,        \* FALSE between unmount and mount
    mounts,         \* how often rc_allocator_mount has run
    alloc_pc,       \* thread -> "idle", "draw" or "test"
    first_hand,     \* thread -> where its scan began
    drawn,          \* thread -> the extent it drew
    owned,          \* extent -> references to it that were given out
    free_since      \* thread -> extents that were free during its whole call

rcVars == <<ref_count, hand, splinters, disk_count, disk_splinters, mounted,
            mounts, alloc_pc, first_hand, drawn, owned, free_since>>

Extents == 0 .. extent_capacity - 1
SuperSlots == 1 .. MAX_ROOT_IDS
NONE == "none"

\* The extents rc_allocator_init takes: the super blocks, then the counts
\* (one extent holds them all here).
Reserved == {0, 1}

Nothing == [e \in Extents |-> 0]

FreeExtents == {e \in Extents : ref_count[e] = 0}

\* rc_allocator_init
RcInit ==
    /\ ref_count = [e \in Extents |-> IF e \in Reserved THEN 2 ELSE 0]
    /\ hand = Cardinality(Reserved) % extent_capacity
    /\ splinters = [s \in SuperSlots |-> NONE]
    /\ disk_count = Nothing
    /\ disk_splinters = splinters
    /\ mounted = TRUE
    /\ mounts = 0
    /\ alloc_pc = [t \in AllocThreads |-> "idle"]
    /\ first_hand = [t \in AllocThreads |-> 0]
    /\ drawn = [t \in AllocThreads |-> 0]
    /\ owned = Nothing
    /\ free_since = [t \in AllocThreads |-> {}]

disk == <<splinters, disk_count, disk_splinters, mounted, mounts>>

\* The locals of a call end with it.
AllocReturn(t) ==
    /\ first_hand' = [first_hand EXCEPT ![t] = 0]
    /\ drawn' = [drawn EXCEPT ![t] = 0]
    /\ free_since' = [free_since EXCEPT ![t] = {}]

AllocBegin(t) ==
    /\ mounted /\ alloc_pc[t] = "idle"
    /\ alloc_pc' = [alloc_pc EXCEPT ![t] = "draw"]
    /\ first_hand' = [first_hand EXCEPT ![t] = hand]
    /\ free_since' = [free_since EXCEPT ![t] = FreeExtents]
    /\ UNCHANGED <<ref_count, hand, drawn, owned, disk>>

AllocDraw(t) ==
    /\ alloc_pc[t] = "draw"
    /\ alloc_pc' = [alloc_pc EXCEPT ![t] = "test"]
    /\ drawn' = [drawn EXCEPT ![t] = hand]
    /\ hand' = (hand + 1) % extent_capacity
    /\ UNCHANGED <<ref_count, first_hand, owned, free_since, disk>>

\* A mistake in Taken: the count of a new extent leaves out the allocation itself.
TakenOne == 1

\* The count of an extent that was just allocated.
Taken == 2

\* The load and the compare-and-swap can be one step: the swap fails when
\* the load saw 0 and the count has changed since.
AllocTake(t) ==
    /\ alloc_pc[t] = "test" /\ ref_count[drawn[t]] = 0
    /\ ref_count' = [ref_count EXCEPT ![drawn[t]] = Taken]
    /\ owned' = [owned EXCEPT ![drawn[t]] = @ + 1]
    /\ alloc_pc' = [alloc_pc EXCEPT ![t] = "idle"]
    /\ first_hand' = [first_hand EXCEPT ![t] = 0]
    /\ free_since' = [u \in AllocThreads |->
                         IF u = t THEN {} ELSE free_since[u] \ {drawn[t]}]
    /\ drawn' = [drawn EXCEPT ![t] = 0]
    /\ UNCHANGED <<hand, disk>>

\* A mistake in LastOfScan: the scan stops one extent early.
LastOfScanEarly(t) == (drawn[t] + 2) % extent_capacity = first_hand[t]

LastOfScan(t) == (drawn[t] + 1) % extent_capacity = first_hand[t]

AllocMiss(t) ==
    /\ alloc_pc[t] = "test" /\ ref_count[drawn[t]] # 0
    /\ alloc_pc' = [alloc_pc EXCEPT ![t] = IF LastOfScan(t) THEN "idle" ELSE "draw"]
    /\ IF LastOfScan(t) THEN AllocReturn(t)
                        ELSE UNCHANGED <<first_hand, drawn, free_since>>
    /\ UNCHANGED <<ref_count, hand, owned, disk>>

\* Only who holds a reference may add one; references go from thread to
\* thread (a branch that one thread builds another one drops).  The assertion that the
\* count is neither 0 nor 1 afterwards is part of CountsAreOwned.
IncRef(t, e) ==
    /\ mounted /\ alloc_pc[t] = "idle" /\ owned[e] > 0 /\ ref_count[e] <= MaxRefs
    /\ ref_count' = [ref_count EXCEPT ![e] = @ + 1]
    /\ owned' = [owned EXCEPT ![e] = @ + 1]
    /\ UNCHANGED <<hand, alloc_pc, first_hand, drawn, free_since, disk>>

\* The last reference is given back in two steps, 2 to 1 and, once the pages
\* of the extent are out of the cache, 1 to 0.
DecRef(t, e) ==
    /\ mounted /\ alloc_pc[t] = "idle"
    /\ \/ owned[e] > 0 /\ owned' = [owned EXCEPT ![e] = @ - 1]
       \/ ref_count[e] = 1 /\ e \notin Reserved /\ UNCHANGED owned
    /\ ref_count' = [ref_count EXCEPT ![e] = @ - 1]
    /\ UNCHANGED <<hand, alloc_pc, first_hand, drawn, free_since, disk>>

Quiet == mounted /\ \A t \in AllocThreads : alloc_pc[t] = "idle"

mem == <<ref_count, hand, alloc_pc, first_hand, drawn, owned, free_since>>

\* rc_allocator_alloc_super_addr takes the first free slot.
AllocSuperAddr(r) ==
    /\ mounted /\ \A s \in SuperSlots : splinters[s] # r
    /\ \E s \in SuperSlots :
         /\ splinters[s] = NONE /\ \A k \in SuperSlots : k < s => splinters[k] # NONE
         /\ splinters' = [splinters EXCEPT ![s] = r]
    /\ disk_splinters' = splinters'
    /\ UNCHANGED <<mem, disk_count, mounted, mounts>>

RemoveSuperAddr(r) ==
    /\ mounted
    /\ \E s \in SuperSlots :
         splinters[s] = r /\ splinters' = [splinters EXCEPT ![s] = NONE]
    /\ disk_splinters' = splinters'
    /\ UNCHANGED <<mem, disk_count, mounted, mounts>>

Unmount ==
    /\ Quiet /\ mounts < MaxMounts
    /\ disk_count' = ref_count
    /\ mounted' = FALSE
    /\ UNCHANGED <<mem, splinters, disk_splinters, mounts>>

\* ZERO_CONTENTS also returns the hand to the first extent.
Mount ==
    /\ ~mounted
    /\ mounted' = TRUE /\ mounts' = mounts + 1
    /\ ref_count' = disk_count
    /\ disk_count' = Nothing
    /\ splinters' = disk_splinters
    /\ hand' = 0
    /\ UNCHANGED <<alloc_pc, first_hand, drawn, owned, free_since,
                   disk_splinters>>

RcNext ==
    \/ \E t \in AllocThreads :
         \/ AllocBegin(t) \/ AllocDraw(t) \/ AllocTake(t) \/ AllocMiss(t)
         \/ \E e \in Extents : IncRef(t, e) \/ DecRef(t, e)
    \/ \E r \in RootIds : AllocSuperAddr(r) \/ RemoveSuperAddr(r)
    \/ Unmount \/ Mount

RcSpec == RcInit /\ [][RcNext]_rcVars

-----------------------------------------------------------------------------

\* The allocator's own extents are never given out; the count of another is
\* one more than the references that were given out, or none are out.
Counted(count, e) ==
    IF e \in Reserved THEN count[e] = 2 /\ owned[e] = 0
    ELSE IF owned[e] = 0 THEN count[e] \in {0, 1} ELSE count[e] = owned[e] + 1

\* Every extent is counted so, and none is lost over unmount and mount: what
\* somebody has a reference to is never handed out again.
CountsAreOwned == mounted => \A e \in Extents : Counted(ref_count, e)

\* A call that is about to report STATUS_NO_SPACE passed over no extent that
\* was free all the time, except for one that another thread has drawn and
\* is about to take, although the threads share the hand.
NoSpaceIsTrue ==
    \A t \in AllocThreads :
        alloc_pc[t] = "test" /\ ref_count[drawn[t]] # 0 /\ LastOfScan(t) =>
            \A e \in free_since[t] :
                \E u \in AllocThreads \ {t} : alloc_pc[u] = "test" /\ drawn[u] = e

\* Both together: the count of every extent is what its users hold, and an
\* allocation fails only if no extent was free during the whole call.
AllocationsAreExact == CountsAreOwned /\ NoSpaceIsTrue

=============================================================================
