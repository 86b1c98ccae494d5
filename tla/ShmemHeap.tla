----------------------------- MODULE ShmemHeap -----------------------------
(* The heap in a shared memory segment (platform_linux/shmem.c): memory is  *)
(* taken from the front of the free rest of the segment and, small          *)
(* fragments other than the latest, never returned.  Large fragments are    *)
(* remembered in a short array and given out again.                         *)
(*                                                                          *)
(* Everything under shm_mem_lock is one step, and so is everything under    *)
(* shm_mem_frags_lock; between the two the calls of other threads run.      *)
(* Addresses are counted from the end of the control block, sizes in cache  *)
(* lines.  Abstracted: pids and tids (only whether a fragment is free       *)
(* counts) and the statistics nobody reads, tracing and messages.           *)
EXTENDS Naturals, FiniteSets

CONSTANTS HeapThreads,
          Sizes,                \* sizes that are asked for
          SHM_LARGE_FRAG_SIZE,
          SHM_NUM_LARGE_FRAGS,
          SegmentSize,
          MaxHeld,              \* bound: allocations a thread has at a time
          None

(* What the theorems assume.  Nobody asks for 0 bytes: what is allocated is *)
(* an object or an array of objects.                                        *)
HeapAssumption ==
    /\ Sizes \subseteq Nat \ {0}
    /\ SHM_LARGE_FRAG_SIZE \in Nat
    /\ SHM_NUM_LARGE_FRAGS \in Nat
    /\ SegmentSize \in Nat
    /\ None \notin Nat
ASSUME ConstantsAssumption == HeapAssumption

VARIABLES
    shm_next,         \* the first address never given out
    shm_last_alloc,   \* the latest allocation, or None
    frags,            \* shm_large_frags: [addr, size, free], addr None if empty
    hip,              \* shm_large_frag_hip, None if no large fragment
    used_bytes,       \* usage.used_bytes (free_bytes is the rest)
    held,             \* thread -> the allocations it has: [addr, size]
    call,             \* thread -> its call, with the pc at which it is
    asserted          \* an assertion of the code has failed

vars == <<shm_next, shm_last_alloc, frags, hip, used_bytes, held, call,
          asserted>>

Slots == 1 .. SHM_NUM_LARGE_FRAGS
NoFrag == [addr |-> None, size |-> 0, free |-> FALSE]
Idle == [pc |-> "idle"]
Large(size) == size >= SHM_LARGE_FRAG_SIZE

Init == /\ shm_next = 0
        /\ shm_last_alloc = None
        /\ frags = [i \in Slots |-> NoFrag]
        /\ hip = None
        /\ used_bytes = 0
        /\ held = [t \in HeapThreads |-> {}]
        /\ call = [t \in HeapThreads |-> Idle]
        /\ asserted = FALSE

Set(t, c) == call' = [call EXCEPT ![t] = c]
First(S) == CHOOSE i \in S : \A j \in S : i <= j

-----------------------------------------------------------------------------
(* Allocating; old is the fragment a realloc replaces, or None.             *)

BeginAlloc(t, size, old) ==
    Set(t, [pc |-> IF Large(size) THEN "find" ELSE "bump",
            size |-> size, old |-> old])

Alloc(t, size) ==
    /\ call[t] = Idle
    /\ Cardinality(held[t]) < MaxHeld
    /\ BeginAlloc(t, size, None)
    /\ UNCHANGED <<shm_next, shm_last_alloc, frags, hip, used_bytes, held, asserted>>

Realloc(t, f, size) ==
    /\ call[t] = Idle
    /\ f \in held[t]
    /\ f.size < size
    /\ BeginAlloc(t, size, f)
    /\ UNCHANGED <<shm_next, shm_last_alloc, frags, hip, used_bytes, held, asserted>>

BeginFree(t, f) == Set(t, [pc |-> "free", frag |-> f])

\* The caller has its memory.  A realloc copies, and goes on to free the old.
Return(t, addr) ==
    LET new == [addr |-> addr, size |-> call[t].size]
        old == call[t].old
    IN  /\ held' = [held EXCEPT ![t] = (@ \cup {new}) \ {old}]
        /\ IF old = None THEN Set(t, Idle) ELSE BeginFree(t, old)

\* platform_shm_find_large gives the first free fragment that is large enough.
FindLarge(t) ==
    LET fits == {i \in Slots : /\ frags[i].addr # None
                               /\ frags[i].size >= call[t].size
                               /\ frags[i].free}
        i    == First(fits)
    IN  /\ call[t].pc = "find"
        /\ IF fits = {}
           THEN Set(t, [call[t] EXCEPT !.pc = "bump"])
                /\ UNCHANGED <<frags, held>>
           ELSE /\ frags' = [frags EXCEPT ![i].free = FALSE]
                /\ Return(t, frags[i].addr)
        /\ UNCHANGED <<shm_next, shm_last_alloc, hip, used_bytes, asserted>>

\* platform_shm_alloc under shm_mem_lock.  A realloc that fails keeps the old.
Bump(t) ==
    LET size == call[t].size
    IN  /\ call[t].pc = "bump"
        /\ IF shm_next + size > SegmentSize
           THEN Set(t, Idle)
                /\ UNCHANGED <<shm_next, shm_last_alloc, used_bytes, held>>
           ELSE /\ shm_next' = shm_next + size
                /\ shm_last_alloc' = shm_next
                /\ used_bytes' = used_bytes + size
                /\ IF Large(size)
                   THEN /\ Set(t, [pc |-> "track", addr |-> shm_next,
                                   size |-> size, old |-> call[t].old])
                        /\ UNCHANGED held
                   ELSE Return(t, shm_next)
        /\ UNCHANGED <<frags, hip, asserted>>

\* platform_shm_track_large_alloc: in the first empty slot, if there is one.
TrackAlloc(t) ==
    LET addr  == call[t].addr
        empty == {i \in Slots : frags[i].addr = None}
        seen  == {i \in Slots : \A j \in empty : i < j}
    IN  /\ call[t].pc = "track"
        /\ asserted' = (asserted \/ \E i \in seen : frags[i].addr = addr)
        /\ IF empty = {} THEN UNCHANGED <<frags, hip>>
           ELSE /\ frags' = [frags EXCEPT ![First(empty)] =
                               [addr |-> addr, size |-> call[t].size,
                                free |-> FALSE]]
                /\ hip' = IF hip = None \/ hip < addr THEN addr ELSE hip
        /\ Return(t, addr)
        /\ UNCHANGED <<shm_next, shm_last_alloc, used_bytes>>

-----------------------------------------------------------------------------
(* Freeing.                                                                 *)

Free(t, f) ==
    /\ call[t] = Idle
    /\ f \in held[t]
    /\ held' = [held EXCEPT ![t] = @ \ {f}]
    /\ BeginFree(t, f)
    /\ UNCHANGED <<shm_next, shm_last_alloc, frags, hip, used_bytes,
                   asserted>>

\* A mistake in IsLastSmall: a large fragment, too, is given back to the rest.
IsLastAny(ptr) == shm_last_alloc = ptr

\* The latest allocation, and small.
IsLastSmall(ptr) == /\ shm_last_alloc = ptr
                    /\ shm_next - ptr < SHM_LARGE_FRAG_SIZE

\* platform_shm_free under shm_mem_lock
FreeLast(t) ==
    LET ptr == call[t].frag.addr
    IN  /\ call[t].pc = "free"
        /\ IF IsLastSmall(ptr)
           THEN /\ shm_next' = ptr
                /\ shm_last_alloc' = None
                /\ used_bytes' = used_bytes - (shm_next - ptr)
                /\ Set(t, Idle)
           ELSE /\ Set(t, [call[t] EXCEPT !.pc = "untrack"])
                /\ UNCHANGED <<shm_next, shm_last_alloc, used_bytes>>
        /\ UNCHANGED <<frags, hip, held, asserted>>

\* platform_shm_track_free
TrackFree(t) ==
    LET ptr == call[t].frag.addr
        at  == {i \in Slots : frags[i].addr = ptr}
    IN  /\ call[t].pc = "untrack"
        /\ IF hip = None \/ at = {} THEN UNCHANGED frags
           ELSE IF ptr > hip THEN UNCHANGED frags
           ELSE /\ frags' = [frags EXCEPT ![First(at)].free = TRUE]
        /\ Set(t, Idle)
        /\ UNCHANGED <<shm_next, shm_last_alloc, hip, used_bytes, held,
                       asserted>>

-----------------------------------------------------------------------------
Next == \E t \in HeapThreads :
           \/ \E size \in Sizes : Alloc(t, size)
           \/ \E f \in held[t] : \/ Free(t, f)
                                 \/ \E size \in Sizes : Realloc(t, f, size)
           \/ FindLarge(t) \/ Bump(t) \/ TrackAlloc(t)
           \/ FreeLast(t) \/ TrackFree(t)

Spec == Init /\ [][Next]_vars

-----------------------------------------------------------------------------
(* What is somebody's: what the threads hold, and what is between two steps *)
(* of an allocation or of a free.                                           *)
Owned == (UNION {held[t] : t \in HeapThreads})
           \cup {[addr |-> call[t].addr, size |-> call[t].size] :
                   t \in {u \in HeapThreads : call[u].pc = "track"}}
           \cup {call[t].frag : t \in {u \in HeapThreads :
                                         call[u].pc \in {"free", "untrack"}}}
Spare == {[addr |-> frags[i].addr, size |-> frags[i].size] :
            i \in {j \in Slots : frags[j].addr # None /\ frags[j].free}}

(* No byte of the segment belongs to two: the fragments that are held, and  *)
(* the free ones that are kept for the next large request, lie apart, in    *)
(* the part of the segment that was given out.  Threads that allocate,      *)
(* reallocate and free at the same time never get each other's memory, and  *)
(* the assertion of platform_shm_track_large_alloc holds.                   *)
FragmentsDisjoint ==
    /\ ~asserted
    /\ \A f \in Owned \cup Spare :
         /\ f.addr + f.size <= shm_next
         /\ \A g \in Owned \cup Spare : f # g =>
              f.addr + f.size <= g.addr \/ g.addr + g.size <= f.addr
    /\ shm_next <= SegmentSize
    /\ used_bytes = shm_next
=============================================================================
