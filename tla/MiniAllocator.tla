--------------------------- MODULE MiniAllocator ---------------------------
(***************************************************************************)
(* One mini allocator (mini_allocator.c): several threads take page        *)
(* addresses from the batches of a tree under construction, every extent   *)
(* is recorded in a chain of meta pages, and the last reference gives all  *)
(* of them back.  An address is <<extent, page>>.  next_addr[b] is the     *)
(* lock of batch b as well: WAIT while a thread works on it.               *)
(***************************************************************************)
EXTENDS Naturals, Sequences, FiniteSets

CONSTANTS
    Threads,
    NumBatches,         \* mini->num_batches
    NumExtents,         \* extents of the device
    PagesPerExtent,     \* cache_extent_size / cache_page_size
    EntriesPerPage,     \* entries that fit in a meta page
    MaxAllocs           \* bound: calls of mini_alloc

VARIABLES
    ref,            \* extent -> its count in the extent allocator
    cached,         \* extents that may have pages in the cache
    others,         \* extents of other users of the device
    next_addr,      \* batch -> address to hand out next, or WAIT
    next_extent,    \* batch -> the extent taken in advance
    meta_tail,      \* address of the last meta page
    next_meta_addr, \* meta page -> the next one of the chain
    entries,        \* meta page -> the extents it records
    page_lock,      \* meta page -> thread that has it write-locked, or NONE
    pc, batch, addr, tail,      \* thread -> label and locals of its call
    todo,           \* thread -> <<extent, discard first>> it gives back
    holds,          \* thread -> references to the mini allocator it holds
    released,       \* mini_release has been called
    given           \* the addresses handed out, in order

vars == <<ref, cached, others, next_addr, next_extent, meta_tail,
          next_meta_addr, entries, page_lock, pc, batch, addr, tail, todo,
          holds, released, given>>

Batches == 1 .. NumBatches
Extents == 1 .. NumExtents
Addrs == Extents \X (0 .. PagesPerExtent - 1)
NONE == 0                   \* no thread, no batch
NO_PAGE == <<0, 0>>         \* address 0 ends the chain
BOUNDARY == <<0, 0>>        \* next_addr % extent_size = 0
WAIT == <<0, 1>>            \* MINI_WAIT
meta_head == <<1, 0>>
AL_FREE == 0
AL_NO_REFS == 1
MINI_NO_REFS == 2

Free == {e \in Extents : ref[e] = AL_FREE}
\* Which free extent the allocator answers with is immaterial: the first one.
Allocated == {e \in Free : \A f \in Free : e <= f}

\* mini_init: the head page is written and given its first reference, then
\* every batch takes an extent in advance.
Init ==
    \E first \in Threads :
        /\ next_extent = [b \in Batches |-> b + 1]
        /\ ref = [e \in Extents |->
                    IF e = meta_head[1] THEN MINI_NO_REFS + 1
                    ELSE IF e - 1 \in Batches THEN 2 ELSE 0]
        /\ cached = {meta_head[1]}
        /\ others = {}
        /\ next_addr = [b \in Batches |-> BOUNDARY]
        /\ meta_tail = meta_head
        /\ next_meta_addr = [a \in Addrs |-> NO_PAGE]
        /\ entries = [a \in Addrs |-> <<>>]
        /\ page_lock = [a \in Addrs |-> NONE]
        /\ pc = [t \in Threads |-> "idle"]
        /\ batch = [t \in Threads |-> NONE]
        /\ addr = [t \in Threads |-> BOUNDARY]
        /\ tail = [t \in Threads |-> meta_head]
        /\ todo = [t \in Threads |-> <<>>]
        /\ holds = [t \in Threads |-> IF t = first THEN 1 ELSE 0]
        /\ released = FALSE
        /\ given = <<>>

Goto(t, from, to) == pc[t] = from /\ pc' = [pc EXCEPT ![t] = to]

refs == <<others, holds, todo, released>>
chain == <<meta_tail, next_meta_addr, entries, page_lock>>

Busy == Cardinality({t \in Threads : pc[t] # "idle"})

LockBatch(t, b) ==
    /\ ~released /\ Len(given) + Busy < MaxAllocs
    /\ next_addr[b] # WAIT
    /\ Goto(t, "idle", IF next_addr[b][2] = 0 THEN "switch" ELSE "unlock")
    /\ next_addr' = [next_addr EXCEPT ![b] = WAIT]
    /\ batch' = [batch EXCEPT ![t] = b]
    /\ addr' = [addr EXCEPT ![t] = next_addr[b]]
    /\ UNCHANGED <<ref, cached, next_extent, chain, tail, given, refs>>

\* The batch goes on in the extent it has in reserve and takes another one.
SwitchExtent(t) ==
    /\ Goto(t, "switch", "read_tail")
    /\ \E e \in Allocated :
         /\ ref' = [ref EXCEPT ![e] = 2]
         /\ next_extent' = [next_extent EXCEPT ![batch[t]] = e]
    /\ addr' = [addr EXCEPT ![t] = <<next_extent[batch[t]], 0>>]
    /\ UNCHANGED <<cached, next_addr, chain, batch, tail, given, refs>>

ReadTail(t) ==
    /\ Goto(t, "read_tail", "lock_tail")
    /\ tail' = [tail EXCEPT ![t] = meta_tail]
    /\ UNCHANGED <<ref, cached, next_addr, next_extent, chain, batch, addr,
                   given, refs>>

\* A mistake in StillTail: the tail is not read again under the page's lock.
StillTailUnchecked(t) == TRUE

StillTail(t) == tail[t] = meta_tail

\* cache_get waits for the writer of the page; the claim is tried only if
\* the page is still the tail.
LockTail(t) ==
    /\ page_lock[tail[t]] = NONE
    /\ IF StillTail(t)
         THEN Goto(t, "lock_tail", "append")
              /\ page_lock' = [page_lock EXCEPT ![tail[t]] = t]
         ELSE Goto(t, "lock_tail", "read_tail") /\ UNCHANGED page_lock
    /\ UNCHANGED <<ref, cached, next_addr, next_extent, meta_tail,
                   next_meta_addr, entries, batch, addr, tail, given, refs>>

Record(t, page) == entries' = [entries EXCEPT ![page] = Append(@, addr[t][1])]

AppendEntry(t) ==
    /\ Len(entries[tail[t]]) < EntriesPerPage
    /\ Goto(t, "append", "unlock")
    /\ Record(t, tail[t])
    /\ page_lock' = [page_lock EXCEPT ![tail[t]] = NONE]
    /\ UNCHANGED <<ref, cached, next_addr, next_extent, meta_tail,
                   next_meta_addr, batch, addr, tail, given, refs>>

\* The page is full: a new one, locked by cache_alloc, becomes the tail.
ExtendChain(t) ==
    /\ Len(entries[tail[t]]) = EntriesPerPage
    /\ Goto(t, "append", "handover")
    /\ \E new \in Addrs :
         /\ IF meta_tail[2] + 1 < PagesPerExtent
              THEN new = <<meta_tail[1], meta_tail[2] + 1>> /\ UNCHANGED ref
              ELSE new[1] \in Allocated /\ new[2] = 0 /\ ref' = [ref EXCEPT ![new[1]] = 2]
         /\ next_meta_addr' = [next_meta_addr EXCEPT ![tail[t]] = new]
         /\ page_lock' = [page_lock EXCEPT ![new] = t]
         /\ cached' = cached \cup {new[1]}
         /\ meta_tail' = new
    /\ UNCHANGED <<next_addr, next_extent, entries, batch, addr, tail, given, refs>>

UnlockOldTail(t) ==
    /\ Goto(t, "handover", "fill")
    /\ page_lock' = [page_lock EXCEPT ![tail[t]] = NONE]
    /\ UNCHANGED <<ref, cached, next_addr, next_extent, meta_tail,
                   next_meta_addr, entries, batch, addr, tail, given, refs>>

FillNewTail(t) ==
    /\ Goto(t, "fill", "unlock")
    /\ Record(t, next_meta_addr[tail[t]])
    /\ page_lock' = [page_lock EXCEPT ![next_meta_addr[tail[t]]] = NONE]
    /\ UNCHANGED <<ref, cached, next_addr, next_extent, meta_tail,
                   next_meta_addr, batch, addr, tail, given, refs>>

\* The call returns the address, which its caller puts in the cache.
UnlockBatch(t) ==
    /\ Goto(t, "unlock", "idle")
    /\ next_addr' = [next_addr EXCEPT ![batch[t]] =
                        IF addr[t][2] + 1 < PagesPerExtent
                        THEN <<addr[t][1], addr[t][2] + 1>> ELSE BOUNDARY]
    /\ given' = Append(given, addr[t])
    /\ cached' = cached \cup {addr[t][1]}
    /\ batch' = [batch EXCEPT ![t] = NONE]
    /\ addr' = [addr EXCEPT ![t] = BOUNDARY]
    /\ tail' = [tail EXCEPT ![t] = meta_head]
    /\ UNCHANGED <<ref, next_extent, chain, refs>>

-----------------------------------------------------------------------------

building == <<next_addr, next_extent, chain, batch, addr, tail, given>>

\* The reserve extents were never used: mini_release gives them back without
\* looking for their pages in the cache.
Release(t) ==
    /\ ~released /\ holds[t] > 0 /\ \A u \in Threads : pc[u] = "idle"
    /\ released' = TRUE
    /\ Goto(t, "idle", "give")
    /\ todo' = [todo EXCEPT ![t] = [b \in Batches |-> <<next_extent[b], FALSE>>]]
    /\ UNCHANGED <<building, ref, cached, others, holds>>

IncRef(t, u) ==
    /\ released /\ pc[t] = "idle" /\ holds[t] > 0 /\ holds[u] = 0
    /\ ref' = [ref EXCEPT ![meta_head[1]] = @ + 1]
    /\ holds' = [holds EXCEPT ![u] = @ + 1]
    /\ UNCHANGED <<building, cached, others, pc, todo, released>>

\* The chain from the head, read as mini_for_each and mini_deinit walk it.
RECURSIVE Chain(_)
Chain(a) == IF next_meta_addr[a] = NO_PAGE THEN <<a>>
            ELSE <<a>> \o Chain(next_meta_addr[a])

RECURSIVE Flatten(_)
Flatten(s) == IF s = <<>> THEN <<>> ELSE Head(s) \o Flatten(Tail(s))

Recorded == LET c == Chain(meta_head)
            IN  Flatten([i \in DOMAIN c |-> entries[c[i]]])

\* A mistake in LeavesExtent: the last extent of the chain is never left.
LeavesExtentNot(c, i) == i < Len(c) /\ c[i][1] # c[i + 1][1]

\* mini_deinit frees an extent when the next meta page is in another one.
LeavesExtent(c, i) == i < Len(c) => c[i][1] # c[i + 1][1]

MetaExtents ==
    LET c == Chain(meta_head)
        last == SelectSeq([i \in DOMAIN c |-> i], LAMBDA i : LeavesExtent(c, i))
    IN  [i \in DOMAIN last |-> c[last[i]][1]]

DecRef(t) ==
    /\ released /\ pc[t] = "idle" /\ holds[t] > 0
    /\ ref' = [ref EXCEPT ![meta_head[1]] = @ - 1]
    /\ holds' = [holds EXCEPT ![t] = @ - 1]
    /\ IF ref'[meta_head[1]] # MINI_NO_REFS THEN UNCHANGED <<pc, todo>>
       ELSE LET all == Recorded \o MetaExtents
            IN  /\ pc' = [pc EXCEPT ![t] = "give"]
                /\ todo' = [todo EXCEPT ![t] =
                                [i \in DOMAIN all |-> <<all[i], TRUE>>]]
    /\ UNCHANGED <<building, cached, others, released>>

-----------------------------------------------------------------------------

\* A mistake in GiveFirst: the pages of the extent stay in the cache.
GiveFirstKept(t) ==
    /\ todo[t] # <<>> /\ Goto(t, "give", "free")
    /\ ref' = [ref EXCEPT ![Head(todo[t])[1]] = @ - 1]
    /\ UNCHANGED <<building, cached, refs>>

\* The two decrements, and between them, where pages may be in the cache,
\* cache_extent_discard: all of mini_dealloc_extent.
GiveFirst(t) ==
    /\ todo[t] # <<>> /\ Goto(t, "give", IF Head(todo[t])[2] THEN "discard" ELSE "free")
    /\ ref' = [ref EXCEPT ![Head(todo[t])[1]] = @ - 1]
    /\ UNCHANGED <<building, cached, refs>>

GiveDiscard(t) ==
    /\ Goto(t, "discard", "free")
    /\ cached' = cached \ {Head(todo[t])[1]}
    /\ UNCHANGED <<building, ref, refs>>

GiveLast(t) ==
    /\ Goto(t, "free", IF Len(todo[t]) = 1 THEN "idle" ELSE "give")
    /\ ref' = [ref EXCEPT ![Head(todo[t])[1]] = @ - 1]
    /\ todo' = [todo EXCEPT ![t] = Tail(@)]
    /\ UNCHANGED <<building, cached, others, holds, released>>

\* Other users of the device, while this allocator gives its extents back
\* (bound: they hold one extent).
OtherAlloc(e) ==
    /\ released /\ others = {} /\ e \in Allocated
    /\ ref' = [ref EXCEPT ![e] = 2]
    /\ others' = others \cup {e}
    /\ UNCHANGED <<building, cached, pc, holds, todo, released>>

OtherFree(e) ==
    /\ e \in others
    /\ ref' = [ref EXCEPT ![e] = AL_FREE]
    /\ others' = others \ {e}
    /\ UNCHANGED <<building, cached, pc, holds, todo, released>>

Next ==
    \/ \E t \in Threads :
         \/ \E b \in Batches : LockBatch(t, b)
         \/ SwitchExtent(t) \/ ReadTail(t) \/ LockTail(t) \/ AppendEntry(t)
         \/ ExtendChain(t) \/ UnlockOldTail(t) \/ FillNewTail(t) \/ UnlockBatch(t)
         \/ Release(t) \/ DecRef(t) \/ \E u \in Threads : IncRef(t, u)
         \/ GiveFirst(t) \/ GiveDiscard(t) \/ GiveLast(t)
    \/ \E e \in Extents : OtherAlloc(e) \/ OtherFree(e)

Spec == Init /\ [][Next]_vars

-----------------------------------------------------------------------------

SeqRange(s) == {s[i] : i \in DOMAIN s}
Idle == \A t \in Threads : pc[t] = "idle"
Alive == ~released \/ \E t \in Threads : holds[t] > 0
Mine == {e \in Extents \ others : ref[e] # AL_FREE}

\* No address is handed out twice although the threads share the batches,
\* and when no call is in progress the extents in use are exactly the
\* recorded ones, those of the chain and, until mini_release, the reserve:
\* none is leaked, and after the last reference none is left.
ExtentsAccounted ==
    /\ \A i, j \in DOMAIN given : given[i] = given[j] => i = j
    /\ Idle => Mine = IF ~Alive THEN {}
                      ELSE SeqRange(Recorded) \cup SeqRange(MetaExtents)
                           \cup (IF released THEN {}
                                 ELSE {next_extent[b] : b \in Batches})

\* The assertions on the counts hold, and an extent that can be allocated
\* again has no page of its old owner in the cache.
GivenBackClean ==
    /\ \A t \in Threads :
         /\ pc[t] = "give" => ref[Head(todo[t])[1]] = 2
         /\ pc[t] \in {"discard", "free"} => ref[Head(todo[t])[1]] = AL_NO_REFS
    /\ Free \cap cached = {}
    /\ others \cap cached = {}

=============================================================================
