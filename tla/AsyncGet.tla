------------------------------ MODULE AsyncGet ------------------------------
(* treepass_get_async: the page cache's get as a coroutine.  It gives up    *)
(* the thread where the synchronous get would spin or block: while somebody *)
(* else loads the page it waits in the queue of the entry, and while it     *)
(* reads the page itself it waits for the I/O.  Its owner runs it again     *)
(* after its callback was called, and only then (async_call_sync_callback). *)
(* The callbacks are called by the threads that reap I/O events, which also *)
(* clear TP_LOADING and wake the waiters of the entry.                      *)
(*                                                                          *)
(* Taken as one step, as PageCache has their steps: treepass_get_read,      *)
(* taking a free entry, and evicting one.  The kernel's queue and the       *)
(* waiters of laio.c are those of AsyncIo without its lost wakeup.  Left    *)
(* out: writers, which the asynchronous get waits for by spinning.          *)
EXTENDS Naturals, Integers, Sequences, FiniteSets

CONSTANTS Gets,               \* coroutines
          Reapers,            \* threads that reap I/O events
          GetAddrs,           \* pages
          GetEntries,         \* entries of the cache
          kernel_reads,       \* reads the kernel holds at a time
          Absent

\* What the theorems assume of them.
GetAssumption == /\ IsFiniteSet(Gets)
                 /\ Absent \notin Gets \cup GetAddrs \cup GetEntries
ASSUME GetConstants == GetAssumption

VARIABLES
    lookup,     \* cc->lookup: page -> entry or Absent
    free,       \* entries with TP_FREE_STATUS
    loading,    \* entries with TP_LOADING
    disk_addr,  \* entry -> page, or Absent
    data,       \* entry -> the page its buffer holds, or Absent
    ref,        \* entry -> reference count
    entry_waiters,  \* entry -> its wait queue
    entry_lock, \* entry -> who holds the lock of that queue
    get_pc, get_addr, get_entry,    \* coroutine -> its treepass_get_async_state
    ready,      \* coroutines whose callback was called since they gave up the
                \*   thread
    io,         \* coroutine -> its read: "none", "queued", "read", "done" or
                \*   "waiting"
    ioWaiters,  \* submit_waiters of the I/O context
    reap_pc,    \* reaper -> where it is
    reap_get,   \* reaper -> the coroutine whose callback it calls
    tell,       \* reaper -> waiters that it is to tell
    last        \* reapers whose coroutine was woken by another's completion

getVars == <<lookup, free, loading, disk_addr, data, ref, entry_waiters,
             entry_lock, get_pc, get_addr, get_entry, ready, io, ioWaiters,
             reap_pc, reap_get, tell, last>>

GetInit ==
    /\ lookup = [a \in GetAddrs |-> Absent]
    /\ free = GetEntries
    /\ loading = {}
    /\ disk_addr = [e \in GetEntries |-> Absent]
    /\ data = [e \in GetEntries |-> Absent]
    /\ ref = [e \in GetEntries |-> 0]
    /\ entry_waiters = [e \in GetEntries |-> <<>>]
    /\ entry_lock = [e \in GetEntries |-> Absent]
    /\ get_pc = [g \in Gets |-> "out"]
    /\ get_addr = [g \in Gets |-> Absent]
    /\ get_entry = [g \in Gets |-> Absent]
    /\ ready = {}
    /\ io = [g \in Gets |-> "none"]
    /\ ioWaiters = <<>>
    /\ reap_pc = [r \in Reapers |-> "idle"]
    /\ reap_get = [r \in Reapers |-> Absent]
    /\ tell = [r \in Reapers |-> <<>>]
    /\ last = {}

GetAt(g, label) == get_pc[g] = label
GetGoto(g, label) == get_pc' = [get_pc EXCEPT ![g] = label]
TakeRef(e) == ref' = [ref EXCEPT ![e] = @ + 1]
DropRef(e) == ref' = [ref EXCEPT ![e] = @ - 1]

cache == <<lookup, free, loading, disk_addr, data>>
queues == <<entry_waiters, entry_lock>>
calls == <<get_addr, get_entry, ready>>
reapers == <<reap_pc, reap_get, tell, last>>
ios == <<io, ioWaiters, reapers>>

-----------------------------------------------------------------------------
(* treepass_get_async, treepass_get_internal_async.                         *)

Begin(g, a) ==
    /\ GetAt(g, "out")
    /\ get_addr' = [get_addr EXCEPT ![g] = a]
    /\ GetGoto(g, "lookup")
    /\ UNCHANGED <<cache, ref, queues, get_entry, ready, ios>>

Lookup(g) ==
    /\ GetAt(g, "lookup")
    /\ get_entry' = [get_entry EXCEPT ![g] = lookup[get_addr[g]]]
    /\ GetGoto(g, IF lookup[get_addr[g]] = Absent THEN "acquire" ELSE "read")
    /\ UNCHANGED <<cache, ref, queues, get_addr, ready, ios>>

-----------------------------------------------------------------------------
(* treepass_get_in_cache_async.                                             *)

\* treepass_get_read fails on an entry that was evicted.
GetRead(g) ==
    /\ GetAt(g, "read")
    /\ IF get_entry[g] \in free THEN GetGoto(g, "lookup") /\ UNCHANGED ref
                                ELSE GetGoto(g, "addr") /\ TakeRef(get_entry[g])
    /\ UNCHANGED <<cache, queues, calls, ios>>

\* Raced with eviction if it is another page's: drop it and start over.
CheckAddr(g, next) ==
    /\ IF disk_addr[get_entry[g]] # get_addr[g]
       THEN GetGoto(g, "lookup") /\ DropRef(get_entry[g])
       ELSE GetGoto(g, next) /\ UNCHANGED ref
    /\ UNCHANGED <<cache, queues, calls, ios>>

VerifyBefore(g) == GetAt(g, "addr") /\ CheckAddr(g, "test")
VerifyAfter(g) == GetAt(g, "verify") /\ CheckAddr(g, "have")

\* async_wait_on_queue_until
TestLoading(g) ==
    /\ GetAt(g, "test")
    /\ GetGoto(g, IF get_entry[g] \in loading THEN "lock" ELSE "verify")
    /\ UNCHANGED <<cache, ref, queues, calls, ios>>

LockWaiters(g) ==
    /\ GetAt(g, "lock")
    /\ entry_lock[get_entry[g]] = Absent
    /\ entry_lock' = [entry_lock EXCEPT ![get_entry[g]] = g]
    /\ GetGoto(g, "append")
    /\ UNCHANGED <<cache, ref, entry_waiters, calls, ios>>

JoinWaiters(g) ==
    /\ GetAt(g, "append")
    /\ entry_waiters' = [entry_waiters EXCEPT ![get_entry[g]] = Append(@, g)]
    /\ GetGoto(g, "recheck")
    /\ UNCHANGED <<cache, ref, entry_lock, calls, ios>>

\* A mistake in Recheck: it gives up the thread without looking again.
RecheckNot(g) ==
    /\ GetAt(g, "recheck")
    /\ entry_lock' = [entry_lock EXCEPT ![get_entry[g]] = Absent]
    /\ GetGoto(g, "waiting")
    /\ UNCHANGED <<cache, ref, entry_waiters, calls, ios>>

\* async_wait_queue_remove unlinks what follows the predecessor that the append
\* returned, under the same lock: the last one (LastIsOwn, its assertions).
AllButLast(q) == SubSeq(q, 1, Len(q) - 1)

\* It looks again while it is in the queue, and gives up the thread if it has
\* to; otherwise it takes itself out.
Recheck(g) ==
    /\ GetAt(g, "recheck")
    /\ entry_lock' = [entry_lock EXCEPT ![get_entry[g]] = Absent]
    /\ IF get_entry[g] \in loading
       THEN GetGoto(g, "waiting") /\ UNCHANGED entry_waiters
       ELSE /\ GetGoto(g, "verify")
            /\ entry_waiters' =
                 [entry_waiters EXCEPT ![get_entry[g]] = AllButLast(@)]
    /\ UNCHANGED <<cache, ref, calls, ios>>

-----------------------------------------------------------------------------
(* treepass_get_from_disk_async.                                            *)

\* treepass_acquire_entry_for_load: a free entry, then the lookup, then the
\* address.
Acquire(g, e) ==
    /\ GetAt(g, "acquire")
    /\ e \in free
    /\ free' = free \ {e}
    /\ loading' = loading \cup {e}
    /\ TakeRef(e)
    /\ get_entry' = [get_entry EXCEPT ![g] = e]
    /\ GetGoto(g, "claim")
    /\ UNCHANGED <<lookup, disk_addr, data, queues, get_addr, ready, ios>>

ClaimLookup(g) ==
    /\ GetAt(g, "claim")
    /\ lookup[get_addr[g]] = Absent
    /\ lookup' = [lookup EXCEPT ![get_addr[g]] = get_entry[g]]
    /\ GetGoto(g, "setaddr")
    /\ UNCHANGED <<free, loading, disk_addr, data, ref, queues, calls, ios>>

\* Somebody else loads the page: the entry is given back.
AbortLoad(g) ==
    /\ GetAt(g, "claim")
    /\ lookup[get_addr[g]] # Absent
    /\ DropRef(get_entry[g])
    /\ free' = free \cup {get_entry[g]}
    /\ loading' = loading \ {get_entry[g]}
    /\ GetGoto(g, "lookup")
    /\ UNCHANGED <<lookup, disk_addr, data, queues, calls, ios>>

SetAddr(g) ==
    /\ GetAt(g, "setaddr")
    /\ disk_addr' = [disk_addr EXCEPT ![get_entry[g]] = get_addr[g]]
    /\ GetGoto(g, "submit")
    /\ UNCHANGED <<lookup, free, loading, data, ref, queues, calls, ios>>

ReadsFull == Cardinality({g \in Gets : io[g] \in {"queued", "read"}})
               >= kernel_reads

\* io_async_run: the kernel takes the read, or it waits until it is told to
\* try again.
Submit(g) ==
    /\ GetAt(g, "submit")
    /\ IF ReadsFull
       THEN /\ io' = [io EXCEPT ![g] = "waiting"]
            /\ ioWaiters' = Append(ioWaiters, g)
       ELSE io' = [io EXCEPT ![g] = "queued"] /\ UNCHANGED ioWaiters
    /\ GetGoto(g, "waiting")
    /\ UNCHANGED <<cache, ref, queues, calls, reapers>>

-----------------------------------------------------------------------------
\* The owner runs it again: after the wait for another's load, after the I/O,
\* or to submit once more.
Resume(g) ==
    /\ GetAt(g, "waiting")
    /\ g \in ready
    /\ ready' = ready \ {g}
    /\ GetGoto(g, CASE io[g] = "done" -> "have"
                    [] io[g] = "waiting" -> "submit"
                    [] OTHER -> "verify")
    /\ io' = [io EXCEPT ![g] = "none"]
    /\ UNCHANGED <<cache, ref, queues, get_addr, get_entry, ioWaiters, reapers>>

\* treepass_unget
Unget(g) ==
    /\ GetAt(g, "have")
    /\ DropRef(get_entry[g])
    /\ GetGoto(g, "out")
    /\ get_addr' = [get_addr EXCEPT ![g] = Absent]
    /\ get_entry' = [get_entry EXCEPT ![g] = Absent]
    /\ UNCHANGED <<cache, queues, ready, ios>>

\* treepass_try_evict succeeds on a page nobody refers to.
Evict(e) ==
    /\ e \notin free \cup loading
    /\ ref[e] = 0
    /\ lookup' = [lookup EXCEPT ![disk_addr[e]] = Absent]
    /\ disk_addr' = [disk_addr EXCEPT ![e] = Absent]
    /\ free' = free \cup {e}
    /\ UNCHANGED <<loading, data, ref, queues, get_pc, calls, ios>>

-----------------------------------------------------------------------------
(* The device, and the threads that reap its events.                        *)

Read(g) ==
    /\ io[g] = "queued"
    /\ io' = [io EXCEPT ![g] = "read"]
    /\ data' = [data EXCEPT ![get_entry[g]] = get_addr[g]]
    /\ UNCHANGED <<lookup, free, loading, disk_addr, ref, queues, get_pc, calls,
                   ioWaiters, reapers>>

RAt(r, label) == reap_pc[r] = label
RGoto(r, label) == reap_pc' = [reap_pc EXCEPT ![r] = label]
REntry(r) == get_entry[reap_get[r]]

\* The reaper calls the callback of g, or of nobody (Absent).
RServe(r, g, label) ==
    /\ RGoto(r, label)
    /\ reap_get' = [reap_get EXCEPT ![r] = g]

\* laio_cleanup_one reaps an event and calls back whoever it is of.
ReapRead(r, g) ==
    /\ RAt(r, "idle")
    /\ io[g] = "read"
    /\ io' = [io EXCEPT ![g] = "done"]
    /\ RServe(r, g, "finish")
    /\ UNCHANGED <<cache, ref, queues, get_pc, calls, ioWaiters, tell, last>>

\* treepass_get_from_disk_async_callback, treepass_finish_load: clear the flag;
\* async_wait_queue_release_all looks at the queue without its lock.
FinishLoad(r) ==
    /\ RAt(r, "finish")
    /\ loading' = loading \ {REntry(r)}
    /\ RGoto(r, "peek")
    /\ UNCHANGED <<lookup, free, disk_addr, data, ref, queues, get_pc, calls, io,
                   ioWaiters, reap_get, tell, last>>

PeekEntry(r) ==
    /\ RAt(r, "peek")
    /\ RGoto(r, IF entry_waiters[REntry(r)] = <<>> THEN "callback" ELSE "take")
    /\ UNCHANGED <<cache, ref, queues, get_pc, calls, io, ioWaiters, reap_get,
                   tell, last>>

\* Under the lock it takes the whole queue.
TakeWaiters(r) ==
    /\ RAt(r, "take")
    /\ entry_lock[REntry(r)] = Absent
    /\ tell' = [tell EXCEPT ![r] = entry_waiters[REntry(r)]]
    /\ RGoto(r, "tell")
    /\ entry_waiters' = [entry_waiters EXCEPT ![REntry(r)] = <<>>]
    /\ UNCHANGED <<cache, ref, entry_lock, get_pc, calls, io, ioWaiters, reap_get,
                   last>>

TellWaiter(r) ==
    /\ RAt(r, "tell")
    /\ IF tell[r] = <<>>
       THEN RGoto(r, "callback") /\ UNCHANGED <<ready, tell>>
       ELSE /\ ready' = ready \cup {Head(tell[r])}
            /\ tell' = [tell EXCEPT ![r] = Tail(@)]
            /\ UNCHANGED reap_pc
    /\ UNCHANGED <<cache, ref, queues, get_pc, get_addr, get_entry, io, ioWaiters,
                   reap_get, last>>

\* The callback of the coroutine itself.
CallBack(r) ==
    /\ RAt(r, "callback")
    /\ ready' = ready \cup {reap_get[r]}
    /\ RServe(r, Absent, IF r \in last THEN "idle" ELSE "release")
    /\ last' = last \ {r}
    /\ UNCHANGED <<cache, ref, queues, get_pc, get_addr, get_entry, io, ioWaiters,
                   tell>>

\* async_wait_queue_release_one(submit_waiters): a read that was not accepted
\* is told to try again, by the callback it gave for its completion.
ReleaseOne(r) ==
    /\ RAt(r, "release")
    /\ IF ioWaiters = <<>>
       THEN RServe(r, Absent, "idle") /\ UNCHANGED <<ioWaiters, last>>
       ELSE /\ RServe(r, Head(ioWaiters), "finish")
            /\ ioWaiters' = Tail(ioWaiters)
            /\ last' = last \cup {r}
    /\ UNCHANGED <<cache, ref, queues, get_pc, calls, io, tell>>

-----------------------------------------------------------------------------
InCache(g) == \/ GetRead(g) \/ VerifyBefore(g) \/ TestLoading(g)
              \/ LockWaiters(g) \/ JoinWaiters(g) \/ Recheck(g)
              \/ VerifyAfter(g)
FromDisk(g) == \/ \E e \in GetEntries : Acquire(g, e)
               \/ ClaimLookup(g) \/ AbortLoad(g) \/ SetAddr(g) \/ Submit(g)
Reaping(r) == \/ \E g \in Gets : ReapRead(r, g)
              \/ FinishLoad(r) \/ PeekEntry(r) \/ TakeWaiters(r)
              \/ TellWaiter(r) \/ CallBack(r) \/ ReleaseOne(r)

GetNext == \/ \E g \in Gets : \/ \E a \in GetAddrs : Begin(g, a)
                              \/ Lookup(g) \/ InCache(g) \/ FromDisk(g)
                              \/ Resume(g) \/ Unget(g) \/ Read(g)
           \/ \E r \in Reapers : Reaping(r)
           \/ \E e \in GetEntries : Evict(e)

GetSpec == GetInit /\ [][GetNext]_getVars

-----------------------------------------------------------------------------
\* Where a coroutine has a reference to its entry.
Holding == {"addr", "test", "lock", "append", "recheck", "waiting", "verify",
            "claim", "setaddr", "submit", "have"}
Holders(e) == {g \in Gets : get_pc[g] \in Holding /\ get_entry[g] = e}
HasPage(g) == GetAt(g, "have")

\* It gave up its thread for another's load, and was not called back yet.
Sleeps(g) == GetAt(g, "waiting") /\ io[g] = "none" /\ g \notin ready

In(g, q) == \E i \in 1 .. Len(q) : q[i] = g

\* A thread that clears TP_LOADING of e and will still look at its queue.
WillLook(e) == \E r \in Reapers : /\ reap_pc[r] \in {"finish", "peek", "take"}
                                  /\ REntry(r) = e
Told(g) == \E r \in Reapers : In(g, tell[r])

(* No coroutine sleeps for ever: one that gave up its thread for another's  *)
(* load is about to be called back, or is in the queue of an entry that is  *)
(* still loading or whose queue will be looked at.  The emptiness test      *)
(* without the lock in async_wait_queue_release_all (async.h:362) relies on *)
(* the second look of the waiter (async.h:397).                             *)
WaitersAreWoken ==
    \A g \in Gets : Sleeps(g) =>
        \/ Told(g)
        \/ /\ In(g, entry_waiters[get_entry[g]])
           /\ get_entry[g] \in loading \/ WillLook(get_entry[g])

(* Who takes itself out of a queue is the last one of it (async.h:316 and   *)
(* 322 assert that it is where the append has put it).                      *)
LastIsOwn ==
    \A g \in Gets : GetAt(g, "recheck") =>
        LET q == entry_waiters[get_entry[g]] IN Len(q) > 0 /\ q[Len(q)] = g

(* The page a coroutine has got stays in its entry until the unget, and the *)
(* count of an entry is the number of coroutines that refer to it, whatever *)
(* races its retries have lost; nobody waits for a free entry               *)
(* (treepass.c:1624 and 2057 assert it).                                    *)
PagesAreHeld ==
    /\ \A e \in GetEntries : ref[e] = Cardinality(Holders(e))
    /\ \A g \in Gets : HasPage(g) => /\ disk_addr[get_entry[g]] = get_addr[g]
                                     /\ lookup[get_addr[g]] = get_entry[g]
    /\ \A e \in free : entry_waiters[e] = <<>>

(* All three: a get comes back, with the page it was asked for.             *)
AsyncGetsReturn == WaitersAreWoken /\ LastIsOwn /\ PagesAreHeld

(* A get returns the contents of the page: TP_LOADING, "page is actively    *)
(* being read from disk" (treepass.c:176), stays set until they are there.  *)
(* The callback that clears it (treepass.c:2430) is also the one by which a *)
(* read that the kernel did not accept is told to try again.                *)
GivenIsLoaded == \A g \in Gets : HasPage(g) => data[get_entry[g]] = get_addr[g]
=============================================================================
