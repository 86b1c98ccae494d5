------------------------------ MODULE AsyncIo ------------------------------
(* The asynchronous I/O of platform_linux/laio.c for one process, with the  *)
(* wait queue of async.h.  A request that the kernel does not accept waits  *)
(* in submit_waiters until the completion of another one wakes it.  Events  *)
(* are reaped by the cleaner thread of the context and by every thread that *)
(* calls io_cleanup; who wakes a request also submits it again, from its    *)
(* callback (treepass_write_callback and treepass_prefetch_callback call    *)
(* io_async_run).                                                           *)
(*                                                                          *)
(* Abstracted: the addresses and pages of a request, and the result of its  *)
(* I/O, which only its owner looks at.                                      *)
EXTENDS Naturals, Integers, Sequences, FiniteSets

CONSTANTS IoThreads,          \* threads that register with the I/O context
          Cleaner,            \* its laio_cleaner thread
          Requests,           \* the requests that are ever run
          kernel_queue_size,  \* requests the kernel holds at a time
          Nil

\* What the theorems assume of them.
IoAssumption == /\ IsFiniteSet(Requests)
                /\ Cleaner \notin IoThreads
                /\ Nil \notin Requests
ASSUME IoConstants == IoAssumption

Actors == IoThreads \cup {Cleaner}

VARIABLES
    registered,  \* threads with an index in io->ctx_idx
    context,     \* the io_process_context: "none", "up", or "closing" when
                 \*   the last thread holds ctx_lock and waits for the cleaner
    io_count,    \* pctx->io_count
    kernel,      \* request -> "none", "queued" or "complete"
    state,       \* request -> who has its state: "new", "owned" (somebody runs
                 \*   it), "kernel", "waiting" or "done"
    waiters,     \* pctx->submit_waiters
    qlock,       \* who holds the lock of that queue
    io_pc,       \* actor -> where it is
    cur,         \* actor -> the request it runs or completes
    cleanup      \* thread -> the io_cleanup it is in: "none", "one", "all",
                 \*   "last" (of laio_deregister_thread), or "served"

ioVars == <<registered, context, io_count, kernel, state, waiters, qlock, io_pc,
            cur, cleanup>>

IoInit ==
    /\ registered = {}
    /\ context = "none"
    /\ io_count = 0
    /\ kernel = [r \in Requests |-> "none"]
    /\ state = [r \in Requests |-> "new"]
    /\ waiters = <<>>
    /\ qlock = Nil
    /\ io_pc = [a \in Actors |-> "out"]
    /\ cur = [a \in Actors |-> Nil]
    /\ cleanup = [t \in IoThreads |-> "none"]

IoGoto(a, label) == io_pc' = [io_pc EXCEPT ![a] = label]
SetState(r, s) == state' = [state EXCEPT ![r] = s]

\* laio_async_run returns: into the loop that reaps events, or to the caller.
Back(a) == IF a = Cleaner \/ cleanup[a] # "none" THEN "reap" ELSE "idle"

\* Events that were not reaped keep their place in the ring.
QueueFull == Cardinality({r \in Requests : kernel[r] # "none"})
               >= kernel_queue_size

-----------------------------------------------------------------------------
(* Registering.                                                             *)

\* The first thread sets the context up and starts its cleaner.
Register(t) ==
    /\ io_pc[t] = "out"
    /\ context # "closing"
    /\ registered' = registered \cup {t}
    /\ context' = "up"
    /\ IF context = "none"
       THEN /\ io_pc' = [io_pc EXCEPT ![t] = "idle", ![Cleaner] = "reap"]
            /\ waiters' = <<>>
            /\ qlock' = Nil
       ELSE IoGoto(t, "idle") /\ UNCHANGED <<waiters, qlock>>
    /\ UNCHANGED <<io_count, kernel, state, cur, cleanup>>

\* The cleanup of laio_deregister_thread found io_count 0; now ctx_lock.  The
\* last thread destroys the kernel's context and waits for the cleaner.
Deregister(t) ==
    /\ io_pc[t] = "deregister"
    /\ context = "up"
    /\ registered' = registered \ {t}
    /\ IF registered = {t} THEN context' = "closing" /\ IoGoto(t, "join")
                           ELSE IoGoto(t, "out") /\ UNCHANGED context
    /\ UNCHANGED <<io_count, kernel, state, waiters, qlock, cur, cleanup>>

CleanerExit ==
    /\ io_pc[Cleaner] = "reap"
    /\ context = "closing"
    /\ IoGoto(Cleaner, "out")
    /\ UNCHANGED <<registered, context, io_count, kernel, state, waiters,
                   qlock, cur, cleanup>>

Join(t) ==
    /\ io_pc[t] = "join"
    /\ io_pc[Cleaner] = "out"
    /\ context' = "none"
    /\ IoGoto(t, "out")
    /\ UNCHANGED <<registered, io_count, kernel, state, waiters, qlock, cur,
                   cleanup>>

-----------------------------------------------------------------------------
(* laio_async_run.                                                          *)

\* A mistake in Start: the request is counted only once it is submitted.
StartUncounted(t, r) ==
    /\ io_pc[t] = "idle"
    /\ state[r] = "new"
    /\ SetState(r, "owned")
    /\ cur' = [cur EXCEPT ![t] = r]
    /\ IoGoto(t, "submit")
    /\ UNCHANGED <<registered, context, io_count, kernel, waiters, qlock,
                   cleanup>>

\* The first call counts the request before it submits it.
Start(t, r) ==
    /\ io_pc[t] = "idle"
    /\ state[r] = "new"
    /\ io_count' = io_count + 1
    /\ SetState(r, "owned")
    /\ cur' = [cur EXCEPT ![t] = r]
    /\ IoGoto(t, "submit")
    /\ UNCHANGED <<registered, context, kernel, waiters, qlock, cleanup>>

\* io_submit, without or with the lock of the queue: the kernel has the
\* request, and its state must not be touched again.
Accepted(a) ==
    /\ io_pc[a] \in {"submit", "submit_locked"}
    /\ ~QueueFull
    /\ kernel' = [kernel EXCEPT ![cur[a]] = "queued"]
    /\ SetState(cur[a], "kernel")
    /\ IoGoto(a, IF io_pc[a] = "submit" THEN Back(a) ELSE "unlock")
    /\ UNCHANGED <<registered, context, io_count, waiters, qlock, cur, cleanup>>

\* A hard failure: the request is done.
Refused(a) ==
    /\ io_pc[a] \in {"submit", "submit_locked"}
    /\ io_count' = io_count - 1
    /\ SetState(cur[a], "done")
    /\ IoGoto(a, IF io_pc[a] = "submit" THEN Back(a) ELSE "unlock")
    /\ UNCHANGED <<registered, context, kernel, waiters, qlock, cur, cleanup>>

\* EAGAIN: try once more with the lock, then wait.
TryAgain(a) ==
    /\ io_pc[a] \in {"submit", "submit_locked"}
    /\ QueueFull
    /\ IoGoto(a, IF io_pc[a] = "submit" THEN "lock" ELSE "append")
    /\ UNCHANGED <<registered, context, io_count, kernel, state, waiters,
                   qlock, cur, cleanup>>

LockQueue(a) ==
    /\ io_pc[a] \in {"lock", "release_lock"}
    /\ qlock = Nil
    /\ qlock' = a
    /\ IoGoto(a, IF io_pc[a] = "lock" THEN "submit_locked" ELSE "pop")
    /\ UNCHANGED <<registered, context, io_count, kernel, state, waiters, cur,
                   cleanup>>

AppendWaiter(a) ==
    /\ io_pc[a] = "append"
    /\ waiters' = Append(waiters, cur[a])
    /\ SetState(cur[a], "waiting")
    /\ IoGoto(a, "unlock")
    /\ UNCHANGED <<registered, context, io_count, kernel, qlock, cur, cleanup>>

UnlockQueue(a) ==
    /\ io_pc[a] = "unlock"
    /\ qlock' = Nil
    /\ IoGoto(a, Back(a))
    /\ UNCHANGED <<registered, context, io_count, kernel, state, waiters, cur,
                   cleanup>>

-----------------------------------------------------------------------------
(* laio_cleanup and laio_cleanup_one.                                       *)

\* io_cleanup(io, 1), io_cleanup(io, 0), or laio_deregister_thread.
Cleanup(t, n) ==
    /\ io_pc[t] = "idle"
    /\ cleanup' = [cleanup EXCEPT ![t] = n]
    /\ IoGoto(t, "reap")
    /\ UNCHANGED <<registered, context, io_count, kernel, state, waiters,
                   qlock, cur>>

CleanupEnd(t) ==
    /\ io_pc[t] = "reap"
    /\ io_count <= 0 \/ cleanup[t] = "served"
    /\ IoGoto(t, IF cleanup[t] = "last" THEN "deregister" ELSE "idle")
    /\ cleanup' = [cleanup EXCEPT ![t] = "none"]
    /\ UNCHANGED <<registered, context, io_count, kernel, state, waiters,
                   qlock, cur>>

\* io_getevents
Reap(a, r) ==
    /\ io_pc[a] = "reap"
    /\ a # Cleaner => io_count > 0 /\ cleanup[a] # "served"
    /\ context = "up"
    /\ kernel[r] = "complete"
    /\ kernel' = [kernel EXCEPT ![r] = "none"]
    /\ cur' = [cur EXCEPT ![a] = r]
    /\ cleanup' = [t \in IoThreads |-> IF t = a /\ cleanup[t] = "one"
                                     THEN "served" ELSE cleanup[t]]
    /\ IoGoto(a, "count")
    /\ UNCHANGED <<registered, context, io_count, state, waiters, qlock>>

CountDown(a) ==
    /\ io_pc[a] = "count"
    /\ io_count' = io_count - 1
    /\ IoGoto(a, "callback")
    /\ UNCHANGED <<registered, context, kernel, state, waiters, qlock, cur,
                   cleanup>>

\* The owner's callback runs the request again, which returns at once.
Callback(a) ==
    /\ io_pc[a] = "callback"
    /\ SetState(cur[a], "done")
    /\ IoGoto(a, "release")
    /\ UNCHANGED <<registered, context, io_count, kernel, waiters, qlock, cur,
                   cleanup>>

\* async_wait_queue_release_one looks at the head without the lock.
PeekWaiters(a) ==
    /\ io_pc[a] = "release"
    /\ IoGoto(a, IF waiters = <<>> THEN "reap" ELSE "release_lock")
    /\ UNCHANGED <<registered, context, io_count, kernel, state, waiters,
                   qlock, cur, cleanup>>

PopWaiter(a) ==
    /\ io_pc[a] = "pop"
    /\ IF waiters = <<>>
       THEN cur' = [cur EXCEPT ![a] = Nil] /\ UNCHANGED waiters
       ELSE /\ cur' = [cur EXCEPT ![a] = Head(waiters)]
            /\ waiters' = Tail(waiters)
    /\ IoGoto(a, "release_unlock")
    /\ UNCHANGED <<registered, context, io_count, kernel, state, qlock, cleanup>>

\* The waiter's callback runs the request, first without the lock again.
WakeWaiter(a) ==
    /\ io_pc[a] = "release_unlock"
    /\ qlock' = Nil
    /\ IF cur[a] = Nil THEN IoGoto(a, "reap") /\ UNCHANGED state
                       ELSE IoGoto(a, "submit") /\ SetState(cur[a], "owned")
    /\ UNCHANGED <<registered, context, io_count, kernel, waiters, cur, cleanup>>

-----------------------------------------------------------------------------
\* The kernel finishes a request.
Complete(r) ==
    /\ kernel[r] = "queued"
    /\ kernel' = [kernel EXCEPT ![r] = "complete"]
    /\ UNCHANGED <<registered, context, io_count, state, waiters, qlock, io_pc,
                   cur, cleanup>>

Run(a) == \/ Accepted(a) \/ TryAgain(a) \/ LockQueue(a) \/ AppendWaiter(a)
          \/ UnlockQueue(a)
CleanupOne(a) == \/ \E r \in Requests : Reap(a, r)
                 \/ CountDown(a) \/ Callback(a) \/ PeekWaiters(a)
                 \/ PopWaiter(a) \/ WakeWaiter(a)

IoNext ==
    \/ \E t \in IoThreads : \/ Register(t) \/ Deregister(t) \/ Join(t)
                            \/ \E r \in Requests : Start(t, r)
                            \/ \E n \in {"one", "all", "last"} : Cleanup(t, n)
                            \/ CleanupEnd(t)
    \/ CleanerExit
    \/ \E a \in Actors : Run(a) \/ Refused(a) \/ CleanupOne(a)
    \/ \E r \in Requests : Complete(r)

IoSpec == IoInit /\ [][IoNext]_ioVars

(* What an actor has begun it goes on with: threads are scheduled, spin     *)
(* locks of finitely many holders are won in the end, and the device        *)
(* answers.  Nobody has to register, start a request or call io_cleanup.    *)
IoFairness ==
    /\ \A a \in Actors : WF_ioVars(Run(a)) /\ WF_ioVars(CleanupOne(a))
    /\ \A a \in Actors : SF_ioVars(LockQueue(a))
    /\ \A t \in IoThreads : /\ WF_ioVars(Deregister(t)) /\ WF_ioVars(Join(t))
                            /\ WF_ioVars(CleanupEnd(t))
    /\ WF_ioVars(CleanerExit)
    /\ \A r \in Requests : WF_ioVars(Complete(r))
IoFairSpec == IoSpec /\ IoFairness

-----------------------------------------------------------------------------
(* When the last thread has closed the context nothing is left of it: no    *)
(* request is in the kernel, in the queue, in somebody's hands or counted,  *)
(* and every callback has been called.  The count is what closing waits     *)
(* for, so it must cover a request in every stage from its first call on    *)
(* (laio.c:537 asserts it in debug builds).                                 *)
ClosedIsQuiet ==
    /\ context # "up" =>
         /\ io_count = 0
         /\ waiters = <<>>
         /\ \A r \in Requests : kernel[r] = "none"
    /\ context = "none" => \A r \in Requests : state[r] \in {"new", "done"}

(* A request that was begun is completed.  laio.c:313 says of the loop that *)
(* it is equivalent to async_wait_on_queue_until, which looks again after   *)
(* it has put itself on the queue.                                          *)
RequestsComplete ==
    \A r \in Requests : state[r] # "new" ~> state[r] = "done"
=============================================================================
