----------------------------- MODULE TaskSystem -----------------------------
(***************************************************************************)
(* The task system of task.c: a queue, two counters and a condition        *)
(* variable per task type, background workers, callers that run tasks      *)
(* themselves, thread ids, and the orderly shutdown.  What a thread does   *)
(* while it holds a group's mutex is one step; what it reads or writes     *)
(* without it is a step of its own.  A task may enqueue further tasks      *)
(* while it runs.                                                          *)
(***************************************************************************)
EXTENDS Naturals, Sequences, FiniteSets

CONSTANTS
    Clients,        \* threads that use the library; one of them closes it
    Workers,        \* worker -> task type it serves (num_background_threads)
    MAX_THREADS,    \* thread ids
    MaxTasks,       \* bound: tasks enqueued altogether
    MaxTids         \* bound: how often thread ids are taken and given back

VARIABLES
    tq,             \* type -> queued tasks
    current_waiting_tasks, current_executing_tasks,     \* type -> counter
    waiters,        \* type -> workers in platform_condvar_wait
    stop,           \* type -> bg.stop
    pc, job,        \* thread -> label, and <<task, type>> it runs
    level,          \* client -> task type perform_one looks at
    quiescing,      \* client -> it is in task_perform_until_quiescent
    done,           \* tasks that have run
    enqueued,       \* how many tasks exist
    closing,        \* the library is being closed
    tid,            \* thread -> its id, or NoTid
    tid_bitmask,    \* the free ids
    thread_scratch, \* ids with scratch memory
    registrations

vars == <<tq, current_waiting_tasks, current_executing_tasks, waiters, stop,
          pc, job, level, quiescing, done, enqueued, closing, tid,
          tid_bitmask, thread_scratch, registrations>>

TaskTypes == {1, 2}             \* TASK_TYPE_MEMTABLE, TASK_TYPE_NORMAL
BgThreads == DOMAIN Workers
Threads == Clients \cup BgThreads
Tids == 0 .. MAX_THREADS - 1
NoTid == MAX_THREADS
NoJob == <<0, 0>>

NumBg(g) == Cardinality({w \in BgThreads : Workers[w] = g})

ids == <<tid, tid_bitmask, thread_scratch, registrations>>
queues == <<tq, current_waiting_tasks, enqueued>>
shutdown == <<stop, closing>>

\* What task_config_valid requires: an id for every worker and for the thread
\* that creates the system.
Configured ==
    /\ Clients \cap BgThreads = {}
    /\ IsFiniteSet(Clients) /\ IsFiniteSet(BgThreads)
    /\ \A w \in BgThreads : Workers[w] \in TaskTypes
    /\ MAX_THREADS \in Nat /\ Cardinality(BgThreads) < MAX_THREADS

ASSUME ConfigAssumption == Configured

\* The first ids, given to the threads of S in some order.
FirstTids(S) ==
    CHOOSE f \in [Threads -> Tids \cup {NoTid}] :
        /\ \A t \in Threads : t \in S <=> f[t] < Cardinality(S)
        /\ \A t \in Threads \ S : f[t] = NoTid
        /\ \A s, t \in S : f[s] = f[t] => s = t

\* task_system_create: the creating thread has registered, the workers have
\* been given their ids one after the other and are about to take the mutex.
Init ==
    /\ tq = [g \in TaskTypes |-> <<>>]
    /\ current_waiting_tasks = [g \in TaskTypes |-> 0]
    /\ current_executing_tasks = [g \in TaskTypes |-> 0]
    /\ waiters = [g \in TaskTypes |-> {}]
    /\ stop = [g \in TaskTypes |-> FALSE]
    /\ pc = [t \in Threads |-> IF t \in BgThreads THEN "loop" ELSE "idle"]
    /\ job = [t \in Threads |-> NoJob]
    /\ level = [c \in Clients |-> 1]
    /\ quiescing = [c \in Clients |-> FALSE]
    /\ done = {}
    /\ enqueued = 0
    /\ closing = FALSE
    /\ \E c \in Clients : tid = FirstTids({c} \cup BgThreads)
    /\ tid_bitmask = Tids \ {tid[t] : t \in Threads}
    /\ thread_scratch = {tid[t] : t \in Threads} \ {NoTid}
    /\ registrations = 0

\* A mistake in GivenBack: the bit of the id is cleared again.
GivenBackNot(i) == tid_bitmask \ {i}

\* task_deallocate_threadid
GivenBack(i) == tid_bitmask \cup {i}

-----------------------------------------------------------------------------
\* Enqueueing and taking tasks

\* A mistake in Signal: the condition variable is not signalled.
SignalNone(g) == {{}}

\* platform_condvar_signal: the sets of workers it may wake.
Signal(g) == IF waiters[g] = {} THEN {{}} ELSE {{w} : w \in waiters[g]}

\* A client, or the task a thread is running, enqueues a task; the signal
\* wakes one waiting worker.
Enqueue(t, g, at_head) ==
    /\ enqueued < MaxTasks
    /\ \/ t \in Clients /\ pc[t] = "idle" /\ ~closing /\ tid[t] # NoTid
       \/ pc[t] = "run"
    /\ enqueued' = enqueued + 1
    /\ tq' = [tq EXCEPT ![g] = IF at_head THEN <<enqueued'>> \o @
                               ELSE Append(@, enqueued')]
    /\ current_waiting_tasks' = [current_waiting_tasks EXCEPT ![g] = @ + 1]
    /\ \E woken \in Signal(g) :
         /\ waiters' = [waiters EXCEPT ![g] = @ \ woken]
         /\ pc' = [u \in Threads |-> IF u \in woken THEN "loop" ELSE pc[u]]
    /\ UNCHANGED <<current_executing_tasks, job, level, quiescing, done,
                   shutdown, ids>>

\* task_group_get_next_task
Take(t, g) ==
    /\ current_waiting_tasks[g] # 0
    /\ job' = [job EXCEPT ![t] = <<Head(tq[g]), g>>]
    /\ tq' = [tq EXCEPT ![g] = Tail(@)]
    /\ current_waiting_tasks' = [current_waiting_tasks EXCEPT ![g] = @ - 1]

\* A worker that comes back from a task counts it as executed first.
Executing(t, g) ==
    current_executing_tasks[g] - IF pc[t] = "done" THEN 1 ELSE 0

WorkerTake(w) ==
    LET g == Workers[w]
    IN  /\ pc[w] \in {"loop", "done"} /\ ~stop[g]
        /\ Take(w, g)
        /\ pc' = [pc EXCEPT ![w] = "run"]
        /\ current_executing_tasks' =
                [current_executing_tasks EXCEPT ![g] = Executing(w, g) + 1]
        /\ UNCHANGED <<waiters, level, quiescing, done, enqueued, shutdown, ids>>

WorkerWait(w) ==
    LET g == Workers[w]
    IN  /\ pc[w] \in {"loop", "done"} /\ ~stop[g]
        /\ current_waiting_tasks[g] = 0
        /\ pc' = [pc EXCEPT ![w] = "wait"]
        /\ waiters' = [waiters EXCEPT ![g] = @ \cup {w}]
        /\ current_executing_tasks' =
                [current_executing_tasks EXCEPT ![g] = Executing(w, g)]
        /\ job' = [job EXCEPT ![w] = NoJob]
        /\ UNCHANGED <<queues, level, quiescing, done, shutdown, ids>>

\* The loop ends and task_invoke_with_hooks deregisters the thread.
WorkerExit(w) ==
    LET g == Workers[w]
    IN  /\ pc[w] \in {"loop", "done"} /\ stop[g]
        /\ pc' = [pc EXCEPT ![w] = "exit"]
        /\ current_executing_tasks' =
                [current_executing_tasks EXCEPT ![g] = Executing(w, g)]
        /\ job' = [job EXCEPT ![w] = NoJob]
        /\ tid' = [tid EXCEPT ![w] = NoTid]
        /\ tid_bitmask' = GivenBack(tid[w])
        /\ thread_scratch' = thread_scratch \ {tid[w]}
        /\ UNCHANGED <<queues, waiters, level, quiescing, done, shutdown,
                       registrations>>

\* The task's function returns.
Finish(t) ==
    /\ pc[t] = "run"
    /\ pc' = [pc EXCEPT ![t] = "done"]
    /\ done' = done \cup {job[t][1]}
    /\ UNCHANGED <<queues, current_executing_tasks, waiters, job, level,
                   quiescing, shutdown, ids>>

-----------------------------------------------------------------------------
\* Tasks run by callers: task_perform_one_if_needed, task_perform_all

\* core_insert with queue_scale_percent q helps only when the queue is long;
\* the length is read without the mutex.
PerformBegin(c, q) ==
    /\ pc[c] = "idle" /\ ~closing /\ tid[c] # NoTid
    /\ \E g \in TaskTypes :
         /\ q = 0 \/ 100 * current_waiting_tasks[g] >= q * NumBg(g)
         /\ \A k \in TaskTypes : k < g /\ q # 0 =>
                100 * current_waiting_tasks[k] < q * NumBg(k)
         /\ q = 0 => g = 1
         /\ level' = [level EXCEPT ![c] = g]
    /\ pc' = [pc EXCEPT ![c] = "perform"]
    /\ UNCHANGED <<queues, current_executing_tasks, waiters, job, quiescing,
                   done, shutdown, ids>>

\* A mistake in Claimed: a task that a caller runs is not counted.
ClaimedNot(g) == current_executing_tasks[g]

Claimed(g) == current_executing_tasks[g] + 1

PerformTake(c) ==
    /\ pc[c] = "perform"
    /\ Take(c, level[c])
    /\ current_executing_tasks' =
            [current_executing_tasks EXCEPT ![level[c]] = Claimed(level[c])]
    /\ pc' = [pc EXCEPT ![c] = "run"]
    /\ UNCHANGED <<waiters, level, quiescing, done, enqueued, shutdown, ids>>

\* STATUS_TIMEDOUT: nothing to run in this group, look at the next type.
PerformNone(c) ==
    /\ pc[c] = "perform" /\ current_waiting_tasks[level[c]] = 0
    /\ IF level[c] = 1
         THEN level' = [level EXCEPT ![c] = 2] /\ UNCHANGED pc
         ELSE level' = [level EXCEPT ![c] = 1]
              /\ pc' = [pc EXCEPT ![c] = IF quiescing[c] THEN "test" ELSE "idle"]
    /\ UNCHANGED <<queues, current_executing_tasks, waiters, job, quiescing,
                   done, shutdown, ids>>

\* The counter goes down without the mutex.
PerformDone(c) ==
    /\ c \in Clients /\ pc[c] = "done"
    /\ current_executing_tasks' =
            [current_executing_tasks EXCEPT ![job[c][2]] = @ - 1]
    /\ job' = [job EXCEPT ![c] = NoJob]
    /\ level' = [level EXCEPT ![c] = 1]
    /\ pc' = [pc EXCEPT ![c] = IF quiescing[c] THEN "test" ELSE "idle"]
    /\ UNCHANGED <<queues, waiters, quiescing, done, shutdown, ids>>

-----------------------------------------------------------------------------
\* Closing: quiesce, stop every group, join the workers, destroy

Close(c) ==
    /\ ~closing /\ tid[c] # NoTid /\ \A d \in Clients : pc[d] = "idle"
    /\ \A d \in Clients \ {c} : tid[d] = NoTid
    /\ closing' = TRUE
    /\ quiescing' = [quiescing EXCEPT ![c] = TRUE]
    /\ pc' = [pc EXCEPT ![c] = "test"]
    /\ UNCHANGED <<queues, current_executing_tasks, waiters, job, level, done,
                   stop, ids>>

\* task_system_is_quiescent holds the mutexes of all groups.
IsQuiescent ==
    \A g \in TaskTypes : current_executing_tasks[g] = 0 /\ current_waiting_tasks[g] = 0

TestQuiescent(c) ==
    /\ pc[c] = "test"
    /\ IF IsQuiescent
         THEN pc' = [pc EXCEPT ![c] = "stop"]
              /\ quiescing' = [quiescing EXCEPT ![c] = FALSE]
         ELSE pc' = [pc EXCEPT ![c] = "perform"] /\ UNCHANGED quiescing
    /\ UNCHANGED <<queues, current_executing_tasks, waiters, job, level, done,
                   shutdown, ids>>

\* task_group_stop_and_wait_for_threads; the next group follows the join.
StopGroup(c, g) ==
    /\ pc[c] = "stop" /\ ~stop[g]
    /\ \A k \in TaskTypes : k < g =>
         stop[k] /\ \A w \in BgThreads : Workers[w] = k => pc[w] = "exit"
    /\ stop' = [stop EXCEPT ![g] = TRUE]
    /\ waiters' = [waiters EXCEPT ![g] = {}]
    /\ pc' = [t \in Threads |-> IF t \in waiters[g] THEN "loop" ELSE pc[t]]
    /\ UNCHANGED <<queues, current_executing_tasks, job, level, quiescing,
                   done, closing, ids>>

\* task_system_destroy, after the last join: its own thread deregisters.
Destroy(c) ==
    /\ pc[c] = "stop" /\ \A w \in BgThreads : pc[w] = "exit"
    /\ \A g \in TaskTypes : stop[g]
    /\ pc' = [pc EXCEPT ![c] = "exit"]
    /\ tid' = [tid EXCEPT ![c] = NoTid]
    /\ tid_bitmask' = GivenBack(tid[c])
    /\ thread_scratch' = thread_scratch \ {tid[c]}
    /\ UNCHANGED <<queues, current_executing_tasks, waiters, job, level,
                   quiescing, done, shutdown, registrations>>

-----------------------------------------------------------------------------
\* Thread ids

\* task_allocate_threadid: the first set bit; MAX_THREADS threads at most.
LowestFree == {i \in tid_bitmask : \A j \in tid_bitmask : i <= j}

\* task_register_thread; without memory for the scratch area the id goes back.
Register(c) ==
    /\ pc[c] = "idle" /\ ~closing /\ tid[c] = NoTid /\ registrations < MaxTids
    /\ registrations' = registrations + 1
    /\ \E i \in LowestFree :
         \/ /\ tid' = [tid EXCEPT ![c] = i]
            /\ tid_bitmask' = tid_bitmask \ {i}
            /\ thread_scratch' = thread_scratch \cup {i}
         \/ UNCHANGED <<tid, tid_bitmask, thread_scratch>>
    /\ UNCHANGED <<queues, current_executing_tasks, waiters, pc, job, level,
                   quiescing, done, shutdown>>

Deregister(c) ==
    /\ pc[c] = "idle" /\ ~closing /\ tid[c] # NoTid
    /\ \E d \in Clients \ {c} : tid[d] # NoTid
    /\ thread_scratch' = thread_scratch \ {tid[c]}
    /\ tid' = [tid EXCEPT ![c] = NoTid]
    /\ tid_bitmask' = GivenBack(tid[c])
    /\ UNCHANGED <<queues, current_executing_tasks, waiters, pc, job, level,
                   quiescing, done, shutdown, registrations>>

Next ==
    \/ \E t \in Threads : \/ Finish(t)
                          \/ \E g \in TaskTypes, h \in BOOLEAN : Enqueue(t, g, h)
    \/ \E w \in BgThreads : WorkerTake(w) \/ WorkerWait(w) \/ WorkerExit(w)
    \/ \E c \in Clients : \/ \E q \in {0, 100} : PerformBegin(c, q)
                          \/ PerformTake(c) \/ PerformNone(c) \/ PerformDone(c)
                          \/ Close(c) \/ TestQuiescent(c) \/ Destroy(c)
                          \/ \E g \in TaskTypes : StopGroup(c, g)
                          \/ Register(c) \/ Deregister(c)

Spec == Init /\ [][Next]_vars

\* The scheduler runs every thread: a worker that can take, wait or exit
\* does so, a running task returns, a caller that performs tasks goes on.
Fairness ==
    /\ \A t \in Threads : WF_vars(Finish(t))
    /\ \A w \in BgThreads : WF_vars(WorkerTake(w) \/ WorkerWait(w) \/ WorkerExit(w))
    /\ \A c \in Clients : WF_vars(\/ PerformTake(c) \/ PerformNone(c)
                                  \/ PerformDone(c) \/ TestQuiescent(c)
                                  \/ \E g \in TaskTypes : StopGroup(c, g)
                                  \/ Destroy(c))

FairSpec == Spec /\ Fairness

-----------------------------------------------------------------------------

\* When task_system_is_quiescent would answer TRUE every task that was ever
\* enqueued has run, whoever runs it and whatever it enqueued itself; so the
\* assertions of the stop on empty queues hold, and no task is left behind.
QuiescentIsTrue ==
    /\ IsQuiescent => done = 1 .. enqueued
    /\ \A g \in TaskTypes : /\ current_waiting_tasks[g] = Len(tq[g])
                            /\ stop[g] => tq[g] = <<>>

\* Registered threads have ids and scratch memory of their own, so a task
\* never works in the memory of another thread, and the ids that are not in
\* use are the set bits of the mask, all of them when the system is destroyed.
TidsAreExclusive ==
    /\ \A s, t \in Threads : tid[s] = tid[t] /\ tid[s] # NoTid => s = t
    /\ tid_bitmask = Tids \ {tid[t] : t \in Threads}
    /\ \A t \in Threads : pc[t] = "run" => tid[t] \in thread_scratch

\* Every task that is enqueued runs, and closing comes to its end.
TasksRun ==
    /\ \A n \in 1 .. MaxTasks : (enqueued >= n) ~> (n \in done)
    /\ closing ~> \A t \in Threads : tid[t] = NoTid
-----------------------------------------------------------------------------

\* The workers of a small instance: one for each task type.
OneWorkerEach == <<1, 2>>
=============================================================================
