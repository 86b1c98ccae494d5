-------------------------- MODULE TaskSystemProofs --------------------------
(***************************************************************************)
(* QuiescentIsTrue and TidsAreExclusive hold of every instance of          *)
(* TaskSystem: any number of clients, workers, tasks and registrations.    *)
(***************************************************************************)
EXTENDS TaskSystem, FiniteSetTheorems, TLAPS

-----------------------------------------------------------------------------
(* The inductive invariant.                                                *)

Busy == {"run", "done"}
WorkerPCs == {"loop", "wait", "exit"} \cup Busy
ClientPCs == {"idle", "perform", "test", "stop", "exit"} \cup Busy

TypeOK ==
    /\ tq \in [TaskTypes -> Seq(Nat)]
    /\ waiters \in [TaskTypes -> SUBSET BgThreads]
    /\ stop \in [TaskTypes -> BOOLEAN]
    /\ pc \in [Threads -> WorkerPCs \cup ClientPCs]
    /\ job \in [Threads -> Nat \X {0, 1, 2}]
    /\ level \in [Clients -> TaskTypes]
    /\ quiescing \in [Clients -> BOOLEAN]
    /\ done \in SUBSET Nat
    /\ enqueued \in Nat
    /\ closing \in BOOLEAN
    /\ tid \in [Threads -> Tids \cup {NoTid}]

\* Workers wait in the queue of their own group, and whoever runs a task
\* knows of which group it is.
ControlOK ==
    /\ \A w \in BgThreads : pc[w] \in WorkerPCs
    /\ \A c \in Clients : pc[c] \in ClientPCs
    /\ \A g \in TaskTypes : \A w \in waiters[g] :
          pc[w] = "wait" /\ Workers[w] = g
    /\ \A t \in Threads : pc[t] \in Busy => job[t][2] \in TaskTypes
    /\ \A w \in BgThreads : pc[w] \in Busy => job[w][2] = Workers[w]

\* Who is counted in current_executing_tasks.
Executes(g) == {t \in Threads : pc[t] \in Busy /\ job[t][2] = g}

CountsOK ==
    /\ current_waiting_tasks = [g \in TaskTypes |-> Len(tq[g])]
    /\ current_executing_tasks = [g \in TaskTypes |-> Cardinality(Executes(g))]

\* A task is in a queue, or is being run, or has run.
Queued(g) == {tq[g][i] : i \in 1 .. Len(tq[g])}
Running == {job[t][1] : t \in {u \in Threads : pc[u] = "run"}}

TasksOK == 1 .. enqueued = done \cup Running \cup Queued(1) \cup Queued(2)

\* Whoever stops the groups has found the system quiescent, and it stays so.
ClosingOK ==
    /\ \A c \in Clients : quiescing[c] \/ pc[c] = "test" => closing
    /\ \A c \in Clients : pc[c] \in {"stop", "exit"} => closing /\ IsQuiescent
    /\ \A g \in TaskTypes : stop[g] => closing /\ IsQuiescent

\* Who is inside the library is registered.
Inside(t) == \/ t \in BgThreads /\ pc[t] # "exit"
             \/ t \in Clients /\ pc[t] \notin {"idle", "exit"}

IdsOK ==
    /\ \A s, t \in Threads : tid[s] = tid[t] /\ tid[s] # NoTid => s = t
    /\ tid_bitmask = Tids \ {tid[t] : t \in Threads}
    /\ thread_scratch = {tid[t] : t \in Threads} \ {NoTid}
    /\ \A t \in Threads : Inside(t) => tid[t] # NoTid

IInv == TypeOK /\ ControlOK /\ CountsOK /\ TasksOK /\ ClosingOK /\ IdsOK

-----------------------------------------------------------------------------
(* Sequences as sets of their elements, and the ids of Init.               *)

Elems(s) == {s[i] : i \in 1 .. Len(s)}

\* A task put at the end of a queue joins its elements.
LEMMA ElemsAppend ==
  ASSUME NEW s \in Seq(Nat), NEW n \in Nat
  PROVE  /\ Append(s, n) \in Seq(Nat) /\ Len(Append(s, n)) = Len(s) + 1
         /\ Elems(Append(s, n)) = Elems(s) \cup {n}
<1>1. /\ Append(s, n) \in Seq(Nat) /\ Len(Append(s, n)) = Len(s) + 1
      /\ \A i \in 1 .. Len(s) : Append(s, n)[i] = s[i]
      /\ Append(s, n)[Len(s) + 1] = n
  OBVIOUS
<1> DEFINE a == Append(s, n)
<1> HIDE DEF a
<1>2. \A i \in 1 .. Len(s) + 1 : i \in 1 .. Len(s) \/ i = Len(s) + 1
  OBVIOUS
<1>3. Len(s) + 1 \in 1 .. Len(s) + 1 /\ 1 .. Len(s) \subseteq 1 .. Len(s) + 1
  OBVIOUS
<1>4. Elems(a) = Elems(s) \cup {n}
  <2>1. ASSUME NEW i \in 1 .. Len(a) PROVE a[i] \in Elems(s) \cup {n}
    BY <1>1, <1>2, <2>1 DEF Elems, a
  <2>2. ASSUME NEW i \in 1 .. Len(s) PROVE s[i] \in Elems(a)
    <3>1. s[i] = a[i] /\ i \in 1 .. Len(a) BY <1>1, <1>3, <2>2 DEF a
    <3> QED BY <3>1 DEF Elems
  <2>3. n \in Elems(a)
    <3>1. n = a[Len(s) + 1] /\ Len(s) + 1 \in 1 .. Len(a) BY <1>1, <1>3 DEF a
    <3> QED BY <3>1 DEF Elems
  <2> QED BY <2>1, <2>2, <2>3 DEF Elems
<1> QED BY <1>1, <1>4 DEF a

\* So does one that is put in front (at_head).
LEMMA ElemsPush ==
  ASSUME NEW s \in Seq(Nat), NEW n \in Nat
  PROVE  /\ <<n>> \o s \in Seq(Nat) /\ Len(<<n>> \o s) = Len(s) + 1
         /\ Elems(<<n>> \o s) = Elems(s) \cup {n}
<1> DEFINE a == <<n>> \o s
<1>1. /\ a \in Seq(Nat) /\ Len(a) = Len(s) + 1 /\ a[1] = n
      /\ \A i \in 1 .. Len(s) : a[i + 1] = s[i]
  OBVIOUS
<1> HIDE DEF a
<1>2. \A i \in 1 .. Len(s) + 1 : i = 1 \/ \E j \in 1 .. Len(s) : i = j + 1
  <2> TAKE i \in 1 .. Len(s) + 1
  <2>1. CASE i = 1 BY <2>1
  <2>2. CASE i # 1
    <3>1. i - 1 \in 1 .. Len(s) /\ i = (i - 1) + 1 BY <2>2
    <3> QED BY <3>1
  <2> QED BY <2>1, <2>2
<1>3. 1 \in 1 .. Len(s) + 1 /\ \A j \in 1 .. Len(s) : j + 1 \in 1 .. Len(s) + 1
  OBVIOUS
<1>4. Elems(a) = Elems(s) \cup {n}
  <2>1. ASSUME NEW i \in 1 .. Len(a) PROVE a[i] \in Elems(s) \cup {n}
    <3>1. CASE i = 1 BY <1>1, <3>1
    <3>2. CASE i # 1
      <4>1. PICK j \in 1 .. Len(s) : i = j + 1 BY <1>1, <1>2, <2>1, <3>2
      <4>2. a[i] = s[j] BY <1>1, <4>1
      <4> QED BY <4>2 DEF Elems
    <3> QED BY <3>1, <3>2
  <2>2. ASSUME NEW i \in 1 .. Len(s) PROVE s[i] \in Elems(a)
    <3>1. s[i] = a[i + 1] /\ i + 1 \in 1 .. Len(a) BY <1>1, <1>3, <2>2
    <3> QED BY <3>1 DEF Elems
  <2>3. n \in Elems(a)
    <3>1. n = a[1] /\ 1 \in 1 .. Len(a) BY <1>1, <1>3
    <3> QED BY <3>1 DEF Elems
  <2> QED BY <2>1, <2>2, <2>3 DEF Elems
<1> QED BY <1>1, <1>4 DEF a

\* Taking the first task of a queue leaves the others.
LEMMA ElemsTail ==
  ASSUME NEW s \in Seq(Nat), Len(s) # 0
  PROVE  /\ Tail(s) \in Seq(Nat) /\ Len(Tail(s)) = Len(s) - 1
         /\ Head(s) \in Nat
         /\ Elems(s) = Elems(Tail(s)) \cup {Head(s)}
<1> DEFINE a == Tail(s)
<1>1. /\ a \in Seq(Nat) /\ Len(a) = Len(s) - 1 /\ Head(s) = s[1]
      /\ Head(s) \in Nat /\ Len(s) \in Nat \ {0}
      /\ \A i \in 1 .. Len(a) : a[i] = s[i + 1]
  OBVIOUS
<1> HIDE DEF a
<1>2. \A i \in 1 .. Len(s) : i = 1 \/ \E j \in 1 .. Len(s) - 1 : i = j + 1
  <2> TAKE i \in 1 .. Len(s)
  <2>1. CASE i = 1 BY <2>1
  <2>2. CASE i # 1
    <3>1. i - 1 \in 1 .. Len(s) - 1 /\ i = (i - 1) + 1 BY <1>1, <2>2
    <3> QED BY <3>1
  <2> QED BY <2>1, <2>2
<1>3. 1 \in 1 .. Len(s) /\ \A j \in 1 .. Len(s) - 1 : j + 1 \in 1 .. Len(s)
  BY <1>1
<1>4. Elems(s) = Elems(a) \cup {Head(s)}
  <2>1. ASSUME NEW i \in 1 .. Len(s) PROVE s[i] \in Elems(a) \cup {Head(s)}
    <3>1. CASE i = 1 BY <1>1, <3>1
    <3>2. CASE i # 1
      <4>1. PICK j \in 1 .. Len(s) - 1 : i = j + 1 BY <1>2, <2>1, <3>2
      <4>2. s[i] = a[j] /\ j \in 1 .. Len(a) BY <1>1, <4>1
      <4> QED BY <4>2 DEF Elems
    <3> QED BY <3>1, <3>2
  <2>2. ASSUME NEW i \in 1 .. Len(a) PROVE a[i] \in Elems(s)
    <3>1. a[i] = s[i + 1] /\ i + 1 \in 1 .. Len(s) BY <1>1, <1>3, <2>2
    <3> QED BY <3>1 DEF Elems
  <2>3. Head(s) \in Elems(s)
    BY <1>1, <1>3 DEF Elems
  <2> QED BY <2>1, <2>2, <2>3 DEF Elems
<1> QED BY <1>1, <1>4 DEF a

\* The ids that Init hands out exist, since there is one for every worker and
\* for the creating thread.
LEMMA FirstTidsExist ==
  ASSUME Configured, NEW c \in Clients
  PROVE  LET S == {c} \cup BgThreads
             f == FirstTids(S)
         IN  /\ f \in [Threads -> Tids \cup {NoTid}]
             /\ \A t \in S : f[t] \in Tids
             /\ \A t \in Threads \ S : f[t] = NoTid
             /\ \A s, t \in S : f[s] = f[t] => s = t
<1> DEFINE S == {c} \cup BgThreads
           n == Cardinality(S)
<1>1. IsFiniteSet(S) /\ n \in Nat /\ n <= MAX_THREADS /\ MAX_THREADS \in Nat
  <2>1. c \notin BgThreads BY DEF Configured
  <2>2. Cardinality(BgThreads) \in Nat
    BY FS_CardinalityType DEF Configured
  <2>3. IsFiniteSet(BgThreads \cup {c})
        /\ Cardinality(BgThreads \cup {c}) = Cardinality(BgThreads) + 1
    BY <2>1, FS_AddElement DEF Configured
  <2>4. S = BgThreads \cup {c} OBVIOUS
  <2> HIDE DEF S
  <2> QED BY <2>2, <2>3, <2>4 DEF Configured
<1>2. S \subseteq Threads BY DEF Threads
<1> HIDE DEF S
<1>3. PICK b \in Bijection(1 .. n, S) : TRUE
  BY <1>1, FS_CardinalityType DEF ExistsBijection
<1>4. /\ b \in [1 .. n -> S]
      /\ \A i, j \in 1 .. n : b[i] = b[j] => i = j
      /\ \A t \in S : \E i \in 1 .. n : b[i] = t
  BY <1>3 DEF Bijection, Injection, Surjection, IsInjective
<1> DEFINE at(t) == CHOOSE i \in 1 .. n : b[i] = t
           f == [t \in Threads |-> IF t \in S THEN at(t) - 1 ELSE NoTid]
           P(h) == /\ \A t \in Threads : t \in S <=> h[t] < Cardinality(S)
                   /\ \A t \in Threads \ S : h[t] = NoTid
                   /\ \A s, t \in S : h[s] = h[t] => s = t
<1>5. \A t \in S : at(t) \in 1 .. n /\ b[at(t)] = t
  BY <1>4
<1> HIDE DEF at
<1>6. \A t \in S : at(t) - 1 \in Tids /\ at(t) - 1 < n /\ at(t) - 1 \in Nat
  BY <1>1, <1>5 DEF Tids
<1>7. f \in [Threads -> Tids \cup {NoTid}] BY <1>6
<1>8. P(f)
  <2>1. \A t \in Threads : t \in S <=> f[t] < n
    BY <1>1, <1>6 DEF NoTid
  <2>2. \A s, t \in S : f[s] = f[t] => s = t
    BY <1>1, <1>2, <1>5
  <2> QED BY <2>1, <2>2
<1> DEFINE g == FirstTids(S)
<1>9. g \in [Threads -> Tids \cup {NoTid}] /\ P(g)
  BY ZenonT(60), <1>7, <1>8 DEF FirstTids
<1> HIDE DEF g, n, P
<1>10. \A t \in S : g[t] \in Tids
  BY <1>1, <1>2, <1>9 DEF P, n, NoTid, Tids
<1> QED BY <1>9, <1>10 DEF P, S, g

-----------------------------------------------------------------------------
(* The invariant holds initially.                                          *)

\* task_system_create with one registered client satisfies the invariant.
LEMMA InitIInv ==
  ASSUME Configured, Init
  PROVE  IInv
<1>1. PICK c \in Clients : tid = FirstTids({c} \cup BgThreads)
  BY DEF Init
<1> DEFINE S == {c} \cup BgThreads
<1>2. /\ tid \in [Threads -> Tids \cup {NoTid}]
      /\ \A t \in S : tid[t] \in Tids
      /\ \A t \in Threads \ S : tid[t] = NoTid
      /\ \A s, t \in S : tid[s] = tid[t] => s = t
  BY <1>1, FirstTidsExist
<1>3. MAX_THREADS \in Nat /\ NoTid \notin Tids
  BY DEF Configured, NoTid, Tids
<1>4. \A t \in Threads : pc[t] \in {"loop", "idle"}
  BY DEF Init
<1>5. TypeOK
  <2>1. tq \in [TaskTypes -> Seq(Nat)] BY DEF Init
  <2>2. pc \in [Threads -> WorkerPCs \cup ClientPCs]
    BY DEF Init, WorkerPCs, ClientPCs
  <2>3. job \in [Threads -> Nat \X {0, 1, 2}] BY DEF Init, NoJob
  <2> QED BY <1>2, <2>1, <2>2, <2>3 DEF Init, TypeOK, TaskTypes
<1>6. ControlOK
  BY <1>4 DEF Init, ControlOK, WorkerPCs, ClientPCs, Busy, Configured, Threads
<1>7. CountsOK
  <2>1. \A g \in TaskTypes : Executes(g) = {}
    BY <1>4 DEF Executes, Busy
  <2> QED BY <2>1, FS_EmptySet DEF Init, CountsOK
<1>8. TasksOK
  <2>1. Running = {} BY <1>4 DEF Running
  <2>2. Queued(1) = {} /\ Queued(2) = {} BY DEF Init, Queued, TaskTypes
  <2>3. done = {} /\ enqueued = 0 BY DEF Init
  <2> QED BY <2>1, <2>2, <2>3 DEF TasksOK
<1>9. ClosingOK
  BY <1>4 DEF Init, ClosingOK, Threads
<1>10. IdsOK
  <2>1. \A t \in Threads : Inside(t) => t \in S
    BY DEF Init, Inside, Threads, Configured
  <2>2. S \subseteq Threads BY DEF Threads
  <2>3. \A s, t \in Threads : tid[s] = tid[t] /\ tid[s] # NoTid => s = t
    BY <1>2
  <2>4. \A t \in Threads : Inside(t) => tid[t] # NoTid
    BY <1>2, <1>3, <2>1
  <2>5. tid_bitmask = Tids \ {tid[t] : t \in Threads}
        /\ thread_scratch = {tid[t] : t \in Threads} \ {NoTid}
    BY DEF Init
  <2> QED BY <2>3, <2>4, <2>5 DEF IdsOK
<1> QED BY <1>5, <1>6, <1>7, <1>8, <1>9, <1>10 DEF IInv

-----------------------------------------------------------------------------
(* Every action keeps the types and the control points.                    *)

\* The step of a worker, of a client, of either.
WorkerStep(w) == WorkerTake(w) \/ WorkerWait(w) \/ WorkerExit(w)
ClientStep(c) == \/ \E q \in {0, 100} : PerformBegin(c, q)
                 \/ PerformTake(c) \/ PerformNone(c) \/ PerformDone(c)
                 \/ Close(c) \/ TestQuiescent(c) \/ Destroy(c)
                 \/ \E g \in TaskTypes : StopGroup(c, g)
                 \/ Register(c) \/ Deregister(c)
AnyStep(t) == \/ Finish(t)
              \/ \E g \in TaskTypes, h \in BOOLEAN : Enqueue(t, g, h)

\* A task is taken from a queue that has one.
LEMMA TakeTyped ==
  ASSUME IInv, NEW t \in Threads, NEW g \in TaskTypes, Take(t, g)
  PROVE  /\ tq[g] \in Seq(Nat) /\ Len(tq[g]) # 0
         /\ tq' = [tq EXCEPT ![g] = Tail(@)]
         /\ tq' \in [TaskTypes -> Seq(Nat)]
         /\ job' = [job EXCEPT ![t] = <<Head(tq[g]), g>>]
         /\ job' \in [Threads -> Nat \X {0, 1, 2}]
         /\ current_waiting_tasks' = [h \in TaskTypes |-> Len(tq'[h])]
<1>1. tq[g] \in Seq(Nat) /\ Len(tq[g]) # 0
  BY DEF Take, IInv, TypeOK, CountsOK
<1>2. /\ Tail(tq[g]) \in Seq(Nat) /\ Len(Tail(tq[g])) = Len(tq[g]) - 1
      /\ Head(tq[g]) \in Nat
  BY <1>1, ElemsTail
<1>3. tq' \in [TaskTypes -> Seq(Nat)]
  BY <1>2 DEF Take, IInv, TypeOK
<1>4. job' \in [Threads -> Nat \X {0, 1, 2}]
  BY <1>2 DEF Take, IInv, TypeOK, TaskTypes
<1>5. current_waiting_tasks' = [h \in TaskTypes |-> Len(tq'[h])]
  BY <1>2 DEF Take, IInv, TypeOK, CountsOK
<1> QED BY <1>1, <1>3, <1>4, <1>5 DEF Take

\* A task is put at either end of a queue.
LEMMA EnqueueTyped ==
  ASSUME IInv, NEW t \in Threads, NEW g \in TaskTypes, NEW h \in BOOLEAN,
         Enqueue(t, g, h)
  PROVE  /\ tq' \in [TaskTypes -> Seq(Nat)]
         /\ Elems(tq'[g]) = Elems(tq[g]) \cup {enqueued + 1}
         /\ \A k \in TaskTypes \ {g} : tq'[k] = tq[k]
         /\ current_waiting_tasks' = [k \in TaskTypes |-> Len(tq'[k])]
<1>1. tq \in [TaskTypes -> Seq(Nat)] /\ enqueued \in Nat
  BY DEF IInv, TypeOK
<1>2. CASE h
  <2>1. tq' = [tq EXCEPT ![g] = <<enqueued + 1>> \o @]
    BY <1>2 DEF Enqueue
  <2>2. /\ tq'[g] \in Seq(Nat) /\ Len(tq'[g]) = Len(tq[g]) + 1
        /\ Elems(tq'[g]) = Elems(tq[g]) \cup {enqueued + 1}
    <3>1. tq'[g] = <<enqueued + 1>> \o tq[g] BY <1>1, <2>1
    <3>2. tq[g] \in Seq(Nat) /\ enqueued + 1 \in Nat BY <1>1
    <3> QED BY <3>1, <3>2, ElemsPush
  <2>3. tq' \in [TaskTypes -> Seq(Nat)] /\ \A k \in TaskTypes \ {g} : tq'[k] = tq[k]
    BY <1>1, <2>1, <2>2
  <2> QED BY <2>2, <2>3 DEF Enqueue, IInv, CountsOK
<1>3. CASE ~h
  <2>1. tq' = [tq EXCEPT ![g] = Append(@, enqueued + 1)]
    BY <1>3 DEF Enqueue
  <2>2. /\ tq'[g] \in Seq(Nat) /\ Len(tq'[g]) = Len(tq[g]) + 1
        /\ Elems(tq'[g]) = Elems(tq[g]) \cup {enqueued + 1}
    <3>1. tq'[g] = Append(tq[g], enqueued + 1) BY <1>1, <2>1
    <3>2. tq[g] \in Seq(Nat) /\ enqueued + 1 \in Nat BY <1>1
    <3> QED BY <3>1, <3>2, ElemsAppend
  <2>3. tq' \in [TaskTypes -> Seq(Nat)] /\ \A k \in TaskTypes \ {g} : tq'[k] = tq[k]
    BY <1>1, <2>1, <2>2
  <2> QED BY <2>2, <2>3 DEF Enqueue, IInv, CountsOK
<1> QED BY <1>2, <1>3

\* The step of one thread changes nobody else's control point and task.
LEMMA OneControl ==
  ASSUME Configured, TypeOK, ControlOK, NEW t \in Threads,
         \A u \in Threads \ {t} : pc'[u] = pc[u] /\ job'[u] = job[u],
         t \in BgThreads => pc'[t] \in WorkerPCs,
         t \in Clients => pc'[t] \in ClientPCs,
         pc'[t] \in Busy => job'[t][2] \in TaskTypes,
         pc'[t] \in Busy /\ t \in BgThreads => job'[t][2] = Workers[t],
         \A g \in TaskTypes : \A u \in waiters'[g] :
            \/ u # t /\ u \in waiters[g]
            \/ u = t /\ pc'[t] = "wait" /\ Workers[t] = g
  PROVE  ControlOK'
<1>1. \A w \in BgThreads : pc'[w] \in WorkerPCs BY DEF ControlOK, Threads
<1>2. \A c \in Clients : pc'[c] \in ClientPCs BY DEF ControlOK, Threads
<1>3. \A g \in TaskTypes : \A w \in waiters'[g] :
          pc'[w] = "wait" /\ Workers[w] = g
  BY DEF ControlOK, TypeOK, Threads
<1>4. \A u \in Threads : pc'[u] \in Busy => job'[u][2] \in TaskTypes
  BY DEF ControlOK
<1>5. \A w \in BgThreads : pc'[w] \in Busy => job'[w][2] = Workers[w]
  BY DEF ControlOK, Threads
<1> QED BY <1>1, <1>2, <1>3, <1>4, <1>5 DEF ControlOK

\* The loop of a background worker keeps types and control points.
LEMMA WorkerTyped ==
  ASSUME Configured, IInv, NEW w \in BgThreads, WorkerStep(w)
  PROVE  TypeOK' /\ ControlOK'
<1> w \in Threads /\ Workers[w] \in TaskTypes BY DEF Threads, Configured
<1> USE DEF IInv
<1>1. CASE WorkerTake(w)
  <2>1. Take(w, Workers[w]) BY <1>1 DEF WorkerTake
  <2>2. TypeOK'
    BY <1>1, <2>1, TakeTyped DEF WorkerTake, TypeOK, WorkerPCs, Busy, ids, shutdown
  <2>3. /\ job'[w][2] = Workers[w]
        /\ \A t \in Threads \ {w} : job'[t] = job[t] /\ pc'[t] = pc[t]
        /\ pc'[w] = "run" /\ waiters' = waiters
    BY <1>1, <2>1, TakeTyped DEF WorkerTake, TypeOK
  <2>4. w \notin Clients /\ \A g \in TaskTypes : w \notin waiters[g]
    BY <1>1 DEF Configured, WorkerTake, ControlOK
  <2>5. ControlOK'
    BY <2>3, <2>4, OneControl DEF WorkerPCs, Busy
  <2> QED BY <2>2, <2>5
<1>2. CASE WorkerWait(w)
  <2>1. TypeOK'
    BY <1>2 DEF WorkerWait, TypeOK, WorkerPCs, ids, shutdown, queues, NoJob
  <2>2. /\ \A t \in Threads \ {w} : job'[t] = job[t] /\ pc'[t] = pc[t]
        /\ pc'[w] = "wait" /\ w \notin Clients
        /\ \A g \in TaskTypes : \A u \in waiters'[g] : u # w => u \in waiters[g]
        /\ \A g \in TaskTypes : w \in waiters'[g] => Workers[w] = g
    BY <1>2 DEF WorkerWait, TypeOK, ControlOK, Configured
  <2>3. ControlOK'
    BY <2>2, OneControl DEF WorkerPCs, Busy
  <2> QED BY <2>1, <2>3
<1>3. CASE WorkerExit(w)
  <2>1. TypeOK'
    BY <1>3 DEF WorkerExit, TypeOK, WorkerPCs, shutdown, queues, NoJob
  <2>2. ControlOK'
    BY <1>3 DEF WorkerExit, TypeOK, ControlOK, WorkerPCs, ClientPCs, Busy,
       Configured, Threads
  <2> QED BY <2>1, <2>2
<1> QED BY <1>1, <1>2, <1>3 DEF WorkerStep

\* So do the calls of a client ...
LEMMA ClientTyped ==
  ASSUME Configured, IInv, NEW c \in Clients, ClientStep(c)
  PROVE  TypeOK' /\ ControlOK'
<1> c \in Threads /\ c \notin BgThreads BY DEF Threads, Configured
<1> USE DEF IInv
<1>1. CASE \E q \in {0, 100} : PerformBegin(c, q)
  BY <1>1 DEF PerformBegin, TypeOK, ControlOK, WorkerPCs, ClientPCs, Busy, ids,
     shutdown, queues, Threads
<1>2. CASE PerformTake(c)
  <2>1. level[c] \in TaskTypes /\ Take(c, level[c])
    BY <1>2 DEF PerformTake, TypeOK
  <2>2. TypeOK'
    BY <1>2, <2>1, TakeTyped DEF PerformTake, TypeOK, WorkerPCs, Busy, ids,
       shutdown
  <2>3. ControlOK'
    BY SMTT(30), <1>2, <2>1, TakeTyped
    DEF PerformTake, TypeOK, ControlOK, WorkerPCs, ClientPCs, Busy, Threads
  <2> QED BY <2>2, <2>3
<1>3. CASE PerformNone(c)
  <2>1. \E l \in {"perform", "test", "idle"} : pc' = [pc EXCEPT ![c] = l]
    <3>1. CASE level[c] = 1
      BY <1>3, <3>1 DEF PerformNone, TypeOK
    <3>2. CASE level[c] # 1 /\ quiescing[c]
      BY <1>3, <3>2 DEF PerformNone
    <3>3. CASE level[c] # 1 /\ ~ quiescing[c]
      BY <1>3, <3>3 DEF PerformNone
    <3> QED BY <3>1, <3>2, <3>3
  <2>2. level' \in [Clients -> TaskTypes]
    <3>1. \E g \in TaskTypes : level' = [level EXCEPT ![c] = g]
      BY <1>3 DEF PerformNone, TaskTypes
    <3> QED BY <3>1 DEF TypeOK
  <2>3. TypeOK'
    <3>1. pc' \in [Threads -> WorkerPCs \cup ClientPCs]
      BY <2>1 DEF TypeOK, WorkerPCs, ClientPCs
    <3>2. UNCHANGED <<tq, waiters, stop, job, quiescing, done, enqueued,
                      closing, tid>>
      BY <1>3 DEF PerformNone, ids, shutdown, queues
    <3> QED BY <2>2, <3>1, <3>2 DEF TypeOK
  <2>4. ControlOK'
    BY <1>3, <2>1 DEF PerformNone, TypeOK, ControlOK, WorkerPCs, ClientPCs,
       Busy, Threads
  <2> QED BY <2>3, <2>4
<1>4. CASE PerformDone(c)
  BY <1>4 DEF PerformDone, TypeOK, ControlOK, WorkerPCs, ClientPCs, Busy, ids,
     shutdown, queues, Threads, TaskTypes, NoJob
<1>5. CASE Close(c)
  BY <1>5 DEF Close, TypeOK, ControlOK, WorkerPCs, ClientPCs, Busy, ids,
     queues, Threads
<1>6. CASE TestQuiescent(c)
  <2>1. \E l \in {"stop", "perform"} : pc' = [pc EXCEPT ![c] = l]
    BY <1>6 DEF TestQuiescent
  <2>2. TypeOK'
    <3>1. quiescing' \in [Clients -> BOOLEAN] BY <1>6 DEF TestQuiescent, TypeOK
    <3>2. pc' \in [Threads -> WorkerPCs \cup ClientPCs]
      BY <2>1 DEF TypeOK, WorkerPCs, ClientPCs
    <3>3. UNCHANGED <<tq, waiters, stop, job, level, done, enqueued, closing, tid>>
      BY <1>6 DEF TestQuiescent, ids, shutdown, queues
    <3> QED BY <3>1, <3>2, <3>3 DEF TypeOK
  <2>3. ControlOK'
    BY <1>6, <2>1 DEF TestQuiescent, TypeOK, ControlOK, WorkerPCs, ClientPCs,
       Busy, Threads
  <2> QED BY <2>2, <2>3
<1>7. CASE Destroy(c)
  BY <1>7 DEF Destroy, TypeOK, ControlOK, WorkerPCs, ClientPCs, Busy,
     shutdown, queues, Threads
<1>8. CASE \E g \in TaskTypes : StopGroup(c, g)
  BY <1>8 DEF StopGroup, TypeOK, ControlOK, WorkerPCs, ClientPCs, Busy, ids,
     queues, Threads
<1>9. CASE Register(c)
  <2>1. tid_bitmask \subseteq Tids BY DEF IdsOK
  <2>2. tid' \in [Threads -> Tids \cup {NoTid}]
    <3>1. CASE UNCHANGED tid BY <3>1 DEF TypeOK
    <3>2. CASE \E i \in LowestFree : tid' = [tid EXCEPT ![c] = i]
      BY <2>1, <3>2 DEF TypeOK, LowestFree
    <3> QED BY <1>9, <3>1, <3>2 DEF Register
  <2> QED BY <1>9, <2>2 DEF Register, TypeOK, ControlOK, shutdown, queues
<1>10. CASE Deregister(c)
  BY <1>10 DEF Deregister, TypeOK, ControlOK, shutdown, queues
<1> QED BY <1>1, <1>2, <1>3, <1>4, <1>5, <1>6, <1>7, <1>8, <1>9, <1>10
        DEF ClientStep

\* ... and what both do: finish a task and enqueue another.
LEMMA AnyTyped ==
  ASSUME Configured, IInv, NEW t \in Threads, AnyStep(t)
  PROVE  TypeOK' /\ ControlOK'
<1> USE DEF IInv
<1>1. CASE Finish(t)
  BY <1>1 DEF Finish, TypeOK, ControlOK, WorkerPCs, ClientPCs, Busy, ids,
     shutdown, queues, Threads
<1>2. ASSUME NEW g \in TaskTypes, NEW h \in BOOLEAN, Enqueue(t, g, h)
      PROVE  TypeOK' /\ ControlOK'
  <2>1. PICK woken \in Signal(g) :
           /\ waiters' = [waiters EXCEPT ![g] = @ \ woken]
           /\ pc' = [u \in Threads |-> IF u \in woken THEN "loop" ELSE pc[u]]
    BY <1>2 DEF Enqueue
  <2>2. \A u \in woken : u \in BgThreads /\ pc[u] = "wait" /\ Workers[u] = g
    BY <2>1 DEF Signal, TypeOK, ControlOK
  <2>3. TypeOK'
    BY <1>2, <2>1, EnqueueTyped DEF Enqueue, TypeOK, WorkerPCs, ids, shutdown
  <2>4. ControlOK'
    BY <1>2, <2>1, <2>2 DEF Enqueue, TypeOK, ControlOK, WorkerPCs, ClientPCs,
       Busy, Configured, Threads
  <2> QED BY <2>3, <2>4
<1> QED BY <1>1, <1>2 DEF AnyStep

-----------------------------------------------------------------------------
(* The counters.                                                           *)

\* Executes(g) is finite; adding or removing one thread changes its size by 1.
LEMMA ExecutesFinite ==
  ASSUME Configured, NEW S \in SUBSET Threads
  PROVE  IsFiniteSet(S) /\ Cardinality(S) \in Nat
<1>1. IsFiniteSet(Threads)
  BY FS_Union DEF Configured, Threads
<1>2. IsFiniteSet(S) BY <1>1, FS_Subset
<1> QED BY <1>2, FS_CardinalityType

\* The counter and the set it counts grow by one thread together ...
LEMMA ExecutesAdd ==
  ASSUME Configured, CountsOK, NEW g \in TaskTypes, NEW t \in Threads,
         t \notin Executes(g), Executes(g)' = Executes(g) \cup {t},
         \A k \in TaskTypes \ {g} : Executes(k)' = Executes(k),
         current_executing_tasks' =
            [current_executing_tasks EXCEPT ![g] = current_executing_tasks[g] + 1]
  PROVE  current_executing_tasks' = [k \in TaskTypes |-> Cardinality(Executes(k)')]
<1>1. Executes(g) \in SUBSET Threads BY DEF Executes
<1>2. Cardinality(Executes(g) \cup {t}) = Cardinality(Executes(g)) + 1
  BY <1>1, ExecutesFinite, FS_AddElement
<1> QED BY <1>2 DEF CountsOK

\* ... shrink by one together ...
LEMMA ExecutesRemove ==
  ASSUME Configured, CountsOK, NEW g \in TaskTypes, NEW t \in Threads,
         t \in Executes(g), Executes(g)' = Executes(g) \ {t},
         \A k \in TaskTypes \ {g} : Executes(k)' = Executes(k),
         current_executing_tasks' =
            [current_executing_tasks EXCEPT ![g] = current_executing_tasks[g] - 1]
  PROVE  current_executing_tasks' = [k \in TaskTypes |-> Cardinality(Executes(k)')]
<1>1. Executes(g) \in SUBSET Threads BY DEF Executes
<1>2. Cardinality(Executes(g) \ {t}) = Cardinality(Executes(g)) - 1
  BY <1>1, ExecutesFinite, FS_RemoveElement
<1> QED BY <1>2 DEF CountsOK

\* ... or stay.
LEMMA ExecutesSame ==
  ASSUME CountsOK, \A k \in TaskTypes : Executes(k)' = Executes(k),
         current_executing_tasks' = current_executing_tasks
  PROVE  current_executing_tasks' = [k \in TaskTypes |-> Cardinality(Executes(k)')]
BY DEF CountsOK

\* What one thread does to the sets.
LEMMA OneExecutes ==
  ASSUME NEW t \in Threads,
         \A u \in Threads \ {t} : pc'[u] = pc[u] /\ job'[u] = job[u]
  PROVE  \A g \in TaskTypes :
            /\ pc'[t] \in Busy /\ job'[t][2] = g =>
                  Executes(g)' = Executes(g) \cup {t}
            /\ ~(pc'[t] \in Busy /\ job'[t][2] = g) =>
                  Executes(g)' = Executes(g) \ {t}
<1> TAKE g \in TaskTypes
<1> DEFINE E == Executes(g)
           F == Executes(g)'
<1>1. \A u \in Threads \ {t} : u \in F <=> u \in E
  BY DEF Executes
<1>2. F \subseteq Threads /\ E \subseteq Threads BY DEF Executes
<1>3. t \in F <=> pc'[t] \in Busy /\ job'[t][2] = g
  BY DEF Executes
<1> HIDE DEF E, F
<1>4. pc'[t] \in Busy /\ job'[t][2] = g => F = E \cup {t}
  BY <1>1, <1>2, <1>3
<1>5. ~(pc'[t] \in Busy /\ job'[t][2] = g) => F = E \ {t}
  BY <1>1, <1>2, <1>3
<1> QED BY <1>4, <1>5 DEF E, F

\* A background worker keeps current_executing_tasks exact.
LEMMA WorkerCounts ==
  ASSUME Configured, IInv, NEW w \in BgThreads, WorkerStep(w)
  PROVE  CountsOK'
<1> DEFINE g == Workers[w]
<1> w \in Threads /\ g \in TaskTypes BY DEF Threads, Configured
<1>1. \A u \in Threads \ {w} : pc'[u] = pc[u] /\ job'[u] = job[u]
  BY DEF IInv, TypeOK, WorkerStep, WorkerTake, Take, WorkerWait, WorkerExit
<1>2. /\ pc[w] \in {"loop", "done"}
      /\ pc[w] = "done" => job[w][2] = g
  BY DEF WorkerStep, WorkerTake, WorkerWait, WorkerExit, IInv, ControlOK, Busy
<1>3. \A k \in TaskTypes : w \in Executes(k) <=> pc[w] = "done" /\ k = g
  BY <1>2 DEF Executes, Busy
<1>4. current_executing_tasks[g] \in Int
      /\ DOMAIN current_executing_tasks = TaskTypes
      /\ current_executing_tasks = [current_executing_tasks EXCEPT ![g] = @]
  <2>1. Executes(g) \in SUBSET Threads BY DEF Executes
  <2>2. Cardinality(Executes(g)) \in Nat BY <2>1, ExecutesFinite
  <2> QED BY <2>2 DEF IInv, CountsOK
<1> HIDE DEF g
<1> DEFINE Sizes == current_executing_tasks' =
                       [k \in TaskTypes |-> Cardinality(Executes(k)')]
<1>5. CASE WorkerTake(w)
  <2>1. Take(w, g) BY <1>5 DEF WorkerTake, g
  <2>2. pc'[w] = "run" /\ job'[w][2] = g
    BY <1>5, <2>1 DEF WorkerTake, Take, IInv, TypeOK
  <2>3. \A k \in TaskTypes : Executes(k)' = IF k = g THEN Executes(k) \cup {w}
                                            ELSE Executes(k) \ {w}
    BY <1>1, <2>2, OneExecutes DEF Busy
  <2>4. current_waiting_tasks' = [h \in TaskTypes |-> Len(tq'[h])]
    BY <2>1, TakeTyped
  <2>5. CASE pc[w] = "loop"
    <3>1. current_executing_tasks' =
             [current_executing_tasks EXCEPT ![g] = current_executing_tasks[g] + 1]
      <4>1. current_executing_tasks' =
               [current_executing_tasks EXCEPT ![g] = Executing(w, g) + 1]
        BY <1>5 DEF WorkerTake, g
      <4>2. Executing(w, g) = current_executing_tasks[g]
        BY <1>4, <2>5 DEF Executing
      <4> QED BY <4>1, <4>2
    <3>2. /\ w \notin Executes(g) /\ Executes(g)' = Executes(g) \cup {w}
          /\ \A k \in TaskTypes \ {g} : Executes(k)' = Executes(k)
      BY <1>3, <2>3, <2>5
    <3>3. Sizes BY <3>1, <3>2, ExecutesAdd DEF IInv
    <3> QED BY <2>4, <3>3 DEF CountsOK
  <2>6. CASE pc[w] = "done"
    <3>1. current_executing_tasks' =
             [current_executing_tasks EXCEPT ![g] = current_executing_tasks[g] - 1 + 1]
      BY <1>5, <2>6 DEF WorkerTake, Executing, g
    <3>2. current_executing_tasks' = current_executing_tasks
      BY <1>4, <3>1
    <3>3. \A k \in TaskTypes : Executes(k)' = Executes(k)
      BY <1>3, <2>3, <2>6
    <3>4. Sizes BY <3>2, <3>3, ExecutesSame DEF IInv
    <3> QED BY <2>4, <3>4 DEF CountsOK
  <2> QED BY <1>2, <2>5, <2>6
<1>6. CASE WorkerWait(w) \/ WorkerExit(w)
  <2>1. /\ pc'[w] \notin Busy
        /\ tq' = tq /\ current_waiting_tasks' = current_waiting_tasks
        /\ current_executing_tasks' =
              [current_executing_tasks EXCEPT ![g] = Executing(w, g)]
    BY <1>6 DEF WorkerWait, WorkerExit, IInv, TypeOK, Busy, queues, g
  <2>2. \A k \in TaskTypes : Executes(k)' = Executes(k) \ {w}
    BY <1>1, <2>1, OneExecutes
  <2>3. current_waiting_tasks' = [h \in TaskTypes |-> Len(tq'[h])]
    BY <2>1 DEF IInv, CountsOK
  <2>4. CASE pc[w] = "loop"
    <3>1. current_executing_tasks' = current_executing_tasks
      BY <1>4, <2>1, <2>4 DEF Executing
    <3>2. \A k \in TaskTypes : Executes(k)' = Executes(k)
      BY <1>3, <2>2, <2>4
    <3>3. Sizes BY <3>1, <3>2, ExecutesSame DEF IInv
    <3> QED BY <2>3, <3>3 DEF CountsOK
  <2>5. CASE pc[w] = "done"
    <3>1. current_executing_tasks' =
             [current_executing_tasks EXCEPT ![g] = current_executing_tasks[g] - 1]
      BY <2>1, <2>5 DEF Executing
    <3>2. /\ w \in Executes(g) /\ Executes(g)' = Executes(g) \ {w}
          /\ \A k \in TaskTypes \ {g} : Executes(k)' = Executes(k)
      BY <1>3, <2>2, <2>5
    <3>3. Sizes BY <3>1, <3>2, ExecutesRemove DEF IInv
    <3> QED BY <2>3, <3>3 DEF CountsOK
  <2> QED BY <1>2, <2>4, <2>5
<1> QED BY <1>5, <1>6 DEF WorkerStep

\* So does a client, which runs tasks inside task_perform_one and at closing.
LEMMA ClientCounts ==
  ASSUME Configured, IInv, NEW c \in Clients, ClientStep(c)
  PROVE  CountsOK'
<1> c \in Threads /\ c \notin BgThreads BY DEF Threads, Configured
<1> DEFINE Sizes == current_executing_tasks' =
                       [k \in TaskTypes |-> Cardinality(Executes(k)')]
<1>1. CASE PerformTake(c)
  <2> DEFINE g == level[c]
  <2>1. g \in TaskTypes /\ Take(c, g) BY <1>1 DEF PerformTake, IInv, TypeOK
  <2>2. /\ \A u \in Threads \ {c} : pc'[u] = pc[u] /\ job'[u] = job[u]
        /\ pc'[c] = "run" /\ job'[c][2] = g /\ pc[c] = "perform"
    BY <1>1, <2>1 DEF PerformTake, Take, IInv, TypeOK
  <2>3. \A k \in TaskTypes : c \notin Executes(k)
    BY <2>2 DEF Executes, Busy
  <2>4. current_executing_tasks' =
           [current_executing_tasks EXCEPT ![g] = current_executing_tasks[g] + 1]
    BY <1>1 DEF PerformTake, Claimed
  <2> HIDE DEF g
  <2>5. \A k \in TaskTypes : Executes(k)' = IF k = g THEN Executes(k) \cup {c}
                                            ELSE Executes(k) \ {c}
    BY <2>2, OneExecutes DEF Busy
  <2>6. Sizes
    <3>1. \A k \in TaskTypes \ {g} : Executes(k)' = Executes(k)
      BY <2>3, <2>5
    <3> QED BY <2>1, <2>3, <2>4, <2>5, <3>1, ExecutesAdd DEF IInv
  <2> QED BY <2>1, <2>6, TakeTyped DEF CountsOK
<1>2. CASE PerformDone(c)
  <2> DEFINE g == job[c][2]
  <2>1. g \in TaskTypes BY <1>2 DEF PerformDone, IInv, ControlOK, Busy
  <2>2. /\ \A u \in Threads \ {c} : pc'[u] = pc[u] /\ job'[u] = job[u]
        /\ pc'[c] \notin Busy /\ pc[c] = "done"
        /\ tq' = tq /\ current_waiting_tasks' = current_waiting_tasks
    BY <1>2 DEF PerformDone, IInv, TypeOK, Busy, queues
  <2>3. \A k \in TaskTypes : c \in Executes(k) <=> k = g
    BY <2>2 DEF Executes, Busy
  <2>4. current_executing_tasks' =
           [current_executing_tasks EXCEPT ![g] = current_executing_tasks[g] - 1]
    BY <1>2 DEF PerformDone
  <2> HIDE DEF g
  <2>5. \A k \in TaskTypes : Executes(k)' = Executes(k) \ {c}
    BY <2>2, OneExecutes
  <2>6. Sizes
    <3>1. \A k \in TaskTypes \ {g} : Executes(k)' = Executes(k)
      BY <2>3, <2>5
    <3> QED BY <2>1, <2>3, <2>4, <2>5, <3>1, ExecutesRemove DEF IInv
  <2> QED BY <2>2, <2>6 DEF IInv, CountsOK
<1>3. ASSUME tq' = tq, current_waiting_tasks' = current_waiting_tasks,
             current_executing_tasks' = current_executing_tasks, job' = job,
             \A u \in Threads : pc'[u] \in Busy <=> pc[u] \in Busy
      PROVE  CountsOK'
  <2>1. \A k \in TaskTypes : Executes(k)' = Executes(k)
    BY <1>3 DEF Executes
  <2>2. Sizes BY <1>3, <2>1, ExecutesSame DEF IInv
  <2> QED BY <1>3, <2>2 DEF IInv, CountsOK
<1>4. CASE \/ \E q \in {0, 100} : PerformBegin(c, q)
           \/ PerformNone(c) \/ Close(c) \/ TestQuiescent(c)
  <2>1. /\ UNCHANGED <<tq, current_waiting_tasks, current_executing_tasks, job>>
        /\ pc[c] \notin Busy
    BY <1>4 DEF PerformBegin, PerformNone, Close, TestQuiescent, queues, Busy
  <2>2. /\ pc'[c] \notin Busy
        /\ \A u \in Threads \ {c} : pc'[u] = pc[u]
    BY <1>4, <2>1 DEF PerformBegin, PerformNone, Close, TestQuiescent, IInv,
       TypeOK, Busy
  <2> QED BY <1>3, <2>1, <2>2
<1>5. CASE Destroy(c) \/ Register(c) \/ Deregister(c)
  <2>1. UNCHANGED <<tq, current_waiting_tasks, current_executing_tasks, job>>
    BY <1>5 DEF Destroy, Register, Deregister, queues
  <2>2. \A u \in Threads : pc'[u] \in Busy <=> pc[u] \in Busy
    BY <1>5 DEF Destroy, Register, Deregister, IInv, TypeOK, Busy
  <2> QED BY <1>3, <2>1, <2>2
<1>6. CASE \E g \in TaskTypes : StopGroup(c, g)
  <2>1. UNCHANGED <<tq, current_waiting_tasks, current_executing_tasks, job>>
    BY <1>6 DEF StopGroup, queues
  <2>2. \A u \in Threads : pc'[u] \in Busy <=> pc[u] \in Busy
    BY <1>6 DEF StopGroup, IInv, ControlOK, Busy
  <2> QED BY <1>3, <2>1, <2>2
<1> QED BY <1>1, <1>2, <1>4, <1>5, <1>6 DEF ClientStep

\* A signal wakes waiting workers only.
LEMMA EnqueueWakes ==
  ASSUME IInv, NEW t \in Threads, NEW g \in TaskTypes, NEW h \in BOOLEAN,
         Enqueue(t, g, h)
  PROVE  \A u \in Threads : \/ pc'[u] = pc[u]
                            \/ u \in BgThreads /\ pc[u] = "wait" /\ pc'[u] = "loop"
<1>1. PICK woken \in Signal(g) :
           pc' = [u \in Threads |-> IF u \in woken THEN "loop" ELSE pc[u]]
  BY DEF Enqueue
<1>2. \A u \in woken : u \in BgThreads /\ pc[u] = "wait"
  BY <1>1 DEF Signal, IInv, TypeOK, ControlOK
<1> QED BY <1>1, <1>2

\* Finishing and enqueueing leave the number of executing threads alone.
LEMMA AnyCounts ==
  ASSUME Configured, IInv, NEW t \in Threads, AnyStep(t)
  PROVE  CountsOK'
<1>1. CASE Finish(t)
  <2>1. \A k \in TaskTypes : Executes(k)' = Executes(k)
    BY <1>1 DEF Finish, Executes, Busy, IInv, TypeOK
  <2> QED BY <1>1, <2>1, ExecutesSame DEF Finish, queues, IInv, CountsOK
<1>2. ASSUME NEW g \in TaskTypes, NEW h \in BOOLEAN, Enqueue(t, g, h)
      PROVE  CountsOK'
  <2>1. job' = job /\ current_executing_tasks' = current_executing_tasks
    BY <1>2 DEF Enqueue
  <2>2. \A k \in TaskTypes : Executes(k)' = Executes(k)
    BY <1>2, <2>1, EnqueueWakes DEF Executes, Busy
  <2>3. current_waiting_tasks' = [k \in TaskTypes |-> Len(tq'[k])]
    BY <1>2, EnqueueTyped
  <2> QED BY <2>1, <2>2, <2>3, ExecutesSame DEF IInv, CountsOK
<1> QED BY <1>1, <1>2 DEF AnyStep

-----------------------------------------------------------------------------
(* No task is lost.                                                        *)

\* The queued tasks are the elements of the queue.
LEMMA QueuedElems ==
  ASSUME NEW g \in TaskTypes
  PROVE  Queued(g) = Elems(tq[g]) /\ Queued(g)' = Elems(tq'[g])
BY DEF Queued, Elems

\* A step that neither moves a task nor starts or ends one.
LEMMA TasksSame ==
  ASSUME TasksOK, UNCHANGED <<tq, job, done, enqueued>>,
         \A u \in Threads : pc'[u] = "run" <=> pc[u] = "run"
  PROVE  TasksOK'
<1>1. Running' = Running BY DEF Running
<1>2. Queued(1)' = Queued(1) /\ Queued(2)' = Queued(2) BY DEF Queued
<1> QED BY <1>1, <1>2 DEF TasksOK

\* A thread that was running nothing takes a task off a queue.
LEMMA TakeTasks ==
  ASSUME IInv, NEW t \in Threads, NEW g \in TaskTypes, Take(t, g),
         pc[t] # "run", pc' = [pc EXCEPT ![t] = "run"],
         UNCHANGED <<done, enqueued>>
  PROVE  TasksOK'
<1>1. /\ tq[g] \in Seq(Nat) /\ Len(tq[g]) # 0
      /\ tq' = [tq EXCEPT ![g] = Tail(@)]
      /\ job' = [job EXCEPT ![t] = <<Head(tq[g]), g>>]
  BY TakeTyped
<1>2. Elems(tq[g]) = Elems(tq'[g]) \cup {Head(tq[g])}
  <2>1. tq'[g] = Tail(tq[g]) BY <1>1 DEF IInv, TypeOK
  <2> QED BY <1>1, <2>1, ElemsTail
<1>3. \A k \in TaskTypes \ {g} : tq'[k] = tq[k]
  BY <1>1 DEF IInv, TypeOK
<1>4. Running' = Running \cup {Head(tq[g])}
  <2>1. /\ pc'[t] = "run" /\ job'[t][1] = Head(tq[g])
        /\ \A u \in Threads \ {t} : pc'[u] = pc[u] /\ job'[u] = job[u]
    BY <1>1 DEF IInv, TypeOK
  <2>2. \A n \in Running' : n \in Running \cup {Head(tq[g])}
    BY <2>1 DEF Running
  <2>3. \A n \in Running : n \in Running'
    BY <2>1 DEF Running
  <2>4. Head(tq[g]) \in Running'
    BY <2>1 DEF Running
  <2> QED BY <2>2, <2>3, <2>4
<1>5. Queued(1)' \cup Queued(2)' \cup {Head(tq[g])} = Queued(1) \cup Queued(2)
  BY <1>2, <1>3, QueuedElems DEF TaskTypes
<1> QED BY <1>4, <1>5 DEF IInv, TasksOK

\* A background worker loses no task: it moves one from the queue to itself.
LEMMA WorkerTasks ==
  ASSUME Configured, IInv, NEW w \in BgThreads, WorkerStep(w)
  PROVE  TasksOK'
<1> w \in Threads /\ Workers[w] \in TaskTypes BY DEF Threads, Configured
<1>1. CASE WorkerTake(w)
  BY <1>1, TakeTasks DEF WorkerTake
<1>2. CASE WorkerWait(w) \/ WorkerExit(w)
  <2>1. UNCHANGED <<tq, done, enqueued>> /\ pc[w] # "run" /\ pc'[w] # "run"
    BY <1>2 DEF WorkerWait, WorkerExit, queues, IInv, TypeOK
  <2>2. \A u \in Threads \ {w} : pc'[u] = pc[u] /\ job'[u] = job[u]
    BY <1>2 DEF WorkerWait, WorkerExit, IInv, TypeOK
  <2>3. Running' = Running BY <2>1, <2>2 DEF Running
  <2>4. Queued(1)' = Queued(1) /\ Queued(2)' = Queued(2) BY <2>1 DEF Queued
  <2> QED BY <2>1, <2>3, <2>4 DEF IInv, TasksOK
<1> QED BY <1>1, <1>2 DEF WorkerStep

\* Neither does a client.
LEMMA ClientTasks ==
  ASSUME Configured, IInv, NEW c \in Clients, ClientStep(c)
  PROVE  TasksOK'
<1> c \in Threads /\ c \notin BgThreads BY DEF Threads, Configured
<1>1. CASE PerformTake(c)
  <2>1. level[c] \in TaskTypes BY DEF IInv, TypeOK
  <2> QED BY <1>1, <2>1, TakeTasks DEF PerformTake
<1>2. CASE PerformDone(c)
  <2>1. UNCHANGED <<tq, done, enqueued>> /\ pc[c] # "run" /\ pc'[c] # "run"
    BY <1>2 DEF PerformDone, queues, IInv, TypeOK
  <2>2. \A u \in Threads \ {c} : pc'[u] = pc[u] /\ job'[u] = job[u]
    BY <1>2 DEF PerformDone, IInv, TypeOK
  <2>3. Running' = Running BY <2>1, <2>2 DEF Running
  <2>4. Queued(1)' = Queued(1) /\ Queued(2)' = Queued(2) BY <2>1 DEF Queued
  <2> QED BY <2>1, <2>3, <2>4 DEF IInv, TasksOK
<1>3. CASE \/ \E q \in {0, 100} : PerformBegin(c, q)
           \/ PerformNone(c) \/ Close(c) \/ TestQuiescent(c)
  <2>1. UNCHANGED <<tq, job, done, enqueued>> /\ pc[c] # "run"
    BY <1>3 DEF PerformBegin, PerformNone, Close, TestQuiescent, queues
  <2>2. /\ pc'[c] # "run"
        /\ \A u \in Threads \ {c} : pc'[u] = pc[u]
    BY <1>3, <2>1 DEF PerformBegin, PerformNone, Close, TestQuiescent, IInv,
       TypeOK
  <2> QED BY <2>1, <2>2, TasksSame DEF IInv
<1>4. CASE Destroy(c) \/ Register(c) \/ Deregister(c)
  <2>1. UNCHANGED <<tq, job, done, enqueued>>
    BY <1>4 DEF Destroy, Register, Deregister, queues
  <2>2. \A u \in Threads : pc'[u] = "run" <=> pc[u] = "run"
    BY <1>4 DEF Destroy, Register, Deregister, IInv, TypeOK
  <2> QED BY <2>1, <2>2, TasksSame DEF IInv
<1>5. CASE \E g \in TaskTypes : StopGroup(c, g)
  <2>1. UNCHANGED <<tq, job, done, enqueued>>
    BY <1>5 DEF StopGroup, queues
  <2>2. \A u \in Threads : pc'[u] = "run" <=> pc[u] = "run"
    BY <1>5 DEF StopGroup, IInv, ControlOK
  <2> QED BY <2>1, <2>2, TasksSame DEF IInv
<1> QED BY <1>1, <1>2, <1>3, <1>4, <1>5 DEF ClientStep

\* A finished task is done, an enqueued one is queued.
LEMMA AnyTasks ==
  ASSUME Configured, IInv, NEW t \in Threads, AnyStep(t)
  PROVE  TasksOK'
<1>1. CASE Finish(t)
  <2>1. /\ UNCHANGED <<tq, job, enqueued>> /\ done' = done \cup {job[t][1]}
        /\ pc[t] = "run" /\ pc'[t] # "run"
        /\ \A u \in Threads \ {t} : pc'[u] = pc[u]
    BY <1>1 DEF Finish, queues, IInv, TypeOK
  <2>2. Running \cup {job[t][1]} = Running' \cup {job[t][1]}
    BY <2>1 DEF Running
  <2>3. job[t][1] \in Running BY <2>1 DEF Running
  <2>4. Queued(1)' = Queued(1) /\ Queued(2)' = Queued(2) BY <2>1 DEF Queued
  <2> QED BY <2>1, <2>2, <2>3, <2>4 DEF IInv, TasksOK
<1>2. ASSUME NEW g \in TaskTypes, NEW h \in BOOLEAN, Enqueue(t, g, h)
      PROVE  TasksOK'
  <2>1. UNCHANGED <<job, done>> /\ enqueued' = enqueued + 1 /\ enqueued \in Nat
    BY <1>2 DEF Enqueue, IInv, TypeOK
  <2>2. Running' = Running
    <3>1. \A u \in Threads : pc'[u] = "run" <=> pc[u] = "run"
      BY <1>2, EnqueueWakes
    <3> QED BY <2>1, <3>1 DEF Running
  <2>3. Queued(1)' \cup Queued(2)' = Queued(1) \cup Queued(2) \cup {enqueued + 1}
    BY <1>2, EnqueueTyped, QueuedElems DEF TaskTypes
  <2>4. 1 .. enqueued' = (1 .. enqueued) \cup {enqueued + 1}
    BY <2>1
  <2> QED BY <2>1, <2>2, <2>3, <2>4 DEF IInv, TasksOK
<1> QED BY <1>1, <1>2 DEF AnyStep

-----------------------------------------------------------------------------
(* Closing, and the thread ids.                                            *)

\* In a quiescent system nobody runs a task.
LEMMA QuiescentIdle ==
  ASSUME Configured, IInv, IsQuiescent
  PROVE  /\ \A t \in Threads : pc[t] \notin Busy
         /\ \A g \in TaskTypes : tq[g] = <<>>
<1>1. \A g \in TaskTypes : Executes(g) = {}
  <2> TAKE g \in TaskTypes
  <2>1. Executes(g) \in SUBSET Threads BY DEF Executes
  <2>2. Cardinality(Executes(g)) = 0 BY DEF IsQuiescent, IInv, CountsOK
  <2> QED BY <2>1, <2>2, ExecutesFinite, FS_EmptySet
<1>2. \A t \in Threads : pc[t] \notin Busy
  BY <1>1 DEF Executes, IInv, ControlOK
<1>3. \A g \in TaskTypes : tq[g] = <<>>
  <2> TAKE g \in TaskTypes
  <2>1. tq[g] \in Seq(Nat) /\ Len(tq[g]) = 0
    BY DEF IsQuiescent, IInv, TypeOK, CountsOK
  <2> QED BY <2>1
<1> QED BY <1>2, <1>3

\* A closing system that is quiescent stays quiescent.
LEMMA QuiescentStays ==
  ASSUME Configured, IInv, IsQuiescent, closing, Next
  PROVE  IsQuiescent' /\ closing'
<1>1. \A t \in Threads : pc[t] \notin Busy BY QuiescentIdle
<1>2. \A g \in TaskTypes : current_waiting_tasks[g] = 0
                           /\ current_executing_tasks[g] = 0
  BY DEF IsQuiescent
<1>3. ASSUME NEW t \in Threads, AnyStep(t) PROVE FALSE
  BY <1>1, <1>3 DEF AnyStep, Finish, Enqueue, Busy
<1>4. ASSUME NEW w \in BgThreads, WorkerStep(w) PROVE IsQuiescent' /\ closing'
  <2> w \in Threads /\ Workers[w] \in TaskTypes BY DEF Threads, Configured
  <2>1. pc[w] = "loop" /\ ~ WorkerTake(w)
    BY <1>1, <1>2, <1>4 DEF WorkerStep, WorkerTake, WorkerWait, WorkerExit, Take,
       Busy
  <2>2. /\ UNCHANGED <<current_waiting_tasks, closing>>
        /\ current_executing_tasks' = [current_executing_tasks EXCEPT
              ![Workers[w]] = Executing(w, Workers[w])]
    BY <1>4, <2>1 DEF WorkerStep, WorkerWait, WorkerExit, queues, shutdown
  <2>3. Executing(w, Workers[w]) = 0 BY <1>2, <2>1 DEF Executing
  <2> QED BY <1>2, <2>2, <2>3 DEF IsQuiescent, IInv, CountsOK
<1>5. ASSUME NEW c \in Clients, ClientStep(c) PROVE IsQuiescent' /\ closing'
  <2> c \in Threads BY DEF Threads
  <2>1. ~ PerformTake(c) /\ ~ PerformDone(c)
    BY <1>1, <1>2 DEF PerformTake, PerformDone, Take, Busy, IInv, TypeOK
  <2>2. UNCHANGED <<current_waiting_tasks, current_executing_tasks, closing>>
    BY <1>5, <2>1 DEF ClientStep, PerformBegin, PerformNone, Close, TestQuiescent,
       Destroy, StopGroup, Register, Deregister, queues, shutdown
  <2> QED BY <2>2 DEF IsQuiescent
<1> QED BY <1>3, <1>4, <1>5 DEF Next, AnyStep, WorkerStep, ClientStep

\* Once closing is announced nothing starts that the announcement excludes.
LEMMA ClosingKept ==
  ASSUME Configured, IInv, Next
  PROVE  ClosingOK'
<1> USE DEF IInv
<1>1. closing => closing'
  <2>1. ASSUME NEW t \in Threads, AnyStep(t) PROVE UNCHANGED closing
    BY <2>1 DEF AnyStep, Finish, Enqueue, shutdown
  <2>2. ASSUME NEW w \in BgThreads, WorkerStep(w) PROVE UNCHANGED closing
    BY <2>2 DEF WorkerStep, WorkerTake, WorkerWait, WorkerExit, shutdown
  <2>3. ASSUME NEW c \in Clients, ClientStep(c) PROVE closing => closing'
    BY <2>3 DEF ClientStep, PerformBegin, PerformTake, PerformNone, PerformDone,
       Close, TestQuiescent, Destroy, StopGroup, Register, Deregister, shutdown
  <2> QED BY <2>1, <2>2, <2>3 DEF Next, AnyStep, WorkerStep, ClientStep
<1>2. closing /\ IsQuiescent => closing' /\ IsQuiescent'
  BY QuiescentStays
\* who begins to test, to stop or to exit
<1>3. \A c \in Clients : quiescing'[c] \/ pc'[c] = "test" =>
         quiescing[c] \/ pc[c] = "test" \/ closing'
  <2>1. ASSUME NEW t \in Threads, AnyStep(t), NEW c \in Clients
        PROVE  UNCHANGED quiescing /\ (pc'[c] = "test" => pc[c] = "test")
    <3> c \in Threads BY DEF Threads
    <3>1. CASE Finish(t) BY <3>1 DEF Finish, TypeOK
    <3>2. CASE \E g \in TaskTypes, h \in BOOLEAN : Enqueue(t, g, h)
      BY <3>2, EnqueueWakes DEF Enqueue
    <3> QED BY <2>1, <3>1, <3>2 DEF AnyStep
  <2>2. ASSUME NEW w \in BgThreads, WorkerStep(w), NEW c \in Clients
        PROVE  UNCHANGED quiescing /\ (pc'[c] = "test" => pc[c] = "test")
    BY <2>2 DEF WorkerStep, WorkerTake, WorkerWait, WorkerExit, TypeOK, Threads,
       Configured
  <2>3. ASSUME NEW d \in Clients, ClientStep(d), NEW c \in Clients
        PROVE  quiescing'[c] \/ pc'[c] = "test" =>
                  quiescing[c] \/ pc[c] = "test" \/ closing'
    <3> c \in Threads /\ d \in Threads BY DEF Threads
    <3>1. CASE Close(d) BY <3>1 DEF Close
    <3>2. CASE \/ \E q \in {0, 100} : PerformBegin(d, q)
               \/ PerformTake(d) \/ TestQuiescent(d) \/ Destroy(d)
      BY <3>2 DEF PerformBegin, PerformTake, TestQuiescent, Destroy, TypeOK
    <3>3. CASE PerformNone(d) \/ PerformDone(d)
      BY <3>3 DEF PerformNone, PerformDone, TypeOK
    <3>4. CASE \E g \in TaskTypes : StopGroup(d, g)
      BY <3>4 DEF StopGroup
    <3>5. CASE Register(d) \/ Deregister(d)
      BY <3>5 DEF Register, Deregister
    <3> QED BY <2>3, <3>1, <3>2, <3>3, <3>4, <3>5 DEF ClientStep
  <2> QED BY <2>1, <2>2, <2>3 DEF Next, AnyStep, WorkerStep, ClientStep
<1>4. \A c \in Clients : pc'[c] \in {"stop", "exit"} =>
         \/ pc[c] \in {"stop", "exit"}
         \/ pc[c] = "test" /\ IsQuiescent
  <2>1. ASSUME NEW t \in Threads, AnyStep(t), NEW c \in Clients
        PROVE  pc'[c] \in {"stop", "exit"} => pc[c] \in {"stop", "exit"}
    <3> c \in Threads BY DEF Threads
    <3>1. CASE Finish(t) BY <3>1 DEF Finish, TypeOK
    <3>2. CASE \E g \in TaskTypes, h \in BOOLEAN : Enqueue(t, g, h)
      BY <3>2, EnqueueWakes
    <3> QED BY <2>1, <3>1, <3>2 DEF AnyStep
  <2>2. ASSUME NEW w \in BgThreads, WorkerStep(w), NEW c \in Clients
        PROVE  pc'[c] = pc[c]
    BY <2>2 DEF WorkerStep, WorkerTake, WorkerWait, WorkerExit, TypeOK, Threads,
       Configured
  <2>3. ASSUME NEW d \in Clients, ClientStep(d), NEW c \in Clients
        PROVE  pc'[c] \in {"stop", "exit"} =>
                  \/ pc[c] \in {"stop", "exit"}
                  \/ pc[c] = "test" /\ IsQuiescent
    <3> c \in Threads /\ d \in Threads BY DEF Threads
    <3>1. CASE \/ \E q \in {0, 100} : PerformBegin(d, q)
               \/ PerformTake(d) \/ Destroy(d) \/ Close(d)
      BY <3>1 DEF PerformBegin, PerformTake, Close, Destroy, TypeOK
    <3>2. CASE TestQuiescent(d) BY <3>2 DEF TestQuiescent, TypeOK
    <3>3. CASE PerformNone(d) \/ PerformDone(d)
      BY <3>3 DEF PerformNone, PerformDone, TypeOK
    <3>4. CASE \E g \in TaskTypes : StopGroup(d, g)
      BY <3>4 DEF StopGroup
    <3>5. CASE Register(d) \/ Deregister(d)
      BY <3>5 DEF Register, Deregister
    <3> QED BY <2>3, <3>1, <3>2, <3>3, <3>4, <3>5 DEF ClientStep
  <2> QED BY <2>1, <2>2, <2>3 DEF Next, AnyStep, WorkerStep, ClientStep
<1>5. \A g \in TaskTypes : stop'[g] =>
         stop[g] \/ \E c \in Clients : pc[c] = "stop"
  <2>1. ASSUME NEW t \in Threads, AnyStep(t) PROVE UNCHANGED stop
    BY <2>1 DEF AnyStep, Finish, Enqueue, shutdown
  <2>2. ASSUME NEW w \in BgThreads, WorkerStep(w) PROVE UNCHANGED stop
    BY <2>2 DEF WorkerStep, WorkerTake, WorkerWait, WorkerExit, shutdown
  <2>3. ASSUME NEW c \in Clients, ClientStep(c)
        PROVE  UNCHANGED stop \/ pc[c] = "stop"
    BY <2>3 DEF ClientStep, PerformBegin, PerformTake, PerformNone, PerformDone,
       Close, TestQuiescent, Destroy, StopGroup, Register, Deregister, shutdown
  <2> QED BY <2>1, <2>2, <2>3 DEF Next, AnyStep, WorkerStep, ClientStep
<1>6. \A c \in Clients : quiescing'[c] \/ pc'[c] = "test" => closing'
  BY <1>1, <1>3 DEF ClosingOK
<1>7. \A c \in Clients : pc'[c] \in {"stop", "exit"} => closing' /\ IsQuiescent'
  BY <1>2, <1>4 DEF ClosingOK
<1>8. \A g \in TaskTypes : stop'[g] => closing' /\ IsQuiescent'
  BY <1>2, <1>5 DEF ClosingOK
<1> QED BY <1>6, <1>7, <1>8 DEF ClosingOK

\* A thread gives its id back: it has left the library.
LEMMA GiveBack ==
  ASSUME Configured, IInv, TypeOK', NEW t \in Threads, tid[t] # NoTid,
         tid' = [tid EXCEPT ![t] = NoTid], tid_bitmask' = GivenBack(tid[t]),
         thread_scratch' = thread_scratch \ {tid[t]},
         ~ Inside(t)', \A u \in Threads \ {t} : Inside(u)' => Inside(u)
  PROVE  IdsOK'
<1>1. NoTid \notin Tids BY DEF Configured, NoTid, Tids
<1>2. /\ tid'[t] = NoTid /\ tid[t] \in Tids
      /\ \A u \in Threads \ {t} : tid'[u] = tid[u] /\ tid[u] # tid[t]
  BY DEF IInv, TypeOK, IdsOK
<1>3. \A s, u \in Threads : tid'[s] = tid'[u] /\ tid'[s] # NoTid => s = u
  BY <1>2 DEF IInv, IdsOK
<1>4. {tid'[u] : u \in Threads} \ {NoTid}
         = ({tid[u] : u \in Threads} \ {tid[t]}) \ {NoTid}
  BY <1>2
<1>5. tid_bitmask' = Tids \ {tid'[u] : u \in Threads}
  BY <1>1, <1>2, <1>4 DEF IInv, IdsOK, GivenBack
<1>6. thread_scratch' = {tid'[u] : u \in Threads} \ {NoTid}
  BY <1>4 DEF IInv, IdsOK
<1>7. \A u \in Threads : Inside(u)' => tid'[u] # NoTid
  BY <1>2 DEF IInv, IdsOK
<1> QED BY <1>3, <1>5, <1>6, <1>7 DEF IdsOK

\* A step that leaves ids alone and lets nobody in without one.
LEMMA IdsSame ==
  ASSUME IInv, UNCHANGED <<tid, tid_bitmask, thread_scratch>>,
         \A u \in Threads : Inside(u)' => Inside(u) \/ tid[u] # NoTid
  PROVE  IdsOK'
BY DEF IInv, IdsOK

\* Registering, deregistering and all else keep the ids exclusive.
LEMMA IdsKept ==
  ASSUME Configured, IInv, TypeOK', Next
  PROVE  IdsOK'
<1> USE DEF IInv
<1>1. ASSUME NEW t \in Threads, AnyStep(t) PROVE IdsOK'
  <2>1. UNCHANGED <<tid, tid_bitmask, thread_scratch>>
    BY <1>1 DEF AnyStep, Finish, Enqueue, ids
  <2>2. \A u \in Threads : Inside(u)' => Inside(u)
    <3>1. CASE Finish(t) BY <3>1 DEF Finish, Inside, TypeOK
    <3>2. CASE \E g \in TaskTypes, h \in BOOLEAN : Enqueue(t, g, h)
      BY <3>2, EnqueueWakes DEF Inside, Configured
    <3> QED BY <1>1, <3>1, <3>2 DEF AnyStep
  <2> QED BY <2>1, <2>2, IdsSame
<1>2. ASSUME NEW w \in BgThreads, WorkerStep(w) PROVE IdsOK'
  <2> w \in Threads /\ w \notin Clients BY DEF Threads, Configured
  <2>1. \A u \in Threads \ {w} : pc'[u] = pc[u]
    BY <1>2 DEF WorkerStep, WorkerTake, WorkerWait, WorkerExit, TypeOK
  <2>2. \A u \in Threads \ {w} : Inside(u)' => Inside(u)
    BY <2>1 DEF Inside
  <2>3. Inside(w)
    BY <1>2 DEF WorkerStep, WorkerTake, WorkerWait, WorkerExit, Inside
  <2>4. CASE WorkerExit(w)
    <3>1. ~ Inside(w)' BY <2>4 DEF WorkerExit, Inside, TypeOK
    <3> QED BY <2>2, <2>3, <2>4, <3>1, GiveBack DEF WorkerExit, IdsOK
  <2>5. CASE WorkerTake(w) \/ WorkerWait(w)
    BY <2>2, <2>3, <2>5, IdsSame DEF WorkerTake, WorkerWait, ids
  <2> QED BY <1>2, <2>4, <2>5 DEF WorkerStep
<1>3. ASSUME NEW c \in Clients, ClientStep(c) PROVE IdsOK'
  <2> c \in Threads /\ c \notin BgThreads BY DEF Threads, Configured
  <2>1. CASE Destroy(c) \/ Deregister(c)
    <3>1. /\ tid[c] # NoTid /\ tid' = [tid EXCEPT ![c] = NoTid]
          /\ tid_bitmask' = GivenBack(tid[c])
          /\ thread_scratch' = thread_scratch \ {tid[c]}
      BY <2>1 DEF Destroy, Deregister, IdsOK, Inside
    <3>2. /\ ~ Inside(c)' /\ \A u \in Threads \ {c} : Inside(u)' => Inside(u)
      BY <2>1 DEF Destroy, Deregister, Inside, TypeOK
    <3> QED BY <3>1, <3>2, GiveBack
  <2>2. CASE \/ \E q \in {0, 100} : PerformBegin(c, q)
             \/ PerformTake(c) \/ Close(c) \/ TestQuiescent(c)
    <3>1. /\ UNCHANGED <<tid, tid_bitmask, thread_scratch>>
          /\ \A u \in Threads \ {c} : pc'[u] = pc[u]
      BY <2>2 DEF PerformBegin, PerformTake, Close, TestQuiescent, ids, TypeOK
    <3>2. tid[c] # NoTid
      BY <2>2 DEF PerformBegin, PerformTake, Close, TestQuiescent, IdsOK, Inside
    <3> QED BY <3>1, <3>2, IdsSame DEF Inside
  <2>3. CASE PerformNone(c) \/ PerformDone(c)
    <3>1. /\ UNCHANGED <<tid, tid_bitmask, thread_scratch>>
          /\ \A u \in Threads \ {c} : pc'[u] = pc[u]
      BY <2>3 DEF PerformNone, PerformDone, ids, TypeOK
    <3>2. tid[c] # NoTid
      BY <2>3 DEF PerformNone, PerformDone, IdsOK, Inside
    <3> QED BY <3>1, <3>2, IdsSame DEF Inside
  <2>4. CASE \E g \in TaskTypes : StopGroup(c, g)
    <3>1. UNCHANGED <<tid, tid_bitmask, thread_scratch>>
      BY <2>4 DEF StopGroup, ids
    <3>2. \A u \in Threads : \/ pc'[u] = pc[u]
                             \/ u \in BgThreads /\ pc[u] = "wait"
      BY <2>4 DEF StopGroup, TypeOK, ControlOK
    <3>3. \A u \in Threads : Inside(u)' => Inside(u)
      BY <3>2 DEF Inside, Configured
    <3> QED BY <3>1, <3>3, IdsSame
  <2>5. CASE Register(c)
    <3>1. \A u \in Threads : Inside(u)' => Inside(u)
      BY <2>5 DEF Register, Inside
    <3>2. CASE UNCHANGED <<tid, tid_bitmask, thread_scratch>>
      BY <3>1, <3>2, IdsSame
    <3>3. CASE ~ UNCHANGED <<tid, tid_bitmask, thread_scratch>>
      <4>1. PICK i \in LowestFree : /\ tid' = [tid EXCEPT ![c] = i]
                                    /\ tid_bitmask' = tid_bitmask \ {i}
                                    /\ thread_scratch' = thread_scratch \cup {i}
        BY <2>5, <3>3 DEF Register
      <4>2. i \in Tids /\ i # NoTid /\ \A u \in Threads : tid[u] # i
        BY <4>1 DEF LowestFree, IdsOK, Configured, Tids, NoTid
      <4>3. /\ tid[c] = NoTid /\ tid'[c] = i
            /\ \A u \in Threads \ {c} : tid'[u] = tid[u]
        BY <2>5, <4>1 DEF Register, TypeOK
      <4>4. \A s, u \in Threads : tid'[s] = tid'[u] /\ tid'[s] # NoTid => s = u
        BY <4>2, <4>3 DEF IdsOK
      <4>5. {tid'[u] : u \in Threads} \ {NoTid}
               = ({tid[u] : u \in Threads} \ {NoTid}) \cup {i}
        <5>1. \A u \in Threads : tid'[u] \in {tid[v] : v \in Threads} \cup {i}
          BY <4>3
        <5>2. \A u \in Threads : tid[u] # NoTid =>
                 tid[u] \in {tid'[v] : v \in Threads}
          BY <4>3
        <5>3. i \in {tid'[v] : v \in Threads} BY <4>3
        <5> QED BY <4>2, <5>1, <5>2, <5>3
      <4>6. NoTid \notin Tids BY DEF Configured, NoTid, Tids
      <4>7. tid_bitmask' = Tids \ {tid'[u] : u \in Threads}
        BY <4>1, <4>5, <4>6 DEF IdsOK
      <4>8. \A u \in Threads : Inside(u)' => tid'[u] # NoTid
        BY <3>1, <4>2, <4>3 DEF IdsOK
      <4> QED BY <4>1, <4>4, <4>5, <4>7, <4>8 DEF IdsOK
    <3> QED BY <3>2, <3>3
  <2> QED BY <1>3, <2>1, <2>2, <2>3, <2>4, <2>5 DEF ClientStep
<1> QED BY <1>1, <1>2, <1>3 DEF Next, AnyStep, WorkerStep, ClientStep

-----------------------------------------------------------------------------
(* The theorems.                                                           *)

\* IInv is inductive.
LEMMA NextIInv ==
  ASSUME Configured, IInv, Next
  PROVE  IInv'
<1>1. TypeOK' /\ ControlOK'
  BY AnyTyped, WorkerTyped, ClientTyped DEF Next, AnyStep, WorkerStep, ClientStep
<1>2. CountsOK'
  BY AnyCounts, WorkerCounts, ClientCounts DEF Next, AnyStep, WorkerStep, ClientStep
<1>3. TasksOK'
  BY AnyTasks, WorkerTasks, ClientTasks DEF Next, AnyStep, WorkerStep, ClientStep
<1> QED BY <1>1, <1>2, <1>3, ClosingKept, IdsKept DEF IInv

\* The invariant holds of every task system that task_config_valid accepts.
THEOREM IInvHolds == Spec => []IInv
<1> Configured BY ConfigAssumption
<1>1. IInv /\ [Next]_vars => IInv'
  <2> SUFFICES ASSUME IInv, [Next]_vars PROVE IInv'
    OBVIOUS
  <2>1. CASE Next BY <2>1, NextIInv
  <2>2. CASE UNCHANGED vars
    <3>1. TypeOK' /\ ControlOK' BY <2>2 DEF vars, IInv, TypeOK, ControlOK
    <3>2. CountsOK' /\ TasksOK'
      BY <2>2 DEF vars, IInv, CountsOK, TasksOK, Executes, Queued, Running
    <3>3. ClosingOK' /\ IdsOK'
      BY <2>2 DEF vars, IInv, ClosingOK, IdsOK, Inside, IsQuiescent
    <3> QED BY <3>1, <3>2, <3>3 DEF IInv
  <2> QED BY <2>1, <2>2
<1>2. Init => IInv BY InitIInv
<1> QED BY <1>1, <1>2, PTL DEF Spec

(* task_system_is_quiescent answers TRUE only when every task that was ever *)
(* enqueued has run, and the groups are stopped with empty queues, for any *)
(* number of workers and of clients that perform tasks themselves.         *)
THEOREM QuiescenceIsTrue == Spec => []QuiescentIsTrue
<1> Configured BY ConfigAssumption
<1>1. IInv => QuiescentIsTrue
  <2> SUFFICES ASSUME IInv PROVE QuiescentIsTrue
    OBVIOUS
  <2>1. IsQuiescent => done = 1 .. enqueued
    <3> HAVE IsQuiescent
    <3>1. Running = {} BY QuiescentIdle DEF Running, Busy
    <3>2. Queued(1) = {} /\ Queued(2) = {}
      BY QuiescentIdle DEF Queued, TaskTypes
    <3> QED BY <3>1, <3>2 DEF IInv, TasksOK
  <2>2. \A g \in TaskTypes : current_waiting_tasks[g] = Len(tq[g])
    BY DEF IInv, CountsOK
  <2>3. \A g \in TaskTypes : stop[g] => tq[g] = <<>>
    BY QuiescentIdle DEF IInv, ClosingOK
  <2> QED BY <2>1, <2>2, <2>3 DEF QuiescentIsTrue
<1> QED BY <1>1, IInvHolds, PTL

(* Registered threads have ids and scratch memory of their own and the mask *)
(* holds exactly the other ids, however threads come and go.               *)
THEOREM TidsStayExclusive == Spec => []TidsAreExclusive
<1> Configured BY ConfigAssumption
<1>1. IInv => TidsAreExclusive
  <2> SUFFICES ASSUME IInv PROVE TidsAreExclusive
    OBVIOUS
  <2>1. \A t \in Threads : pc[t] = "run" => tid[t] # NoTid
    BY DEF IInv, IdsOK, Inside, Threads
  <2>2. \A t \in Threads : pc[t] = "run" => tid[t] \in thread_scratch
    BY <2>1 DEF IInv, IdsOK
  <2> QED BY <2>2 DEF IInv, IdsOK, TidsAreExclusive
<1> QED BY <1>1, IInvHolds, PTL

=============================================================================
