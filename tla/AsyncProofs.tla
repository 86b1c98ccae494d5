---------------------------- MODULE AsyncProofs ----------------------------
(* The asynchronous I/O and the asynchronous get, for any number of         *)
(* threads, requests, coroutines and entries.                               *)
EXTENDS AsyncIo, AsyncGet, FiniteSetTheorems, SequenceTheorems, TLAPS

-----------------------------------------------------------------------------
(* Closing the I/O context.                                                 *)
(*                                                                          *)
(* laio_deregister_thread closes the context when io_count is 0, and the    *)
(* count goes down before the callback is called.  That nothing is left     *)
(* behind rests on two facts: the count is the number of requests between   *)
(* their first call and the reaping of their event (CountIsExact), for      *)
(* which every request has to be in exactly one place (Places); and a       *)
(* thread that has found the count 0 starts nothing before it leaves        *)
(* (SomebodyServes).                                                        *)

IoLabels == {"out", "idle", "submit", "lock", "submit_locked", "append",
             "unlock", "reap", "count", "callback", "release", "release_lock",
             "pop", "release_unlock", "deregister", "join"}

\* The type of every variable but the lock of the queue.
IoTypeOK ==
    /\ registered \subseteq IoThreads
    /\ context \in {"none", "up", "closing"}
    /\ io_count \in Int
    /\ kernel \in [Requests -> {"none", "queued", "complete"}]
    /\ state \in [Requests -> {"new", "owned", "kernel", "waiting", "done"}]
    /\ waiters \in Seq(Requests)
    /\ io_pc \in [Actors -> IoLabels]
    /\ cur \in [Actors -> Requests \cup {Nil}]
    /\ cleanup \in [IoThreads -> {"none", "one", "all", "last", "served"}]

Submitting == {"submit", "lock", "submit_locked", "append"}
Reaped == {"count", "callback"}

\* The actor has a request in its hands.
Holds(a) == \/ io_pc[a] \in Submitting \cup Reaped
            \/ io_pc[a] = "release_unlock" /\ cur[a] # Nil

Queued(r) == \E i \in 1 .. Len(waiters) : waiters[i] = r

\* What an actor has in its hands, nobody else has.
HeldOwn ==
    \A a \in Actors : Holds(a) =>
      /\ cur[a] \in Requests
      /\ io_pc[a] \in Submitting => state[cur[a]] = "owned"
      /\ io_pc[a] \in Reaped => state[cur[a]] = "kernel"
      /\ io_pc[a] = "release_unlock" => /\ state[cur[a]] = "waiting"
                                        /\ ~Queued(cur[a])
      /\ kernel[cur[a]] = "none"
HeldApart ==
    \A a, b \in Actors : a # b /\ Holds(a) /\ Holds(b) => cur[a] # cur[b]

\* What the kernel has and what waits is in that state, and waits once.
KernelHas == \A r \in Requests : kernel[r] # "none" => state[r] = "kernel"
WaitersWait ==
    /\ \A i \in 1 .. Len(waiters) : state[waiters[i]] = "waiting"
    /\ \A i, j \in 1 .. Len(waiters) : waiters[i] = waiters[j] => i = j

Places == HeldOwn /\ HeldApart /\ KernelHas /\ WaitersWait

\* The requests the count stands for.
Live == {r \in Requests : /\ state[r] \in {"owned", "kernel", "waiting"}
                          /\ \A a \in Actors : io_pc[a] = "callback" => cur[a] # r}

CountIsExact == io_count = Cardinality(Live)

\* While something is counted, a thread that has not found it 0 is there.
SomebodyServes ==
    io_count > 0 => \E t \in registered : io_pc[t] # "deregister"

\* Which threads are there, and what is left when they leave.
Registration ==
    /\ \A t \in IoThreads : t \in registered <=> io_pc[t] \notin {"out", "join"}
    /\ context = "none" => registered = {} /\ \A a \in Actors : io_pc[a] = "out"
    /\ context = "closing" => registered = {}
    /\ context # "up" => io_count = 0
    /\ \A t, u \in IoThreads : io_pc[t] = "join" /\ io_pc[u] = "join" => t = u
    /\ \A t \in IoThreads : io_pc[t] = "join" => context = "closing"
    /\ io_pc[Cleaner] \notin {"idle", "deregister", "join"}

IoInv == IoTypeOK /\ Places /\ CountIsExact /\ SomebodyServes /\ Registration

\* Finitely many requests are counted.
LEMMA CountedIsFinite == IsFiniteSet(Live) /\ Cardinality(Live) \in Nat
<1>1. IsFiniteSet(Requests) /\ Live \subseteq Requests
  BY IoConstants DEF IoAssumption, Live
<1> QED BY <1>1, FS_Subset, FS_CardinalityType

\* What is being submitted, or was just reaped, is counted, so the context is
\* up.
LEMMA HeldIsCounted ==
  ASSUME NEW a \in Actors, IoInv, io_pc[a] \in Submitting \cup {"count"}
  PROVE  cur[a] \in Live /\ io_count > 0 /\ context = "up"
<1>1. cur[a] \in Live
  BY DEF IoInv, Places, HeldOwn, HeldApart, Holds, Live, Submitting, Reaped
<1>2. Cardinality(Live) # 0
  BY <1>1, CountedIsFinite, FS_EmptySet
<1>3. io_count > 0
  BY <1>2, CountedIsFinite DEF IoInv, CountIsExact
<1> QED BY <1>1, <1>3 DEF IoInv, Registration, IoTypeOK

\* Before the first thread registers the invariant holds.
LEMMA IoInvInit == IoInit => IoInv
<1> SUFFICES ASSUME IoInit PROVE IoInv
  OBVIOUS
<1>1. IoTypeOK
  BY DEF IoInit, IoTypeOK, IoLabels
<1>2. Places
  BY DEF IoInit, Places, HeldOwn, HeldApart, KernelHas, WaitersWait, Holds,
         Submitting, Reaped, Actors
<1>3. CountIsExact
  <2>1. Live = {}
    BY DEF IoInit, Live
  <2> QED BY <2>1, FS_EmptySet DEF IoInit, CountIsExact
<1>4. SomebodyServes /\ Registration
  BY DEF IoInit, SomebodyServes, Registration, Actors
<1> QED BY <1>1, <1>2, <1>3, <1>4 DEF IoInv

\* laio_register_thread: the first thread finds no context, hence nothing
\* queued.
LEMMA RegisterKeeps ==
  ASSUME NEW t \in IoThreads, IoInv, Register(t)
  PROVE  IoInv'
<1>0. IoTypeOK /\ HeldOwn /\ HeldApart /\ KernelHas /\ WaitersWait /\ CountIsExact
        /\ SomebodyServes /\ Registration
  BY DEF IoInv, Places
<1>1. IoTypeOK'
  <2>1. waiters' \in Seq(Requests)
    <3>1. <<>> \in Seq(Requests)
      OBVIOUS
    <3>2. waiters' = <<>> \/ waiters' = waiters
      BY DEF Register
    <3> QED BY <1>0, <3>1, <3>2 DEF IoTypeOK
  <2>2. io_pc' \in [Actors -> IoLabels]
    BY <1>0 DEF IoTypeOK, Register, IoGoto, IoLabels
  <2> QED BY <1>0, <2>1, <2>2 DEF IoTypeOK, Register
<1>2. HeldOwn'
  BY <1>0
  DEF HeldOwn, Holds, Queued, Submitting, Reaped, IoTypeOK, Register, IoGoto
<1>3. HeldApart'
  BY <1>0 DEF HeldApart, Holds, Submitting, Reaped, IoTypeOK, Register, IoGoto
<1>4. KernelHas'
  BY <1>0 DEF KernelHas, IoTypeOK, Register, IoGoto
<1>5. WaitersWait'
  BY <1>0 DEF WaitersWait, IoTypeOK, Register, IoGoto
<1>6. CountIsExact'
  <2>1. \A a \in Actors : io_pc'[a] = "callback" <=> io_pc[a] = "callback"
    BY <1>0, IoConstants
    DEF IoAssumption, Registration, IoTypeOK, Register, IoGoto, Actors
  <2>2. Live' = Live
    BY <2>1 DEF Live, Register
  <2> QED BY <1>0, <2>2 DEF CountIsExact, Register
<1>7. SomebodyServes'
  BY <1>0, IoConstants
  DEF SomebodyServes, IoTypeOK, Register, IoGoto, Actors, IoAssumption
<1>8. Registration'
  BY <1>0, IoConstants
  DEF Registration, Actors, IoTypeOK, Register, IoGoto, IoAssumption
<1> QED BY <1>1, <1>2, <1>3, <1>4, <1>5, <1>6, <1>7, <1>8 DEF IoInv, Places

\* laio_deregister_thread under ctx_lock: had anything been counted, a thread
\* that has not found the count 0 would remain (SomebodyServes).
LEMMA DeregisterKeeps ==
  ASSUME NEW t \in IoThreads, IoInv, Deregister(t)
  PROVE  IoInv'
<1>0. IoTypeOK /\ HeldOwn /\ HeldApart /\ KernelHas /\ WaitersWait /\ CountIsExact
        /\ SomebodyServes /\ Registration
  BY DEF IoInv, Places
<1>1. IoTypeOK'
  BY <1>0 DEF IoTypeOK, IoLabels, Deregister, IoGoto
<1>2. HeldOwn'
  BY <1>0
  DEF HeldOwn, Holds, Queued, Submitting, Reaped, IoTypeOK, Deregister, IoGoto
<1>3. HeldApart'
  BY <1>0
  DEF HeldApart, Holds, Submitting, Reaped, IoTypeOK, Deregister, IoGoto
<1>4. KernelHas'
  BY <1>0 DEF KernelHas, IoTypeOK, Deregister, IoGoto
<1>5. WaitersWait'
  BY <1>0 DEF WaitersWait, IoTypeOK, Deregister, IoGoto
<1>6. CountIsExact'
  <2>1. Live' = Live
    BY <1>0, IoConstants
    DEF IoAssumption, HeldOwn, HeldApart, Live, Holds, Submitting, Reaped,
        IoTypeOK, Deregister, IoGoto, SetState, Actors
  <2> QED BY <1>0, <2>1 DEF CountIsExact, Deregister
<1>7. SomebodyServes'
  BY <1>0, IoConstants
  DEF SomebodyServes, IoTypeOK, Deregister, IoGoto, Actors, IoAssumption
<1>8. Registration'
  <2>1. CASE registered = {t}
    <3>1. io_count <= 0
      BY <1>0, <2>1 DEF SomebodyServes, IoTypeOK, Deregister
    <3>2. io_count = 0
      BY <1>0, <3>1, CountedIsFinite DEF CountIsExact
    <3> QED
      BY <1>0, <2>1, <3>2, IoConstants
      DEF IoAssumption, Registration, IoTypeOK, Deregister, IoGoto, Actors
  <2>2. CASE registered # {t}
    BY <1>0, <2>2, IoConstants
    DEF IoAssumption, Registration, IoTypeOK, Deregister, IoGoto, Actors
  <2> QED BY <2>1, <2>2
<1> QED BY <1>1, <1>2, <1>3, <1>4, <1>5, <1>6, <1>7, <1>8 DEF IoInv, Places

\* laio_cleaner leaves its loop.
LEMMA CleanerExitKeeps ==
  ASSUME IoInv, CleanerExit
  PROVE  IoInv'
<1>0. IoTypeOK /\ HeldOwn /\ HeldApart /\ KernelHas /\ WaitersWait /\ CountIsExact
        /\ SomebodyServes /\ Registration
  BY DEF IoInv, Places
<1>1. IoTypeOK'
  BY <1>0 DEF IoTypeOK, IoLabels, CleanerExit, IoGoto
<1>2. HeldOwn'
  BY <1>0
  DEF HeldOwn, Holds, Queued, Submitting, Reaped, IoTypeOK, CleanerExit,
      IoGoto
<1>3. HeldApart'
  BY <1>0
  DEF HeldApart, Holds, Submitting, Reaped, IoTypeOK, CleanerExit, IoGoto
<1>4. KernelHas'
  BY <1>0 DEF KernelHas, IoTypeOK, CleanerExit, IoGoto
<1>5. WaitersWait'
  BY <1>0 DEF WaitersWait, IoTypeOK, CleanerExit, IoGoto
<1>6. CountIsExact'
  <2>1. Live' = Live
    BY <1>0, IoConstants
    DEF IoAssumption, HeldOwn, HeldApart, Live, Holds, Submitting, Reaped,
        IoTypeOK, CleanerExit, IoGoto, SetState, Actors
  <2> QED BY <1>0, <2>1 DEF CountIsExact, CleanerExit
<1>7. SomebodyServes'
  BY <1>0 DEF SomebodyServes, IoTypeOK, CleanerExit, IoGoto
<1>8. Registration'
  BY <1>0 DEF Registration, Actors, IoTypeOK, CleanerExit, IoGoto
<1> QED BY <1>1, <1>2, <1>3, <1>4, <1>5, <1>6, <1>7, <1>8 DEF IoInv, Places

\* The last thread has waited for the cleaner.
LEMMA JoinKeeps ==
  ASSUME NEW t \in IoThreads, IoInv, Join(t)
  PROVE  IoInv'
<1>0. IoTypeOK /\ HeldOwn /\ HeldApart /\ KernelHas /\ WaitersWait /\ CountIsExact
        /\ SomebodyServes /\ Registration
  BY DEF IoInv, Places
<1>1. IoTypeOK'
  BY <1>0 DEF IoTypeOK, IoLabels, Join, IoGoto
<1>2. HeldOwn'
  BY <1>0
  DEF HeldOwn, Holds, Queued, Submitting, Reaped, IoTypeOK, Join, IoGoto
<1>3. HeldApart'
  BY <1>0 DEF HeldApart, Holds, Submitting, Reaped, IoTypeOK, Join, IoGoto
<1>4. KernelHas'
  BY <1>0 DEF KernelHas, IoTypeOK, Join, IoGoto
<1>5. WaitersWait'
  BY <1>0 DEF WaitersWait, IoTypeOK, Join, IoGoto
<1>6. CountIsExact'
  <2>1. Live' = Live
    BY <1>0, IoConstants
    DEF IoAssumption, HeldOwn, HeldApart, Live, Holds, Submitting, Reaped,
        IoTypeOK, Join, IoGoto, SetState, Actors
  <2> QED BY <1>0, <2>1 DEF CountIsExact, Join
<1>7. SomebodyServes'
  BY <1>0 DEF SomebodyServes, IoTypeOK, Join, IoGoto
<1>8. Registration'
  BY <1>0 DEF Registration, Actors, IoTypeOK, Join, IoGoto
<1> QED BY <1>1, <1>2, <1>3, <1>4, <1>5, <1>6, <1>7, <1>8 DEF IoInv, Places

\* The first call of laio_async_run: one more request is counted.
LEMMA StartKeeps ==
  ASSUME NEW t \in IoThreads, NEW r \in Requests, IoInv, Start(t, r)
  PROVE  IoInv'
<1>0. IoTypeOK /\ HeldOwn /\ HeldApart /\ KernelHas /\ WaitersWait /\ CountIsExact
        /\ SomebodyServes /\ Registration
  BY DEF IoInv, Places
<1>1. IoTypeOK'
  BY <1>0, IoConstants
  DEF IoTypeOK, IoLabels, Start, IoGoto, SetState, Actors, IoAssumption
<1>2. HeldOwn'
  BY <1>0, IoConstants
  DEF IoAssumption, HeldOwn, HeldApart, KernelHas, WaitersWait, Holds, Queued,
      Submitting, Reaped, IoTypeOK, Start, IoGoto, SetState, Actors
<1>3. HeldApart'
  BY <1>0
  DEF HeldApart, Holds, Submitting, Reaped, IoTypeOK, Start, IoGoto, SetState,
      HeldOwn
<1>4. KernelHas'
  BY <1>0 DEF KernelHas, IoTypeOK, Start, IoGoto, SetState
<1>5. WaitersWait'
  BY <1>0 DEF WaitersWait, IoTypeOK, Start, IoGoto, SetState
<1>6. CountIsExact'
  <2>1. r \notin Live
    BY DEF Live, Start
  <2>2. \A a \in Actors : io_pc'[a] = "callback" => cur'[a] # r
    BY <1>0 DEF HeldOwn, Holds, Reaped, IoTypeOK, Start, IoGoto, Actors
  <2>3. Live' = Live \cup {r}
    BY <1>0, <2>2 DEF Live, IoTypeOK, Start, IoGoto, SetState, Actors
  <2>4. Cardinality(Live') = Cardinality(Live) + 1
    BY <2>1, <2>3, CountedIsFinite, FS_AddElement
  <2> QED BY <1>0, <2>4 DEF CountIsExact, Start
<1>7. SomebodyServes'
  BY <1>0, IoConstants
  DEF IoAssumption, SomebodyServes, Registration, IoTypeOK, Start, IoGoto,
      SetState, Actors
<1>8. Registration'
  BY <1>0 DEF Registration, Actors, IoTypeOK, Start, IoGoto, SetState
<1> QED BY <1>1, <1>2, <1>3, <1>4, <1>5, <1>6, <1>7, <1>8 DEF IoInv, Places

\* io_cleanup is called.
LEMMA CleanupKeeps ==
  ASSUME NEW t \in IoThreads, NEW n \in {"one", "all", "last"}, IoInv, Cleanup(t, n)
  PROVE  IoInv'
<1>0. IoTypeOK /\ HeldOwn /\ HeldApart /\ KernelHas /\ WaitersWait /\ CountIsExact
        /\ SomebodyServes /\ Registration
  BY DEF IoInv, Places
<1>1. IoTypeOK'
  BY <1>0 DEF IoTypeOK, IoLabels, Cleanup, IoGoto
<1>2. HeldOwn'
  BY <1>0
  DEF HeldOwn, Holds, Queued, Submitting, Reaped, IoTypeOK, Cleanup, IoGoto
<1>3. HeldApart'
  BY <1>0 DEF HeldApart, Holds, Submitting, Reaped, IoTypeOK, Cleanup, IoGoto
<1>4. KernelHas'
  BY <1>0 DEF KernelHas, IoTypeOK, Cleanup, IoGoto
<1>5. WaitersWait'
  BY <1>0 DEF WaitersWait, IoTypeOK, Cleanup, IoGoto
<1>6. CountIsExact'
  <2>1. Live' = Live
    BY <1>0, IoConstants
    DEF IoAssumption, HeldOwn, HeldApart, Live, Holds, Submitting, Reaped,
        IoTypeOK, Cleanup, IoGoto, SetState, Actors
  <2> QED BY <1>0, <2>1 DEF CountIsExact, Cleanup
<1>7. SomebodyServes'
  BY <1>0 DEF SomebodyServes, IoTypeOK, Cleanup, IoGoto
<1>8. Registration'
  BY <1>0 DEF Registration, Actors, IoTypeOK, Cleanup, IoGoto
<1> QED BY <1>1, <1>2, <1>3, <1>4, <1>5, <1>6, <1>7, <1>8 DEF IoInv, Places

\* io_cleanup returns; laio_deregister_thread goes on only when the count was
\* 0, so that SomebodyServes says nothing.
LEMMA CleanupEndKeeps ==
  ASSUME NEW t \in IoThreads, IoInv, CleanupEnd(t)
  PROVE  IoInv'
<1>0. IoTypeOK /\ HeldOwn /\ HeldApart /\ KernelHas /\ WaitersWait /\ CountIsExact
        /\ SomebodyServes /\ Registration
  BY DEF IoInv, Places
<1>1. IoTypeOK'
  BY <1>0 DEF IoTypeOK, IoLabels, CleanupEnd, IoGoto
<1>2. HeldOwn'
  BY <1>0
  DEF HeldOwn, Holds, Queued, Submitting, Reaped, IoTypeOK, CleanupEnd, IoGoto
<1>3. HeldApart'
  BY <1>0
  DEF HeldApart, Holds, Submitting, Reaped, IoTypeOK, CleanupEnd, IoGoto
<1>4. KernelHas'
  BY <1>0 DEF KernelHas, IoTypeOK, CleanupEnd, IoGoto
<1>5. WaitersWait'
  BY <1>0 DEF WaitersWait, IoTypeOK, CleanupEnd, IoGoto
<1>6. CountIsExact'
  <2>1. Live' = Live
    BY <1>0, IoConstants
    DEF IoAssumption, HeldOwn, HeldApart, Live, Holds, Submitting, Reaped,
        IoTypeOK, CleanupEnd, IoGoto, SetState, Actors
  <2> QED BY <1>0, <2>1 DEF CountIsExact, CleanupEnd
<1>7. SomebodyServes'
  BY <1>0 DEF SomebodyServes, IoTypeOK, CleanupEnd, IoGoto
<1>8. Registration'
  BY <1>0, IoConstants
  DEF Registration, Actors, IoTypeOK, CleanupEnd, IoGoto, IoAssumption
<1> QED BY <1>1, <1>2, <1>3, <1>4, <1>5, <1>6, <1>7, <1>8 DEF IoInv, Places

\* io_submit accepts the request: from now on only the kernel has it.
LEMMA AcceptedKeeps ==
  ASSUME NEW a \in Actors, IoInv, Accepted(a)
  PROVE  IoInv'
<1>0. IoTypeOK /\ HeldOwn /\ HeldApart /\ KernelHas /\ WaitersWait /\ CountIsExact
        /\ SomebodyServes /\ Registration
  BY DEF IoInv, Places
<1>1. IoTypeOK'
  BY <1>0 DEF IoTypeOK, IoLabels, Accepted, IoGoto, SetState, Back
<1>2. HeldOwn'
  BY <1>0, IoConstants
  DEF IoAssumption, HeldOwn, HeldApart, KernelHas, WaitersWait, Holds, Queued,
      Submitting, Reaped, IoTypeOK, Accepted, IoGoto, SetState, Back, Actors
<1>3. HeldApart'
  BY <1>0
  DEF HeldApart, Holds, Submitting, Reaped, IoTypeOK, Accepted, IoGoto,
      SetState, Back
<1>4. KernelHas'
  BY <1>0 DEF KernelHas, IoTypeOK, Accepted, IoGoto, SetState, Back
<1>5. WaitersWait'
  BY <1>0
  DEF WaitersWait, HeldOwn, KernelHas, Holds, Submitting, Reaped, IoTypeOK,
      Accepted, IoGoto, SetState, Back
<1>6. CountIsExact'
  <2>1. Live' = Live
    BY <1>0, IoConstants
    DEF IoAssumption, HeldOwn, HeldApart, Live, Holds, Submitting, Reaped,
        IoTypeOK, Accepted, IoGoto, SetState, Back, Actors
  <2> QED BY <1>0, <2>1 DEF CountIsExact, Accepted
<1>7. SomebodyServes'
  BY <1>0 DEF SomebodyServes, IoTypeOK, Accepted, IoGoto, SetState, Back
<1>8. Registration'
  BY <1>0 DEF Registration, Actors, IoTypeOK, Accepted, IoGoto, SetState, Back
<1> QED BY <1>1, <1>2, <1>3, <1>4, <1>5, <1>6, <1>7, <1>8 DEF IoInv, Places

\* io_submit fails: one request less is counted.
LEMMA RefusedKeeps ==
  ASSUME NEW a \in Actors, IoInv, Refused(a)
  PROVE  IoInv'
<1>0. IoTypeOK /\ HeldOwn /\ HeldApart /\ KernelHas /\ WaitersWait /\ CountIsExact
        /\ SomebodyServes /\ Registration
  BY DEF IoInv, Places
<1>1. IoTypeOK'
  <2>1. io_pc' \in [Actors -> IoLabels]
    BY <1>0 DEF IoTypeOK, Refused, IoGoto, Back, IoLabels
  <2>2. io_count' \in Int
    BY <1>0 DEF IoTypeOK, Refused
  <2> QED BY <1>0, <2>1, <2>2 DEF IoTypeOK, Refused, SetState
<1>2. HeldOwn'
  BY <1>0, IoConstants
  DEF IoAssumption, HeldOwn, HeldApart, KernelHas, WaitersWait, Holds, Queued,
      Submitting, Reaped, IoTypeOK, Refused, IoGoto, SetState, Back, Actors
<1>3. HeldApart'
  BY <1>0
  DEF HeldApart, Holds, Submitting, Reaped, IoTypeOK, Refused, IoGoto,
      SetState, Back
<1>4. KernelHas'
  BY <1>0
  DEF HeldOwn, KernelHas, Holds, Submitting, Reaped, IoTypeOK, Refused,
      IoGoto, SetState, Back
<1>5. WaitersWait'
  BY <1>0
  DEF WaitersWait, HeldOwn, KernelHas, Holds, Submitting, Reaped, IoTypeOK,
      Refused, IoGoto, SetState, Back
<1>6. CountIsExact'
  <2>1. cur[a] \in Live
    BY HeldIsCounted DEF Refused, Submitting
  <2>2. Live' = Live \ {cur[a]}
    BY <1>0, <2>1
    DEF HeldOwn, HeldApart, Live, Holds, Submitting, Reaped, IoTypeOK,
        Refused, IoGoto, SetState, Back, Actors
  <2>3. Cardinality(Live') = Cardinality(Live) - 1
    BY <2>1, <2>2, CountedIsFinite, FS_RemoveElement
  <2> QED BY <1>0, <2>3 DEF CountIsExact, Refused
<1>7. SomebodyServes'
  BY <1>0 DEF SomebodyServes, IoTypeOK, Refused, IoGoto, SetState, Back
<1>8. Registration'
  <2>1. context = "up"
    BY HeldIsCounted DEF Refused, Submitting
  <2> QED
    BY <1>0, <2>1, IoConstants
    DEF IoAssumption, Registration, IoTypeOK, Refused, IoGoto, SetState, Back,
        Actors
<1> QED BY <1>1, <1>2, <1>3, <1>4, <1>5, <1>6, <1>7, <1>8 DEF IoInv, Places

\* EAGAIN leaves every request where it is.
LEMMA TryAgainKeeps ==
  ASSUME NEW a \in Actors, IoInv, TryAgain(a)
  PROVE  IoInv'
<1>0. IoTypeOK /\ HeldOwn /\ HeldApart /\ KernelHas /\ WaitersWait /\ CountIsExact
        /\ SomebodyServes /\ Registration
  BY DEF IoInv, Places
<1>1. IoTypeOK'
  BY <1>0 DEF IoTypeOK, IoLabels, TryAgain, IoGoto
<1>2. HeldOwn'
  BY <1>0
  DEF HeldOwn, Holds, Queued, Submitting, Reaped, IoTypeOK, TryAgain, IoGoto
<1>3. HeldApart'
  BY <1>0 DEF HeldApart, Holds, Submitting, Reaped, IoTypeOK, TryAgain, IoGoto
<1>4. KernelHas'
  BY <1>0 DEF KernelHas, IoTypeOK, TryAgain, IoGoto
<1>5. WaitersWait'
  BY <1>0 DEF WaitersWait, IoTypeOK, TryAgain, IoGoto
<1>6. CountIsExact'
  <2>1. Live' = Live
    BY <1>0, IoConstants
    DEF IoAssumption, HeldOwn, HeldApart, Live, Holds, Submitting, Reaped,
        IoTypeOK, TryAgain, IoGoto, SetState, Actors
  <2> QED BY <1>0, <2>1 DEF CountIsExact, TryAgain
<1>7. SomebodyServes'
  BY <1>0 DEF SomebodyServes, IoTypeOK, TryAgain, IoGoto
<1>8. Registration'
  BY <1>0 DEF Registration, Actors, IoTypeOK, TryAgain, IoGoto
<1> QED BY <1>1, <1>2, <1>3, <1>4, <1>5, <1>6, <1>7, <1>8 DEF IoInv, Places

\* The lock of the queue of waiters is taken.
LEMMA LockQueueKeeps ==
  ASSUME NEW a \in Actors, IoInv, LockQueue(a)
  PROVE  IoInv'
<1>0. IoTypeOK /\ HeldOwn /\ HeldApart /\ KernelHas /\ WaitersWait /\ CountIsExact
        /\ SomebodyServes /\ Registration
  BY DEF IoInv, Places
<1>1. IoTypeOK'
  BY <1>0 DEF IoTypeOK, IoLabels, LockQueue, IoGoto
<1>2. HeldOwn'
  BY <1>0
  DEF HeldOwn, Holds, Queued, Submitting, Reaped, IoTypeOK, LockQueue, IoGoto
<1>3. HeldApart'
  BY <1>0 DEF HeldApart, Holds, Submitting, Reaped, IoTypeOK, LockQueue, IoGoto
<1>4. KernelHas'
  BY <1>0 DEF KernelHas, IoTypeOK, LockQueue, IoGoto
<1>5. WaitersWait'
  BY <1>0 DEF WaitersWait, IoTypeOK, LockQueue, IoGoto
<1>6. CountIsExact'
  <2>1. Live' = Live
    BY <1>0, IoConstants
    DEF IoAssumption, HeldOwn, HeldApart, Live, Holds, Submitting, Reaped,
        IoTypeOK, LockQueue, IoGoto, SetState, Actors
  <2> QED BY <1>0, <2>1 DEF CountIsExact, LockQueue
<1>7. SomebodyServes'
  BY <1>0 DEF SomebodyServes, IoTypeOK, LockQueue, IoGoto
<1>8. Registration'
  BY <1>0 DEF Registration, Actors, IoTypeOK, LockQueue, IoGoto
<1> QED BY <1>1, <1>2, <1>3, <1>4, <1>5, <1>6, <1>7, <1>8 DEF IoInv, Places

\* The request joins the waiters, among which it was not.
LEMMA AppendWaiterKeeps ==
  ASSUME NEW a \in Actors, IoInv, AppendWaiter(a)
  PROVE  IoInv'
<1>0. IoTypeOK /\ HeldOwn /\ HeldApart /\ KernelHas /\ WaitersWait /\ CountIsExact
        /\ SomebodyServes /\ Registration
  BY DEF IoInv, Places
<1>1. IoTypeOK'
  <2>1. cur[a] \in Requests
    BY <1>0 DEF HeldOwn, Holds, Submitting, AppendWaiter
  <2> QED BY <1>0, <2>1 DEF IoTypeOK, AppendWaiter, IoGoto, SetState, IoLabels
<1>2. HeldOwn'
  BY <1>0, IoConstants
  DEF IoAssumption, HeldOwn, HeldApart, KernelHas, WaitersWait, Holds, Queued,
      Submitting, Reaped, IoTypeOK, AppendWaiter, IoGoto, SetState, Actors
<1>3. HeldApart'
  BY <1>0
  DEF HeldApart, Holds, Submitting, Reaped, IoTypeOK, AppendWaiter, IoGoto,
      SetState
<1>4. KernelHas'
  BY <1>0
  DEF HeldOwn, KernelHas, Holds, Submitting, Reaped, IoTypeOK, AppendWaiter,
      IoGoto, SetState
<1>5. WaitersWait'
  BY <1>0
  DEF WaitersWait, HeldOwn, KernelHas, Holds, Submitting, Reaped, IoTypeOK,
      AppendWaiter, IoGoto, SetState
<1>6. CountIsExact'
  <2>1. Live' = Live
    BY <1>0, IoConstants
    DEF IoAssumption, HeldOwn, HeldApart, Live, Holds, Submitting, Reaped,
        IoTypeOK, AppendWaiter, IoGoto, SetState, Actors
  <2> QED BY <1>0, <2>1 DEF CountIsExact, AppendWaiter
<1>7. SomebodyServes'
  BY <1>0 DEF SomebodyServes, IoTypeOK, AppendWaiter, IoGoto, SetState
<1>8. Registration'
  BY <1>0 DEF Registration, Actors, IoTypeOK, AppendWaiter, IoGoto, SetState
<1> QED BY <1>1, <1>2, <1>3, <1>4, <1>5, <1>6, <1>7, <1>8 DEF IoInv, Places

\* The lock of the queue is given back.
LEMMA UnlockQueueKeeps ==
  ASSUME NEW a \in Actors, IoInv, UnlockQueue(a)
  PROVE  IoInv'
<1>0. IoTypeOK /\ HeldOwn /\ HeldApart /\ KernelHas /\ WaitersWait /\ CountIsExact
        /\ SomebodyServes /\ Registration
  BY DEF IoInv, Places
<1>1. IoTypeOK'
  BY <1>0 DEF IoTypeOK, IoLabels, UnlockQueue, IoGoto, Back
<1>2. HeldOwn'
  BY <1>0
  DEF HeldOwn, Holds, Queued, Submitting, Reaped, IoTypeOK, UnlockQueue,
      IoGoto, Back
<1>3. HeldApart'
  BY <1>0
  DEF HeldApart, Holds, Submitting, Reaped, IoTypeOK, UnlockQueue, IoGoto,
      Back
<1>4. KernelHas'
  BY <1>0 DEF KernelHas, IoTypeOK, UnlockQueue, IoGoto, Back
<1>5. WaitersWait'
  BY <1>0 DEF WaitersWait, IoTypeOK, UnlockQueue, IoGoto, Back
<1>6. CountIsExact'
  <2>1. Live' = Live
    BY <1>0, IoConstants
    DEF IoAssumption, HeldOwn, HeldApart, Live, Holds, Submitting, Reaped,
        IoTypeOK, UnlockQueue, IoGoto, SetState, Back, Actors
  <2> QED BY <1>0, <2>1 DEF CountIsExact, UnlockQueue
<1>7. SomebodyServes'
  BY <1>0 DEF SomebodyServes, IoTypeOK, UnlockQueue, IoGoto, Back
<1>8. Registration'
  BY <1>0 DEF Registration, Actors, IoTypeOK, UnlockQueue, IoGoto, Back
<1> QED BY <1>1, <1>2, <1>3, <1>4, <1>5, <1>6, <1>7, <1>8 DEF IoInv, Places

\* io_getevents: the event passes from the kernel to the one that reaped it.
LEMMA ReapKeeps ==
  ASSUME NEW a \in Actors, NEW r \in Requests, IoInv, Reap(a, r)
  PROVE  IoInv'
<1>0. IoTypeOK /\ HeldOwn /\ HeldApart /\ KernelHas /\ WaitersWait /\ CountIsExact
        /\ SomebodyServes /\ Registration
  BY DEF IoInv, Places
<1>1. IoTypeOK'
  BY <1>0 DEF IoTypeOK, IoLabels, Reap, IoGoto
<1>2. HeldOwn'
  BY <1>0, IoConstants
  DEF IoAssumption, HeldOwn, HeldApart, KernelHas, WaitersWait, Holds, Queued,
      Submitting, Reaped, IoTypeOK, Reap, IoGoto, SetState, Actors
<1>3. HeldApart'
  BY <1>0
  DEF HeldApart, Holds, Submitting, Reaped, IoTypeOK, Reap, IoGoto, HeldOwn
<1>4. KernelHas'
  BY <1>0 DEF KernelHas, IoTypeOK, Reap, IoGoto
<1>5. WaitersWait'
  BY <1>0 DEF WaitersWait, IoTypeOK, Reap, IoGoto
<1>6. CountIsExact'
  <2>1. Live' = Live
    BY <1>0, IoConstants
    DEF IoAssumption, HeldOwn, HeldApart, Live, Holds, Submitting, Reaped,
        IoTypeOK, Reap, IoGoto, SetState, Actors
  <2> QED BY <1>0, <2>1 DEF CountIsExact, Reap
<1>7. SomebodyServes'
  BY <1>0 DEF SomebodyServes, IoTypeOK, Reap, IoGoto
<1>8. Registration'
  BY <1>0 DEF Registration, Actors, IoTypeOK, Reap, IoGoto
<1> QED BY <1>1, <1>2, <1>3, <1>4, <1>5, <1>6, <1>7, <1>8 DEF IoInv, Places

\* laio_cleanup_one counts down before the callback is called: the request
\* leaves the counted ones here.
LEMMA CountDownKeeps ==
  ASSUME NEW a \in Actors, IoInv, CountDown(a)
  PROVE  IoInv'
<1>0. IoTypeOK /\ HeldOwn /\ HeldApart /\ KernelHas /\ WaitersWait /\ CountIsExact
        /\ SomebodyServes /\ Registration
  BY DEF IoInv, Places
<1>1. IoTypeOK'
  BY <1>0 DEF IoTypeOK, IoLabels, CountDown, IoGoto
<1>2. HeldOwn'
  BY <1>0
  DEF HeldOwn, Holds, Queued, Submitting, Reaped, IoTypeOK, CountDown, IoGoto
<1>3. HeldApart'
  BY <1>0 DEF HeldApart, Holds, Submitting, Reaped, IoTypeOK, CountDown, IoGoto
<1>4. KernelHas'
  BY <1>0 DEF KernelHas, IoTypeOK, CountDown, IoGoto
<1>5. WaitersWait'
  BY <1>0 DEF WaitersWait, IoTypeOK, CountDown, IoGoto
<1>6. CountIsExact'
  <2>1. cur[a] \in Live
    BY HeldIsCounted DEF CountDown
  <2>2. Live' = Live \ {cur[a]}
    BY <1>0, <2>1
    DEF HeldOwn, HeldApart, Live, Holds, Submitting, Reaped, IoTypeOK,
        CountDown, IoGoto, Actors
  <2>3. Cardinality(Live') = Cardinality(Live) - 1
    BY <2>1, <2>2, CountedIsFinite, FS_RemoveElement
  <2> QED BY <1>0, <2>3 DEF CountIsExact, CountDown
<1>7. SomebodyServes'
  BY <1>0 DEF SomebodyServes, IoTypeOK, CountDown, IoGoto
<1>8. Registration'
  <2>1. context = "up"
    BY HeldIsCounted DEF CountDown
  <2> QED
    BY <1>0, <2>1, IoConstants
    DEF IoAssumption, Registration, IoTypeOK, CountDown, IoGoto, Actors
<1> QED BY <1>1, <1>2, <1>3, <1>4, <1>5, <1>6, <1>7, <1>8 DEF IoInv, Places

\* The callback of the owner.
LEMMA CallbackKeeps ==
  ASSUME NEW a \in Actors, IoInv, Callback(a)
  PROVE  IoInv'
<1>0. IoTypeOK /\ HeldOwn /\ HeldApart /\ KernelHas /\ WaitersWait /\ CountIsExact
        /\ SomebodyServes /\ Registration
  BY DEF IoInv, Places
<1>1. IoTypeOK'
  BY <1>0 DEF IoTypeOK, IoLabels, Callback, IoGoto, SetState
<1>2. HeldOwn'
  BY <1>0, IoConstants
  DEF IoAssumption, HeldOwn, HeldApart, KernelHas, WaitersWait, Holds, Queued,
      Submitting, Reaped, IoTypeOK, Callback, IoGoto, SetState, Actors
<1>3. HeldApart'
  BY <1>0
  DEF HeldApart, Holds, Submitting, Reaped, IoTypeOK, Callback, IoGoto,
      SetState
<1>4. KernelHas'
  BY <1>0
  DEF HeldOwn, KernelHas, Holds, Submitting, Reaped, IoTypeOK, Callback,
      IoGoto, SetState
<1>5. WaitersWait'
  BY <1>0
  DEF WaitersWait, HeldOwn, KernelHas, Holds, Submitting, Reaped, IoTypeOK,
      Callback, IoGoto, SetState
<1>6. CountIsExact'
  <2>1. Live' = Live
    BY <1>0, IoConstants
    DEF IoAssumption, HeldOwn, HeldApart, Live, Holds, Submitting, Reaped,
        IoTypeOK, Callback, IoGoto, SetState, Actors
  <2> QED BY <1>0, <2>1 DEF CountIsExact, Callback
<1>7. SomebodyServes'
  BY <1>0 DEF SomebodyServes, IoTypeOK, Callback, IoGoto, SetState
<1>8. Registration'
  BY <1>0 DEF Registration, Actors, IoTypeOK, Callback, IoGoto, SetState
<1> QED BY <1>1, <1>2, <1>3, <1>4, <1>5, <1>6, <1>7, <1>8 DEF IoInv, Places

\* async_wait_queue_release_one looks at the head of the queue.
LEMMA PeekWaitersKeeps ==
  ASSUME NEW a \in Actors, IoInv, PeekWaiters(a)
  PROVE  IoInv'
<1>0. IoTypeOK /\ HeldOwn /\ HeldApart /\ KernelHas /\ WaitersWait /\ CountIsExact
        /\ SomebodyServes /\ Registration
  BY DEF IoInv, Places
<1>1. IoTypeOK'
  BY <1>0 DEF IoTypeOK, IoLabels, PeekWaiters, IoGoto
<1>2. HeldOwn'
  BY <1>0
  DEF HeldOwn, Holds, Queued, Submitting, Reaped, IoTypeOK, PeekWaiters,
      IoGoto
<1>3. HeldApart'
  BY <1>0
  DEF HeldApart, Holds, Submitting, Reaped, IoTypeOK, PeekWaiters, IoGoto
<1>4. KernelHas'
  BY <1>0 DEF KernelHas, IoTypeOK, PeekWaiters, IoGoto
<1>5. WaitersWait'
  BY <1>0 DEF WaitersWait, IoTypeOK, PeekWaiters, IoGoto
<1>6. CountIsExact'
  <2>1. Live' = Live
    BY <1>0, IoConstants
    DEF IoAssumption, HeldOwn, HeldApart, Live, Holds, Submitting, Reaped,
        IoTypeOK, PeekWaiters, IoGoto, SetState, Actors
  <2> QED BY <1>0, <2>1 DEF CountIsExact, PeekWaiters
<1>7. SomebodyServes'
  BY <1>0 DEF SomebodyServes, IoTypeOK, PeekWaiters, IoGoto
<1>8. Registration'
  BY <1>0 DEF Registration, Actors, IoTypeOK, PeekWaiters, IoGoto
<1> QED BY <1>1, <1>2, <1>3, <1>4, <1>5, <1>6, <1>7, <1>8 DEF IoInv, Places

\* The head of the queue passes into the hands of who took it.
LEMMA PopWaiterKeeps ==
  ASSUME NEW a \in Actors, IoInv, PopWaiter(a)
  PROVE  IoInv'
<1>0. IoTypeOK /\ HeldOwn /\ HeldApart /\ KernelHas /\ WaitersWait /\ CountIsExact
        /\ SomebodyServes /\ Registration
  BY DEF IoInv, Places
<1>1. IoTypeOK'
  <2>1. waiters' \in Seq(Requests) /\ cur' \in [Actors -> Requests \cup {Nil}]
    <3>1. CASE waiters = <<>>
      BY <1>0, <3>1 DEF IoTypeOK, PopWaiter
    <3>2. CASE waiters # <<>>
      <4>1. Head(waiters) \in Requests /\ Tail(waiters) \in Seq(Requests)
        BY <1>0, <3>2 DEF IoTypeOK
      <4> QED BY <1>0, <3>2, <4>1 DEF IoTypeOK, PopWaiter
    <3> QED BY <3>1, <3>2
  <2> QED BY <1>0, <2>1 DEF IoTypeOK, PopWaiter, IoGoto, IoLabels
<1>2. HeldOwn'
  BY SMTT(30), <1>0, IoConstants
  DEF IoAssumption, HeldOwn, HeldApart, KernelHas, WaitersWait, Holds, Queued,
      Submitting, Reaped, IoTypeOK, PopWaiter, IoGoto, SetState, Actors
<1>3. HeldApart'
  BY <1>0, IoConstants
  DEF IoAssumption, HeldOwn, HeldApart, KernelHas, WaitersWait, Holds, Queued,
      Submitting, Reaped, IoTypeOK, PopWaiter, IoGoto, SetState, Actors
<1>4. KernelHas'
  BY <1>0 DEF KernelHas, IoTypeOK, PopWaiter, IoGoto
<1>5. WaitersWait'
  <2>1. CASE waiters = <<>>
    BY <1>0, <2>1 DEF WaitersWait, PopWaiter
  <2>2. CASE waiters # <<>>
    <3>1. waiters' = Tail(waiters) /\ state' = state
      BY <2>2 DEF PopWaiter
    <3>2. /\ Len(Tail(waiters)) = Len(waiters) - 1
          /\ \A i \in 1 .. Len(Tail(waiters)) : Tail(waiters)[i] = waiters[i + 1]
          /\ Len(waiters) \in Nat
      BY <1>0, <2>2 DEF IoTypeOK
    <3>3. \A i \in 1 .. Len(Tail(waiters)) : i + 1 \in 1 .. Len(waiters)
      BY <3>2
    <3> QED BY <1>0, <3>1, <3>2, <3>3 DEF WaitersWait
  <2> QED BY <2>1, <2>2
<1>6. CountIsExact'
  <2>1. Live' = Live
    BY <1>0, IoConstants
    DEF IoAssumption, HeldOwn, HeldApart, Live, Holds, Submitting, Reaped,
        IoTypeOK, PopWaiter, IoGoto, SetState, Actors
  <2> QED BY <1>0, <2>1 DEF CountIsExact, PopWaiter
<1>7. SomebodyServes'
  BY <1>0 DEF SomebodyServes, IoTypeOK, PopWaiter, IoGoto
<1>8. Registration'
  BY <1>0 DEF Registration, Actors, IoTypeOK, PopWaiter, IoGoto
<1> QED BY <1>1, <1>2, <1>3, <1>4, <1>5, <1>6, <1>7, <1>8 DEF IoInv, Places

\* The waiter is run again by who took it off the queue.
LEMMA WakeWaiterKeeps ==
  ASSUME NEW a \in Actors, IoInv, WakeWaiter(a)
  PROVE  IoInv'
<1>0. IoTypeOK /\ HeldOwn /\ HeldApart /\ KernelHas /\ WaitersWait /\ CountIsExact
        /\ SomebodyServes /\ Registration
  BY DEF IoInv, Places
<1>1. IoTypeOK'
  BY <1>0 DEF IoTypeOK, IoLabels, WakeWaiter, IoGoto, SetState
<1>2. HeldOwn'
  BY <1>0, IoConstants
  DEF IoAssumption, HeldOwn, HeldApart, KernelHas, WaitersWait, Holds, Queued,
      Submitting, Reaped, IoTypeOK, WakeWaiter, IoGoto, SetState, Actors
<1>3. HeldApart'
  BY <1>0
  DEF HeldApart, Holds, Submitting, Reaped, IoTypeOK, WakeWaiter, IoGoto,
      SetState
<1>4. KernelHas'
  BY <1>0
  DEF HeldOwn, KernelHas, Holds, Submitting, Reaped, IoTypeOK, WakeWaiter,
      IoGoto, SetState
<1>5. WaitersWait'
  <2>1. CASE cur[a] = Nil
    BY <1>0, <2>1 DEF WaitersWait, WakeWaiter
  <2>2. CASE cur[a] # Nil
    <3>1. \A i \in 1 .. Len(waiters) : waiters[i] # cur[a]
      BY <1>0, <2>2 DEF HeldOwn, Holds, Queued, WakeWaiter
    <3> QED BY <1>0, <2>2, <3>1 DEF WaitersWait, IoTypeOK, WakeWaiter, SetState
  <2> QED BY <2>1, <2>2
<1>6. CountIsExact'
  <2>1. Live' = Live
    BY <1>0, IoConstants
    DEF IoAssumption, HeldOwn, HeldApart, Live, Holds, Submitting, Reaped,
        IoTypeOK, WakeWaiter, IoGoto, SetState, Actors
  <2> QED BY <1>0, <2>1 DEF CountIsExact, WakeWaiter
<1>7. SomebodyServes'
  BY <1>0, IoConstants
  DEF SomebodyServes, IoTypeOK, WakeWaiter, IoGoto, SetState, Actors,
      IoAssumption
<1>8. Registration'
  BY <1>0 DEF Registration, Actors, IoTypeOK, WakeWaiter, IoGoto, SetState
<1> QED BY <1>1, <1>2, <1>3, <1>4, <1>5, <1>6, <1>7, <1>8 DEF IoInv, Places

\* The kernel finishes a request.
LEMMA CompleteKeeps ==
  ASSUME NEW r \in Requests, IoInv, Complete(r)
  PROVE  IoInv'
<1>0. IoTypeOK /\ HeldOwn /\ HeldApart /\ KernelHas /\ WaitersWait /\ CountIsExact
        /\ SomebodyServes /\ Registration
  BY DEF IoInv, Places
<1>1. IoTypeOK'
  BY <1>0 DEF IoTypeOK, IoLabels, Complete
<1>2. HeldOwn'
  BY <1>0 DEF HeldOwn, Holds, Queued, Submitting, Reaped, IoTypeOK, Complete
<1>3. HeldApart'
  BY <1>0 DEF HeldApart, Holds, Submitting, Reaped, IoTypeOK, Complete
<1>4. KernelHas'
  BY <1>0 DEF KernelHas, IoTypeOK, Complete
<1>5. WaitersWait'
  BY <1>0 DEF WaitersWait, IoTypeOK, Complete
<1>6. CountIsExact'
  <2>1. Live' = Live
    BY <1>0, IoConstants
    DEF IoAssumption, HeldOwn, HeldApart, Live, Holds, Submitting, Reaped,
        IoTypeOK, Complete, IoGoto, SetState, Actors
  <2> QED BY <1>0, <2>1 DEF CountIsExact, Complete
<1>7. SomebodyServes'
  BY <1>0 DEF SomebodyServes, IoTypeOK, Complete
<1>8. Registration'
  BY <1>0 DEF Registration, Actors, IoTypeOK, Complete
<1> QED BY <1>1, <1>2, <1>3, <1>4, <1>5, <1>6, <1>7, <1>8 DEF IoInv, Places

\* Every step of the specification preserves the invariant.
LEMMA IoStep ==
  ASSUME IoInv, [IoNext]_ioVars
  PROVE  IoInv'
<1>1. ASSUME NEW t \in IoThreads,
             \/ Register(t) \/ Deregister(t) \/ Join(t)
             \/ \E r \in Requests : Start(t, r)
             \/ \E n \in {"one", "all", "last"} : Cleanup(t, n)
             \/ CleanupEnd(t)
      PROVE  IoInv'
  BY <1>1, RegisterKeeps, DeregisterKeeps, JoinKeeps, StartKeeps, CleanupKeeps,
     CleanupEndKeeps
<1>2. CASE CleanerExit
  BY <1>2, CleanerExitKeeps
<1>3. ASSUME NEW a \in Actors, Run(a) \/ Refused(a)
      PROVE  IoInv'
  BY <1>3, AcceptedKeeps, RefusedKeeps, TryAgainKeeps, LockQueueKeeps,
     AppendWaiterKeeps, UnlockQueueKeeps DEF Run
<1>4. ASSUME NEW a \in Actors, CleanupOne(a)
      PROVE  IoInv'
  BY <1>4, ReapKeeps, CountDownKeeps, CallbackKeeps, PeekWaitersKeeps,
     PopWaiterKeeps, WakeWaiterKeeps DEF CleanupOne
<1>5. ASSUME NEW r \in Requests, Complete(r)
      PROVE  IoInv'
  BY <1>5, CompleteKeeps
<1>6. CASE UNCHANGED ioVars
  BY <1>6 DEF ioVars, IoInv, IoTypeOK, Places, HeldOwn, HeldApart, KernelHas,
     WaitersWait, Holds, Queued, CountIsExact, Live, SomebodyServes, Registration
<1> QED BY <1>1, <1>2, <1>3, <1>4, <1>5, <1>6 DEF IoNext

\* The invariant says what is left when the context is closed.
\* A count of 0 leaves nothing in the kernel, in the queue or with an owner.
LEMMA InvIsQuiet ==
  ASSUME IoInv
  PROVE  ClosedIsQuiet
<1>1. ASSUME context # "up"
      PROVE  /\ io_count = 0 /\ Live = {}
             /\ waiters = <<>>
             /\ \A r \in Requests : kernel[r] = "none"
  <2>1. io_count = 0 /\ Cardinality(Live) = 0
    BY <1>1 DEF IoInv, Registration, CountIsExact
  <2>2. Live = {}
    BY <2>1, CountedIsFinite, FS_EmptySet
  <2>3. ASSUME NEW r \in Requests, state[r] \in {"kernel", "waiting"}
        PROVE  \E a \in Actors : io_pc[a] = "callback" /\ cur[a] = r
    BY <2>2, <2>3 DEF Live
  <2>4. \A r \in Requests : kernel[r] = "none"
    BY <2>3 DEF IoInv, Places, HeldOwn, KernelHas, Holds, Reaped
  <2>5. Len(waiters) = 0
    <3>1. SUFFICES ASSUME Len(waiters) > 0 PROVE FALSE
      BY DEF IoInv, IoTypeOK
    <3>2. waiters[1] \in Requests /\ state[waiters[1]] = "waiting"
      BY <3>1 DEF IoInv, IoTypeOK, Places, WaitersWait
    <3> QED BY <3>2, <2>3 DEF IoInv, Places, HeldOwn, Holds, Reaped
  <2> QED BY <2>1, <2>2, <2>4, <2>5 DEF IoInv, IoTypeOK
<1>2. ASSUME context = "none", NEW r \in Requests
      PROVE  state[r] \in {"new", "done"}
  <2>1. Live = {} /\ \A a \in Actors : io_pc[a] = "out"
    BY <1>1, <1>2 DEF IoInv, Registration
  <2> QED BY <2>1 DEF Live, IoInv, IoTypeOK
<1> QED BY <1>1, <1>2 DEF ClosedIsQuiet

(* When the last thread has closed the context nothing is left of it: no    *)
(* request is in the kernel, in the queue, in somebody's hands or counted,  *)
(* and every callback has been called (laio_deregister_thread, laio_cleanup),*)
(* for any threads, any finite set of requests and any kernel queue.        *)
THEOREM IoClosedQuiet == IoSpec => []ClosedIsQuiet
<1>1. IoSpec => []IoInv
  BY IoInvInit, IoStep, PTL DEF IoSpec
<1>2. IoInv => ClosedIsQuiet
  BY InvIsQuiet
<1> QED BY <1>1, <1>2, PTL

-----------------------------------------------------------------------------
(* The wakeups and the references of the asynchronous get.                  *)
(*                                                                          *)
(* That nobody sleeps for ever (WaitersAreWoken) is inductive only with     *)
(* what is known of the queues: who is in one sleeps, or is its last one    *)
(* and has its lock (QueuesSleep, LastIsOwn); who was taken out of one      *)
(* sleeps and is told by one reaper (TellsSleep); and every read that was   *)
(* begun is served by one reaper, once (ReadsServed).  That no sleeper      *)
(* loses its entry needs the references: a get that has checked the         *)
(* address of its entry while it refers to it stays right (SureIsRight),    *)
(* since an entry with a reference is not evicted (RefsAreHolders) and      *)
(* lookup and address agree but for the one that is being set up            *)
(* (EntriesAgree, LoadersOwn).                                              *)

GetLabels == {"out", "lookup", "read", "acquire"} \cup Holding
ReapLabels == {"idle", "finish", "peek", "take", "tell", "callback", "release"}

\* The type of the variables the proofs are about.
GetTypeOK ==
    /\ lookup \in [GetAddrs -> GetEntries \cup {Absent}]
    /\ free \subseteq GetEntries
    /\ loading \subseteq GetEntries
    /\ disk_addr \in [GetEntries -> GetAddrs \cup {Absent}]
    /\ ref \in [GetEntries -> Int]
    /\ entry_waiters \in [GetEntries -> Seq(Gets)]
    /\ entry_lock \in [GetEntries -> Gets \cup {Absent}]
    /\ get_pc \in [Gets -> GetLabels]
    /\ get_addr \in [Gets -> GetAddrs \cup {Absent}]
    /\ get_entry \in [Gets -> GetEntries \cup {Absent}]
    /\ ready \subseteq Gets
    /\ io \in [Gets -> {"none", "queued", "read", "done", "waiting"}]
    /\ ioWaiters \in Seq(Gets)
    /\ reap_pc \in [Reapers -> ReapLabels]
    /\ reap_get \in [Reapers -> Gets \cup {Absent}]
    /\ tell \in [Reapers -> Seq(Gets)]
    /\ last \subseteq Reapers

\* Where a coroutine has looked at the address of its entry and found it right.
Sure == {"test", "lock", "append", "recheck", "waiting", "verify", "submit",
         "have"}

\* A coroutine in a call knows its page, and its entry once it has one.
CallsKnow ==
    \A g \in Gets :
        /\ get_pc[g] # "out" => get_addr[g] \in GetAddrs
        /\ get_pc[g] \in Holding \cup {"read"} => get_entry[g] \in GetEntries

\* Lookup and address agree, but for an entry that is being set up, which
\* nobody else sets up.
EntriesAgree ==
    /\ \A e \in GetEntries : disk_addr[e] # Absent => lookup[disk_addr[e]] = e
    /\ \A a \in GetAddrs : lookup[a] # Absent =>
         \/ disk_addr[lookup[a]] = a
         \/ \E g \in Gets : /\ get_pc[g] = "setaddr" /\ get_addr[g] = a
                            /\ get_entry[g] = lookup[a]
    /\ \A e \in free : disk_addr[e] = Absent /\ \A a \in GetAddrs : lookup[a] # e
LoadersOwn ==
    /\ \A g \in Gets : get_pc[g] \in {"claim", "setaddr"} =>
         /\ get_entry[g] \notin free
         /\ disk_addr[get_entry[g]] = Absent
         /\ get_pc[g] = "claim" => \A a \in GetAddrs : lookup[a] # get_entry[g]
         /\ get_pc[g] = "setaddr" => lookup[get_addr[g]] = get_entry[g]
    /\ \A g, h \in Gets : get_pc[g] \in {"claim", "setaddr"}
                            /\ get_pc[h] \in {"claim", "setaddr"} /\ g # h =>
         get_entry[g] # get_entry[h]

\* Who is sure has the page, because it has a reference too.
SureIsRight ==
    \A g \in Gets : get_pc[g] \in Sure => disk_addr[get_entry[g]] = get_addr[g]
RefsAreHolders == \A e \in GetEntries : ref[e] = Cardinality(Holders(e))

\* A coroutine that has given up its thread for its read is called back by one
\* reaper, once.
Serving == {"finish", "peek", "take", "tell", "callback"}
ReadsServed ==
    /\ \A g \in Gets : io[g] # "none" => get_pc[g] = "waiting"
    /\ \A g \in ready : get_pc[g] = "waiting" /\ io[g] \notin {"queued", "read"}
    /\ \A r \in Reapers : reap_pc[r] \in Serving =>
         /\ reap_get[r] \in Gets
         /\ reap_get[r] \notin ready
         /\ io[reap_get[r]] = IF r \in last THEN "waiting" ELSE "done"
         /\ ~In(reap_get[r], ioWaiters)
    /\ \A r \in last : reap_pc[r] \in Serving
    /\ \A r, s \in Reapers :
         reap_pc[r] \in Serving /\ reap_pc[s] \in Serving /\ r # s =>
             reap_get[r] # reap_get[s]
    /\ \A i \in 1 .. Len(ioWaiters) :
         io[ioWaiters[i]] = "waiting" /\ ioWaiters[i] \notin ready
    /\ \A i, j \in 1 .. Len(ioWaiters) : ioWaiters[i] = ioWaiters[j] => i = j

\* Who is in the queue of an entry sleeps, or is the last, with the lock; and it
\* is there once.
QueuesSleep ==
    /\ \A e \in GetEntries : \A i \in 1 .. Len(entry_waiters[e]) :
         LET g == entry_waiters[e][i]
         IN  /\ get_entry[g] = e
             /\ Sleeps(g) \/ get_pc[g] = "recheck"
    /\ \A e \in GetEntries : \A i, j \in 1 .. Len(entry_waiters[e]) :
         entry_waiters[e][i] = entry_waiters[e][j] => i = j
    /\ \A g \in Gets : get_pc[g] \in {"append", "recheck"} =>
         entry_lock[get_entry[g]] = g

\* Who is to be told sleeps, is in no queue any more, and is told once.
TellsSleep ==
    /\ \A r \in Reapers : Len(tell[r]) > 0 => reap_pc[r] = "tell"
    /\ \A r \in Reapers : \A i \in 1 .. Len(tell[r]) :
         /\ Sleeps(tell[r][i])
         /\ ~In(tell[r][i], entry_waiters[get_entry[tell[r][i]]])
    /\ \A r \in Reapers : \A i, j \in 1 .. Len(tell[r]) :
         tell[r][i] = tell[r][j] => i = j
    /\ \A r, s \in Reapers : \A i \in 1 .. Len(tell[r]), j \in 1 .. Len(tell[s]) :
         tell[r][i] = tell[s][j] => r = s

GetInv == /\ GetTypeOK /\ CallsKnow /\ EntriesAgree /\ LoadersOwn /\ SureIsRight
          /\ RefsAreHolders /\ ReadsServed /\ QueuesSleep /\ TellsSleep
          /\ WaitersAreWoken /\ LastIsOwn

\* Finitely many coroutines refer to an entry.
LEMMA HoldersFinite ==
  ASSUME NEW e
  PROVE  IsFiniteSet(Holders(e)) /\ Cardinality(Holders(e)) \in Nat
<1>1. IsFiniteSet(Gets) /\ Holders(e) \subseteq Gets
  BY GetConstants DEF GetAssumption, Holders
<1> QED BY <1>1, FS_Subset, FS_CardinalityType

\* An entry without references is nobody's.
LEMMA NobodyHolds ==
  ASSUME RefsAreHolders, NEW e \in GetEntries, ref[e] = 0,
         NEW g \in Gets, get_pc[g] \in Holding
  PROVE  get_entry[g] # e
<1>1. Holders(e) = {}
  BY HoldersFinite, FS_EmptySet DEF RefsAreHolders
<1>2. get_entry[g] = e => g \in Holders(e)
  BY DEF Holders
<1> QED BY <1>1, <1>2

\* Who takes a reference becomes a holder ...
LEMMA RefTaken ==
  ASSUME GetTypeOK, RefsAreHolders, NEW g \in Gets, NEW e \in GetEntries,
         get_pc[g] \notin Holding, get_pc'[g] \in Holding, get_entry'[g] = e,
         \A h \in Gets \ {g} : get_pc'[h] = get_pc[h] /\ get_entry'[h] = get_entry[h],
         TakeRef(e)
  PROVE  RefsAreHolders'
<1>1. Holders(e)' = Holders(e) \cup {g} /\ g \notin Holders(e)
  BY DEF Holders
<1>2. Cardinality(Holders(e)') = Cardinality(Holders(e)) + 1
  BY ZenonT(60), <1>1, HoldersFinite, FS_AddElement
<1>3. \A f \in GetEntries \ {e} : Holders(f)' = Holders(f)
  BY DEF Holders
<1>4. \A f \in GetEntries : ref'[f] = IF f = e THEN ref[f] + 1 ELSE ref[f]
  BY DEF TakeRef, GetTypeOK
<1> QED BY <1>2, <1>3, <1>4 DEF RefsAreHolders

\* ... and who drops it is one no more.
LEMMA RefDropped ==
  ASSUME GetTypeOK, RefsAreHolders, NEW g \in Gets, NEW e \in GetEntries,
         get_pc[g] \in Holding, get_pc'[g] \notin Holding, get_entry[g] = e,
         \A h \in Gets \ {g} : get_pc'[h] = get_pc[h] /\ get_entry'[h] = get_entry[h],
         DropRef(e)
  PROVE  RefsAreHolders'
<1>1. Holders(e)' = Holders(e) \ {g} /\ g \in Holders(e)
  BY DEF Holders
<1>2. Cardinality(Holders(e)') = Cardinality(Holders(e)) - 1
  <2>1. IsFiniteSet(Holders(e))
    BY HoldersFinite
  <2>2. Cardinality(Holders(e) \ {g}) = Cardinality(Holders(e)) - 1
    BY <1>1, <2>1, FS_RemoveElement
  <2> QED BY <1>1, <2>2
<1>3. \A f \in GetEntries \ {e} : Holders(f)' = Holders(f)
  BY DEF Holders
<1>4. \A f \in GetEntries : ref'[f] = IF f = e THEN ref[f] - 1 ELSE ref[f]
  BY DEF DropRef, GetTypeOK
<1> QED BY <1>2, <1>3, <1>4 DEF RefsAreHolders

\* Other steps change no holder and no count.
LEMMA RefsKept ==
  ASSUME RefsAreHolders, ref' = ref,
         \A g \in Gets :
           /\ get_pc'[g] \in Holding <=> get_pc[g] \in Holding
           /\ get_pc[g] \in Holding => get_entry'[g] = get_entry[g]
  PROVE  RefsAreHolders'
<1>1. \A e \in GetEntries : Holders(e)' = Holders(e)
  BY DEF Holders
<1> QED BY <1>1 DEF RefsAreHolders

\* What every coroutine but g has stays as it is.
OthersStay(g) ==
    \A h \in Gets \ {g} :
        /\ get_pc'[h] = get_pc[h]
        /\ get_entry'[h] = get_entry[h]
        /\ io'[h] = io[h]
        /\ h \in ready' <=> h \in ready
Looking == {"finish", "peek", "take"}

\* Nobody who is to be told is disturbed by the step of a coroutine that does
\* not sleep.

\* Nobody who is to be told is disturbed by the step of a coroutine that does
\* not sleep.
LEMMA TellsKept ==
  ASSUME GetTypeOK, TellsSleep, NEW g \in Gets, ~Sleeps(g), OthersStay(g),
         tell' = tell, reap_pc' = reap_pc,
         \A h \in Gets \ {g} : \A e \in GetEntries :
           In(h, entry_waiters'[e]) <=> In(h, entry_waiters[e]),
         \A h \in Gets : Sleeps(h) => get_entry[h] \in GetEntries
  PROVE  TellsSleep'
<1>1. \A h \in Gets \ {g} : Sleeps(h)' <=> Sleeps(h)
  BY DEF Sleeps, GetAt, OthersStay
<1>2. ASSUME NEW r \in Reapers, NEW i \in 1 .. Len(tell[r])
      PROVE  /\ Sleeps(tell[r][i])'
             /\ ~In(tell[r][i], entry_waiters[get_entry[tell[r][i]]])'
  <2>1. PICK h \in Gets : h = tell[r][i]
    BY <1>2 DEF GetTypeOK
  <2>2. h # g /\ Sleeps(h) /\ ~In(h, entry_waiters[get_entry[h]])
    BY <1>2, <2>1 DEF TellsSleep
  <2>3. get_entry'[h] = get_entry[h] /\ get_entry[h] \in GetEntries
    BY <2>1, <2>2 DEF OthersStay
  <2>4. Sleeps(h)' /\ ~In(h, entry_waiters'[get_entry'[h]])
    BY <1>1, <2>2, <2>3
  <2> QED BY <2>1, <2>4 DEF Sleeps, GetAt, In
<1>3. \A r \in Reapers : \A i \in 1 .. Len(tell'[r]) :
        /\ Sleeps(tell[r][i])'
        /\ ~In(tell[r][i], entry_waiters[get_entry[tell[r][i]]])'
  BY <1>2
<1> QED BY <1>3 DEF TellsSleep

\* Who slept before such a step is woken as before; who falls asleep in it has
\* to be in the queue of a page that is still loading.
LEMMA WokenKept ==
  ASSUME GetTypeOK, WaitersAreWoken, NEW g \in Gets, OthersStay(g),
         tell' = tell, reap_pc' = reap_pc, reap_get' = reap_get,
         \A h \in Gets \ {g} : \A e \in GetEntries :
           In(h, entry_waiters'[e]) <=> In(h, entry_waiters[e]),
         \A h \in Gets : Sleeps(h) => get_entry[h] \in GetEntries,
         \A h \in Gets \ {g} : Sleeps(h) /\ get_entry[h] \in loading =>
           get_entry[h] \in loading',
         \A r \in Reapers : reap_pc[r] \in Looking =>
           get_entry'[reap_get[r]] = get_entry[reap_get[r]],
         Sleeps(g)' => /\ In(g, entry_waiters'[get_entry'[g]])
                       /\ get_entry'[g] \in loading'
  PROVE  WaitersAreWoken'
<1>1. \A h \in Gets \ {g} : Sleeps(h)' <=> Sleeps(h)
  BY DEF Sleeps, GetAt, OthersStay
<1>2. \A e : WillLook(e) => WillLook(e)'
  BY DEF WillLook, REntry, Looking
<1>3. \A h : Told(h) => Told(h)'
  BY DEF Told
<1>4. ASSUME NEW h \in Gets, Sleeps(h)'
      PROVE  \/ Told(h)'
             \/ /\ In(h, entry_waiters'[get_entry'[h]])
                /\ get_entry'[h] \in loading' \/ WillLook(get_entry[h])'
  <2>1. CASE h = g
    BY <1>4, <2>1
  <2>2. CASE h # g
    <3>1. Sleeps(h) /\ get_entry[h] \in GetEntries /\ get_entry'[h] = get_entry[h]
      BY <1>1, <1>4, <2>2 DEF OthersStay
    <3>2. PICK e \in GetEntries : e = get_entry[h]
      BY <3>1
    <3>3. Told(h) \/ (In(h, entry_waiters[e]) /\ (e \in loading \/ WillLook(e)))
      BY <3>1, <3>2 DEF WaitersAreWoken
    <3>4. Told(h)' \/ (In(h, entry_waiters'[e]) /\ (e \in loading' \/ WillLook(e)'))
      BY <1>2, <1>3, <2>2, <3>1, <3>2, <3>3
    <3>5. e = get_entry'[h]
      BY <3>1, <3>2
    <3>6. WillLook(e)' => WillLook(get_entry[h])'
      BY <3>5 DEF WillLook
    <3> QED BY <3>4, <3>5, <3>6
  <2> QED BY <2>1, <2>2
<1> QED BY <1>4 DEF WaitersAreWoken, In

\* A reaper that tells nobody disturbs nobody who is to be told ...
LEMMA TellsKeptByReaper ==
  ASSUME GetTypeOK, TellsSleep, tell' = tell, entry_waiters' = entry_waiters,
         get_entry' = get_entry,
         \A s \in Reapers : reap_pc[s] = "tell" => reap_pc'[s] = "tell",
         \A h \in Gets : Sleeps(h) => Sleeps(h)'
  PROVE  TellsSleep'
<1>1. ASSUME NEW s \in Reapers, NEW i \in 1 .. Len(tell[s])
      PROVE  /\ Sleeps(tell[s][i])'
             /\ ~In(tell[s][i], entry_waiters[get_entry[tell[s][i]]])'
  <2>1. PICK h \in Gets : h = tell[s][i]
    BY <1>1 DEF GetTypeOK
  <2>2. Sleeps(h) /\ ~In(h, entry_waiters[get_entry[h]])
    BY <1>1, <2>1 DEF TellsSleep
  <2>3. Sleeps(h)' /\ ~In(h, entry_waiters'[get_entry'[h]])
    BY <2>2
  <2> QED BY <2>1, <2>3 DEF Sleeps, GetAt, In
<1>2. \A s \in Reapers : \A i \in 1 .. Len(tell'[s]) :
        /\ Sleeps(tell[s][i])'
        /\ ~In(tell[s][i], entry_waiters[get_entry[tell[s][i]]])'
  BY <1>1
<1> QED BY <1>2 DEF TellsSleep

\* ... and takes the wakeup from nobody, unless the queue was empty.
LEMMA WokenKeptByReaper ==
  ASSUME GetTypeOK, WaitersAreWoken, tell' = tell,
         entry_waiters' = entry_waiters, get_entry' = get_entry,
         \A h \in Gets : Sleeps(h)' => Sleeps(h),
         \A h \in Gets : Sleeps(h) => get_entry[h] \in GetEntries,
         \A e \in GetEntries : e \in loading \/ WillLook(e) =>
           e \in loading' \/ WillLook(e)' \/ entry_waiters[e] = <<>>
  PROVE  WaitersAreWoken'
<1>1. \A h : Told(h) => Told(h)'
  BY DEF Told
<1>2. ASSUME NEW h \in Gets, Sleeps(h)'
      PROVE  \/ Told(h)'
             \/ /\ In(h, entry_waiters'[get_entry'[h]])
                /\ get_entry'[h] \in loading' \/ WillLook(get_entry[h])'
  <2>1. Sleeps(h) /\ get_entry[h] \in GetEntries
    BY <1>2
  <2>2. PICK e \in GetEntries : e = get_entry[h]
    BY <2>1
  <2>3. Told(h) \/ (In(h, entry_waiters[e]) /\ (e \in loading \/ WillLook(e)))
    BY <2>1, <2>2 DEF WaitersAreWoken
  <2>4. In(h, entry_waiters[e]) => entry_waiters[e] # <<>>
    BY DEF In
  <2>5. Told(h)' \/ (In(h, entry_waiters'[e]) /\ (e \in loading' \/ WillLook(e)'))
    BY <1>1, <2>3, <2>4
  <2>6. WillLook(e)' => WillLook(get_entry[h])'
    BY <2>2 DEF WillLook
  <2> QED BY <2>2, <2>5, <2>6
<1> QED BY <1>2 DEF WaitersAreWoken, In

\* Appending a coroutine to a queue, or taking the last one out, changes nobody
\* else's place in it.
LEMMA InAppend ==
  ASSUME NEW q \in Seq(Gets), NEW g \in Gets, NEW h \in Gets \ {g}
  PROVE  In(h, Append(q, g)) <=> In(h, q)
BY DEF In
\* What is left of a queue whose last one has taken itself out.
LEMMA AllButLastIs ==
  ASSUME NEW q \in Seq(Gets), Len(q) > 0
  PROVE  /\ AllButLast(q) \in Seq(Gets)
         /\ Len(AllButLast(q)) = Len(q) - 1
         /\ \A i \in 1 .. Len(q) - 1 : AllButLast(q)[i] = q[i]
<1>1. Len(q) - 1 \in Nat /\ Len(q) - 1 <= Len(q)
  OBVIOUS
<1>2. AllButLast(q) \in Seq(Gets)
  BY <1>1 DEF AllButLast
<1>3. Len(AllButLast(q)) = Len(q) - 1
  <2> DEFINE n == Len(q) - 1
  <2>1. n \in Nat /\ 1 \in Int /\ \A i \in 1 .. n : q[i] \in Gets
    BY <1>1
  <2>3. AllButLast(q) = SubSeq(q, 1, n)
    BY DEF AllButLast
  <2> HIDE DEF n
  <2>2. Len(SubSeq(q, 1, n)) = IF 1 <= n THEN n - 1 + 1 ELSE 0
    BY <2>1, SubSeqProperties
  <2>4. Len(AllButLast(q)) = IF 1 <= n THEN n - 1 + 1 ELSE 0
    BY <2>2, <2>3, Zenon
  <2>5. Len(AllButLast(q)) = n
    BY <2>1, <2>4
  <2> QED BY <2>5 DEF n
<1>4. \A i \in 1 .. Len(q) - 1 : AllButLast(q)[i] = q[i]
  BY <1>1 DEF AllButLast
<1> QED BY <1>2, <1>3, <1>4
\* Nobody else loses the place in it.
LEMMA InAllButLast ==
  ASSUME NEW q \in Seq(Gets), Len(q) > 0, NEW h \in Gets, q[Len(q)] # h
  PROVE  In(h, AllButLast(q)) <=> In(h, q)
<1>1. In(h, AllButLast(q)) => In(h, q)
  BY AllButLastIs DEF In
<1>2. ASSUME NEW i \in 1 .. Len(q), q[i] = h
      PROVE  In(h, AllButLast(q))
  <2>1. i \in 1 .. Len(q) - 1
    BY <1>2
  <2> QED BY <1>2, <2>1, AllButLastIs DEF In
<1> QED BY <1>1, <1>2 DEF In

\* treepass_get_async is called.
LEMMA BeginKeeps ==
  ASSUME NEW g \in Gets, NEW a \in GetAddrs, GetInv, Begin(g, a)
  PROVE  GetInv'
<1>0. /\ GetTypeOK /\ CallsKnow /\ EntriesAgree /\ LoadersOwn /\ SureIsRight
      /\ RefsAreHolders /\ ReadsServed /\ QueuesSleep /\ TellsSleep
      /\ WaitersAreWoken /\ LastIsOwn
  BY DEF GetInv
<1>u. UNCHANGED <<lookup, free, loading, disk_addr, data, ref, entry_waiters,
                  entry_lock, get_entry, ready, io, ioWaiters, reap_pc,
                  reap_get, tell, last>>
  BY DEF Begin, cache, queues, reapers, ios
<1>p. get_pc[g] = "out"
  BY DEF Begin, GetAt
<1>1. GetTypeOK'
  BY <1>0, <1>u, <1>p
  DEF GetTypeOK, Begin, GetAt, GetGoto, GetLabels, ReapLabels, Holding
<1>2. CallsKnow'
  BY <1>0, <1>u, <1>p DEF GetTypeOK, CallsKnow, Holding, Begin, GetAt, GetGoto
<1>3. EntriesAgree'
  BY <1>0, <1>u, <1>p DEF GetTypeOK, EntriesAgree, Begin, GetAt, GetGoto
<1>4. LoadersOwn'
  BY <1>0, <1>u, <1>p DEF GetTypeOK, LoadersOwn, Begin, GetAt, GetGoto
<1>5. SureIsRight'
  BY <1>0, <1>u, <1>p DEF GetTypeOK, SureIsRight, Sure, Begin, GetAt, GetGoto
<1>6. RefsAreHolders'
  BY <1>0, <1>u, <1>p, RefsKept DEF GetTypeOK, Holding, Begin, GetAt, GetGoto
<1>7. ReadsServed'
  BY <1>0, <1>u, <1>p
  DEF GetTypeOK, ReadsServed, In, Serving, Begin, GetAt, GetGoto
<1>8. QueuesSleep'
  BY <1>0, <1>u, <1>p DEF GetTypeOK, QueuesSleep, Sleeps, GetAt, Begin, GetGoto
<1>9. TellsSleep' /\ WaitersAreWoken'
  <2>1. ~Sleeps(g)
    BY <1>0, <1>p DEF Sleeps, ReadsServed, GetAt
  <2>2. OthersStay(g)
    BY <1>0, <1>u DEF OthersStay, GetTypeOK, Begin, GetAt, GetGoto
  <2>3. \A h \in Gets \ {g} : \A f \in GetEntries :
          In(h, entry_waiters'[f]) <=> In(h, entry_waiters[f])
    BY <1>u
  <2>4. \A h \in Gets : Sleeps(h) => get_entry[h] \in GetEntries
    BY <1>0 DEF Sleeps, GetAt, CallsKnow, Holding
  <2>5. TellsSleep'
    BY <1>0, <1>u, <2>1, <2>2, <2>3, <2>4, TellsKept
  <2>6. \A h \in Gets \ {g} : Sleeps(h) /\ get_entry[h] \in loading =>
          get_entry[h] \in loading'
    BY <1>u
  <2>7. \A r \in Reapers : reap_pc[r] \in Looking =>
          get_entry'[reap_get[r]] = get_entry[reap_get[r]]
    BY <1>0, <1>u
    DEF GetTypeOK, ReadsServed, Looking, Serving, GetAt, Begin, GetGoto
  <2>8. ~Sleeps(g)'
    BY <1>0, <1>u DEF Sleeps, GetTypeOK, ReadsServed, GetAt, Begin, GetGoto
  <2>9. WaitersAreWoken'
    BY <1>0, <1>u, <2>2, <2>3, <2>4, <2>6, <2>7, <2>8, WokenKept
  <2> QED BY <2>5, <2>9
<1>11. LastIsOwn'
  BY <1>0, <1>u, <1>p DEF GetTypeOK, LastIsOwn, GetAt, Begin, GetGoto
<1> QED
  BY <1>1, <1>2, <1>3, <1>4, <1>5, <1>6, <1>7, <1>8, <1>9, <1>11
  DEF GetInv

\* The lookup: what it read may be stale from now on.
LEMMA LookupKeeps ==
  ASSUME NEW g \in Gets, GetInv, Lookup(g)
  PROVE  GetInv'
<1>0. /\ GetTypeOK /\ CallsKnow /\ EntriesAgree /\ LoadersOwn /\ SureIsRight
      /\ RefsAreHolders /\ ReadsServed /\ QueuesSleep /\ TellsSleep
      /\ WaitersAreWoken /\ LastIsOwn
  BY DEF GetInv
<1>u. UNCHANGED <<lookup, free, loading, disk_addr, data, ref, entry_waiters,
                  entry_lock, get_addr, ready, io, ioWaiters, reap_pc,
                  reap_get, tell, last>>
  BY DEF Lookup, cache, queues, reapers, ios
<1>p. get_pc[g] = "lookup"
  BY DEF Lookup, GetAt
<1>1. GetTypeOK'
  BY <1>0, <1>u, GetConstants
  DEF GetAssumption, GetTypeOK, CallsKnow, ReadsServed, Serving, Lookup, GetAt,
      GetGoto, GetLabels, ReapLabels, Holding
<1>2. CallsKnow'
  BY <1>0, <1>u, <1>p DEF GetTypeOK, CallsKnow, Holding, Lookup, GetAt, GetGoto
<1>3. EntriesAgree'
  BY <1>0, <1>u, <1>p DEF GetTypeOK, EntriesAgree, Lookup, GetAt, GetGoto
<1>4. LoadersOwn'
  BY <1>0, <1>u, <1>p DEF GetTypeOK, LoadersOwn, Lookup, GetAt, GetGoto
<1>5. SureIsRight'
  BY <1>0, <1>u, <1>p DEF GetTypeOK, SureIsRight, Sure, Lookup, GetAt, GetGoto
<1>6. RefsAreHolders'
  BY <1>0, <1>u, <1>p, RefsKept DEF GetTypeOK, Holding, Lookup, GetAt, GetGoto
<1>7. ReadsServed'
  BY <1>0, <1>u, <1>p
  DEF GetTypeOK, ReadsServed, In, Serving, Lookup, GetAt, GetGoto
<1>8. QueuesSleep'
  <2>1. \A h \in Gets \ {g} :
          /\ get_pc'[h] = get_pc[h]
          /\ get_entry'[h] = get_entry[h]
          /\ Sleeps(h)' <=> Sleeps(h)
    BY <1>0, <1>u DEF GetTypeOK, Sleeps, GetAt, Lookup, GetGoto
  <2>2. get_pc'[g] \notin {"append", "recheck"}
    BY <1>0 DEF GetTypeOK, Lookup, GetGoto
  <2>3. ASSUME NEW f \in GetEntries, NEW i \in 1 .. Len(entry_waiters[f])
        PROVE  /\ get_entry'[entry_waiters'[f][i]] = f
               /\ Sleeps(entry_waiters[f][i])' \/ get_pc'[entry_waiters'[f][i]] = "recheck"
    <3>1. PICK h \in Gets : h = entry_waiters[f][i]
      BY <1>0, <2>3 DEF GetTypeOK
    <3>2. get_entry[h] = f /\ (Sleeps(h) \/ get_pc[h] = "recheck")
      BY <1>0, <2>3, <3>1 DEF QueuesSleep
    <3>3. h # g
      BY <1>p, <3>2 DEF Sleeps, GetAt
    <3>4. get_entry'[h] = f /\ (Sleeps(h)' \/ get_pc'[h] = "recheck")
      BY <2>1, <3>2, <3>3
    <3> QED BY <1>u, <3>1, <3>4 DEF Sleeps, GetAt
  <2> QED BY <1>0, <1>u, <2>1, <2>2, <2>3 DEF QueuesSleep
<1>9. TellsSleep' /\ WaitersAreWoken'
  <2>1. ~Sleeps(g)
    BY <1>0, <1>p DEF Sleeps, ReadsServed, GetAt
  <2>2. OthersStay(g)
    BY <1>0, <1>u DEF OthersStay, GetTypeOK, Lookup, GetAt, GetGoto
  <2>3. \A h \in Gets \ {g} : \A f \in GetEntries :
          In(h, entry_waiters'[f]) <=> In(h, entry_waiters[f])
    BY <1>u
  <2>4. \A h \in Gets : Sleeps(h) => get_entry[h] \in GetEntries
    BY <1>0 DEF Sleeps, GetAt, CallsKnow, Holding
  <2>5. TellsSleep'
    BY <1>0, <1>u, <2>1, <2>2, <2>3, <2>4, TellsKept
  <2>6. \A h \in Gets \ {g} : Sleeps(h) /\ get_entry[h] \in loading =>
          get_entry[h] \in loading'
    BY <1>u
  <2>7. \A r \in Reapers : reap_pc[r] \in Looking =>
          get_entry'[reap_get[r]] = get_entry[reap_get[r]]
    BY <1>0, <1>u
    DEF GetTypeOK, ReadsServed, Looking, Serving, GetAt, Lookup, GetGoto
  <2>8. ~Sleeps(g)'
    BY <1>0, <1>u DEF Sleeps, GetTypeOK, ReadsServed, GetAt, Lookup, GetGoto
  <2>9. WaitersAreWoken'
    BY <1>0, <1>u, <2>2, <2>3, <2>4, <2>6, <2>7, <2>8, WokenKept
  <2> QED BY <2>5, <2>9
<1>11. LastIsOwn'
  BY <1>0, <1>u, <1>p DEF GetTypeOK, LastIsOwn, GetAt, Lookup, GetGoto
<1> QED
  BY <1>1, <1>2, <1>3, <1>4, <1>5, <1>6, <1>7, <1>8, <1>9, <1>11
  DEF GetInv

\* treepass_get_read takes a reference, unless the entry is free.
LEMMA GetReadKeeps ==
  ASSUME NEW g \in Gets, GetInv, GetRead(g)
  PROVE  GetInv'
<1>0. /\ GetTypeOK /\ CallsKnow /\ EntriesAgree /\ LoadersOwn /\ SureIsRight
      /\ RefsAreHolders /\ ReadsServed /\ QueuesSleep /\ TellsSleep
      /\ WaitersAreWoken /\ LastIsOwn
  BY DEF GetInv
<1>u. UNCHANGED <<lookup, free, loading, disk_addr, data, entry_waiters,
                  entry_lock, get_addr, get_entry, ready, io, ioWaiters,
                  reap_pc, reap_get, tell, last>>
  BY DEF GetRead, cache, queues, calls, reapers, ios
<1>p. get_pc[g] = "read"
  BY DEF GetRead, GetAt
<1>e. get_entry[g] \in GetEntries /\ get_addr[g] \in GetAddrs
  BY <1>0, <1>p DEF CallsKnow, Holding
<1>c. \/ /\ get_entry[g] \in free
         /\ get_pc' = [get_pc EXCEPT ![g] = "lookup"] /\ ref' = ref
      \/ /\ ~(get_entry[g] \in free)
         /\ get_pc' = [get_pc EXCEPT ![g] = "addr"] /\ TakeRef(get_entry[g])
  BY DEF GetRead, GetGoto
<1>1. GetTypeOK'
  BY <1>0, GetConstants
  DEF GetAssumption, GetTypeOK, CallsKnow, ReadsServed, Serving, GetRead,
      GetAt, GetGoto, TakeRef, cache, queues, calls, reapers, ios, GetLabels,
      ReapLabels, Holding
<1>2. CallsKnow'
  BY <1>0, <1>u, <1>p
  DEF GetTypeOK, CallsKnow, Holding, GetRead, GetAt, GetGoto, TakeRef
<1>3. EntriesAgree'
  BY <1>0, <1>u, <1>p
  DEF GetTypeOK, EntriesAgree, GetRead, GetAt, GetGoto, TakeRef
<1>4. LoadersOwn'
  <2>1. \A h \in Gets : get_pc'[h] \in {"claim", "setaddr"} => get_pc'[h] = get_pc[h]
    BY <1>0, <1>c DEF GetTypeOK
  <2> QED BY <1>0, <1>u, <2>1 DEF LoadersOwn
<1>5. SureIsRight'
  BY <1>0, <1>u, <1>p
  DEF GetTypeOK, SureIsRight, Sure, GetRead, GetAt, GetGoto, TakeRef
<1>6. RefsAreHolders'
  <2>1. CASE TakeRef(get_entry[g]) /\ get_pc' = [get_pc EXCEPT ![g] = "addr"]
    <3>1. get_pc[g] \notin Holding /\ get_pc'[g] \in Holding
      BY <1>0, <1>p, <2>1 DEF GetTypeOK, Holding
    <3>2. \A h \in Gets \ {g} : get_pc'[h] = get_pc[h] /\ get_entry'[h] = get_entry[h]
      BY <1>0, <1>u, <2>1 DEF GetTypeOK
    <3> QED BY <1>0, <1>e, <1>u, <2>1, <3>1, <3>2, RefTaken
  <2>2. CASE ref' = ref /\ get_pc' = [get_pc EXCEPT ![g] = "lookup"]
    <3>1. \A h \in Gets : get_pc'[h] \in Holding <=> get_pc[h] \in Holding
      BY <1>0, <1>p, <2>2 DEF GetTypeOK, Holding
    <3> QED BY <1>0, <1>u, <2>2, <3>1, RefsKept
  <2> QED BY <1>c, <2>1, <2>2
<1>7. ReadsServed'
  BY <1>0, <1>u, <1>p
  DEF GetTypeOK, ReadsServed, In, Serving, GetRead, GetAt, GetGoto, TakeRef
<1>8. QueuesSleep'
  BY <1>0, <1>u, <1>p
  DEF GetTypeOK, QueuesSleep, Sleeps, GetAt, GetRead, GetGoto, TakeRef
<1>9. TellsSleep' /\ WaitersAreWoken'
  <2>1. ~Sleeps(g)
    BY <1>0, <1>p DEF Sleeps, ReadsServed, GetAt
  <2>2. OthersStay(g)
    BY <1>0, <1>u DEF OthersStay, GetTypeOK, GetRead, GetAt, GetGoto, TakeRef
  <2>3. \A h \in Gets \ {g} : \A f \in GetEntries :
          In(h, entry_waiters'[f]) <=> In(h, entry_waiters[f])
    BY <1>u
  <2>4. \A h \in Gets : Sleeps(h) => get_entry[h] \in GetEntries
    BY <1>0 DEF Sleeps, GetAt, CallsKnow, Holding
  <2>5. TellsSleep'
    BY <1>0, <1>u, <2>1, <2>2, <2>3, <2>4, TellsKept
  <2>6. \A h \in Gets \ {g} : Sleeps(h) /\ get_entry[h] \in loading =>
          get_entry[h] \in loading'
    BY <1>u
  <2>7. \A r \in Reapers : reap_pc[r] \in Looking =>
          get_entry'[reap_get[r]] = get_entry[reap_get[r]]
    BY <1>0, <1>u
    DEF GetTypeOK, ReadsServed, Looking, Serving, GetAt, GetRead, GetGoto,
        TakeRef
  <2>8. ~Sleeps(g)'
    BY <1>0, <1>u
    DEF Sleeps, GetTypeOK, ReadsServed, GetAt, GetRead, GetGoto, TakeRef
  <2>9. WaitersAreWoken'
    BY <1>0, <1>u, <2>2, <2>3, <2>4, <2>6, <2>7, <2>8, WokenKept
  <2> QED BY <2>5, <2>9
<1>11. LastIsOwn'
  BY <1>0, <1>u, <1>p DEF GetTypeOK, LastIsOwn, GetAt, GetRead, GetGoto, TakeRef
<1> QED
  BY <1>1, <1>2, <1>3, <1>4, <1>5, <1>6, <1>7, <1>8, <1>9, <1>11
  DEF GetInv

\* The address is checked under the reference: from now on the get is sure of
\* its entry.
LEMMA VerifyBeforeKeeps ==
  ASSUME NEW g \in Gets, GetInv, VerifyBefore(g)
  PROVE  GetInv'
<1>0. /\ GetTypeOK /\ CallsKnow /\ EntriesAgree /\ LoadersOwn /\ SureIsRight
      /\ RefsAreHolders /\ ReadsServed /\ QueuesSleep /\ TellsSleep
      /\ WaitersAreWoken /\ LastIsOwn
  BY DEF GetInv
<1>u. UNCHANGED <<lookup, free, loading, disk_addr, data, entry_waiters,
                  entry_lock, get_addr, get_entry, ready, io, ioWaiters,
                  reap_pc, reap_get, tell, last>>
  BY DEF VerifyBefore, CheckAddr, cache, queues, calls, reapers, ios
<1>p. get_pc[g] = "addr"
  BY DEF VerifyBefore, GetAt
<1>e. get_entry[g] \in GetEntries /\ get_addr[g] \in GetAddrs
  BY <1>0, <1>p DEF CallsKnow, Holding
<1>c. \/ /\ disk_addr[get_entry[g]] # get_addr[g]
         /\ get_pc' = [get_pc EXCEPT ![g] = "lookup"] /\ DropRef(get_entry[g])
      \/ /\ ~(disk_addr[get_entry[g]] # get_addr[g])
         /\ get_pc' = [get_pc EXCEPT ![g] = "test"] /\ ref' = ref
  BY DEF VerifyBefore, CheckAddr, GetGoto
<1>1. GetTypeOK'
  <2>1. get_pc' \in [Gets -> GetLabels]
    BY <1>0, <1>c DEF GetTypeOK, GetLabels, Holding
  <2>2. ref' \in [GetEntries -> Int]
    BY <1>0, <1>c, <1>e DEF GetTypeOK, DropRef
  <2> QED BY <1>0, <1>u, <2>1, <2>2 DEF GetTypeOK
<1>2. CallsKnow'
  BY <1>0, <1>u, <1>p
  DEF GetTypeOK, CallsKnow, Holding, VerifyBefore, CheckAddr, GetAt, GetGoto,
      DropRef
<1>3. EntriesAgree'
  BY <1>0, <1>u, <1>p
  DEF GetTypeOK, EntriesAgree, VerifyBefore, CheckAddr, GetAt, GetGoto, DropRef
<1>4. LoadersOwn'
  <2>1. \A h \in Gets : get_pc'[h] \in {"claim", "setaddr"} => get_pc'[h] = get_pc[h]
    BY <1>0, <1>c DEF GetTypeOK
  <2> QED BY <1>0, <1>u, <2>1 DEF LoadersOwn
<1>5. SureIsRight'
  BY <1>0, <1>u, <1>p
  DEF GetTypeOK, SureIsRight, Sure, VerifyBefore, CheckAddr, GetAt, GetGoto,
      DropRef
<1>6. RefsAreHolders'
  <2>1. CASE DropRef(get_entry[g]) /\ get_pc' = [get_pc EXCEPT ![g] = "lookup"]
    <3>1. get_pc[g] \in Holding /\ get_pc'[g] \notin Holding
      BY <1>0, <1>p, <2>1 DEF GetTypeOK, Holding
    <3>2. \A h \in Gets \ {g} : get_pc'[h] = get_pc[h] /\ get_entry'[h] = get_entry[h]
      BY <1>0, <1>u, <2>1 DEF GetTypeOK
    <3> QED BY <1>0, <1>e, <2>1, <3>1, <3>2, RefDropped
  <2>2. CASE ref' = ref /\ get_pc' = [get_pc EXCEPT ![g] = "test"]
    <3>1. \A h \in Gets : get_pc'[h] \in Holding <=> get_pc[h] \in Holding
      BY <1>0, <1>p, <2>2 DEF GetTypeOK, Holding
    <3> QED BY <1>0, <1>u, <2>2, <3>1, RefsKept
  <2> QED BY <1>c, <2>1, <2>2
<1>7. ReadsServed'
  BY <1>0, <1>u, <1>p
  DEF GetTypeOK, ReadsServed, In, Serving, VerifyBefore, CheckAddr, GetAt,
      GetGoto, DropRef
<1>8. QueuesSleep'
  BY <1>0, <1>u, <1>p
  DEF GetTypeOK, QueuesSleep, Sleeps, GetAt, VerifyBefore, CheckAddr, GetGoto,
      DropRef
<1>9. TellsSleep' /\ WaitersAreWoken'
  <2>1. ~Sleeps(g)
    BY <1>0, <1>p DEF Sleeps, ReadsServed, GetAt
  <2>2. OthersStay(g)
    BY <1>0, <1>u
    DEF OthersStay, GetTypeOK, VerifyBefore, CheckAddr, GetAt, GetGoto, DropRef
  <2>3. \A h \in Gets \ {g} : \A f \in GetEntries :
          In(h, entry_waiters'[f]) <=> In(h, entry_waiters[f])
    BY <1>u
  <2>4. \A h \in Gets : Sleeps(h) => get_entry[h] \in GetEntries
    BY <1>0 DEF Sleeps, GetAt, CallsKnow, Holding
  <2>5. TellsSleep'
    BY <1>0, <1>u, <2>1, <2>2, <2>3, <2>4, TellsKept
  <2>6. \A h \in Gets \ {g} : Sleeps(h) /\ get_entry[h] \in loading =>
          get_entry[h] \in loading'
    BY <1>u
  <2>7. \A r \in Reapers : reap_pc[r] \in Looking =>
          get_entry'[reap_get[r]] = get_entry[reap_get[r]]
    BY <1>0, <1>u
    DEF GetTypeOK, ReadsServed, Looking, Serving, GetAt, VerifyBefore,
        CheckAddr, GetGoto, DropRef
  <2>8. ~Sleeps(g)'
    BY <1>0, <1>u
    DEF Sleeps, GetTypeOK, ReadsServed, GetAt, VerifyBefore, CheckAddr,
        GetGoto, DropRef
  <2>9. WaitersAreWoken'
    BY <1>0, <1>u, <2>2, <2>3, <2>4, <2>6, <2>7, <2>8, WokenKept
  <2> QED BY <2>5, <2>9
<1>11. LastIsOwn'
  BY <1>0, <1>u, <1>p
  DEF GetTypeOK, LastIsOwn, GetAt, VerifyBefore, CheckAddr, GetGoto, DropRef
<1> QED
  BY <1>1, <1>2, <1>3, <1>4, <1>5, <1>6, <1>7, <1>8, <1>9, <1>11
  DEF GetInv

\* The first look at TP_LOADING.
LEMMA TestLoadingKeeps ==
  ASSUME NEW g \in Gets, GetInv, TestLoading(g)
  PROVE  GetInv'
<1>0. /\ GetTypeOK /\ CallsKnow /\ EntriesAgree /\ LoadersOwn /\ SureIsRight
      /\ RefsAreHolders /\ ReadsServed /\ QueuesSleep /\ TellsSleep
      /\ WaitersAreWoken /\ LastIsOwn
  BY DEF GetInv
<1>u. UNCHANGED <<lookup, free, loading, disk_addr, data, ref, entry_waiters,
                  entry_lock, get_addr, get_entry, ready, io, ioWaiters,
                  reap_pc, reap_get, tell, last>>
  BY DEF TestLoading, cache, queues, calls, reapers, ios
<1>p. get_pc[g] = "test"
  BY DEF TestLoading, GetAt
<1>1. GetTypeOK'
  BY <1>0, <1>u, <1>p
  DEF GetTypeOK, TestLoading, GetAt, GetGoto, GetLabels, ReapLabels, Holding
<1>2. CallsKnow'
  BY <1>0, <1>u, <1>p
  DEF GetTypeOK, CallsKnow, Holding, TestLoading, GetAt, GetGoto
<1>3. EntriesAgree'
  BY <1>0, <1>u, <1>p DEF GetTypeOK, EntriesAgree, TestLoading, GetAt, GetGoto
<1>4. LoadersOwn'
  BY <1>0, <1>u, <1>p DEF GetTypeOK, LoadersOwn, TestLoading, GetAt, GetGoto
<1>5. SureIsRight'
  BY <1>0, <1>u, <1>p
  DEF GetTypeOK, SureIsRight, Sure, TestLoading, GetAt, GetGoto
<1>6. RefsAreHolders'
  BY <1>0, <1>u, <1>p, RefsKept
  DEF GetTypeOK, Holding, TestLoading, GetAt, GetGoto
<1>7. ReadsServed'
  BY <1>0, <1>u, <1>p
  DEF GetTypeOK, ReadsServed, In, Serving, TestLoading, GetAt, GetGoto
<1>8. QueuesSleep'
  BY <1>0, <1>u, <1>p
  DEF GetTypeOK, QueuesSleep, Sleeps, GetAt, TestLoading, GetGoto
<1>9. TellsSleep' /\ WaitersAreWoken'
  <2>1. ~Sleeps(g)
    BY <1>0, <1>p DEF Sleeps, ReadsServed, GetAt
  <2>2. OthersStay(g)
    BY <1>0, <1>u DEF OthersStay, GetTypeOK, TestLoading, GetAt, GetGoto
  <2>3. \A h \in Gets \ {g} : \A f \in GetEntries :
          In(h, entry_waiters'[f]) <=> In(h, entry_waiters[f])
    BY <1>u
  <2>4. \A h \in Gets : Sleeps(h) => get_entry[h] \in GetEntries
    BY <1>0 DEF Sleeps, GetAt, CallsKnow, Holding
  <2>5. TellsSleep'
    BY <1>0, <1>u, <2>1, <2>2, <2>3, <2>4, TellsKept
  <2>6. \A h \in Gets \ {g} : Sleeps(h) /\ get_entry[h] \in loading =>
          get_entry[h] \in loading'
    BY <1>u
  <2>7. \A r \in Reapers : reap_pc[r] \in Looking =>
          get_entry'[reap_get[r]] = get_entry[reap_get[r]]
    BY <1>0, <1>u
    DEF GetTypeOK, ReadsServed, Looking, Serving, GetAt, TestLoading, GetGoto
  <2>8. ~Sleeps(g)'
    BY <1>0, <1>u
    DEF Sleeps, GetTypeOK, ReadsServed, GetAt, TestLoading, GetGoto
  <2>9. WaitersAreWoken'
    BY <1>0, <1>u, <2>2, <2>3, <2>4, <2>6, <2>7, <2>8, WokenKept
  <2> QED BY <2>5, <2>9
<1>11. LastIsOwn'
  BY <1>0, <1>u, <1>p DEF GetTypeOK, LastIsOwn, GetAt, TestLoading, GetGoto
<1> QED
  BY <1>1, <1>2, <1>3, <1>4, <1>5, <1>6, <1>7, <1>8, <1>9, <1>11
  DEF GetInv

\* The lock of the queue.
LEMMA LockWaitersKeeps ==
  ASSUME NEW g \in Gets, GetInv, LockWaiters(g)
  PROVE  GetInv'
<1>0. /\ GetTypeOK /\ CallsKnow /\ EntriesAgree /\ LoadersOwn /\ SureIsRight
      /\ RefsAreHolders /\ ReadsServed /\ QueuesSleep /\ TellsSleep
      /\ WaitersAreWoken /\ LastIsOwn
  BY DEF GetInv
<1>u. UNCHANGED <<lookup, free, loading, disk_addr, data, ref, entry_waiters,
                  get_addr, get_entry, ready, io, ioWaiters, reap_pc,
                  reap_get, tell, last>>
  BY DEF LockWaiters, cache, calls, reapers, ios
<1>p. get_pc[g] = "lock"
  BY DEF LockWaiters, GetAt
<1>1. GetTypeOK'
  BY <1>0, <1>u, <1>p
  DEF GetTypeOK, LockWaiters, GetAt, GetGoto, GetLabels, ReapLabels, Holding
<1>2. CallsKnow'
  BY <1>0, <1>u, <1>p
  DEF GetTypeOK, CallsKnow, Holding, LockWaiters, GetAt, GetGoto
<1>3. EntriesAgree'
  BY <1>0, <1>u, <1>p DEF GetTypeOK, EntriesAgree, LockWaiters, GetAt, GetGoto
<1>4. LoadersOwn'
  BY <1>0, <1>u, <1>p DEF GetTypeOK, LoadersOwn, LockWaiters, GetAt, GetGoto
<1>5. SureIsRight'
  BY <1>0, <1>u, <1>p
  DEF GetTypeOK, SureIsRight, Sure, LockWaiters, GetAt, GetGoto
<1>6. RefsAreHolders'
  BY <1>0, <1>u, <1>p, RefsKept
  DEF GetTypeOK, Holding, LockWaiters, GetAt, GetGoto
<1>7. ReadsServed'
  BY <1>0, <1>u, <1>p
  DEF GetTypeOK, ReadsServed, In, Serving, LockWaiters, GetAt, GetGoto
<1>8. QueuesSleep'
  BY <1>0, <1>u, GetConstants
  DEF GetAssumption, GetTypeOK, CallsKnow, QueuesSleep, ReadsServed,
      TellsSleep, LastIsOwn, Sleeps, GetAt, In, Serving, Holding, LockWaiters,
      GetAt, GetGoto
<1>9. TellsSleep' /\ WaitersAreWoken'
  <2>1. ~Sleeps(g)
    BY <1>0, <1>p DEF Sleeps, ReadsServed, GetAt
  <2>2. OthersStay(g)
    BY <1>0, <1>u DEF OthersStay, GetTypeOK, LockWaiters, GetAt, GetGoto
  <2>3. \A h \in Gets \ {g} : \A f \in GetEntries :
          In(h, entry_waiters'[f]) <=> In(h, entry_waiters[f])
    BY <1>u
  <2>4. \A h \in Gets : Sleeps(h) => get_entry[h] \in GetEntries
    BY <1>0 DEF Sleeps, GetAt, CallsKnow, Holding
  <2>5. TellsSleep'
    BY <1>0, <1>u, <2>1, <2>2, <2>3, <2>4, TellsKept
  <2>6. \A h \in Gets \ {g} : Sleeps(h) /\ get_entry[h] \in loading =>
          get_entry[h] \in loading'
    BY <1>u
  <2>7. \A r \in Reapers : reap_pc[r] \in Looking =>
          get_entry'[reap_get[r]] = get_entry[reap_get[r]]
    BY <1>0, <1>u
    DEF GetTypeOK, ReadsServed, Looking, Serving, GetAt, LockWaiters, GetGoto
  <2>8. ~Sleeps(g)'
    BY <1>0, <1>u
    DEF Sleeps, GetTypeOK, ReadsServed, GetAt, LockWaiters, GetGoto
  <2>9. WaitersAreWoken'
    BY <1>0, <1>u, <2>2, <2>3, <2>4, <2>6, <2>7, <2>8, WokenKept
  <2> QED BY <2>5, <2>9
<1>11. LastIsOwn'
  BY <1>0, <1>u, <1>p DEF GetTypeOK, LastIsOwn, GetAt, LockWaiters, GetGoto
<1> QED
  BY <1>1, <1>2, <1>3, <1>4, <1>5, <1>6, <1>7, <1>8, <1>9, <1>11
  DEF GetInv

\* The get joins the queue as its last one, and keeps the lock.
LEMMA JoinWaitersKeeps ==
  ASSUME NEW g \in Gets, GetInv, JoinWaiters(g)
  PROVE  GetInv'
<1>0. /\ GetTypeOK /\ CallsKnow /\ EntriesAgree /\ LoadersOwn /\ SureIsRight
      /\ RefsAreHolders /\ ReadsServed /\ QueuesSleep /\ TellsSleep
      /\ WaitersAreWoken /\ LastIsOwn
  BY DEF GetInv
<1>u. UNCHANGED <<lookup, free, loading, disk_addr, data, ref, entry_lock,
                  get_addr, get_entry, ready, io, ioWaiters, reap_pc,
                  reap_get, tell, last>>
  BY DEF JoinWaiters, cache, calls, reapers, ios
<1>p. get_pc[g] = "append"
  BY DEF JoinWaiters, GetAt
<1>1. GetTypeOK'
  BY <1>0, <1>u, GetConstants
  DEF GetAssumption, GetTypeOK, CallsKnow, ReadsServed, Serving, JoinWaiters,
      GetAt, GetGoto, GetLabels, ReapLabels, Holding
<1>2. CallsKnow'
  BY <1>0, <1>u, <1>p
  DEF GetTypeOK, CallsKnow, Holding, JoinWaiters, GetAt, GetGoto
<1>3. EntriesAgree'
  BY <1>0, <1>u, <1>p DEF GetTypeOK, EntriesAgree, JoinWaiters, GetAt, GetGoto
<1>4. LoadersOwn'
  BY <1>0, <1>u, <1>p DEF GetTypeOK, LoadersOwn, JoinWaiters, GetAt, GetGoto
<1>5. SureIsRight'
  BY <1>0, <1>u, <1>p
  DEF GetTypeOK, SureIsRight, Sure, JoinWaiters, GetAt, GetGoto
<1>6. RefsAreHolders'
  BY <1>0, <1>u, <1>p, RefsKept
  DEF GetTypeOK, Holding, JoinWaiters, GetAt, GetGoto
<1>7. ReadsServed'
  BY <1>0, <1>u, <1>p
  DEF GetTypeOK, ReadsServed, In, Serving, JoinWaiters, GetAt, GetGoto
<1>8. QueuesSleep'
  BY <1>0, <1>u, GetConstants
  DEF GetAssumption, GetTypeOK, CallsKnow, QueuesSleep, ReadsServed,
      TellsSleep, LastIsOwn, Sleeps, GetAt, In, Serving, Holding, JoinWaiters,
      GetAt, GetGoto
<1>9. TellsSleep' /\ WaitersAreWoken'
  <2>1. ~Sleeps(g)
    BY <1>0, <1>p DEF Sleeps, ReadsServed, GetAt
  <2>2. OthersStay(g)
    BY <1>0, <1>u DEF OthersStay, GetTypeOK, JoinWaiters, GetAt, GetGoto
  <2>3. \A h \in Gets \ {g} : \A f \in GetEntries :
          In(h, entry_waiters'[f]) <=> In(h, entry_waiters[f])
    <3>1. \A f \in GetEntries : entry_waiters[f] \in Seq(Gets)
      BY <1>0 DEF GetTypeOK
    <3>2. \A f \in GetEntries : entry_waiters'[f] =
            IF f = get_entry[g] THEN Append(entry_waiters[f], g) ELSE entry_waiters[f]
      BY <1>0 DEF JoinWaiters, GetTypeOK
    <3> QED BY <3>1, <3>2, InAppend
  <2>4. \A h \in Gets : Sleeps(h) => get_entry[h] \in GetEntries
    BY <1>0 DEF Sleeps, GetAt, CallsKnow, Holding
  <2>5. TellsSleep'
    BY <1>0, <1>u, <2>1, <2>2, <2>3, <2>4, TellsKept
  <2>6. \A h \in Gets \ {g} : Sleeps(h) /\ get_entry[h] \in loading =>
          get_entry[h] \in loading'
    BY <1>u
  <2>7. \A r \in Reapers : reap_pc[r] \in Looking =>
          get_entry'[reap_get[r]] = get_entry[reap_get[r]]
    BY <1>0, <1>u
    DEF GetTypeOK, ReadsServed, Looking, Serving, GetAt, JoinWaiters, GetGoto
  <2>8. ~Sleeps(g)'
    BY <1>0, <1>u
    DEF Sleeps, GetTypeOK, ReadsServed, GetAt, JoinWaiters, GetGoto
  <2>9. WaitersAreWoken'
    BY <1>0, <1>u, <2>2, <2>3, <2>4, <2>6, <2>7, <2>8, WokenKept
  <2> QED BY <2>5, <2>9
<1>11. LastIsOwn'
  BY <1>0, <1>u, GetConstants
  DEF GetAssumption, GetTypeOK, CallsKnow, LastIsOwn, QueuesSleep, GetAt,
      Holding, JoinWaiters, GetAt, GetGoto
<1> QED
  BY <1>1, <1>2, <1>3, <1>4, <1>5, <1>6, <1>7, <1>8, <1>9, <1>11
  DEF GetInv

\* The second look, in the queue: it falls asleep only if the page is still
\* loading, and else takes itself, the last one, out again.
LEMMA RecheckKeeps ==
  ASSUME NEW g \in Gets, GetInv, Recheck(g)
  PROVE  GetInv'
<1>0. /\ GetTypeOK /\ CallsKnow /\ EntriesAgree /\ LoadersOwn /\ SureIsRight
      /\ RefsAreHolders /\ ReadsServed /\ QueuesSleep /\ TellsSleep
      /\ WaitersAreWoken /\ LastIsOwn
  BY DEF GetInv
<1>u. UNCHANGED <<lookup, free, loading, disk_addr, data, ref, get_addr,
                  get_entry, ready, io, ioWaiters, reap_pc, reap_get, tell,
                  last>>
  BY DEF Recheck, cache, calls, reapers, ios
<1>p. get_pc[g] = "recheck"
  BY DEF Recheck, GetAt
<1>e. get_entry[g] \in GetEntries /\ get_addr[g] \in GetAddrs
  BY <1>0, <1>p DEF CallsKnow, Holding
<1>c. \/ /\ get_entry[g] \in loading
         /\ get_pc' = [get_pc EXCEPT ![g] = "waiting"] /\ entry_waiters' = entry_waiters
      \/ /\ ~(get_entry[g] \in loading)
         /\ get_pc' = [get_pc EXCEPT ![g] = "verify"]
         /\ entry_waiters' = [entry_waiters EXCEPT ![get_entry[g]] = AllButLast(@)]
  BY DEF Recheck, GetGoto
<1>d. entry_lock' = [entry_lock EXCEPT ![get_entry[g]] = Absent]
  BY DEF Recheck
<1>1. GetTypeOK'
  <2>1. get_pc' \in [Gets -> GetLabels]
    BY <1>0, <1>c DEF GetTypeOK, GetLabels, Holding
  <2>2. AllButLast(entry_waiters[get_entry[g]]) \in Seq(Gets)
    <3>1. entry_waiters[get_entry[g]] \in Seq(Gets) /\ Len(entry_waiters[get_entry[g]]) > 0
      BY <1>0, <1>e, <1>p DEF GetTypeOK, LastIsOwn, GetAt
    <3> QED BY <3>1, AllButLastIs
  <2>3. entry_waiters' \in [GetEntries -> Seq(Gets)]
    BY <1>0, <1>c, <2>2 DEF GetTypeOK
  <2>4. entry_lock' \in [GetEntries -> Gets \cup {Absent}]
    BY <1>0, <1>d DEF GetTypeOK
  <2> QED BY <1>0, <1>u, <2>1, <2>3, <2>4 DEF GetTypeOK
<1>2. CallsKnow'
  BY <1>0, <1>u, <1>p DEF GetTypeOK, CallsKnow, Holding, Recheck, GetAt, GetGoto
<1>3. EntriesAgree'
  BY <1>0, <1>u, <1>p DEF GetTypeOK, EntriesAgree, Recheck, GetAt, GetGoto
<1>4. LoadersOwn'
  <2>1. \A h \in Gets : get_pc'[h] \in {"claim", "setaddr"} => get_pc'[h] = get_pc[h]
    BY <1>0, <1>c DEF GetTypeOK
  <2> QED BY <1>0, <1>u, <2>1 DEF LoadersOwn
<1>5. SureIsRight'
  BY <1>0, <1>u, <1>p DEF GetTypeOK, SureIsRight, Sure, Recheck, GetAt, GetGoto
<1>6. RefsAreHolders'
  BY <1>0, <1>u, <1>p, RefsKept DEF GetTypeOK, Holding, Recheck, GetAt, GetGoto
<1>7. ReadsServed'
  BY <1>0, <1>u, <1>p
  DEF GetTypeOK, ReadsServed, In, Serving, Recheck, GetAt, GetGoto
<1>8. QueuesSleep'
  <2>1. \A h \in Gets \ {g} :
          /\ get_pc'[h] = get_pc[h]
          /\ Sleeps(h)' <=> Sleeps(h)
    BY <1>0, <1>c, <1>u DEF GetTypeOK, Sleeps, GetAt
  <2>2. \A h \in Gets : get_pc'[h] \in {"append", "recheck"} =>
          entry_lock'[get_entry'[h]] = h
    <3> SUFFICES ASSUME NEW h \in Gets, get_pc'[h] \in {"append", "recheck"}
                 PROVE  entry_lock'[get_entry'[h]] = h
      OBVIOUS
    <3>1. h # g /\ get_pc[h] = get_pc'[h]
      BY <1>0, <1>c, <2>1 DEF GetTypeOK
    <3>2. entry_lock[get_entry[h]] = h /\ entry_lock[get_entry[g]] = g
      BY <1>0, <1>p, <3>1 DEF QueuesSleep
    <3>3. get_entry[h] \in GetEntries
      BY <1>0, <3>1 DEF CallsKnow, Holding
    <3> QED BY <1>0, <1>d, <1>u, <3>1, <3>2, <3>3 DEF GetTypeOK
  <2>3. CASE /\ get_entry[g] \in loading
             /\ get_pc' = [get_pc EXCEPT ![g] = "waiting"]
             /\ entry_waiters' = entry_waiters
    <3>1. Sleeps(g)'
      BY <1>0, <1>p, <1>u, <2>3 DEF GetTypeOK, ReadsServed, Sleeps, GetAt
    <3>2. \A h \in Gets : Sleeps(h) \/ get_pc[h] = "recheck" =>
            Sleeps(h)' \/ get_pc'[h] = "recheck"
      BY <2>1, <3>1
    <3>3. \A f \in GetEntries : \A i \in 1 .. Len(entry_waiters[f]) :
            entry_waiters[f][i] \in Gets
      BY <1>0 DEF GetTypeOK
    <3>4. ASSUME NEW f \in GetEntries, NEW i \in 1 .. Len(entry_waiters[f])
          PROVE  /\ get_entry'[entry_waiters'[f][i]] = f
                 /\ Sleeps(entry_waiters[f][i])' \/ get_pc'[entry_waiters'[f][i]] = "recheck"
      <4>1. PICK h \in Gets : h = entry_waiters[f][i]
        BY <3>3, <3>4
      <4>2. get_entry[h] = f /\ (Sleeps(h) \/ get_pc[h] = "recheck")
        BY <1>0, <3>4, <4>1 DEF QueuesSleep
      <4>3. Sleeps(h)' \/ get_pc'[h] = "recheck"
        BY <3>2, <4>2
      <4> QED BY <1>u, <2>3, <4>1, <4>2, <4>3 DEF Sleeps, GetAt
    <3> QED BY <1>0, <2>2, <2>3, <3>4 DEF QueuesSleep
  <2>4. CASE /\ get_pc' = [get_pc EXCEPT ![g] = "verify"]
             /\ entry_waiters' = [entry_waiters EXCEPT ![get_entry[g]] = AllButLast(@)]
    <3> DEFINE q == entry_waiters[get_entry[g]]
    <3>1. q \in Seq(Gets) /\ Len(q) > 0 /\ q[Len(q)] = g
      BY <1>0, <1>e, <1>p DEF GetTypeOK, LastIsOwn, GetAt
    <3>2. /\ Len(AllButLast(q)) = Len(q) - 1
          /\ \A i \in 1 .. Len(q) - 1 : AllButLast(q)[i] = q[i]
      BY <3>1, AllButLastIs
    <3>3. \A f \in GetEntries \ {get_entry[g]} : entry_waiters'[f] = entry_waiters[f]
      BY <1>0, <2>4 DEF GetTypeOK
    <3>4. entry_waiters'[get_entry[g]] = AllButLast(q)
      BY <1>0, <1>e, <2>4 DEF GetTypeOK
    <3> HIDE DEF q
    <3>5. \A f \in GetEntries : \A i \in 1 .. Len(entry_waiters'[f]) :
            i \in 1 .. Len(entry_waiters[f]) /\ entry_waiters'[f][i] = entry_waiters[f][i]
      BY <3>1, <3>2, <3>3, <3>4 DEF q
    <3>6. \A f \in GetEntries : \A i \in 1 .. Len(entry_waiters'[f]) :
            entry_waiters[f][i] # g
      <4> SUFFICES ASSUME NEW f \in GetEntries, NEW i \in 1 .. Len(entry_waiters'[f]),
                          entry_waiters[f][i] = g
                   PROVE  FALSE
        OBVIOUS
      <4>1. get_entry[g] = f
        BY <1>0, <3>5 DEF QueuesSleep
      <4>2. i \in 1 .. Len(q) - 1 /\ q[i] = g /\ Len(q) \in Nat
        BY <3>1, <3>2, <3>4, <4>1 DEF q
      <4>3. i = Len(q)
        BY <1>0, <1>e, <3>1, <4>2 DEF QueuesSleep, q
      <4> QED BY <4>2, <4>3
    <3>7. ASSUME NEW f \in GetEntries, NEW i \in 1 .. Len(entry_waiters'[f])
          PROVE  /\ get_entry'[entry_waiters'[f][i]] = f
                 /\ Sleeps(entry_waiters[f][i])' \/ get_pc'[entry_waiters'[f][i]] = "recheck"
      <4>1. PICK h \in Gets : h = entry_waiters[f][i] /\ h # g
        BY <1>0, <3>5, <3>6, <3>7 DEF GetTypeOK
      <4>2. get_entry[h] = f /\ (Sleeps(h) \/ get_pc[h] = "recheck")
        BY <1>0, <3>5, <3>7, <4>1 DEF QueuesSleep
      <4>3. Sleeps(h)' \/ get_pc'[h] = "recheck"
        BY <2>1, <4>1, <4>2
      <4>4. entry_waiters'[f][i] = h
        BY <3>5, <3>7, <4>1
      <4> QED BY <1>u, <4>2, <4>3, <4>4 DEF Sleeps, GetAt
    <3>8. \A f \in GetEntries : \A i, j \in 1 .. Len(entry_waiters'[f]) :
            entry_waiters'[f][i] = entry_waiters'[f][j] => i = j
      BY <1>0, <3>5 DEF QueuesSleep
    <3> QED BY <2>2, <3>7, <3>8 DEF QueuesSleep
  <2> QED BY <1>c, <2>3, <2>4
<1>9. TellsSleep' /\ WaitersAreWoken'
  <2>1. ~Sleeps(g)
    BY <1>0, <1>p DEF Sleeps, ReadsServed, GetAt
  <2>2. OthersStay(g)
    BY <1>0, <1>u DEF OthersStay, GetTypeOK, Recheck, GetAt, GetGoto
  <2>3. \A h \in Gets \ {g} : \A f \in GetEntries :
          In(h, entry_waiters'[f]) <=> In(h, entry_waiters[f])
    <3>1. \A f \in GetEntries : entry_waiters[f] \in Seq(Gets)
      BY <1>0 DEF GetTypeOK
    <3>2. /\ Len(entry_waiters[get_entry[g]]) > 0
          /\ entry_waiters[get_entry[g]][Len(entry_waiters[get_entry[g]])] = g
      BY <1>0, <1>p DEF LastIsOwn, GetAt
    <3>3. \A f \in GetEntries : entry_waiters'[f] =
            IF f = get_entry[g] /\ get_entry[g] \notin loading
            THEN AllButLast(entry_waiters[f]) ELSE entry_waiters[f]
      BY <1>0, <1>c DEF GetTypeOK
    <3> QED BY <1>e, <3>1, <3>2, <3>3, InAllButLast
  <2>4. \A h \in Gets : Sleeps(h) => get_entry[h] \in GetEntries
    BY <1>0 DEF Sleeps, GetAt, CallsKnow, Holding
  <2>5. TellsSleep'
    BY <1>0, <1>u, <2>1, <2>2, <2>3, <2>4, TellsKept
  <2>6. \A h \in Gets \ {g} : Sleeps(h) /\ get_entry[h] \in loading =>
          get_entry[h] \in loading'
    BY <1>u
  <2>7. \A r \in Reapers : reap_pc[r] \in Looking =>
          get_entry'[reap_get[r]] = get_entry[reap_get[r]]
    BY <1>0, <1>u
    DEF GetTypeOK, ReadsServed, Looking, Serving, GetAt, Recheck, GetGoto
  <2>8. Sleeps(g)' => /\ In(g, entry_waiters'[get_entry'[g]])
                      /\ get_entry'[g] \in loading'
    <3>1. Sleeps(g)' => get_entry[g] \in loading /\ entry_waiters' = entry_waiters
      BY <1>0, <1>c DEF GetTypeOK, Sleeps, GetAt
    <3>2. In(g, entry_waiters[get_entry[g]])
      BY <1>0, <1>e, <1>p DEF GetTypeOK, LastIsOwn, GetAt, In
    <3> QED BY <1>u, <3>1, <3>2
  <2>9. WaitersAreWoken'
    BY <1>0, <1>u, <2>2, <2>3, <2>4, <2>6, <2>7, <2>8, WokenKept
  <2> QED BY <2>5, <2>9
<1>11. LastIsOwn'
  BY <1>0, <1>u, GetConstants
  DEF GetAssumption, GetTypeOK, CallsKnow, LastIsOwn, QueuesSleep, GetAt,
      Holding, Recheck, GetAt, GetGoto
<1> QED
  BY <1>1, <1>2, <1>3, <1>4, <1>5, <1>6, <1>7, <1>8, <1>9, <1>11
  DEF GetInv

\* The address is checked again after the wait.
LEMMA VerifyAfterKeeps ==
  ASSUME NEW g \in Gets, GetInv, VerifyAfter(g)
  PROVE  GetInv'
<1>0. /\ GetTypeOK /\ CallsKnow /\ EntriesAgree /\ LoadersOwn /\ SureIsRight
      /\ RefsAreHolders /\ ReadsServed /\ QueuesSleep /\ TellsSleep
      /\ WaitersAreWoken /\ LastIsOwn
  BY DEF GetInv
<1>u. UNCHANGED <<lookup, free, loading, disk_addr, data, entry_waiters,
                  entry_lock, get_addr, get_entry, ready, io, ioWaiters,
                  reap_pc, reap_get, tell, last>>
  BY DEF VerifyAfter, CheckAddr, cache, queues, calls, reapers, ios
<1>p. get_pc[g] = "verify"
  BY DEF VerifyAfter, GetAt
<1>e. get_entry[g] \in GetEntries /\ get_addr[g] \in GetAddrs
  BY <1>0, <1>p DEF CallsKnow, Holding
<1>c. \/ /\ disk_addr[get_entry[g]] # get_addr[g]
         /\ get_pc' = [get_pc EXCEPT ![g] = "lookup"] /\ DropRef(get_entry[g])
      \/ /\ ~(disk_addr[get_entry[g]] # get_addr[g])
         /\ get_pc' = [get_pc EXCEPT ![g] = "have"] /\ ref' = ref
  BY DEF VerifyAfter, CheckAddr, GetGoto
<1>1. GetTypeOK'
  <2>1. get_pc' \in [Gets -> GetLabels]
    BY <1>0, <1>c DEF GetTypeOK, GetLabels, Holding
  <2>2. ref' \in [GetEntries -> Int]
    BY <1>0, <1>c, <1>e DEF GetTypeOK, DropRef
  <2> QED BY <1>0, <1>u, <2>1, <2>2 DEF GetTypeOK
<1>2. CallsKnow'
  BY <1>0, <1>u, <1>p
  DEF GetTypeOK, CallsKnow, Holding, VerifyAfter, CheckAddr, GetAt, GetGoto,
      DropRef
<1>3. EntriesAgree'
  BY <1>0, <1>u, <1>p
  DEF GetTypeOK, EntriesAgree, VerifyAfter, CheckAddr, GetAt, GetGoto, DropRef
<1>4. LoadersOwn'
  <2>1. \A h \in Gets : get_pc'[h] \in {"claim", "setaddr"} => get_pc'[h] = get_pc[h]
    BY <1>0, <1>c DEF GetTypeOK
  <2> QED BY <1>0, <1>u, <2>1 DEF LoadersOwn
<1>5. SureIsRight'
  BY <1>0, <1>u, <1>p
  DEF GetTypeOK, SureIsRight, Sure, VerifyAfter, CheckAddr, GetAt, GetGoto,
      DropRef
<1>6. RefsAreHolders'
  <2>1. CASE DropRef(get_entry[g]) /\ get_pc' = [get_pc EXCEPT ![g] = "lookup"]
    <3>1. get_pc[g] \in Holding /\ get_pc'[g] \notin Holding
      BY <1>0, <1>p, <2>1 DEF GetTypeOK, Holding
    <3>2. \A h \in Gets \ {g} : get_pc'[h] = get_pc[h] /\ get_entry'[h] = get_entry[h]
      BY <1>0, <1>u, <2>1 DEF GetTypeOK
    <3> QED BY <1>0, <1>e, <2>1, <3>1, <3>2, RefDropped
  <2>2. CASE ref' = ref /\ get_pc' = [get_pc EXCEPT ![g] = "have"]
    <3>1. \A h \in Gets : get_pc'[h] \in Holding <=> get_pc[h] \in Holding
      BY <1>0, <1>p, <2>2 DEF GetTypeOK, Holding
    <3> QED BY <1>0, <1>u, <2>2, <3>1, RefsKept
  <2> QED BY <1>c, <2>1, <2>2
<1>7. ReadsServed'
  BY <1>0, <1>u, <1>p
  DEF GetTypeOK, ReadsServed, In, Serving, VerifyAfter, CheckAddr, GetAt,
      GetGoto, DropRef
<1>8. QueuesSleep'
  BY <1>0, <1>u, <1>p
  DEF GetTypeOK, QueuesSleep, Sleeps, GetAt, VerifyAfter, CheckAddr, GetGoto,
      DropRef
<1>9. TellsSleep' /\ WaitersAreWoken'
  <2>1. ~Sleeps(g)
    BY <1>0, <1>p DEF Sleeps, ReadsServed, GetAt
  <2>2. OthersStay(g)
    BY <1>0, <1>u
    DEF OthersStay, GetTypeOK, VerifyAfter, CheckAddr, GetAt, GetGoto, DropRef
  <2>3. \A h \in Gets \ {g} : \A f \in GetEntries :
          In(h, entry_waiters'[f]) <=> In(h, entry_waiters[f])
    BY <1>u
  <2>4. \A h \in Gets : Sleeps(h) => get_entry[h] \in GetEntries
    BY <1>0 DEF Sleeps, GetAt, CallsKnow, Holding
  <2>5. TellsSleep'
    BY <1>0, <1>u, <2>1, <2>2, <2>3, <2>4, TellsKept
  <2>6. \A h \in Gets \ {g} : Sleeps(h) /\ get_entry[h] \in loading =>
          get_entry[h] \in loading'
    BY <1>u
  <2>7. \A r \in Reapers : reap_pc[r] \in Looking =>
          get_entry'[reap_get[r]] = get_entry[reap_get[r]]
    BY <1>0, <1>u
    DEF GetTypeOK, ReadsServed, Looking, Serving, GetAt, VerifyAfter,
        CheckAddr, GetGoto, DropRef
  <2>8. ~Sleeps(g)'
    BY <1>0, <1>u
    DEF Sleeps, GetTypeOK, ReadsServed, GetAt, VerifyAfter, CheckAddr, GetGoto,
        DropRef
  <2>9. WaitersAreWoken'
    BY <1>0, <1>u, <2>2, <2>3, <2>4, <2>6, <2>7, <2>8, WokenKept
  <2> QED BY <2>5, <2>9
<1>11. LastIsOwn'
  BY <1>0, <1>u, <1>p
  DEF GetTypeOK, LastIsOwn, GetAt, VerifyAfter, CheckAddr, GetGoto, DropRef
<1> QED
  BY <1>1, <1>2, <1>3, <1>4, <1>5, <1>6, <1>7, <1>8, <1>9, <1>11
  DEF GetInv

\* treepass_acquire_entry_for_load takes an entry nobody refers to.
LEMMA AcquireKeeps ==
  ASSUME NEW g \in Gets, NEW e \in GetEntries, GetInv, Acquire(g, e)
  PROVE  GetInv'
<1>0. /\ GetTypeOK /\ CallsKnow /\ EntriesAgree /\ LoadersOwn /\ SureIsRight
      /\ RefsAreHolders /\ ReadsServed /\ QueuesSleep /\ TellsSleep
      /\ WaitersAreWoken /\ LastIsOwn
  BY DEF GetInv
<1>u. UNCHANGED <<lookup, disk_addr, data, entry_waiters, entry_lock,
                  get_addr, ready, io, ioWaiters, reap_pc, reap_get, tell,
                  last>>
  BY DEF Acquire, queues, reapers, ios
<1>p. get_pc[g] = "acquire"
  BY DEF Acquire, GetAt
<1>1. GetTypeOK'
  BY <1>0, <1>u, <1>p
  DEF GetTypeOK, Acquire, GetAt, GetGoto, TakeRef, GetLabels, ReapLabels,
      Holding
<1>2. CallsKnow'
  BY <1>0, <1>u, <1>p
  DEF GetTypeOK, CallsKnow, Holding, Acquire, GetAt, GetGoto, TakeRef
<1>3. EntriesAgree'
  BY <1>0, <1>u, <1>p
  DEF GetTypeOK, EntriesAgree, Acquire, GetAt, GetGoto, TakeRef
<1>4. LoadersOwn'
  BY <1>0, <1>u, GetConstants
  DEF GetAssumption, GetTypeOK, CallsKnow, EntriesAgree, LoadersOwn, Acquire,
      GetAt, GetGoto, TakeRef, Holding
<1>5. SureIsRight'
  BY <1>0, <1>u, <1>p
  DEF GetTypeOK, SureIsRight, Sure, Acquire, GetAt, GetGoto, TakeRef
<1>6. RefsAreHolders'
  BY <1>0, <1>u, <1>p, RefTaken
  DEF GetTypeOK, Holding, Acquire, GetAt, GetGoto, TakeRef
<1>7. ReadsServed'
  BY <1>0, <1>u, <1>p
  DEF GetTypeOK, ReadsServed, In, Serving, Acquire, GetAt, GetGoto, TakeRef
<1>8. QueuesSleep'
  BY <1>0, <1>u, <1>p
  DEF GetTypeOK, QueuesSleep, Sleeps, GetAt, Acquire, GetGoto, TakeRef
<1>9. TellsSleep' /\ WaitersAreWoken'
  <2>1. ~Sleeps(g)
    BY <1>0, <1>p DEF Sleeps, ReadsServed, GetAt
  <2>2. OthersStay(g)
    BY <1>0, <1>u DEF OthersStay, GetTypeOK, Acquire, GetAt, GetGoto, TakeRef
  <2>3. \A h \in Gets \ {g} : \A f \in GetEntries :
          In(h, entry_waiters'[f]) <=> In(h, entry_waiters[f])
    BY <1>u
  <2>4. \A h \in Gets : Sleeps(h) => get_entry[h] \in GetEntries
    BY <1>0 DEF Sleeps, GetAt, CallsKnow, Holding
  <2>5. TellsSleep'
    BY <1>0, <1>u, <2>1, <2>2, <2>3, <2>4, TellsKept
  <2>6. \A h \in Gets \ {g} : Sleeps(h) /\ get_entry[h] \in loading =>
          get_entry[h] \in loading'
    BY <1>0 DEF GetTypeOK, Acquire, GetAt, GetGoto, TakeRef
  <2>7. \A r \in Reapers : reap_pc[r] \in Looking =>
          get_entry'[reap_get[r]] = get_entry[reap_get[r]]
    BY <1>0, <1>u
    DEF GetTypeOK, ReadsServed, Looking, Serving, GetAt, Acquire, GetGoto,
        TakeRef
  <2>8. ~Sleeps(g)'
    BY <1>0, <1>u
    DEF Sleeps, GetTypeOK, ReadsServed, GetAt, Acquire, GetGoto, TakeRef
  <2>9. WaitersAreWoken'
    BY <1>0, <1>u, <2>2, <2>3, <2>4, <2>6, <2>7, <2>8, WokenKept
  <2> QED BY <2>5, <2>9
<1>11. LastIsOwn'
  BY <1>0, <1>u, <1>p DEF GetTypeOK, LastIsOwn, GetAt, Acquire, GetGoto, TakeRef
<1> QED
  BY <1>1, <1>2, <1>3, <1>4, <1>5, <1>6, <1>7, <1>8, <1>9, <1>11
  DEF GetInv

\* It enters the lookup.
LEMMA ClaimLookupKeeps ==
  ASSUME NEW g \in Gets, GetInv, ClaimLookup(g)
  PROVE  GetInv'
<1>0. /\ GetTypeOK /\ CallsKnow /\ EntriesAgree /\ LoadersOwn /\ SureIsRight
      /\ RefsAreHolders /\ ReadsServed /\ QueuesSleep /\ TellsSleep
      /\ WaitersAreWoken /\ LastIsOwn
  BY DEF GetInv
<1>u. UNCHANGED <<free, loading, disk_addr, data, ref, entry_waiters,
                  entry_lock, get_addr, get_entry, ready, io, ioWaiters,
                  reap_pc, reap_get, tell, last>>
  BY DEF ClaimLookup, queues, calls, reapers, ios
<1>p. get_pc[g] = "claim"
  BY DEF ClaimLookup, GetAt
<1>1. GetTypeOK'
  BY <1>0, <1>u, <1>p
  DEF GetTypeOK, ClaimLookup, GetAt, GetGoto, GetLabels, ReapLabels, Holding
<1>2. CallsKnow'
  BY <1>0, <1>u, <1>p
  DEF GetTypeOK, CallsKnow, Holding, ClaimLookup, GetAt, GetGoto
<1>3. EntriesAgree'
  BY <1>0, <1>u, GetConstants
  DEF GetAssumption, GetTypeOK, CallsKnow, EntriesAgree, LoadersOwn,
      ClaimLookup, GetAt, GetGoto, Holding
<1>4. LoadersOwn'
  BY <1>0, <1>u, GetConstants
  DEF GetAssumption, GetTypeOK, CallsKnow, EntriesAgree, LoadersOwn,
      ClaimLookup, GetAt, GetGoto, Holding
<1>5. SureIsRight'
  BY <1>0, <1>u, <1>p
  DEF GetTypeOK, SureIsRight, Sure, ClaimLookup, GetAt, GetGoto
<1>6. RefsAreHolders'
  BY <1>0, <1>u, <1>p, RefsKept
  DEF GetTypeOK, Holding, ClaimLookup, GetAt, GetGoto
<1>7. ReadsServed'
  BY <1>0, <1>u, <1>p
  DEF GetTypeOK, ReadsServed, In, Serving, ClaimLookup, GetAt, GetGoto
<1>8. QueuesSleep'
  BY <1>0, <1>u, <1>p
  DEF GetTypeOK, QueuesSleep, Sleeps, GetAt, ClaimLookup, GetGoto
<1>9. TellsSleep' /\ WaitersAreWoken'
  <2>1. ~Sleeps(g)
    BY <1>0, <1>p DEF Sleeps, ReadsServed, GetAt
  <2>2. OthersStay(g)
    BY <1>0, <1>u DEF OthersStay, GetTypeOK, ClaimLookup, GetAt, GetGoto
  <2>3. \A h \in Gets \ {g} : \A f \in GetEntries :
          In(h, entry_waiters'[f]) <=> In(h, entry_waiters[f])
    BY <1>u
  <2>4. \A h \in Gets : Sleeps(h) => get_entry[h] \in GetEntries
    BY <1>0 DEF Sleeps, GetAt, CallsKnow, Holding
  <2>5. TellsSleep'
    BY <1>0, <1>u, <2>1, <2>2, <2>3, <2>4, TellsKept
  <2>6. \A h \in Gets \ {g} : Sleeps(h) /\ get_entry[h] \in loading =>
          get_entry[h] \in loading'
    BY <1>u
  <2>7. \A r \in Reapers : reap_pc[r] \in Looking =>
          get_entry'[reap_get[r]] = get_entry[reap_get[r]]
    BY <1>0, <1>u
    DEF GetTypeOK, ReadsServed, Looking, Serving, GetAt, ClaimLookup, GetGoto
  <2>8. ~Sleeps(g)'
    BY <1>0, <1>u
    DEF Sleeps, GetTypeOK, ReadsServed, GetAt, ClaimLookup, GetGoto
  <2>9. WaitersAreWoken'
    BY <1>0, <1>u, <2>2, <2>3, <2>4, <2>6, <2>7, <2>8, WokenKept
  <2> QED BY <2>5, <2>9
<1>11. LastIsOwn'
  BY <1>0, <1>u, <1>p DEF GetTypeOK, LastIsOwn, GetAt, ClaimLookup, GetGoto
<1> QED
  BY <1>1, <1>2, <1>3, <1>4, <1>5, <1>6, <1>7, <1>8, <1>9, <1>11
  DEF GetInv

\* Somebody else loads the page.  Nobody can sleep for the entry that is
\* given back: it has no address yet, so nobody is sure of it.
LEMMA AbortLoadKeeps ==
  ASSUME NEW g \in Gets, GetInv, AbortLoad(g)
  PROVE  GetInv'
<1>0. /\ GetTypeOK /\ CallsKnow /\ EntriesAgree /\ LoadersOwn /\ SureIsRight
      /\ RefsAreHolders /\ ReadsServed /\ QueuesSleep /\ TellsSleep
      /\ WaitersAreWoken /\ LastIsOwn
  BY DEF GetInv
<1>u. UNCHANGED <<lookup, disk_addr, data, entry_waiters, entry_lock,
                  get_addr, get_entry, ready, io, ioWaiters, reap_pc,
                  reap_get, tell, last>>
  BY DEF AbortLoad, queues, calls, reapers, ios
<1>p. get_pc[g] = "claim"
  BY DEF AbortLoad, GetAt
<1>1. GetTypeOK'
  BY <1>0, <1>u, GetConstants
  DEF GetAssumption, GetTypeOK, CallsKnow, ReadsServed, Serving, AbortLoad,
      GetAt, GetGoto, DropRef, GetLabels, ReapLabels, Holding
<1>2. CallsKnow'
  BY <1>0, <1>u, <1>p
  DEF GetTypeOK, CallsKnow, Holding, AbortLoad, GetAt, GetGoto, DropRef
<1>3. EntriesAgree'
  BY <1>0, <1>u, GetConstants
  DEF GetAssumption, GetTypeOK, CallsKnow, EntriesAgree, LoadersOwn, AbortLoad,
      GetAt, GetGoto, DropRef, Holding
<1>4. LoadersOwn'
  BY <1>0, <1>u, <1>p
  DEF GetTypeOK, LoadersOwn, AbortLoad, GetAt, GetGoto, DropRef
<1>5. SureIsRight'
  BY <1>0, <1>u, <1>p
  DEF GetTypeOK, SureIsRight, Sure, AbortLoad, GetAt, GetGoto, DropRef
<1>6. RefsAreHolders'
  BY <1>0, <1>u, RefDropped
  DEF GetTypeOK, CallsKnow, Holding, GetAt, AbortLoad, GetGoto, DropRef
<1>7. ReadsServed'
  BY <1>0, <1>u, <1>p
  DEF GetTypeOK, ReadsServed, In, Serving, AbortLoad, GetAt, GetGoto, DropRef
<1>8. QueuesSleep'
  BY <1>0, <1>u, <1>p
  DEF GetTypeOK, QueuesSleep, Sleeps, GetAt, AbortLoad, GetGoto, DropRef
<1>9. TellsSleep' /\ WaitersAreWoken'
  <2>1. ~Sleeps(g)
    BY <1>0, <1>p DEF Sleeps, ReadsServed, GetAt
  <2>2. OthersStay(g)
    BY <1>0, <1>u DEF OthersStay, GetTypeOK, AbortLoad, GetAt, GetGoto, DropRef
  <2>3. \A h \in Gets \ {g} : \A f \in GetEntries :
          In(h, entry_waiters'[f]) <=> In(h, entry_waiters[f])
    BY <1>u
  <2>4. \A h \in Gets : Sleeps(h) => get_entry[h] \in GetEntries
    BY <1>0 DEF Sleeps, GetAt, CallsKnow, Holding
  <2>5. TellsSleep'
    BY <1>0, <1>u, <2>1, <2>2, <2>3, <2>4, TellsKept
  <2>6. \A h \in Gets \ {g} : Sleeps(h) /\ get_entry[h] \in loading =>
          get_entry[h] \in loading'
    <3>1. \A h \in Gets : Sleeps(h) => get_entry[h] # get_entry[g]
      BY <1>0, <1>p, GetConstants
         DEF GetAssumption, Sleeps, GetAt, SureIsRight, Sure, CallsKnow, LoadersOwn
    <3> QED BY <3>1 DEF AbortLoad
  <2>7. \A r \in Reapers : reap_pc[r] \in Looking =>
          get_entry'[reap_get[r]] = get_entry[reap_get[r]]
    BY <1>0, <1>u
    DEF GetTypeOK, ReadsServed, Looking, Serving, GetAt, AbortLoad, GetGoto,
        DropRef
  <2>8. ~Sleeps(g)'
    BY <1>0, <1>u
    DEF Sleeps, GetTypeOK, ReadsServed, GetAt, AbortLoad, GetGoto, DropRef
  <2>9. WaitersAreWoken'
    BY <1>0, <1>u, <2>2, <2>3, <2>4, <2>6, <2>7, <2>8, WokenKept
  <2> QED BY <2>5, <2>9
<1>11. LastIsOwn'
  BY <1>0, <1>u, <1>p
  DEF GetTypeOK, LastIsOwn, GetAt, AbortLoad, GetGoto, DropRef
<1> QED
  BY <1>1, <1>2, <1>3, <1>4, <1>5, <1>6, <1>7, <1>8, <1>9, <1>11
  DEF GetInv

\* The address follows the lookup.
LEMMA SetAddrKeeps ==
  ASSUME NEW g \in Gets, GetInv, SetAddr(g)
  PROVE  GetInv'
<1>0. /\ GetTypeOK /\ CallsKnow /\ EntriesAgree /\ LoadersOwn /\ SureIsRight
      /\ RefsAreHolders /\ ReadsServed /\ QueuesSleep /\ TellsSleep
      /\ WaitersAreWoken /\ LastIsOwn
  BY DEF GetInv
<1>u. UNCHANGED <<lookup, free, loading, data, ref, entry_waiters, entry_lock,
                  get_addr, get_entry, ready, io, ioWaiters, reap_pc,
                  reap_get, tell, last>>
  BY DEF SetAddr, queues, calls, reapers, ios
<1>p. get_pc[g] = "setaddr"
  BY DEF SetAddr, GetAt
<1>1. GetTypeOK'
  BY <1>0, <1>u, <1>p
  DEF GetTypeOK, SetAddr, GetAt, GetGoto, GetLabels, ReapLabels, Holding
<1>2. CallsKnow'
  BY <1>0, <1>u, <1>p DEF GetTypeOK, CallsKnow, Holding, SetAddr, GetAt, GetGoto
<1>3. EntriesAgree'
  BY <1>0, <1>u, GetConstants
  DEF GetAssumption, GetTypeOK, CallsKnow, EntriesAgree, LoadersOwn, SetAddr,
      GetAt, GetGoto, Holding
<1>4. LoadersOwn'
  BY <1>0, <1>u, <1>p DEF GetTypeOK, LoadersOwn, SetAddr, GetAt, GetGoto
<1>5. SureIsRight'
  BY <1>0, <1>u, GetConstants
  DEF GetAssumption, GetTypeOK, CallsKnow, EntriesAgree, LoadersOwn,
      SureIsRight, SetAddr, GetAt, GetGoto, Holding, Sure
<1>6. RefsAreHolders'
  BY <1>0, <1>u, <1>p, RefsKept DEF GetTypeOK, Holding, SetAddr, GetAt, GetGoto
<1>7. ReadsServed'
  BY <1>0, <1>u, <1>p
  DEF GetTypeOK, ReadsServed, In, Serving, SetAddr, GetAt, GetGoto
<1>8. QueuesSleep'
  BY <1>0, <1>u, <1>p
  DEF GetTypeOK, QueuesSleep, Sleeps, GetAt, SetAddr, GetGoto
<1>9. TellsSleep' /\ WaitersAreWoken'
  <2>1. ~Sleeps(g)
    BY <1>0, <1>p DEF Sleeps, ReadsServed, GetAt
  <2>2. OthersStay(g)
    BY <1>0, <1>u DEF OthersStay, GetTypeOK, SetAddr, GetAt, GetGoto
  <2>3. \A h \in Gets \ {g} : \A f \in GetEntries :
          In(h, entry_waiters'[f]) <=> In(h, entry_waiters[f])
    BY <1>u
  <2>4. \A h \in Gets : Sleeps(h) => get_entry[h] \in GetEntries
    BY <1>0 DEF Sleeps, GetAt, CallsKnow, Holding
  <2>5. TellsSleep'
    BY <1>0, <1>u, <2>1, <2>2, <2>3, <2>4, TellsKept
  <2>6. \A h \in Gets \ {g} : Sleeps(h) /\ get_entry[h] \in loading =>
          get_entry[h] \in loading'
    BY <1>u
  <2>7. \A r \in Reapers : reap_pc[r] \in Looking =>
          get_entry'[reap_get[r]] = get_entry[reap_get[r]]
    BY <1>0, <1>u
    DEF GetTypeOK, ReadsServed, Looking, Serving, GetAt, SetAddr, GetGoto
  <2>8. ~Sleeps(g)'
    BY <1>0, <1>u DEF Sleeps, GetTypeOK, ReadsServed, GetAt, SetAddr, GetGoto
  <2>9. WaitersAreWoken'
    BY <1>0, <1>u, <2>2, <2>3, <2>4, <2>6, <2>7, <2>8, WokenKept
  <2> QED BY <2>5, <2>9
<1>11. LastIsOwn'
  BY <1>0, <1>u, <1>p DEF GetTypeOK, LastIsOwn, GetAt, SetAddr, GetGoto
<1> QED
  BY <1>1, <1>2, <1>3, <1>4, <1>5, <1>6, <1>7, <1>8, <1>9, <1>11
  DEF GetInv

\* io_async_run: the read is in the kernel, or waits to be tried again.
LEMMA SubmitKeeps ==
  ASSUME NEW g \in Gets, GetInv, Submit(g)
  PROVE  GetInv'
<1>0. /\ GetTypeOK /\ CallsKnow /\ EntriesAgree /\ LoadersOwn /\ SureIsRight
      /\ RefsAreHolders /\ ReadsServed /\ QueuesSleep /\ TellsSleep
      /\ WaitersAreWoken /\ LastIsOwn
  BY DEF GetInv
<1>u. UNCHANGED <<lookup, free, loading, disk_addr, data, ref, entry_waiters,
                  entry_lock, get_addr, get_entry, ready, reap_pc, reap_get,
                  tell, last>>
  BY DEF Submit, cache, queues, calls, reapers
<1>p. get_pc[g] = "submit"
  BY DEF Submit, GetAt
<1>c. \/ /\ ReadsFull
         /\ get_pc' = [get_pc EXCEPT ![g] = "waiting"] /\ io' = [io EXCEPT ![g] = "waiting"]
         /\ ioWaiters' = Append(ioWaiters, g)
      \/ /\ ~(ReadsFull)
         /\ get_pc' = [get_pc EXCEPT ![g] = "waiting"] /\ io' = [io EXCEPT ![g] = "queued"]
         /\ ioWaiters' = ioWaiters
  BY DEF Submit, GetGoto
<1>1. GetTypeOK'
  <2>1. get_pc' \in [Gets -> GetLabels]
    BY <1>0, <1>c DEF GetTypeOK, GetLabels, Holding
  <2>2. io' \in [Gets -> {"none", "queued", "read", "done", "waiting"}]
    BY <1>0, <1>c DEF GetTypeOK
  <2>3. Append(ioWaiters, g) \in Seq(Gets)
    BY <1>0 DEF GetTypeOK
  <2>4. ioWaiters' \in Seq(Gets)
    BY <1>0, <1>c, <2>3 DEF GetTypeOK
  <2> QED BY <1>0, <1>u, <2>1, <2>2, <2>4 DEF GetTypeOK
<1>2. CallsKnow'
  BY <1>0, <1>u, <1>p DEF GetTypeOK, CallsKnow, Holding, Submit, GetAt, GetGoto
<1>3. EntriesAgree'
  BY <1>0, <1>u, <1>p DEF GetTypeOK, EntriesAgree, Submit, GetAt, GetGoto
<1>4. LoadersOwn'
  BY <1>0, <1>u, <1>p DEF GetTypeOK, LoadersOwn, Submit, GetAt, GetGoto
<1>5. SureIsRight'
  BY <1>0, <1>u, <1>p DEF GetTypeOK, SureIsRight, Sure, Submit, GetAt, GetGoto
<1>6. RefsAreHolders'
  BY <1>0, <1>u, <1>p, RefsKept DEF GetTypeOK, Holding, Submit, GetAt, GetGoto
<1>7. ReadsServed'
  <2>1. /\ get_pc'[g] = "waiting" /\ io'[g] \in {"queued", "waiting"}
        /\ \A h \in Gets \ {g} : get_pc'[h] = get_pc[h] /\ io'[h] = io[h]
    BY <1>0, <1>c DEF GetTypeOK
  <2>2. io[g] = "none" /\ g \notin ready
    BY <1>0, <1>p DEF GetTypeOK, ReadsServed
  <2>3. ~In(g, ioWaiters)
    BY <1>0, <2>2 DEF ReadsServed, In
  <2>4. \A h \in Gets \ {g} : In(h, ioWaiters') <=> In(h, ioWaiters)
    <3>1. ioWaiters \in Seq(Gets)
      BY <1>0 DEF GetTypeOK
    <3>2. \A h \in Gets \ {g} : In(h, Append(ioWaiters, g)) <=> In(h, ioWaiters)
      BY <3>1, InAppend
    <3> QED BY <1>c, <3>2
  <2>5. /\ \A h \in Gets : io'[h] # "none" => get_pc'[h] = "waiting"
        /\ \A h \in ready' : get_pc'[h] = "waiting" /\ io'[h] \notin {"queued", "read"}
    BY <1>0, <1>u, <2>1, <2>2 DEF GetTypeOK, ReadsServed
  <2>6. \A r \in Reapers : reap_pc'[r] \in Serving =>
          /\ reap_get'[r] \in Gets
          /\ reap_get'[r] \notin ready'
          /\ io'[reap_get'[r]] = IF r \in last' THEN "waiting" ELSE "done"
          /\ ~In(reap_get'[r], ioWaiters')
    BY <1>0, <1>u, <2>1, <2>2, <2>4 DEF ReadsServed
  <2>7. ASSUME NEW i \in 1 .. Len(ioWaiters')
        PROVE  io'[ioWaiters'[i]] = "waiting" /\ ioWaiters'[i] \notin ready'
    <3>1. CASE ioWaiters' = ioWaiters
      <4>1. ioWaiters[i] \in Gets \ {g}
        BY <1>0, <2>2, <2>7, <3>1 DEF GetTypeOK, ReadsServed
      <4> QED BY <1>0, <1>u, <2>1, <2>7, <3>1, <4>1 DEF ReadsServed
    <3>2. CASE ioWaiters' = Append(ioWaiters, g) /\ io'[g] = "waiting"
      <4>1. CASE i = Len(ioWaiters) + 1
        BY <1>0, <1>u, <2>2, <3>2, <4>1 DEF GetTypeOK
      <4>2. CASE i \in 1 .. Len(ioWaiters)
        <5>1. ioWaiters[i] \in Gets \ {g} /\ ioWaiters'[i] = ioWaiters[i]
          BY <1>0, <2>2, <3>2, <4>2 DEF GetTypeOK, ReadsServed
        <5> QED BY <1>0, <1>u, <2>1, <4>2, <5>1 DEF ReadsServed
      <4> QED BY <1>0, <2>7, <3>2, <4>1, <4>2 DEF GetTypeOK
    <3> QED BY <1>0, <1>c, <3>1, <3>2 DEF GetTypeOK
  <2>8. \A i, j \in 1 .. Len(ioWaiters') : ioWaiters'[i] = ioWaiters'[j] => i = j
    <3>1. ioWaiters \in Seq(Gets)
      BY <1>0 DEF GetTypeOK
    <3>2. \A i, j \in 1 .. Len(ioWaiters) : ioWaiters[i] = ioWaiters[j] => i = j
      BY <1>0 DEF ReadsServed
    <3>3. \A i \in 1 .. Len(ioWaiters) : ioWaiters[i] # g
      BY <2>3 DEF In
    <3>4. CASE ioWaiters' = Append(ioWaiters, g)
      BY <3>1, <3>2, <3>3, <3>4
    <3> QED BY <1>c, <3>2, <3>4
  <2> QED BY <1>0, <1>u, <2>5, <2>6, <2>7, <2>8 DEF ReadsServed, In
<1>8. QueuesSleep'
  BY <1>0, <1>u, <1>p DEF GetTypeOK, QueuesSleep, Sleeps, GetAt, Submit, GetGoto
<1>9. TellsSleep' /\ WaitersAreWoken'
  <2>1. ~Sleeps(g)
    BY <1>0, <1>p DEF Sleeps, ReadsServed, GetAt
  <2>2. OthersStay(g)
    BY <1>0, <1>u DEF OthersStay, GetTypeOK, Submit, GetAt, GetGoto
  <2>3. \A h \in Gets \ {g} : \A f \in GetEntries :
          In(h, entry_waiters'[f]) <=> In(h, entry_waiters[f])
    BY <1>u
  <2>4. \A h \in Gets : Sleeps(h) => get_entry[h] \in GetEntries
    BY <1>0 DEF Sleeps, GetAt, CallsKnow, Holding
  <2>5. TellsSleep'
    BY <1>0, <1>u, <2>1, <2>2, <2>3, <2>4, TellsKept
  <2>6. \A h \in Gets \ {g} : Sleeps(h) /\ get_entry[h] \in loading =>
          get_entry[h] \in loading'
    BY <1>u
  <2>7. \A r \in Reapers : reap_pc[r] \in Looking =>
          get_entry'[reap_get[r]] = get_entry[reap_get[r]]
    BY <1>0, <1>u
    DEF GetTypeOK, ReadsServed, Looking, Serving, GetAt, Submit, GetGoto
  <2>8. ~Sleeps(g)'
    BY <1>0, <1>u DEF Sleeps, GetTypeOK, ReadsServed, GetAt, Submit, GetGoto
  <2>9. WaitersAreWoken'
    BY <1>0, <1>u, <2>2, <2>3, <2>4, <2>6, <2>7, <2>8, WokenKept
  <2> QED BY <2>5, <2>9
<1>11. LastIsOwn'
  BY <1>0, <1>u, <1>p DEF GetTypeOK, LastIsOwn, GetAt, Submit, GetGoto
<1> QED
  BY <1>1, <1>2, <1>3, <1>4, <1>5, <1>6, <1>7, <1>8, <1>9, <1>11
  DEF GetInv

\* The owner runs the coroutine again after its callback.
LEMMA ResumeKeeps ==
  ASSUME NEW g \in Gets, GetInv, Resume(g)
  PROVE  GetInv'
<1>0. /\ GetTypeOK /\ CallsKnow /\ EntriesAgree /\ LoadersOwn /\ SureIsRight
      /\ RefsAreHolders /\ ReadsServed /\ QueuesSleep /\ TellsSleep
      /\ WaitersAreWoken /\ LastIsOwn
  BY DEF GetInv
<1>u. UNCHANGED <<lookup, free, loading, disk_addr, data, ref, entry_waiters,
                  entry_lock, get_addr, get_entry, ioWaiters, reap_pc,
                  reap_get, tell, last>>
  BY DEF Resume, cache, queues, reapers
<1>p. get_pc[g] = "waiting"
  BY DEF Resume, GetAt
<1>1. GetTypeOK'
  BY <1>0, <1>u, <1>p
  DEF GetTypeOK, Resume, GetAt, GetGoto, GetLabels, ReapLabels, Holding
<1>2. CallsKnow'
  BY <1>0, <1>u, <1>p DEF GetTypeOK, CallsKnow, Holding, Resume, GetAt, GetGoto
<1>3. EntriesAgree'
  BY <1>0, <1>u, <1>p DEF GetTypeOK, EntriesAgree, Resume, GetAt, GetGoto
<1>4. LoadersOwn'
  BY <1>0, <1>u, <1>p DEF GetTypeOK, LoadersOwn, Resume, GetAt, GetGoto
<1>5. SureIsRight'
  BY <1>0, <1>u, <1>p DEF GetTypeOK, SureIsRight, Sure, Resume, GetAt, GetGoto
<1>6. RefsAreHolders'
  BY <1>0, <1>u, <1>p, RefsKept DEF GetTypeOK, Holding, Resume, GetAt, GetGoto
<1>7. ReadsServed'
  BY <1>0, <1>u, <1>p
  DEF GetTypeOK, ReadsServed, In, Serving, Resume, GetAt, GetGoto
<1>8. QueuesSleep'
  BY <1>0, <1>u, <1>p DEF GetTypeOK, QueuesSleep, Sleeps, GetAt, Resume, GetGoto
<1>9. TellsSleep' /\ WaitersAreWoken'
  <2>1. ~Sleeps(g)
    BY <1>0 DEF Sleeps, ReadsServed, GetAt, Resume
  <2>2. OthersStay(g)
    BY <1>0, <1>u DEF OthersStay, GetTypeOK, Resume, GetAt, GetGoto
  <2>3. \A h \in Gets \ {g} : \A f \in GetEntries :
          In(h, entry_waiters'[f]) <=> In(h, entry_waiters[f])
    BY <1>u
  <2>4. \A h \in Gets : Sleeps(h) => get_entry[h] \in GetEntries
    BY <1>0 DEF Sleeps, GetAt, CallsKnow, Holding
  <2>5. TellsSleep'
    BY <1>0, <1>u, <2>1, <2>2, <2>3, <2>4, TellsKept
  <2>6. \A h \in Gets \ {g} : Sleeps(h) /\ get_entry[h] \in loading =>
          get_entry[h] \in loading'
    BY <1>u
  <2>7. \A r \in Reapers : reap_pc[r] \in Looking =>
          get_entry'[reap_get[r]] = get_entry[reap_get[r]]
    BY <1>0, <1>u
    DEF GetTypeOK, ReadsServed, Looking, Serving, GetAt, Resume, GetGoto
  <2>8. ~Sleeps(g)'
    BY <1>0, <1>u DEF Sleeps, GetTypeOK, ReadsServed, GetAt, Resume, GetGoto
  <2>9. WaitersAreWoken'
    BY <1>0, <1>u, <2>2, <2>3, <2>4, <2>6, <2>7, <2>8, WokenKept
  <2> QED BY <2>5, <2>9
<1>11. LastIsOwn'
  BY <1>0, <1>u, <1>p DEF GetTypeOK, LastIsOwn, GetAt, Resume, GetGoto
<1> QED
  BY <1>1, <1>2, <1>3, <1>4, <1>5, <1>6, <1>7, <1>8, <1>9, <1>11
  DEF GetInv

\* treepass_unget gives the reference back.
LEMMA UngetKeeps ==
  ASSUME NEW g \in Gets, GetInv, Unget(g)
  PROVE  GetInv'
<1>0. /\ GetTypeOK /\ CallsKnow /\ EntriesAgree /\ LoadersOwn /\ SureIsRight
      /\ RefsAreHolders /\ ReadsServed /\ QueuesSleep /\ TellsSleep
      /\ WaitersAreWoken /\ LastIsOwn
  BY DEF GetInv
<1>u. UNCHANGED <<lookup, free, loading, disk_addr, data, entry_waiters,
                  entry_lock, ready, io, ioWaiters, reap_pc, reap_get, tell,
                  last>>
  BY DEF Unget, cache, queues, reapers, ios
<1>p. get_pc[g] = "have"
  BY DEF Unget, GetAt
<1>1. GetTypeOK'
  BY <1>0, <1>u, GetConstants
  DEF GetAssumption, GetTypeOK, CallsKnow, ReadsServed, Serving, Unget, GetAt,
      GetGoto, DropRef, GetLabels, ReapLabels, Holding
<1>2. CallsKnow'
  BY <1>0, <1>u, <1>p
  DEF GetTypeOK, CallsKnow, Holding, Unget, GetAt, GetGoto, DropRef
<1>3. EntriesAgree'
  BY <1>0, <1>u, <1>p
  DEF GetTypeOK, EntriesAgree, Unget, GetAt, GetGoto, DropRef
<1>4. LoadersOwn'
  BY <1>0, <1>u, <1>p DEF GetTypeOK, LoadersOwn, Unget, GetAt, GetGoto, DropRef
<1>5. SureIsRight'
  BY <1>0, <1>u, <1>p
  DEF GetTypeOK, SureIsRight, Sure, Unget, GetAt, GetGoto, DropRef
<1>6. RefsAreHolders'
  BY <1>0, <1>u, RefDropped
  DEF GetTypeOK, CallsKnow, Holding, GetAt, Unget, GetGoto, DropRef
<1>7. ReadsServed'
  BY <1>0, <1>u, <1>p
  DEF GetTypeOK, ReadsServed, In, Serving, Unget, GetAt, GetGoto, DropRef
<1>8. QueuesSleep'
  BY <1>0, <1>u, GetConstants
  DEF GetAssumption, GetTypeOK, CallsKnow, QueuesSleep, ReadsServed,
      TellsSleep, LastIsOwn, Sleeps, GetAt, In, Serving, Holding, Unget, GetAt,
      GetGoto, DropRef
<1>9. TellsSleep' /\ WaitersAreWoken'
  <2>1. ~Sleeps(g)
    BY <1>0, <1>p DEF Sleeps, ReadsServed, GetAt
  <2>2. OthersStay(g)
    BY <1>0, <1>u DEF OthersStay, GetTypeOK, Unget, GetAt, GetGoto, DropRef
  <2>3. \A h \in Gets \ {g} : \A f \in GetEntries :
          In(h, entry_waiters'[f]) <=> In(h, entry_waiters[f])
    BY <1>u
  <2>4. \A h \in Gets : Sleeps(h) => get_entry[h] \in GetEntries
    BY <1>0 DEF Sleeps, GetAt, CallsKnow, Holding
  <2>5. TellsSleep'
    BY <1>0, <1>u, <2>1, <2>2, <2>3, <2>4, TellsKept
  <2>6. \A h \in Gets \ {g} : Sleeps(h) /\ get_entry[h] \in loading =>
          get_entry[h] \in loading'
    BY <1>u
  <2>7. \A r \in Reapers : reap_pc[r] \in Looking =>
          get_entry'[reap_get[r]] = get_entry[reap_get[r]]
    BY <1>0, <1>u
    DEF GetTypeOK, ReadsServed, Looking, Serving, GetAt, Unget, GetGoto,
        DropRef
  <2>8. ~Sleeps(g)'
    BY <1>0, <1>u
    DEF Sleeps, GetTypeOK, ReadsServed, GetAt, Unget, GetGoto, DropRef
  <2>9. WaitersAreWoken'
    BY <1>0, <1>u, <2>2, <2>3, <2>4, <2>6, <2>7, <2>8, WokenKept
  <2> QED BY <2>5, <2>9
<1>11. LastIsOwn'
  BY <1>0, <1>u, <1>p DEF GetTypeOK, LastIsOwn, GetAt, Unget, GetGoto, DropRef
<1> QED
  BY <1>1, <1>2, <1>3, <1>4, <1>5, <1>6, <1>7, <1>8, <1>9, <1>11
  DEF GetInv

\* The device fills the buffer.
LEMMA ReadKeeps ==
  ASSUME NEW g \in Gets, GetInv, Read(g)
  PROVE  GetInv'
<1>0. /\ GetTypeOK /\ CallsKnow /\ EntriesAgree /\ LoadersOwn /\ SureIsRight
      /\ RefsAreHolders /\ ReadsServed /\ QueuesSleep /\ TellsSleep
      /\ WaitersAreWoken /\ LastIsOwn
  BY DEF GetInv
<1>u. UNCHANGED <<lookup, free, loading, disk_addr, ref, entry_waiters,
                  entry_lock, get_pc, get_addr, get_entry, ready, ioWaiters,
                  reap_pc, reap_get, tell, last>>
  BY DEF Read, queues, calls, reapers
<1>1. GetTypeOK'
  BY <1>0, <1>u DEF GetTypeOK, Read, GetLabels, ReapLabels, Holding
<1>2. CallsKnow'
  BY <1>0, <1>u DEF CallsKnow
<1>3. EntriesAgree'
  BY <1>0, <1>u DEF EntriesAgree
<1>4. LoadersOwn'
  BY <1>0, <1>u DEF LoadersOwn
<1>5. SureIsRight'
  BY <1>0, <1>u DEF SureIsRight
<1>6. RefsAreHolders'
  BY <1>0, <1>u DEF RefsAreHolders, Holders
<1>7. ReadsServed'
  BY <1>0, <1>u DEF GetTypeOK, ReadsServed, In, Serving, Read
<1>8. QueuesSleep'
  BY <1>0, <1>u DEF GetTypeOK, QueuesSleep, Sleeps, GetAt, Read
<1>9. TellsSleep' /\ WaitersAreWoken'
  <2>1. ~Sleeps(g)
    BY <1>0 DEF Sleeps, ReadsServed, GetAt, Read
  <2>2. OthersStay(g)
    BY <1>0, <1>u DEF OthersStay, GetTypeOK, Read
  <2>3. \A h \in Gets \ {g} : \A f \in GetEntries :
          In(h, entry_waiters'[f]) <=> In(h, entry_waiters[f])
    BY <1>u
  <2>4. \A h \in Gets : Sleeps(h) => get_entry[h] \in GetEntries
    BY <1>0 DEF Sleeps, GetAt, CallsKnow, Holding
  <2>5. TellsSleep'
    BY <1>0, <1>u, <2>1, <2>2, <2>3, <2>4, TellsKept
  <2>6. \A h \in Gets \ {g} : Sleeps(h) /\ get_entry[h] \in loading =>
          get_entry[h] \in loading'
    BY <1>u
  <2>7. \A r \in Reapers : reap_pc[r] \in Looking =>
          get_entry'[reap_get[r]] = get_entry[reap_get[r]]
    BY <1>0, <1>u DEF GetTypeOK, ReadsServed, Looking, Serving, GetAt, Read
  <2>8. ~Sleeps(g)'
    BY <1>0, <1>u DEF Sleeps, GetTypeOK, ReadsServed, GetAt, Read
  <2>9. WaitersAreWoken'
    BY <1>0, <1>u, <2>2, <2>3, <2>4, <2>6, <2>7, <2>8, WokenKept
  <2> QED BY <2>5, <2>9
<1>11. LastIsOwn'
  BY <1>0, <1>u DEF LastIsOwn, GetAt
<1> QED
  BY <1>1, <1>2, <1>3, <1>4, <1>5, <1>6, <1>7, <1>8, <1>9, <1>11
  DEF GetInv

\* laio_cleanup_one reaps the event; nobody else serves that coroutine.
LEMMA ReapReadKeeps ==
  ASSUME NEW r \in Reapers, NEW g \in Gets, GetInv, ReapRead(r, g)
  PROVE  GetInv'
<1>0. /\ GetTypeOK /\ CallsKnow /\ EntriesAgree /\ LoadersOwn /\ SureIsRight
      /\ RefsAreHolders /\ ReadsServed /\ QueuesSleep /\ TellsSleep
      /\ WaitersAreWoken /\ LastIsOwn
  BY DEF GetInv
<1>u. UNCHANGED <<lookup, free, loading, disk_addr, data, ref, entry_waiters,
                  entry_lock, get_pc, get_addr, get_entry, ready, ioWaiters,
                  tell, last>>
  BY DEF ReapRead, cache, queues, calls
<1>p. reap_pc[r] = "idle"
  BY DEF ReapRead, RAt
<1>1. GetTypeOK'
  BY <1>0, <1>u, <1>p
  DEF GetTypeOK, ReapRead, RAt, RGoto, RServe, GetLabels, ReapLabels, Holding
<1>2. CallsKnow'
  BY <1>0, <1>u DEF CallsKnow
<1>3. EntriesAgree'
  BY <1>0, <1>u DEF EntriesAgree
<1>4. LoadersOwn'
  BY <1>0, <1>u DEF LoadersOwn
<1>5. SureIsRight'
  BY <1>0, <1>u DEF SureIsRight
<1>6. RefsAreHolders'
  BY <1>0, <1>u DEF RefsAreHolders, Holders
<1>7. ReadsServed'
  <2>1. /\ io[g] = "read" /\ io'[g] = "done" /\ reap_get'[r] = g /\ reap_pc'[r] = "finish"
        /\ \A h \in Gets \ {g} : io'[h] = io[h]
        /\ \A s \in Reapers \ {r} : reap_pc'[s] = reap_pc[s] /\ reap_get'[s] = reap_get[s]
    BY <1>0 DEF GetTypeOK, ReapRead, RAt, RGoto, RServe
  <2>2. r \notin last /\ g \notin ready /\ get_pc[g] = "waiting"
    BY <1>0, <1>p, <2>1 DEF ReadsServed, Serving
  <2>3. \A i \in 1 .. Len(ioWaiters) : ioWaiters[i] \in Gets \ {g}
    BY <1>0, <2>1 DEF GetTypeOK, ReadsServed
  <2>4. ~In(g, ioWaiters)
    BY <2>3 DEF In
  <2>5. \A s \in Reapers : reap_pc[s] \in Serving => reap_get[s] # g
    BY <1>0, <2>1 DEF ReadsServed
  <2>6. \A s \in Reapers : reap_pc'[s] \in Serving =>
          /\ reap_get'[s] \in Gets
          /\ reap_get'[s] \notin ready'
          /\ io'[reap_get'[s]] = IF s \in last' THEN "waiting" ELSE "done"
          /\ ~In(reap_get'[s], ioWaiters')
    BY <1>0, <1>u, <2>1, <2>2, <2>4, <2>5 DEF ReadsServed
  <2>7. /\ \A h \in Gets : io'[h] # "none" => get_pc'[h] = "waiting"
        /\ \A h \in ready' : get_pc'[h] = "waiting" /\ io'[h] \notin {"queued", "read"}
    BY <1>0, <1>u, <2>1, <2>2 DEF GetTypeOK, ReadsServed
  <2>9. \A s \in last' : reap_pc'[s] \in Serving
    BY <1>0, <1>u, <2>1, <2>2 DEF GetTypeOK, ReadsServed
  <2>10. \A i \in 1 .. Len(ioWaiters') :
           io'[ioWaiters'[i]] = "waiting" /\ ioWaiters'[i] \notin ready'
    BY <1>0, <1>u, <2>1, <2>3 DEF ReadsServed
  <2>8. \A s, t \in Reapers :
          reap_pc'[s] \in Serving /\ reap_pc'[t] \in Serving /\ s # t =>
             reap_get'[s] # reap_get'[t]
    BY <1>0, <2>1, <2>5 DEF ReadsServed
  <2> QED BY <1>0, <1>u, <2>6, <2>7, <2>8, <2>9, <2>10 DEF ReadsServed, In
<1>8. QueuesSleep'
  BY <1>0, <1>u, <1>p
  DEF GetTypeOK, QueuesSleep, Sleeps, GetAt, ReapRead, RAt, RGoto, RServe
<1>9. TellsSleep' /\ WaitersAreWoken'
  <2>1. \A s \in Reapers \ {r} : reap_pc'[s] = reap_pc[s] /\ reap_get'[s] = reap_get[s]
    BY <1>0, <1>u DEF GetTypeOK, ReapRead, RAt, RGoto, RServe
  <2>2. \A h \in Gets : Sleeps(h)' <=> Sleeps(h)
    BY <1>0, <1>p, <1>u
    DEF GetTypeOK, ReadsServed, Serving, Sleeps, GetAt, ReapRead, RAt, RGoto,
        RServe
  <2>3. TellsSleep'
    BY <1>0, <1>p, <1>u, <2>1, <2>2, TellsKeptByReaper
  <2>4. \A h \in Gets : Sleeps(h) => get_entry[h] \in GetEntries
    BY <1>0 DEF Sleeps, GetAt, CallsKnow, Holding
  <2>5. \A f \in GetEntries : f \in loading \/ WillLook(f) =>
          f \in loading' \/ WillLook(f)' \/ entry_waiters[f] = <<>>
    BY <1>0, <1>p, <1>u, <2>1 DEF WillLook, REntry
  <2>6. WaitersAreWoken'
    BY <1>0, <1>u, <2>2, <2>4, <2>5, WokenKeptByReaper
  <2> QED BY <2>3, <2>6
<1>11. LastIsOwn'
  BY <1>0, <1>u DEF LastIsOwn, GetAt
<1> QED
  BY <1>1, <1>2, <1>3, <1>4, <1>5, <1>6, <1>7, <1>8, <1>9, <1>11
  DEF GetInv

\* TP_LOADING is cleared by who will look at the queue next.
LEMMA FinishLoadKeeps ==
  ASSUME NEW r \in Reapers, GetInv, FinishLoad(r)
  PROVE  GetInv'
<1>0. /\ GetTypeOK /\ CallsKnow /\ EntriesAgree /\ LoadersOwn /\ SureIsRight
      /\ RefsAreHolders /\ ReadsServed /\ QueuesSleep /\ TellsSleep
      /\ WaitersAreWoken /\ LastIsOwn
  BY DEF GetInv
<1>u. UNCHANGED <<lookup, free, disk_addr, data, ref, entry_waiters,
                  entry_lock, get_pc, get_addr, get_entry, ready, io,
                  ioWaiters, reap_get, tell, last>>
  BY DEF FinishLoad, queues, calls
<1>p. reap_pc[r] = "finish"
  BY DEF FinishLoad, RAt
<1>1. GetTypeOK'
  BY <1>0, <1>u, <1>p
  DEF GetTypeOK, FinishLoad, RAt, RGoto, REntry, GetLabels, ReapLabels, Holding
<1>2. CallsKnow'
  BY <1>0, <1>u DEF CallsKnow
<1>3. EntriesAgree'
  BY <1>0, <1>u DEF EntriesAgree
<1>4. LoadersOwn'
  BY <1>0, <1>u DEF LoadersOwn
<1>5. SureIsRight'
  BY <1>0, <1>u DEF SureIsRight
<1>6. RefsAreHolders'
  BY <1>0, <1>u DEF RefsAreHolders, Holders
<1>7. ReadsServed'
  BY <1>0, <1>u, <1>p
  DEF GetTypeOK, ReadsServed, In, Serving, FinishLoad, RAt, RGoto, REntry
<1>8. QueuesSleep'
  BY <1>0, <1>u DEF QueuesSleep, Sleeps, GetAt
<1>9. TellsSleep' /\ WaitersAreWoken'
  <2>1. \A s \in Reapers \ {r} : reap_pc'[s] = reap_pc[s] /\ reap_get'[s] = reap_get[s]
    BY <1>0, <1>u DEF GetTypeOK, FinishLoad, RAt, RGoto, REntry
  <2>2. \A h \in Gets : Sleeps(h)' <=> Sleeps(h)
    BY <1>0, <1>p, <1>u
    DEF GetTypeOK, ReadsServed, Serving, Sleeps, GetAt, FinishLoad, RAt, RGoto,
        REntry
  <2>3. TellsSleep'
    BY <1>0, <1>p, <1>u, <2>1, <2>2, TellsKeptByReaper
  <2>4. \A h \in Gets : Sleeps(h) => get_entry[h] \in GetEntries
    BY <1>0 DEF Sleeps, GetAt, CallsKnow, Holding
  <2>5. \A f \in GetEntries : f \in loading \/ WillLook(f) =>
          f \in loading' \/ WillLook(f)' \/ entry_waiters[f] = <<>>
    <3>1. reap_pc'[r] = "peek" /\ REntry(r)' = REntry(r) /\ loading' = loading \ {REntry(r)}
      BY <1>0, <1>u DEF GetTypeOK, FinishLoad, RGoto, REntry
    <3>2. WillLook(REntry(r))'
      BY <3>1 DEF WillLook, REntry
    <3>3. \A f : WillLook(f) => WillLook(f)'
      BY <1>u, <2>1, <3>1 DEF WillLook, REntry
    <3> QED BY <3>1, <3>2, <3>3
  <2>6. WaitersAreWoken'
    BY <1>0, <1>u, <2>2, <2>4, <2>5, WokenKeptByReaper
  <2> QED BY <2>3, <2>6
<1>11. LastIsOwn'
  BY <1>0, <1>u DEF LastIsOwn, GetAt
<1> QED
  BY <1>1, <1>2, <1>3, <1>4, <1>5, <1>6, <1>7, <1>8, <1>9, <1>11
  DEF GetInv

\* The look without the lock: who finds the queue empty has nobody to wake.
LEMMA PeekEntryKeeps ==
  ASSUME NEW r \in Reapers, GetInv, PeekEntry(r)
  PROVE  GetInv'
<1>0. /\ GetTypeOK /\ CallsKnow /\ EntriesAgree /\ LoadersOwn /\ SureIsRight
      /\ RefsAreHolders /\ ReadsServed /\ QueuesSleep /\ TellsSleep
      /\ WaitersAreWoken /\ LastIsOwn
  BY DEF GetInv
<1>u. UNCHANGED <<lookup, free, loading, disk_addr, data, ref, entry_waiters,
                  entry_lock, get_pc, get_addr, get_entry, ready, io,
                  ioWaiters, reap_get, tell, last>>
  BY DEF PeekEntry, cache, queues, calls
<1>p. reap_pc[r] = "peek"
  BY DEF PeekEntry, RAt
<1>1. GetTypeOK'
  BY <1>0, <1>u, <1>p
  DEF GetTypeOK, PeekEntry, RAt, RGoto, REntry, GetLabels, ReapLabels, Holding
<1>2. CallsKnow'
  BY <1>0, <1>u DEF CallsKnow
<1>3. EntriesAgree'
  BY <1>0, <1>u DEF EntriesAgree
<1>4. LoadersOwn'
  BY <1>0, <1>u DEF LoadersOwn
<1>5. SureIsRight'
  BY <1>0, <1>u DEF SureIsRight
<1>6. RefsAreHolders'
  BY <1>0, <1>u DEF RefsAreHolders, Holders
<1>7. ReadsServed'
  BY <1>0, <1>u, <1>p
  DEF GetTypeOK, ReadsServed, In, Serving, PeekEntry, RAt, RGoto, REntry
<1>8. QueuesSleep'
  BY <1>0, <1>u DEF QueuesSleep, Sleeps, GetAt
<1>9. TellsSleep' /\ WaitersAreWoken'
  <2>1. \A s \in Reapers \ {r} : reap_pc'[s] = reap_pc[s] /\ reap_get'[s] = reap_get[s]
    BY <1>0, <1>u DEF GetTypeOK, PeekEntry, RAt, RGoto, REntry
  <2>2. \A h \in Gets : Sleeps(h)' <=> Sleeps(h)
    BY <1>0, <1>p, <1>u
    DEF GetTypeOK, ReadsServed, Serving, Sleeps, GetAt, PeekEntry, RAt, RGoto,
        REntry
  <2>3. TellsSleep'
    BY <1>0, <1>p, <1>u, <2>1, <2>2, TellsKeptByReaper
  <2>4. \A h \in Gets : Sleeps(h) => get_entry[h] \in GetEntries
    BY <1>0 DEF Sleeps, GetAt, CallsKnow, Holding
  <2>5. \A f \in GetEntries : f \in loading \/ WillLook(f) =>
          f \in loading' \/ WillLook(f)' \/ entry_waiters[f] = <<>>
    <3>1. CASE entry_waiters[REntry(r)] = <<>>
      BY <1>u, <2>1, <3>1 DEF WillLook, REntry
    <3>2. CASE entry_waiters[REntry(r)] # <<>>
      <4>1. reap_pc'[r] = "take"
        BY <1>0, <3>2 DEF GetTypeOK, PeekEntry, RGoto
      <4> QED BY <1>u, <2>1, <4>1 DEF WillLook, REntry
    <3> QED BY <3>1, <3>2
  <2>6. WaitersAreWoken'
    BY <1>0, <1>u, <2>2, <2>4, <2>5, WokenKeptByReaper
  <2> QED BY <2>3, <2>6
<1>11. LastIsOwn'
  BY <1>0, <1>u DEF LastIsOwn, GetAt
<1> QED
  BY <1>1, <1>2, <1>3, <1>4, <1>5, <1>6, <1>7, <1>8, <1>9, <1>11
  DEF GetInv

\* The whole queue is taken under its lock, so nobody in it is about to take
\* itself out.
LEMMA TakeWaitersKeeps ==
  ASSUME NEW r \in Reapers, GetInv, TakeWaiters(r)
  PROVE  GetInv'
<1>0. /\ GetTypeOK /\ CallsKnow /\ EntriesAgree /\ LoadersOwn /\ SureIsRight
      /\ RefsAreHolders /\ ReadsServed /\ QueuesSleep /\ TellsSleep
      /\ WaitersAreWoken /\ LastIsOwn
  BY DEF GetInv
<1>u. UNCHANGED <<lookup, free, loading, disk_addr, data, ref, entry_lock,
                  get_pc, get_addr, get_entry, ready, io, ioWaiters, reap_get,
                  last>>
  BY DEF TakeWaiters, cache, calls
<1>p. reap_pc[r] = "take"
  BY DEF TakeWaiters, RAt
<1>e. reap_get[r] \in Gets /\ REntry(r) \in GetEntries
  BY <1>0, <1>p DEF ReadsServed, Serving, CallsKnow, REntry, Holding, GetTypeOK
<1> DEFINE f == REntry(r)
<1>c. /\ entry_lock[f] = Absent
      /\ tell' = [tell EXCEPT ![r] = entry_waiters[f]]
      /\ entry_waiters' = [entry_waiters EXCEPT ![f] = <<>>]
      /\ reap_pc' = [reap_pc EXCEPT ![r] = "tell"]
  BY DEF TakeWaiters, RGoto
<1>f. f \in GetEntries
  BY <1>e
<1> HIDE DEF f
<1>1. GetTypeOK'
  <2>1. <<>> \in Seq(Gets)
    OBVIOUS
  <2>2. entry_waiters' \in [GetEntries -> Seq(Gets)]
    BY <1>0, <1>c, <2>1 DEF GetTypeOK
  <2>3. tell' \in [Reapers -> Seq(Gets)]
    BY <1>0, <1>c, <1>f DEF GetTypeOK
  <2>4. reap_pc' \in [Reapers -> ReapLabels]
    BY <1>0, <1>c DEF GetTypeOK, ReapLabels
  <2> QED BY <1>0, <1>u, <2>2, <2>3, <2>4 DEF GetTypeOK
<1>2. CallsKnow'
  BY <1>0, <1>u DEF CallsKnow
<1>3. EntriesAgree'
  BY <1>0, <1>u DEF EntriesAgree
<1>4. LoadersOwn'
  BY <1>0, <1>u DEF LoadersOwn
<1>5. SureIsRight'
  BY <1>0, <1>u DEF SureIsRight
<1>6. RefsAreHolders'
  BY <1>0, <1>u DEF RefsAreHolders, Holders
<1>7. ReadsServed'
  BY <1>0, <1>u, <1>p
  DEF GetTypeOK, ReadsServed, In, Serving, TakeWaiters, RAt, RGoto, REntry
<1>8. QueuesSleep'
  BY <1>0, <1>u, <1>p
  DEF GetTypeOK, QueuesSleep, Sleeps, GetAt, TakeWaiters, RAt, RGoto, REntry
<1>9. TellsSleep'
  <2>1. /\ reap_pc'[r] = "tell" /\ tell'[r] = entry_waiters[f] /\ entry_waiters'[f] = <<>>
        /\ \A s \in Reapers \ {r} : reap_pc'[s] = reap_pc[s] /\ tell'[s] = tell[s]
        /\ \A d \in GetEntries \ {f} : entry_waiters'[d] = entry_waiters[d]
    BY <1>0, <1>c, <1>f DEF GetTypeOK
  <2>2. \A i \in 1 .. Len(entry_waiters[f]) :
          /\ entry_waiters[f][i] \in Gets
          /\ Sleeps(entry_waiters[f][i])
          /\ get_entry[entry_waiters[f][i]] = f
    BY <1>0, <1>c, <1>f, GetConstants DEF GetAssumption, GetTypeOK, QueuesSleep
  <2>3. \A h \in Gets : ~In(h, <<>>)
    BY DEF In
  <2>4. ASSUME NEW s \in Reapers, NEW i \in 1 .. Len(tell'[s])
        PROVE  /\ Sleeps(tell[s][i])'
               /\ ~In(tell[s][i], entry_waiters[get_entry[tell[s][i]]])'
    <3>1. PICK h \in Gets :
            h = tell'[s][i] /\ Sleeps(h) /\ ~In(h, entry_waiters'[get_entry[h]])
      <4>1. CASE s = r
        BY <2>1, <2>2, <2>3, <2>4, <4>1
      <4>2. CASE s # r
        <5>1. i \in 1 .. Len(tell[s]) /\ tell'[s][i] = tell[s][i]
          BY <2>1, <2>4, <4>2
        <5>2. PICK h \in Gets : h = tell[s][i]
          BY <1>0, <5>1 DEF GetTypeOK
        <5>3. Sleeps(h) /\ ~In(h, entry_waiters[get_entry[h]])
          BY <1>0, <5>1, <5>2 DEF TellsSleep
        <5>4. get_entry[h] \in GetEntries
          BY <1>0, <5>3 DEF Sleeps, GetAt, CallsKnow, Holding
        <5> QED BY <2>1, <2>3, <5>1, <5>2, <5>3, <5>4
      <4> QED BY <4>1, <4>2
    <3> QED BY <1>u, <3>1 DEF Sleeps, GetAt, In
  <2>5. \A s \in Reapers : Len(tell'[s]) > 0 => reap_pc'[s] = "tell"
    BY <1>0, <2>1 DEF TellsSleep
  <2>6. \A s \in Reapers : \A i, j \in 1 .. Len(tell'[s]) :
          tell'[s][i] = tell'[s][j] => i = j
    BY <1>0, <1>f, <2>1 DEF TellsSleep, QueuesSleep
  <2>7. \A s \in Reapers \ {r} : \A i \in 1 .. Len(tell[s]), j \in 1 .. Len(entry_waiters[f]) :
          tell[s][i] # entry_waiters[f][j]
    <3> SUFFICES ASSUME NEW s \in Reapers \ {r}, NEW i \in 1 .. Len(tell[s]),
                        NEW j \in 1 .. Len(entry_waiters[f]),
                        tell[s][i] = entry_waiters[f][j]
                 PROVE  FALSE
      OBVIOUS
    <3>1. ~In(tell[s][i], entry_waiters[f])
      BY <1>0, <2>2 DEF TellsSleep
    <3> QED BY <3>1 DEF In
  <2>8. \A s, t \in Reapers : \A i \in 1 .. Len(tell'[s]), j \in 1 .. Len(tell'[t]) :
          tell'[s][i] = tell'[t][j] => s = t
    BY <1>0, <2>1, <2>7 DEF TellsSleep
  <2> QED BY <2>4, <2>5, <2>6, <2>8 DEF TellsSleep
<1>10. WaitersAreWoken'
  <2>1. /\ reap_pc'[r] = "tell" /\ tell'[r] = entry_waiters[f]
        /\ \A s \in Reapers \ {r} : reap_pc'[s] = reap_pc[s] /\ tell'[s] = tell[s]
        /\ \A d \in GetEntries \ {f} : entry_waiters'[d] = entry_waiters[d]
    BY <1>0, <1>c, <1>f DEF GetTypeOK
  <2>2. \A h : ~In(h, tell[r])
    <3>1. tell[r] \in Seq(Gets) /\ ~(Len(tell[r]) > 0)
      BY <1>0, <1>p DEF GetTypeOK, TellsSleep
    <3>2. 1 .. Len(tell[r]) = {}
      BY <3>1
    <3> QED BY <3>2 DEF In
  <2>3. \A h : Told(h) => Told(h)'
    BY <2>1, <2>2 DEF Told
  <2>4. \A h : In(h, entry_waiters[f]) => Told(h)'
    BY <2>1 DEF Told
  <2>5. \A d \in GetEntries \ {f} : WillLook(d) => WillLook(d)'
    BY <1>u, <2>1 DEF WillLook, REntry, f
  <2>6. ASSUME NEW h \in Gets, Sleeps(h)'
        PROVE  \/ Told(h)'
               \/ /\ In(h, entry_waiters'[get_entry'[h]])
                  /\ get_entry'[h] \in loading' \/ WillLook(get_entry[h])'
    <3>1. Sleeps(h)
      BY <1>u, <2>6 DEF Sleeps, GetAt
    <3>2. PICK d \in GetEntries : d = get_entry[h]
      BY <1>0, <3>1 DEF Sleeps, GetAt, CallsKnow, Holding
    <3>3. Told(h) \/ (In(h, entry_waiters[d]) /\ (d \in loading \/ WillLook(d)))
      BY <1>0, <3>1, <3>2 DEF WaitersAreWoken
    <3>4. Told(h)' \/ (In(h, entry_waiters'[d]) /\ (d \in loading' \/ WillLook(d)'))
      BY <1>u, <2>1, <2>3, <2>4, <2>5, <3>3
    <3>5. d = get_entry'[h]
      BY <1>u, <3>2
    <3>6. WillLook(d)' => WillLook(get_entry[h])'
      BY <3>5 DEF WillLook
    <3> QED BY <3>4, <3>5, <3>6
  <2> QED BY <2>6 DEF WaitersAreWoken, In
<1>11. LastIsOwn'
  BY <1>0, <1>u, GetConstants
  DEF GetAssumption, GetTypeOK, CallsKnow, LastIsOwn, QueuesSleep, GetAt,
      Holding, TakeWaiters, RAt, RGoto, REntry
<1> QED
  BY <1>1, <1>2, <1>3, <1>4, <1>5, <1>6, <1>7, <1>8, <1>9, <1>10, <1>11
  DEF GetInv

\* One of them is called back.
LEMMA TellWaiterKeeps ==
  ASSUME NEW r \in Reapers, GetInv, TellWaiter(r)
  PROVE  GetInv'
<1>0. /\ GetTypeOK /\ CallsKnow /\ EntriesAgree /\ LoadersOwn /\ SureIsRight
      /\ RefsAreHolders /\ ReadsServed /\ QueuesSleep /\ TellsSleep
      /\ WaitersAreWoken /\ LastIsOwn
  BY DEF GetInv
<1>u. UNCHANGED <<lookup, free, loading, disk_addr, data, ref, entry_waiters,
                  entry_lock, get_pc, get_addr, get_entry, io, ioWaiters,
                  reap_get, last>>
  BY DEF TellWaiter, cache, queues
<1>p. reap_pc[r] = "tell"
  BY DEF TellWaiter, RAt
<1>c. \/ /\ tell[r] = <<>>
         /\ reap_pc' = [reap_pc EXCEPT ![r] = "callback"] /\ ready' = ready /\ tell' = tell
      \/ /\ tell[r] # <<>>
         /\ ready' = ready \cup {Head(tell[r])}
         /\ tell' = [tell EXCEPT ![r] = Tail(@)] /\ reap_pc' = reap_pc
  BY DEF TellWaiter, RGoto
<1>h. ASSUME tell[r] # <<>>
      PROVE  /\ Head(tell[r]) \in Gets /\ Sleeps(Head(tell[r]))
             /\ Head(tell[r]) = tell[r][1] /\ 1 \in 1 .. Len(tell[r])
             /\ Tail(tell[r]) \in Seq(Gets) /\ Len(Tail(tell[r])) = Len(tell[r]) - 1
             /\ \A i \in 1 .. Len(tell[r]) - 1 : Tail(tell[r])[i] = tell[r][i + 1]
  <2>1. tell[r] \in Seq(Gets)
    BY <1>0 DEF GetTypeOK
  <2>2. Head(tell[r]) = tell[r][1] /\ 1 \in 1 .. Len(tell[r]) /\ Head(tell[r]) \in Gets
    BY <1>h, <2>1
  <2>3. Sleeps(tell[r][1])
    BY <1>0, <2>2 DEF TellsSleep
  <2>4. /\ Tail(tell[r]) \in Seq(Gets) /\ Len(Tail(tell[r])) = Len(tell[r]) - 1
        /\ \A i \in 1 .. Len(tell[r]) - 1 : Tail(tell[r])[i] = tell[r][i + 1]
    BY <1>h, <2>1
  <2> QED BY <2>2, <2>3, <2>4
<1>1. GetTypeOK'
  <2>1. ready' \subseteq Gets
    BY <1>0, <1>c, <1>h DEF GetTypeOK
  <2>2. tell' \in [Reapers -> Seq(Gets)]
    BY <1>0, <1>c, <1>h DEF GetTypeOK
  <2>3. reap_pc' \in [Reapers -> ReapLabels]
    BY <1>0, <1>c DEF GetTypeOK, ReapLabels
  <2> QED BY <1>0, <1>u, <2>1, <2>2, <2>3 DEF GetTypeOK
<1>2. CallsKnow'
  BY <1>0, <1>u DEF CallsKnow
<1>3. EntriesAgree'
  BY <1>0, <1>u DEF EntriesAgree
<1>4. LoadersOwn'
  BY <1>0, <1>u DEF LoadersOwn
<1>5. SureIsRight'
  BY <1>0, <1>u DEF SureIsRight
<1>6. RefsAreHolders'
  BY <1>0, <1>u DEF RefsAreHolders, Holders
<1>7. ReadsServed'
  <2>1. \A s \in Reapers : reap_pc'[s] \in Serving <=> reap_pc[s] \in Serving
    BY <1>0, <1>c, <1>p DEF GetTypeOK, Serving
  <2>2. \A h \in ready' \ ready : get_pc[h] = "waiting" /\ io[h] = "none"
    BY <1>c, <1>h DEF Sleeps, GetAt
  <2>3. ready \subseteq ready'
    BY <1>c
  <2>4. \A h \in ready' : get_pc'[h] = "waiting" /\ io'[h] \notin {"queued", "read"}
    BY <1>0, <1>u, <2>2 DEF ReadsServed
  <2>5. \A s \in Reapers : reap_pc'[s] \in Serving =>
          /\ reap_get'[s] \in Gets
          /\ reap_get'[s] \notin ready'
          /\ io'[reap_get'[s]] = IF s \in last' THEN "waiting" ELSE "done"
          /\ ~In(reap_get'[s], ioWaiters')
    BY <1>0, <1>u, <2>1, <2>2 DEF ReadsServed
  <2>6. \A i \in 1 .. Len(ioWaiters') :
          io'[ioWaiters'[i]] = "waiting" /\ ioWaiters'[i] \notin ready'
    BY <1>0, <1>u, <2>2 DEF ReadsServed
  <2>7. /\ \A h \in Gets : io'[h] # "none" => get_pc'[h] = "waiting"
        /\ \A s \in last' : reap_pc'[s] \in Serving
    BY <1>0, <1>u, <2>1 DEF GetTypeOK, ReadsServed
  <2>8. \A s, t \in Reapers :
          reap_pc'[s] \in Serving /\ reap_pc'[t] \in Serving /\ s # t =>
             reap_get'[s] # reap_get'[t]
    BY <1>0, <1>u, <2>1 DEF ReadsServed
  <2>9. \A i, j \in 1 .. Len(ioWaiters') : ioWaiters'[i] = ioWaiters'[j] => i = j
    BY <1>0, <1>u DEF ReadsServed
  <2> QED BY <2>4, <2>5, <2>6, <2>7, <2>8, <2>9 DEF ReadsServed, In
<1>8. QueuesSleep'
  <2>1. ASSUME NEW f \in GetEntries, NEW i \in 1 .. Len(entry_waiters[f])
        PROVE  /\ get_entry'[entry_waiters'[f][i]] = f
               /\ Sleeps(entry_waiters[f][i])' \/ get_pc'[entry_waiters'[f][i]] = "recheck"
    <3>1. PICK h \in Gets : h = entry_waiters[f][i]
      BY <1>0, <2>1 DEF GetTypeOK
    <3>2. get_entry[h] = f /\ (Sleeps(h) \/ get_pc[h] = "recheck")
      BY <1>0, <2>1, <3>1 DEF QueuesSleep
    <3>3. In(h, entry_waiters[get_entry[h]])
      BY <2>1, <3>1, <3>2 DEF In
    <3>4. tell[r] # <<>> => h # Head(tell[r])
      BY <1>0, <1>h, <3>3 DEF TellsSleep
    <3>5. h \in ready' => h \in ready
      BY <1>c, <3>4
    <3>6. Sleeps(h)' \/ get_pc'[h] = "recheck"
      BY <1>u, <3>2, <3>5 DEF Sleeps, GetAt
    <3> QED BY <1>u, <3>1, <3>2, <3>6 DEF Sleeps, GetAt
  <2> QED BY <1>0, <1>u, <2>1 DEF QueuesSleep
<1>9. TellsSleep'
  <2>1. CASE tell[r] = <<>>
    <3>1. ready' = ready /\ tell' = tell /\ reap_pc' = [reap_pc EXCEPT ![r] = "callback"]
      BY <1>c, <2>1
    <3>2. \A s \in Reapers : Len(tell'[s]) > 0 => reap_pc'[s] = "tell"
      BY <1>0, <2>1, <3>1 DEF GetTypeOK, TellsSleep
    <3> QED BY <1>0, <1>u, <3>1, <3>2 DEF TellsSleep, Sleeps, GetAt, In
  <2>2. CASE tell[r] # <<>>
    <3> DEFINE k == Head(tell[r])
    <3>1. /\ tell'[r] = Tail(tell[r]) /\ ready' = ready \cup {k} /\ reap_pc' = reap_pc
          /\ \A s \in Reapers \ {r} : tell'[s] = tell[s]
      BY <1>0, <1>c, <2>2 DEF GetTypeOK
    <3>2. /\ k = tell[r][1] /\ 1 \in 1 .. Len(tell[r])
          /\ Len(tell'[r]) = Len(tell[r]) - 1
          /\ \A i \in 1 .. Len(tell'[r]) : tell'[r][i] = tell[r][i + 1] /\ i + 1 \in 1 .. Len(tell[r])
      BY <1>0, <1>h, <2>2, <3>1 DEF GetTypeOK
    <3> HIDE DEF k
    <3>3. ASSUME NEW s \in Reapers, NEW i \in 1 .. Len(tell'[s])
          PROVE  \E j \in 1 .. Len(tell[s]) :
            tell'[s][i] = tell[s][j] /\ (j = IF s = r THEN i + 1 ELSE i)
      BY <3>1, <3>2, <3>3
    <3>4. ASSUME NEW s \in Reapers, NEW i \in 1 .. Len(tell'[s])
          PROVE  /\ Sleeps(tell[s][i])'
                 /\ ~In(tell[s][i], entry_waiters[get_entry[tell[s][i]]])'
      <4>1. PICK j \in 1 .. Len(tell[s]) :
            tell'[s][i] = tell[s][j] /\ (j = IF s = r THEN i + 1 ELSE i)
        BY <3>3, <3>4
      <4>2. PICK h \in Gets : h = tell[s][j]
        BY <1>0, <4>1 DEF GetTypeOK
      <4>3. Sleeps(h) /\ ~In(h, entry_waiters[get_entry[h]])
        BY <1>0, <4>1, <4>2 DEF TellsSleep
      <4>4. h # k
        <5>1. CASE s = r
          <6>1. j # 1
            BY <3>4, <4>1, <5>1
          <6> QED BY <1>0, <3>2, <4>1, <4>2, <5>1, <6>1 DEF TellsSleep
        <5>2. CASE s # r
          BY <1>0, <3>2, <4>1, <4>2, <5>2 DEF TellsSleep
        <5> QED BY <5>1, <5>2
      <4>5. Sleeps(h)' /\ ~In(h, entry_waiters'[get_entry'[h]])
        BY <1>u, <3>1, <4>3, <4>4 DEF Sleeps, GetAt
      <4> QED BY <4>1, <4>2, <4>5 DEF Sleeps, GetAt, In
    <3>5. \A s \in Reapers : Len(tell'[s]) > 0 => reap_pc'[s] = "tell"
      BY <1>0, <1>p, <3>1 DEF TellsSleep
    <3>6. \A s \in Reapers : \A i, j \in 1 .. Len(tell'[s]) :
            tell'[s][i] = tell'[s][j] => i = j
      <4> SUFFICES ASSUME NEW s \in Reapers, NEW i \in 1 .. Len(tell'[s]),
                          NEW j \in 1 .. Len(tell'[s]), tell'[s][i] = tell'[s][j]
                   PROVE  i = j
        OBVIOUS
      <4>1. CASE s # r
        BY <1>0, <3>1, <4>1 DEF TellsSleep
      <4>2. CASE s = r
        <5>1. /\ i + 1 \in 1 .. Len(tell[r]) /\ j + 1 \in 1 .. Len(tell[r])
              /\ tell[r][i + 1] = tell[r][j + 1]
          BY <3>2, <4>2
        <5>2. i + 1 = j + 1
          BY <1>0, <5>1 DEF TellsSleep
        <5> QED BY <5>2
      <4> QED BY <4>1, <4>2
    <3>7. \A s, t \in Reapers : \A i \in 1 .. Len(tell'[s]), j \in 1 .. Len(tell'[t]) :
            tell'[s][i] = tell'[t][j] => s = t
      <4> SUFFICES ASSUME NEW s \in Reapers, NEW t \in Reapers,
                          NEW i \in 1 .. Len(tell'[s]), NEW j \in 1 .. Len(tell'[t]),
                          tell'[s][i] = tell'[t][j]
                   PROVE  s = t
        OBVIOUS
      <4>1. PICK m \in 1 .. Len(tell[s]) : tell'[s][i] = tell[s][m]
        BY <3>3
      <4>2. PICK n \in 1 .. Len(tell[t]) : tell'[t][j] = tell[t][n]
        BY <3>3
      <4> QED BY <1>0, <4>1, <4>2 DEF TellsSleep
    <3> QED BY <3>4, <3>5, <3>6, <3>7 DEF TellsSleep
  <2> QED BY <2>1, <2>2
<1>10. WaitersAreWoken'
  <2>1. \A h \in Gets : Sleeps(h)' => Sleeps(h)
    BY <1>u, <1>c DEF Sleeps, GetAt
  <2>2. \A s \in Reapers : reap_pc[s] \in Looking => reap_pc'[s] = reap_pc[s]
    BY <1>0, <1>p, <1>c DEF GetTypeOK, Looking
  <2>3. \A f : WillLook(f) => WillLook(f)'
    BY <1>u, <2>2 DEF WillLook, REntry, Looking
  <2>4. ASSUME NEW h \in Gets, Sleeps(h)', Told(h)
        PROVE  Told(h)'
    <3>0. PICK s \in Reapers : In(h, tell[s])
      BY <2>4 DEF Told
    <3>1. PICK i \in 1 .. Len(tell[s]) : tell[s][i] = h
      BY <3>0 DEF In
    <3>2. CASE tell'[s] = tell[s]
      BY <3>1, <3>2 DEF Told, In
    <3>3. CASE s = r /\ tell[r] # <<>> /\ tell'[r] = Tail(tell[r]) /\ Head(tell[r]) \in ready'
      <4>1. h # Head(tell[r])
        BY <2>4, <3>3 DEF Sleeps
      <4>2. i - 1 \in 1 .. Len(tell'[r]) /\ tell'[r][i - 1] = h
        BY <1>0, <1>h, <3>1, <3>3, <4>1 DEF GetTypeOK
      <4> QED BY <4>2 DEF Told, In
    <3> QED BY <1>0, <1>c, <3>2, <3>3 DEF GetTypeOK
  <2>5. ASSUME NEW h \in Gets, Sleeps(h)'
        PROVE  \/ Told(h)'
               \/ /\ In(h, entry_waiters'[get_entry'[h]])
                  /\ get_entry'[h] \in loading' \/ WillLook(get_entry[h])'
    <3>1. PICK d : d = get_entry[h]
      OBVIOUS
    <3>2. Told(h) \/ (In(h, entry_waiters[d]) /\ (d \in loading \/ WillLook(d)))
      BY <1>0, <2>1, <2>5, <3>1 DEF WaitersAreWoken
    <3>3. Told(h)' \/ (In(h, entry_waiters'[d]) /\ (d \in loading' \/ WillLook(d)'))
      BY <1>u, <2>3, <2>4, <2>5, <3>2
    <3>4. d = get_entry'[h]
      BY <1>u, <3>1
    <3>5. WillLook(d)' => WillLook(get_entry[h])'
      BY <3>4 DEF WillLook
    <3> QED BY <3>3, <3>4, <3>5
  <2> QED BY <2>5 DEF WaitersAreWoken, In
<1>11. LastIsOwn'
  BY <1>0, <1>u DEF LastIsOwn, GetAt
<1> QED
  BY <1>1, <1>2, <1>3, <1>4, <1>5, <1>6, <1>7, <1>8, <1>9, <1>10, <1>11
  DEF GetInv

\* The coroutine that was served is called back.
LEMMA CallBackKeeps ==
  ASSUME NEW r \in Reapers, GetInv, CallBack(r)
  PROVE  GetInv'
<1>0. /\ GetTypeOK /\ CallsKnow /\ EntriesAgree /\ LoadersOwn /\ SureIsRight
      /\ RefsAreHolders /\ ReadsServed /\ QueuesSleep /\ TellsSleep
      /\ WaitersAreWoken /\ LastIsOwn
  BY DEF GetInv
<1>u. UNCHANGED <<lookup, free, loading, disk_addr, data, ref, entry_waiters,
                  entry_lock, get_pc, get_addr, get_entry, io, ioWaiters,
                  tell>>
  BY DEF CallBack, cache, queues
<1>p. reap_pc[r] = "callback"
  BY DEF CallBack, RAt
<1>1. GetTypeOK'
  BY <1>0, <1>u, GetConstants
  DEF GetAssumption, GetTypeOK, CallsKnow, ReadsServed, Serving, CallBack, RAt,
      RGoto, RServe, GetLabels, ReapLabels, Holding
<1>2. CallsKnow'
  BY <1>0, <1>u DEF CallsKnow
<1>3. EntriesAgree'
  BY <1>0, <1>u DEF EntriesAgree
<1>4. LoadersOwn'
  BY <1>0, <1>u DEF LoadersOwn
<1>5. SureIsRight'
  BY <1>0, <1>u DEF SureIsRight
<1>6. RefsAreHolders'
  BY <1>0, <1>u DEF RefsAreHolders, Holders
<1>7. ReadsServed'
  BY <1>0, <1>u, <1>p
  DEF GetTypeOK, ReadsServed, In, Serving, CallBack, RAt, RGoto, RServe
<1>8. QueuesSleep'
  BY <1>0, <1>u, GetConstants
  DEF GetAssumption, GetTypeOK, CallsKnow, QueuesSleep, ReadsServed,
      TellsSleep, LastIsOwn, Sleeps, GetAt, In, Serving, Holding, CallBack,
      RAt, RGoto, RServe
<1>9. TellsSleep' /\ WaitersAreWoken'
  <2>1. \A s \in Reapers \ {r} : reap_pc'[s] = reap_pc[s] /\ reap_get'[s] = reap_get[s]
    BY <1>0, <1>u DEF GetTypeOK, CallBack, RAt, RGoto, RServe
  <2>2. \A h \in Gets : Sleeps(h)' <=> Sleeps(h)
    BY <1>0, <1>p, <1>u
    DEF GetTypeOK, ReadsServed, Serving, Sleeps, GetAt, CallBack, RAt, RGoto,
        RServe
  <2>3. TellsSleep'
    BY <1>0, <1>p, <1>u, <2>1, <2>2, TellsKeptByReaper
  <2>4. \A h \in Gets : Sleeps(h) => get_entry[h] \in GetEntries
    BY <1>0 DEF Sleeps, GetAt, CallsKnow, Holding
  <2>5. \A f \in GetEntries : f \in loading \/ WillLook(f) =>
          f \in loading' \/ WillLook(f)' \/ entry_waiters[f] = <<>>
    BY <1>0, <1>p, <1>u, <2>1 DEF WillLook, REntry
  <2>6. WaitersAreWoken'
    BY <1>0, <1>u, <2>2, <2>4, <2>5, WokenKeptByReaper
  <2> QED BY <2>3, <2>6
<1>11. LastIsOwn'
  BY <1>0, <1>u DEF LastIsOwn, GetAt
<1> QED
  BY <1>1, <1>2, <1>3, <1>4, <1>5, <1>6, <1>7, <1>8, <1>9, <1>11
  DEF GetInv

\* async_wait_queue_release_one: a read that was not accepted is served as if
\* it had been read.
LEMMA ReleaseOneKeeps ==
  ASSUME NEW r \in Reapers, GetInv, ReleaseOne(r)
  PROVE  GetInv'
<1>0. /\ GetTypeOK /\ CallsKnow /\ EntriesAgree /\ LoadersOwn /\ SureIsRight
      /\ RefsAreHolders /\ ReadsServed /\ QueuesSleep /\ TellsSleep
      /\ WaitersAreWoken /\ LastIsOwn
  BY DEF GetInv
<1>u. UNCHANGED <<lookup, free, loading, disk_addr, data, ref, entry_waiters,
                  entry_lock, get_pc, get_addr, get_entry, ready, io, tell>>
  BY DEF ReleaseOne, cache, queues, calls
<1>p. reap_pc[r] = "release"
  BY DEF ReleaseOne, RAt
<1>c. \/ /\ ioWaiters = <<>>
         /\ reap_pc' = [reap_pc EXCEPT ![r] = "idle"]
         /\ reap_get' = [reap_get EXCEPT ![r] = Absent]
         /\ ioWaiters' = ioWaiters /\ last' = last
      \/ /\ ioWaiters # <<>>
         /\ reap_pc' = [reap_pc EXCEPT ![r] = "finish"]
         /\ reap_get' = [reap_get EXCEPT ![r] = Head(ioWaiters)]
         /\ ioWaiters' = Tail(ioWaiters) /\ last' = last \cup {r}
  BY DEF ReleaseOne, RServe, RGoto
<1>h. ASSUME ioWaiters # <<>>
      PROVE  /\ Head(ioWaiters) \in Gets /\ Head(ioWaiters) = ioWaiters[1]
             /\ 1 \in 1 .. Len(ioWaiters)
             /\ Tail(ioWaiters) \in Seq(Gets) /\ Len(Tail(ioWaiters)) = Len(ioWaiters) - 1
             /\ \A i \in 1 .. Len(ioWaiters) - 1 : Tail(ioWaiters)[i] = ioWaiters[i + 1]
  <2>1. ioWaiters \in Seq(Gets)
    BY <1>0 DEF GetTypeOK
  <2> QED BY <1>h, <2>1
<1>1. GetTypeOK'
  <2>1. ioWaiters' \in Seq(Gets)
    BY <1>0, <1>c, <1>h DEF GetTypeOK
  <2>2. reap_get' \in [Reapers -> Gets \cup {Absent}]
    BY <1>0, <1>c, <1>h DEF GetTypeOK
  <2>3. reap_pc' \in [Reapers -> ReapLabels] /\ last' \subseteq Reapers
    BY <1>0, <1>c DEF GetTypeOK, ReapLabels
  <2> QED BY <1>0, <1>u, <2>1, <2>2, <2>3 DEF GetTypeOK
<1>2. CallsKnow'
  BY <1>0, <1>u DEF CallsKnow
<1>3. EntriesAgree'
  BY <1>0, <1>u DEF EntriesAgree
<1>4. LoadersOwn'
  BY <1>0, <1>u DEF LoadersOwn
<1>5. SureIsRight'
  BY <1>0, <1>u DEF SureIsRight
<1>6. RefsAreHolders'
  BY <1>0, <1>u DEF RefsAreHolders, Holders
<1>7. ReadsServed'
  <2>1. r \notin last
    BY <1>0, <1>p DEF ReadsServed, Serving
  <2>2. \A s \in Reapers \ {r} : reap_pc'[s] = reap_pc[s] /\ reap_get'[s] = reap_get[s]
    BY <1>0, <1>c DEF GetTypeOK
  <2>3. CASE ioWaiters = <<>>
    <3>1. reap_pc'[r] \notin Serving
      BY <1>0, <1>c, <2>3 DEF GetTypeOK, Serving
    <3>2. ioWaiters' = ioWaiters /\ last' = last
      BY <1>c, <2>3
    <3>3. \A s \in Reapers : reap_pc'[s] \in Serving =>
            s # r /\ reap_pc[s] \in Serving /\ reap_get'[s] = reap_get[s]
      BY <2>2, <3>1
    <3>4. \A s \in Reapers : reap_pc'[s] \in Serving =>
            /\ reap_get'[s] \in Gets
            /\ reap_get'[s] \notin ready'
            /\ io'[reap_get'[s]] = IF s \in last' THEN "waiting" ELSE "done"
            /\ ~In(reap_get'[s], ioWaiters')
      BY <1>0, <1>u, <3>2, <3>3 DEF ReadsServed
    <3>5. /\ \A s \in last' : reap_pc'[s] \in Serving
          /\ \A s, t \in Reapers :
               reap_pc'[s] \in Serving /\ reap_pc'[t] \in Serving /\ s # t =>
                  reap_get'[s] # reap_get'[t]
      BY SMTT(30), <1>0, <2>1, <2>2, <3>2, <3>3 DEF GetTypeOK, ReadsServed
    <3> QED BY <1>0, <1>u, <3>2, <3>4, <3>5 DEF ReadsServed, In
  <2>4. CASE ioWaiters # <<>>
    <3> DEFINE k == Head(ioWaiters)
    <3>1. /\ reap_pc'[r] \in Serving /\ reap_get'[r] = k /\ last' = last \cup {r}
          /\ ioWaiters' = Tail(ioWaiters)
      BY <1>0, <1>c, <2>4 DEF GetTypeOK, Serving
    <3>2. k \in Gets /\ k = ioWaiters[1] /\ 1 \in 1 .. Len(ioWaiters)
      BY <1>h, <2>4
    <3>3. \A i \in 1 .. Len(ioWaiters') :
            /\ i + 1 \in 1 .. Len(ioWaiters) /\ i + 1 # 1
            /\ ioWaiters'[i] = ioWaiters[i + 1]
      BY <1>0, <1>h, <2>4, <3>1 DEF GetTypeOK
    <3> HIDE DEF k
    <3>4. io[k] = "waiting" /\ k \notin ready /\ In(k, ioWaiters)
      BY <1>0, <3>2 DEF ReadsServed, In
    <3>5. \A h : In(h, ioWaiters') => In(h, ioWaiters)
      BY <3>3 DEF In
    <3>6. ~In(k, ioWaiters')
      <4>1. \A i \in 1 .. Len(ioWaiters') : ioWaiters'[i] # k
        BY <1>0, <3>2, <3>3 DEF ReadsServed
      <4> QED BY <4>1 DEF In
    <3>7. \A s \in Reapers : reap_pc[s] \in Serving => reap_get[s] # k
      BY <1>0, <3>4 DEF ReadsServed
    <3>8. \A s \in Reapers : reap_pc'[s] \in Serving =>
            /\ reap_get'[s] \in Gets
            /\ reap_get'[s] \notin ready'
            /\ io'[reap_get'[s]] = IF s \in last' THEN "waiting" ELSE "done"
            /\ ~In(reap_get'[s], ioWaiters')
      BY <1>0, <1>u, <2>2, <3>1, <3>2, <3>4, <3>5, <3>6 DEF ReadsServed
    <3>9. \A s \in last' : reap_pc'[s] \in Serving
      BY <1>0, <2>2, <3>1 DEF GetTypeOK, ReadsServed
    <3>10. \A s, t \in Reapers :
            reap_pc'[s] \in Serving /\ reap_pc'[t] \in Serving /\ s # t =>
               reap_get'[s] # reap_get'[t]
      BY <1>0, <2>2, <3>1, <3>7 DEF ReadsServed
    <3>11. /\ \A i \in 1 .. Len(ioWaiters') :
                io'[ioWaiters'[i]] = "waiting" /\ ioWaiters'[i] \notin ready'
           /\ \A i, j \in 1 .. Len(ioWaiters') : ioWaiters'[i] = ioWaiters'[j] => i = j
      BY <1>0, <1>u, <3>3 DEF ReadsServed
    <3> QED BY <1>0, <1>u, <3>8, <3>9, <3>10, <3>11 DEF ReadsServed, In
  <2> QED BY <2>3, <2>4
<1>8. QueuesSleep'
  BY <1>0, <1>u DEF QueuesSleep, Sleeps, GetAt
<1>9. TellsSleep' /\ WaitersAreWoken'
  <2>1. \A s \in Reapers \ {r} : reap_pc'[s] = reap_pc[s] /\ reap_get'[s] = reap_get[s]
    BY <1>0, <1>u DEF GetTypeOK, ReleaseOne, RAt, RGoto, RServe
  <2>2. \A h \in Gets : Sleeps(h)' <=> Sleeps(h)
    BY <1>0, <1>p, <1>u
    DEF GetTypeOK, ReadsServed, Serving, Sleeps, GetAt, ReleaseOne, RAt, RGoto,
        RServe
  <2>3. TellsSleep'
    BY <1>0, <1>p, <1>u, <2>1, <2>2, TellsKeptByReaper
  <2>4. \A h \in Gets : Sleeps(h) => get_entry[h] \in GetEntries
    BY <1>0 DEF Sleeps, GetAt, CallsKnow, Holding
  <2>5. \A f \in GetEntries : f \in loading \/ WillLook(f) =>
          f \in loading' \/ WillLook(f)' \/ entry_waiters[f] = <<>>
    BY <1>0, <1>p, <1>u, <2>1 DEF WillLook, REntry
  <2>6. WaitersAreWoken'
    BY <1>0, <1>u, <2>2, <2>4, <2>5, WokenKeptByReaper
  <2> QED BY <2>3, <2>6
<1>11. LastIsOwn'
  BY <1>0, <1>u DEF LastIsOwn, GetAt
<1> QED
  BY <1>1, <1>2, <1>3, <1>4, <1>5, <1>6, <1>7, <1>8, <1>9, <1>11
  DEF GetInv

\* treepass_try_evict takes an entry nobody refers to.
LEMMA EvictKeeps ==
  ASSUME NEW e \in GetEntries, GetInv, Evict(e)
  PROVE  GetInv'
<1>0. /\ GetTypeOK /\ CallsKnow /\ EntriesAgree /\ LoadersOwn /\ SureIsRight
      /\ RefsAreHolders /\ ReadsServed /\ QueuesSleep /\ TellsSleep
      /\ WaitersAreWoken /\ LastIsOwn
  BY DEF GetInv
<1>u. UNCHANGED <<loading, data, ref, entry_waiters, entry_lock, get_pc,
                  get_addr, get_entry, ready, io, ioWaiters, reap_pc,
                  reap_get, tell, last>>
  BY DEF Evict, queues, calls, reapers, ios
<1>1. GetTypeOK'
  <2>1. lookup' \in [GetAddrs -> GetEntries \cup {Absent}]
    BY <1>0 DEF GetTypeOK, Evict
  <2>2. /\ disk_addr' \in [GetEntries -> GetAddrs \cup {Absent}]
        /\ free' \subseteq GetEntries
    BY <1>0 DEF GetTypeOK, Evict
  <2> QED BY <1>0, <1>u, <2>1, <2>2 DEF GetTypeOK
<1>2. CallsKnow'
  BY <1>0, <1>u DEF CallsKnow
<1>3. EntriesAgree'
  BY <1>0, <1>u, NobodyHolds, GetConstants
  DEF GetAssumption, GetTypeOK, CallsKnow, EntriesAgree, LoadersOwn, Evict,
      Holding
<1>4. LoadersOwn'
  BY <1>0, <1>u, NobodyHolds, GetConstants
  DEF GetAssumption, GetTypeOK, CallsKnow, EntriesAgree, LoadersOwn, Evict,
      Holding
<1>5. SureIsRight'
  BY <1>0, <1>u, NobodyHolds, GetConstants
  DEF GetAssumption, GetTypeOK, CallsKnow, EntriesAgree, LoadersOwn,
      SureIsRight, Evict, Holding, Sure
<1>6. RefsAreHolders'
  BY <1>0, <1>u DEF RefsAreHolders, Holders
<1>7. ReadsServed'
  BY <1>0, <1>u DEF ReadsServed, In
<1>8. QueuesSleep'
  BY <1>0, <1>u DEF QueuesSleep, Sleeps, GetAt
<1>9. TellsSleep' /\ WaitersAreWoken'
  BY <1>0, <1>u
  DEF TellsSleep, WaitersAreWoken, Sleeps, GetAt, Told, WillLook, REntry, In
<1>11. LastIsOwn'
  BY <1>0, <1>u DEF LastIsOwn, GetAt
<1> QED
  BY <1>1, <1>2, <1>3, <1>4, <1>5, <1>6, <1>7, <1>8, <1>9, <1>11
  DEF GetInv

\* In an empty cache the invariant holds.
LEMMA GetInvInit == GetInit => GetInv
<1> SUFFICES ASSUME GetInit PROVE GetInv
  OBVIOUS
<1>1. <<>> \in Seq(Gets) /\ Len(<<>>) = 0
  OBVIOUS
<1>2. GetTypeOK
  BY <1>1 DEF GetInit, GetTypeOK, GetLabels, ReapLabels
<1>3. CallsKnow /\ EntriesAgree /\ LoadersOwn /\ SureIsRight
  BY GetConstants
     DEF GetInit, GetAssumption, CallsKnow, EntriesAgree, LoadersOwn,
         SureIsRight, Holding, Sure
<1>4. RefsAreHolders
  <2>1. \A e \in GetEntries : Holders(e) = {}
    BY DEF GetInit, Holders, Holding
  <2> QED BY <2>1, FS_EmptySet DEF GetInit, RefsAreHolders
<1>5. ReadsServed
  BY <1>1 DEF GetInit, ReadsServed, Serving, In
<1>6. QueuesSleep /\ TellsSleep
  BY <1>1 DEF GetInit, QueuesSleep, TellsSleep
<1>7. WaitersAreWoken /\ LastIsOwn
  BY DEF GetInit, WaitersAreWoken, LastIsOwn, Sleeps, GetAt
<1> QED BY <1>2, <1>3, <1>4, <1>5, <1>6, <1>7 DEF GetInv

\* Every step of the specification preserves the invariant.
LEMMA GetStep == GetInv /\ [GetNext]_getVars => GetInv'
<1> SUFFICES ASSUME GetInv, [GetNext]_getVars PROVE GetInv'
  OBVIOUS
<1>1. CASE UNCHANGED getVars
  BY <1>1
     DEF getVars, GetInv, GetTypeOK, CallsKnow, EntriesAgree, LoadersOwn,
         SureIsRight, RefsAreHolders, Holders, ReadsServed, QueuesSleep,
         TellsSleep, WaitersAreWoken, LastIsOwn, Sleeps, GetAt, Told, WillLook,
         REntry, In
<1>2. ASSUME NEW g \in Gets,
             \/ \E a \in GetAddrs : Begin(g, a)
             \/ Lookup(g) \/ InCache(g) \/ FromDisk(g)
             \/ Resume(g) \/ Unget(g) \/ Read(g)
      PROVE  GetInv'
  BY <1>2, BeginKeeps, LookupKeeps, GetReadKeeps, VerifyBeforeKeeps,
     TestLoadingKeeps, LockWaitersKeeps, JoinWaitersKeeps, RecheckKeeps,
     VerifyAfterKeeps, AcquireKeeps, ClaimLookupKeeps, AbortLoadKeeps,
     SetAddrKeeps, SubmitKeeps, ResumeKeeps, UngetKeeps, ReadKeeps
     DEF InCache, FromDisk
<1>3. ASSUME NEW r \in Reapers, Reaping(r)
      PROVE  GetInv'
  BY <1>3, ReapReadKeeps, FinishLoadKeeps, PeekEntryKeeps, TakeWaitersKeeps,
     TellWaiterKeeps, CallBackKeeps, ReleaseOneKeeps
     DEF Reaping
<1>4. ASSUME NEW e \in GetEntries, Evict(e)
      PROVE  GetInv'
  BY <1>4, EvictKeeps
<1> QED BY <1>1, <1>2, <1>3, <1>4 DEF GetNext

\* The invariant implies the property.
LEMMA InvHoldsPages == GetInv => AsyncGetsReturn
<1> SUFFICES ASSUME GetInv PROVE AsyncGetsReturn
  OBVIOUS
<1>1. \A g \in Gets : HasPage(g) => /\ disk_addr[get_entry[g]] = get_addr[g]
                                    /\ lookup[get_addr[g]] = get_entry[g]
  BY GetConstants
     DEF GetInv, GetAssumption, HasPage, GetAt, SureIsRight, Sure, CallsKnow,
         Holding, EntriesAgree
<1>2. ASSUME NEW e \in free, entry_waiters[e] # <<>>
      PROVE  FALSE
  <2>1. e \in GetEntries /\ entry_waiters[e] \in Seq(Gets)
    BY DEF GetInv, GetTypeOK
  <2>2. PICK g \in Gets : g = entry_waiters[e][1] /\ 1 \in 1 .. Len(entry_waiters[e])
    BY <1>2, <2>1
  <2>3. get_entry[g] = e /\ get_pc[g] \in {"waiting", "recheck"}
    BY <2>1, <2>2 DEF GetInv, QueuesSleep, Sleeps, GetAt
  <2>4. disk_addr[e] = get_addr[g] /\ get_addr[g] \in GetAddrs
    BY <2>3 DEF GetInv, SureIsRight, Sure, CallsKnow
  <2> QED BY <2>4, GetConstants DEF GetInv, EntriesAgree, GetAssumption
<1> QED BY <1>1, <1>2
        DEF GetInv, RefsAreHolders, AsyncGetsReturn, PagesAreHeld

(* Nobody who gave up its thread in async_wait_on_queue_until is left to    *)
(* sleep, who takes itself out of a wait queue is the last one of it, and the*)
(* page a get has returned stays in its entry until the unget, with a count *)
(* that is the number of those who refer to it (treepass_get_async), for any*)
(* coroutines, reapers, pages and entries.                                  *)
THEOREM AsyncGetsAreSafe == GetSpec => []AsyncGetsReturn
<1>1. GetInit => GetInv
  BY GetInvInit
<1>2. GetInv /\ [GetNext]_getVars => GetInv'
  BY GetStep
<1>3. GetInv => AsyncGetsReturn
  BY InvHoldsPages
<1> QED BY <1>1, <1>2, <1>3, PTL DEF GetSpec
=============================================================================
