------------------------- MODULE BatchRWLockProofs -------------------------
(* Proofs about the distributed reader/writer lock, for every number of    *)
(* threads: every step of a thread preserves IInv, one lemma per step, so  *)
(* a writer is alone although readers only count in counters of their own. *)
EXTENDS BatchRWLock, TLAPS

USE MaxThreadsAssumption

-----------------------------------------------------------------------------
\* The calls that only start.
LEMMA GetCallKeeps ==
    ASSUME IInv, NEW t \in LockThreads, GetCall(t)
    PROVE  IInv'
<1> USE DEF GetCall, Goto, FetchAdd, FetchSub, IInv, TypeOK
<1>1. TypeOK' BY DEF Labels, LockThreads, CountersMean, Counting
<1>2. OneClaim' BY DEF OneClaim, ClaimMeans, Claiming, Labels
<1>3. CountersMean' BY DEF CountersMean, Counting, Labels
<1>4. ClaimMeans' BY DEF ClaimMeans, OneClaim, Claiming, Labels
<1>5. LockMeans' BY DEF LockMeans, OneClaim, Claiming, Labels
<1>6. ScanIsClear'
    BY DEF ScanIsClear, LockMeans, CountersMean, OneClaim, Counting, Reading,
           Claiming, Labels, LockThreads
<1>7. WriterAlone'
    BY DEF WriterAlone, LockMeans, ScanIsClear, OneClaim, Counting, Reading,
           Claiming, Labels, LockThreads
<1>8. QED BY <1>1, <1>2, <1>3, <1>4, <1>5, <1>6, <1>7

\* platform_batch_rwlock_get: the first look at the lock changes no count.
LEMMA GetWaitKeeps ==
    ASSUME IInv, NEW t \in LockThreads, GetWait(t)
    PROVE  IInv'
<1> USE DEF GetWait, Goto, FetchAdd, FetchSub, IInv, TypeOK
<1>1. TypeOK' BY DEF Labels, LockThreads, CountersMean, Counting
<1>2. OneClaim' BY DEF OneClaim, ClaimMeans, Claiming, Labels
<1>3. CountersMean' BY DEF CountersMean, Counting, Labels
<1>4. ClaimMeans' BY DEF ClaimMeans, OneClaim, Claiming, Labels
<1>5. LockMeans' BY DEF LockMeans, OneClaim, Claiming, Labels
<1>6. ScanIsClear'
    BY DEF ScanIsClear, LockMeans, CountersMean, OneClaim, Counting, Reading,
           Claiming, Labels, LockThreads
<1>7. WriterAlone'
    BY DEF WriterAlone, LockMeans, ScanIsClear, OneClaim, Counting, Reading,
           Claiming, Labels, LockThreads
<1>8. QED BY <1>1, <1>2, <1>3, <1>4, <1>5, <1>6, <1>7

\* Counting itself in makes no reader: the second look is still to come.
LEMMA GetAddKeeps ==
    ASSUME IInv, NEW t \in LockThreads, GetAdd(t)
    PROVE  IInv'
<1> USE DEF GetAdd, Goto, FetchAdd, FetchSub, IInv, TypeOK
<1>1. TypeOK' BY DEF Labels, LockThreads, CountersMean, Counting
<1>2. OneClaim' BY DEF OneClaim, ClaimMeans, Claiming, Labels
<1>3. CountersMean' BY DEF CountersMean, Counting, Labels
<1>4. ClaimMeans' BY DEF ClaimMeans, OneClaim, Claiming, Labels
<1>5. LockMeans' BY DEF LockMeans, OneClaim, Claiming, Labels
<1>6. ScanIsClear'
    BY DEF ScanIsClear, LockMeans, CountersMean, OneClaim, Counting, Reading,
           Claiming, Labels, LockThreads
<1>7. WriterAlone'
    BY DEF WriterAlone, LockMeans, ScanIsClear, OneClaim, Counting, Reading,
           Claiming, Labels, LockThreads
<1>8. QED BY <1>1, <1>2, <1>3, <1>4, <1>5, <1>6, <1>7

\* The second look: a thread becomes a reader only while the lock is down, so
\* while nobody scans or writes.
LEMMA GetTestKeeps ==
    ASSUME IInv, NEW t \in LockThreads, GetTest(t)
    PROVE  IInv'
<1> USE DEF GetTest, Goto, FetchAdd, FetchSub, IInv, TypeOK
<1>1. TypeOK' BY DEF Labels, LockThreads, CountersMean, Counting
<1>2. OneClaim' BY DEF OneClaim, ClaimMeans, Claiming, Labels
<1>3. CountersMean' BY DEF CountersMean, Counting, Labels
<1>4. ClaimMeans' BY DEF ClaimMeans, OneClaim, Claiming, Labels
<1>5. LockMeans' BY DEF LockMeans, OneClaim, Claiming, Labels
<1>6. ScanIsClear'
    BY DEF ScanIsClear, LockMeans, CountersMean, OneClaim, Counting, Reading,
           Claiming, Labels, LockThreads
<1>7. WriterAlone'
    BY DEF WriterAlone, LockMeans, ScanIsClear, OneClaim, Counting, Reading,
           Claiming, Labels, LockThreads
<1>8. QED BY <1>1, <1>2, <1>3, <1>4, <1>5, <1>6, <1>7

\* A reader that met the lock takes its count back.
LEMMA GetUndoKeeps ==
    ASSUME IInv, NEW t \in LockThreads, GetUndo(t)
    PROVE  IInv'
<1> USE DEF GetUndo, Goto, FetchAdd, FetchSub, IInv, TypeOK
<1>1. TypeOK' BY DEF Labels, LockThreads, CountersMean, Counting
<1>2. OneClaim' BY DEF OneClaim, ClaimMeans, Claiming, Labels
<1>3. CountersMean' BY DEF CountersMean, Counting, Labels
<1>4. ClaimMeans' BY DEF ClaimMeans, OneClaim, Claiming, Labels
<1>5. LockMeans' BY DEF LockMeans, OneClaim, Claiming, Labels
<1>6. ScanIsClear'
    BY DEF ScanIsClear, LockMeans, CountersMean, OneClaim, Counting, Reading,
           Claiming, Labels, LockThreads
<1>7. WriterAlone'
    BY DEF WriterAlone, LockMeans, ScanIsClear, OneClaim, Counting, Reading,
           Claiming, Labels, LockThreads
<1>8. QED BY <1>1, <1>2, <1>3, <1>4, <1>5, <1>6, <1>7

\* Giving a read lock back.
LEMMA UngetKeeps ==
    ASSUME IInv, NEW t \in LockThreads, Unget(t)
    PROVE  IInv'
<1> USE DEF Unget, Goto, FetchAdd, FetchSub, IInv, TypeOK
<1>1. TypeOK' BY DEF Labels, LockThreads, CountersMean, Counting
<1>2. OneClaim' BY DEF OneClaim, ClaimMeans, Claiming, Labels
<1>3. CountersMean' BY DEF CountersMean, Counting, Labels
<1>4. ClaimMeans' BY DEF ClaimMeans, OneClaim, Claiming, Labels
<1>5. LockMeans' BY DEF LockMeans, OneClaim, Claiming, Labels
<1>6. ScanIsClear'
    BY DEF ScanIsClear, LockMeans, CountersMean, OneClaim, Counting, Reading,
           Claiming, Labels, LockThreads
<1>7. WriterAlone'
    BY DEF WriterAlone, LockMeans, ScanIsClear, OneClaim, Counting, Reading,
           Claiming, Labels, LockThreads
<1>8. QED BY <1>1, <1>2, <1>3, <1>4, <1>5, <1>6, <1>7

\* The claim flag is test-and-set: one thread at most finds it down.
LEMMA TestAndSetKeeps ==
    ASSUME IInv, NEW t \in LockThreads, TestAndSet(t)
    PROVE  IInv'
<1> USE DEF TestAndSet, Goto, FetchAdd, FetchSub, IInv, TypeOK
<1>1. TypeOK' BY DEF Labels, LockThreads, CountersMean, Counting
<1>2. OneClaim' BY DEF OneClaim, ClaimMeans, Claiming, Labels
<1>3. CountersMean' BY DEF CountersMean, Counting, Labels
<1>4. ClaimMeans' BY DEF ClaimMeans, OneClaim, Claiming, Labels
<1>5. LockMeans' BY DEF LockMeans, OneClaim, Claiming, Labels
<1>6. ScanIsClear'
    BY DEF ScanIsClear, LockMeans, CountersMean, OneClaim, Counting, Reading,
           Claiming, Labels, LockThreads
<1>7. WriterAlone'
    BY DEF WriterAlone, LockMeans, ScanIsClear, OneClaim, Counting, Reading,
           Claiming, Labels, LockThreads
<1>8. QED BY <1>1, <1>2, <1>3, <1>4, <1>5, <1>6, <1>7

\* A claim gives its own count back before it can lock.
LEMMA ClaimSubKeeps ==
    ASSUME IInv, NEW t \in LockThreads, ClaimSub(t)
    PROVE  IInv'
<1> USE DEF ClaimSub, Goto, FetchAdd, FetchSub, IInv, TypeOK
<1>1. TypeOK' BY DEF Labels, LockThreads, CountersMean, Counting
<1>2. OneClaim' BY DEF OneClaim, ClaimMeans, Claiming, Labels
<1>3. CountersMean' BY DEF CountersMean, Counting, Labels
<1>4. ClaimMeans' BY DEF ClaimMeans, OneClaim, Claiming, Labels
<1>5. LockMeans' BY DEF LockMeans, OneClaim, Claiming, Labels
<1>6. ScanIsClear'
    BY DEF ScanIsClear, LockMeans, CountersMean, OneClaim, Counting, Reading,
           Claiming, Labels, LockThreads
<1>7. WriterAlone'
    BY DEF WriterAlone, LockMeans, ScanIsClear, OneClaim, Counting, Reading,
           Claiming, Labels, LockThreads
<1>8. QED BY <1>1, <1>2, <1>3, <1>4, <1>5, <1>6, <1>7

\* A claim that failed gives its read lock back before it tries again.
LEMMA ClaimRetryKeeps ==
    ASSUME IInv, NEW t \in LockThreads, ClaimRetry(t)
    PROVE  IInv'
<1> USE DEF ClaimRetry, Goto, FetchAdd, FetchSub, IInv, TypeOK
<1>1. TypeOK' BY DEF Labels, LockThreads, CountersMean, Counting
<1>2. OneClaim' BY DEF OneClaim, ClaimMeans, Claiming, Labels
<1>3. CountersMean' BY DEF CountersMean, Counting, Labels
<1>4. ClaimMeans' BY DEF ClaimMeans, OneClaim, Claiming, Labels
<1>5. LockMeans' BY DEF LockMeans, OneClaim, Claiming, Labels
<1>6. ScanIsClear'
    BY DEF ScanIsClear, LockMeans, CountersMean, OneClaim, Counting, Reading,
           Claiming, Labels, LockThreads
<1>7. WriterAlone'
    BY DEF WriterAlone, LockMeans, ScanIsClear, OneClaim, Counting, Reading,
           Claiming, Labels, LockThreads
<1>8. QED BY <1>1, <1>2, <1>3, <1>4, <1>5, <1>6, <1>7

\* Raising the lock flag: only the claim's owner does it.
LEMMA LockKeeps ==
    ASSUME IInv, NEW t \in LockThreads, Lock(t)
    PROVE  IInv'
<1> USE DEF Lock, Goto, FetchAdd, FetchSub, IInv, TypeOK
<1>1. TypeOK' BY DEF Labels, LockThreads, CountersMean, Counting
<1>2. OneClaim' BY DEF OneClaim, ClaimMeans, Claiming, Labels
<1>3. CountersMean' BY DEF CountersMean, Counting, Labels
<1>4. ClaimMeans' BY DEF ClaimMeans, OneClaim, Claiming, Labels
<1>5. LockMeans' BY DEF LockMeans, OneClaim, Claiming, Labels
<1>6. ScanIsClear'
    BY DEF ScanIsClear, LockMeans, CountersMean, OneClaim, Counting, Reading,
           Claiming, Labels, LockThreads
<1>7. WriterAlone'
    BY DEF WriterAlone, LockMeans, ScanIsClear, OneClaim, Counting, Reading,
           Claiming, Labels, LockThreads
<1>8. QED BY <1>1, <1>2, <1>3, <1>4, <1>5, <1>6, <1>7

\* The scan passes a counter only at zero; no reader gets behind it.
LEMMA LockScanKeeps ==
    ASSUME IInv, NEW t \in LockThreads, LockScan(t)
    PROVE  IInv'
<1> USE DEF LockScan, Goto, FetchAdd, FetchSub, IInv, TypeOK
<1>1. TypeOK' BY SMTT(30) DEF Labels, LockThreads, CountersMean, Counting
<1>2. OneClaim' BY DEF OneClaim, ClaimMeans, Claiming, Labels
<1>3. CountersMean' BY DEF CountersMean, Counting, Labels
<1>4. ClaimMeans' BY DEF ClaimMeans, OneClaim, Claiming, Labels
<1>5. LockMeans' BY DEF LockMeans, OneClaim, Claiming, Labels
<1>6. ScanIsClear'
    BY SMTT(60)
    DEF ScanIsClear, LockMeans, CountersMean, OneClaim, Counting, Reading,
        Claiming, Labels, LockThreads
<1>7. WriterAlone'
    BY DEF WriterAlone, LockMeans, ScanIsClear, OneClaim, Counting, Reading,
           Claiming, Labels, LockThreads
<1>8. QED BY <1>1, <1>2, <1>3, <1>4, <1>5, <1>6, <1>7

\* When the scan has passed every counter no reader is left.
LEMMA LockReturnKeeps ==
    ASSUME IInv, NEW t \in LockThreads, LockReturn(t)
    PROVE  IInv'
<1> USE DEF LockReturn, Goto, FetchAdd, FetchSub, IInv, TypeOK
<1>1. TypeOK' BY DEF Labels, LockThreads, CountersMean, Counting
<1>2. OneClaim' BY DEF OneClaim, ClaimMeans, Claiming, Labels
<1>3. CountersMean' BY DEF CountersMean, Counting, Labels
<1>4. ClaimMeans' BY DEF ClaimMeans, OneClaim, Claiming, Labels
<1>5. LockMeans' BY DEF LockMeans, OneClaim, Claiming, Labels
<1>6. ScanIsClear'
    BY DEF ScanIsClear, LockMeans, CountersMean, OneClaim, Counting, Reading,
           Claiming, Labels, LockThreads
<1>7. WriterAlone'
    BY DEF WriterAlone, LockMeans, ScanIsClear, OneClaim, Counting, Reading,
           Claiming, Labels, LockThreads
<1>8. QED BY <1>1, <1>2, <1>3, <1>4, <1>5, <1>6, <1>7

\* Giving the write lock back.
LEMMA UnlockKeeps ==
    ASSUME IInv, NEW t \in LockThreads, Unlock(t)
    PROVE  IInv'
<1> USE DEF Unlock, Goto, FetchAdd, FetchSub, IInv, TypeOK
<1>1. TypeOK' BY DEF Labels, LockThreads, CountersMean, Counting
<1>2. OneClaim' BY DEF OneClaim, ClaimMeans, Claiming, Labels
<1>3. CountersMean' BY DEF CountersMean, Counting, Labels
<1>4. ClaimMeans' BY DEF ClaimMeans, OneClaim, Claiming, Labels
<1>5. LockMeans' BY DEF LockMeans, OneClaim, Claiming, Labels
<1>6. ScanIsClear'
    BY DEF ScanIsClear, LockMeans, CountersMean, OneClaim, Counting, Reading,
           Claiming, Labels, LockThreads
<1>7. WriterAlone'
    BY DEF WriterAlone, LockMeans, ScanIsClear, OneClaim, Counting, Reading,
           Claiming, Labels, LockThreads
<1>8. QED BY <1>1, <1>2, <1>3, <1>4, <1>5, <1>6, <1>7

\* A claim becomes a read lock again.
LEMMA UnclaimAddKeeps ==
    ASSUME IInv, NEW t \in LockThreads, UnclaimAdd(t)
    PROVE  IInv'
<1> USE DEF UnclaimAdd, Goto, FetchAdd, FetchSub, IInv, TypeOK
<1>1. TypeOK' BY DEF Labels, LockThreads, CountersMean, Counting
<1>2. OneClaim' BY DEF OneClaim, ClaimMeans, Claiming, Labels
<1>3. CountersMean' BY DEF CountersMean, Counting, Labels
<1>4. ClaimMeans' BY DEF ClaimMeans, OneClaim, Claiming, Labels
<1>5. LockMeans' BY DEF LockMeans, OneClaim, Claiming, Labels
<1>6. ScanIsClear'
    BY DEF ScanIsClear, LockMeans, CountersMean, OneClaim, Counting, Reading,
           Claiming, Labels, LockThreads
<1>7. WriterAlone'
    BY DEF WriterAlone, LockMeans, ScanIsClear, OneClaim, Counting, Reading,
           Claiming, Labels, LockThreads
<1>8. QED BY <1>1, <1>2, <1>3, <1>4, <1>5, <1>6, <1>7

\* The claim flag goes down when its owner leaves.
LEMMA UnclaimReleaseKeeps ==
    ASSUME IInv, NEW t \in LockThreads, UnclaimRelease(t)
    PROVE  IInv'
<1> USE DEF UnclaimRelease, Goto, FetchAdd, FetchSub, IInv, TypeOK
<1>1. TypeOK' BY DEF Labels, LockThreads, CountersMean, Counting
<1>2. OneClaim' BY DEF OneClaim, ClaimMeans, Claiming, Labels
<1>3. CountersMean' BY DEF CountersMean, Counting, Labels
<1>4. ClaimMeans' BY DEF ClaimMeans, OneClaim, Claiming, Labels
<1>5. LockMeans' BY DEF LockMeans, OneClaim, Claiming, Labels
<1>6. ScanIsClear'
    BY DEF ScanIsClear, LockMeans, CountersMean, OneClaim, Counting, Reading,
           Claiming, Labels, LockThreads
<1>7. WriterAlone'
    BY DEF WriterAlone, LockMeans, ScanIsClear, OneClaim, Counting, Reading,
           Claiming, Labels, LockThreads
<1>8. QED BY <1>1, <1>2, <1>3, <1>4, <1>5, <1>6, <1>7

\* A try at the claim keeps the read lock.
LEMMA ClaimCallKeeps ==
    ASSUME IInv, NEW t \in LockThreads, NEW b \in BOOLEAN, ClaimCall(t, b)
    PROVE  IInv'
<1> USE DEF ClaimCall, Goto, FetchAdd, FetchSub, IInv, TypeOK
<1>1. TypeOK' BY DEF Labels, LockThreads, CountersMean, Counting
<1>2. OneClaim' BY DEF OneClaim, ClaimMeans, Claiming, Labels
<1>3. CountersMean' BY DEF CountersMean, Counting, Labels
<1>4. ClaimMeans' BY DEF ClaimMeans, OneClaim, Claiming, Labels
<1>5. LockMeans' BY DEF LockMeans, OneClaim, Claiming, Labels
<1>6. ScanIsClear'
    BY DEF ScanIsClear, LockMeans, CountersMean, OneClaim, Counting, Reading,
           Claiming, Labels, LockThreads
<1>7. WriterAlone'
    BY DEF WriterAlone, LockMeans, ScanIsClear, OneClaim, Counting, Reading,
           Claiming, Labels, LockThreads
<1>8. QED BY <1>1, <1>2, <1>3, <1>4, <1>5, <1>6, <1>7

-----------------------------------------------------------------------------
\* Nobody is in the lock when it is initialized.
LEMMA InitHolds == LockInit => IInv
<1> SUFFICES ASSUME LockInit PROVE IInv OBVIOUS
<1> USE DEF LockInit
<1>1. TypeOK
  <2>1. loop \in [LockThreads -> BOOLEAN] BY Zenon
  <2>2. /\ lock \in BOOLEAN /\ claim \in BOOLEAN
        /\ at \in [LockThreads -> Labels]
    BY Zenon DEF Labels
  <2>3. /\ read_counter \in [LockThreads -> Nat]
        /\ scan \in [LockThreads -> 0 .. MaxThreads]
    BY DEF LockThreads
  <2>4. QED BY <2>1, <2>2, <2>3 DEF TypeOK
<1>2. OneClaim BY DEF OneClaim, Claiming
<1>3. CountersMean BY DEF CountersMean, Counting
<1>4. ClaimMeans BY DEF ClaimMeans, Claiming
<1>5. LockMeans BY DEF LockMeans
<1>6. ScanIsClear BY DEF ScanIsClear
<1>7. WriterAlone BY DEF WriterAlone
<1>8. QED BY <1>1, <1>2, <1>3, <1>4, <1>5, <1>6, <1>7 DEF IInv

\* Every step of every thread, and none, preserves the invariant.
LEMMA NextKeeps == IInv /\ [LockNext]_lockVars => IInv'
<1> SUFFICES ASSUME IInv, [LockNext]_lockVars PROVE IInv' OBVIOUS
<1>1. CASE UNCHANGED lockVars
  <2> USE <1>1 DEF lockVars
  <2>1. TypeOK' BY DEF IInv, TypeOK
  <2>2. OneClaim' BY DEF IInv, OneClaim
  <2>3. CountersMean' BY DEF IInv, CountersMean
  <2>4. ClaimMeans' BY DEF IInv, ClaimMeans
  <2>5. LockMeans' BY DEF IInv, LockMeans
  <2>6. ScanIsClear' BY DEF IInv, ScanIsClear
  <2>7. WriterAlone' BY DEF IInv, WriterAlone
  <2>8. QED BY <2>1, <2>2, <2>3, <2>4, <2>5, <2>6, <2>7 DEF IInv
<1>2. ASSUME NEW t \in LockThreads, Step(t) PROVE IInv'
  BY <1>2, GetWaitKeeps, GetAddKeeps, GetTestKeeps, GetUndoKeeps,
     TestAndSetKeeps, ClaimSubKeeps, ClaimRetryKeeps, LockScanKeeps,
     LockReturnKeeps, UnclaimReleaseKeeps DEF Step
<1>3. ASSUME NEW t \in LockThreads, Release(t) PROVE IInv'
  BY <1>3, UngetKeeps, UnlockKeeps, UnclaimAddKeeps DEF Release
<1>4. ASSUME NEW t \in LockThreads, GetCall(t) \/ Lock(t) PROVE IInv'
  BY <1>4, GetCallKeeps, LockKeeps
<1>5. ASSUME NEW t \in LockThreads, NEW b \in BOOLEAN, ClaimCall(t, b) PROVE IInv'
  BY <1>5, ClaimCallKeeps
<1>6. QED BY <1>1, <1>2, <1>3, <1>4, <1>5 DEF LockNext

(* While platform_batch_rwlock_lock has returned and unlock has not been    *)
(* called, no other thread reads or holds a claim, for every number of      *)
(* threads.                                                                 *)
THEOREM WriterIsAlone == LockSpec => []WriterAlone
<1>1. IInv => WriterAlone BY DEF IInv
<1>2. QED BY <1>1, InitHolds, NextKeeps, PTL DEF LockSpec
=============================================================================
