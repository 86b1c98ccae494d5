---------------------------- MODULE BatchRWLock ----------------------------
(***************************************************************************)
(* The distributed reader/writer lock of platform.c (one lock of a batch). *)
(* Every thread has a read counter of its own; a claim flag chooses the    *)
(* one thread that may set the lock flag, which then waits for the         *)
(* counters one after the other.  One action per atomic access; a thread   *)
(* between two accesses of a call is at the label of the next one.  A      *)
(* thread runs any legal sequence of calls: get, try_claim or claim_loop,  *)
(* lock, unlock, unclaim, unget (full_unlock is the last three in a row).  *)
(***************************************************************************)
EXTENDS Naturals

CONSTANT MaxThreads         \* MAX_THREADS: how many the scan of lock covers

ASSUME MaxThreadsAssumption == MaxThreads \in Nat

LockThreads == 0 .. MaxThreads - 1

VARIABLES
    lock,           \* write_lock[lock_idx].lock
    claim,          \* write_lock[lock_idx].claim
    read_counter,   \* thread -> read_counter[tid][lock_idx]
    at,             \* thread -> the access it performs next
    loop,           \* thread -> it is in claim_loop
    scan            \* thread -> the counter the lock call looks at next

lockVars == <<lock, claim, read_counter, at, loop, scan>>

Labels == {"idle", "get_wait", "get_add", "get_test", "get_undo", "read",
           "try_claim", "claim_sub", "claim_retry", "claimed", "scan",
           "write", "unclaim_release"}

\* Labels at which the thread's own counter is 1.
Counting == {"get_test", "get_undo", "read", "try_claim", "claim_sub",
             "claim_retry", "unclaim_release"}
\* Labels at which the thread holds a read lock.
Reading == Counting \ {"get_test", "get_undo"}
\* Labels at which the thread owns the claim flag.
Claiming == {"claim_sub", "claimed", "scan", "write", "unclaim_release"}

TypeOK ==
    /\ lock \in BOOLEAN
    /\ claim \in BOOLEAN
    /\ read_counter \in [LockThreads -> Nat]
    /\ at \in [LockThreads -> Labels]
    /\ loop \in [LockThreads -> BOOLEAN]
    /\ scan \in [LockThreads -> 0 .. MaxThreads]

\* platform_batch_rwlock_init
LockInit ==
    /\ lock = FALSE
    /\ claim = FALSE
    /\ read_counter = [t \in LockThreads |-> 0]
    /\ at = [t \in LockThreads |-> "idle"]
    /\ loop = [t \in LockThreads |-> FALSE]
    /\ scan = [t \in LockThreads |-> 0]

Goto(t, from, to) == at[t] = from /\ at' = [at EXCEPT ![t] = to]

FetchAdd(t) == read_counter' = [read_counter EXCEPT ![t] = @ + 1]
FetchSub(t) == read_counter' = [read_counter EXCEPT ![t] = @ - 1]

(***************************************************************************)
(* Plausible mistakes.                                                     *)
(***************************************************************************)
\* get does not look at the lock again after it has counted itself
GetTestOnce(t) ==
    /\ Goto(t, "get_test", IF loop[t] THEN "try_claim" ELSE "read")
    /\ UNCHANGED <<lock, claim, read_counter, loop, scan>>

\* get keeps its count while it waits for the writer
GetUndoKept(t) ==
    /\ ~lock
    /\ Goto(t, "get_undo", IF loop[t] THEN "try_claim" ELSE "read")
    /\ UNCHANGED <<lock, claim, read_counter, loop, scan>>

\* try_claim reads the flag as free whatever it was
ClaimAlways(t) ==
    /\ Goto(t, "try_claim", "claim_sub")
    /\ claim' = TRUE
    /\ UNCHANGED <<lock, read_counter, loop, scan>>

(* platform_batch_rwlock_get *)
GetCall(t) ==
    /\ Goto(t, "idle", "get_wait")
    /\ UNCHANGED <<lock, claim, read_counter, loop, scan>>

GetWait(t) ==
    /\ ~lock
    /\ Goto(t, "get_wait", "get_add")
    /\ UNCHANGED <<lock, claim, read_counter, loop, scan>>

GetAdd(t) ==
    /\ Goto(t, "get_add", "get_test")
    /\ FetchAdd(t)
    /\ UNCHANGED <<lock, claim, loop, scan>>

\* the second look at the lock: return, with the claim to try again when the
\* get was made by claim_loop, or take the count back
GetTest(t) ==
    /\ Goto(t, "get_test", IF lock THEN "get_undo"
                           ELSE IF loop[t] THEN "try_claim" ELSE "read")
    /\ UNCHANGED <<lock, claim, read_counter, loop, scan>>

GetUndo(t) ==
    /\ Goto(t, "get_undo", "get_wait")
    /\ FetchSub(t)
    /\ UNCHANGED <<lock, claim, loop, scan>>

(* platform_batch_rwlock_unget *)
Unget(t) ==
    /\ Goto(t, "read", "idle")
    /\ FetchSub(t)
    /\ UNCHANGED <<lock, claim, loop, scan>>

(* platform_batch_rwlock_try_claim and platform_batch_rwlock_claim_loop *)
ClaimCall(t, inLoop) ==
    /\ Goto(t, "read", "try_claim")
    /\ loop' = [loop EXCEPT ![t] = inLoop]
    /\ UNCHANGED <<lock, claim, read_counter, scan>>

TestAndSet(t) ==
    /\ Goto(t, "try_claim", IF ~claim THEN "claim_sub"
                            ELSE IF loop[t] THEN "claim_retry" ELSE "read")
    /\ claim' = TRUE
    /\ UNCHANGED <<lock, read_counter, loop, scan>>

ClaimSub(t) ==
    /\ Goto(t, "claim_sub", "claimed")
    /\ FetchSub(t)
    /\ loop' = [loop EXCEPT ![t] = FALSE]
    /\ UNCHANGED <<lock, claim, scan>>

\* claim_loop gives its read lock back before it tries again
ClaimRetry(t) ==
    /\ Goto(t, "claim_retry", "get_wait")
    /\ FetchSub(t)
    /\ UNCHANGED <<lock, claim, loop, scan>>

(* platform_batch_rwlock_lock *)
Lock(t) ==
    /\ Goto(t, "claimed", "scan")
    /\ lock' = TRUE
    /\ scan' = [scan EXCEPT ![t] = 0]
    /\ UNCHANGED <<claim, read_counter, loop>>

LockScan(t) ==
    /\ at[t] = "scan"
    /\ scan[t] < MaxThreads
    /\ read_counter[scan[t]] = 0
    /\ scan' = [scan EXCEPT ![t] = @ + 1]
    /\ UNCHANGED <<lock, claim, read_counter, at, loop>>

LockReturn(t) ==
    /\ scan[t] = MaxThreads
    /\ Goto(t, "scan", "write")
    /\ UNCHANGED <<lock, claim, read_counter, loop, scan>>

(* platform_batch_rwlock_unlock *)
Unlock(t) ==
    /\ Goto(t, "write", "claimed")
    /\ lock' = FALSE
    /\ UNCHANGED <<claim, read_counter, loop, scan>>

(* platform_batch_rwlock_unclaim *)
UnclaimAdd(t) ==
    /\ Goto(t, "claimed", "unclaim_release")
    /\ FetchAdd(t)
    /\ UNCHANGED <<lock, claim, loop, scan>>

UnclaimRelease(t) ==
    /\ Goto(t, "unclaim_release", "read")
    /\ claim' = FALSE
    /\ UNCHANGED <<lock, read_counter, loop, scan>>

\* The steps a thread takes once it has made a call.
Step(t) ==
    \/ GetWait(t) \/ GetAdd(t) \/ GetTest(t) \/ GetUndo(t)
    \/ TestAndSet(t) \/ ClaimSub(t) \/ ClaimRetry(t)
    \/ LockScan(t) \/ LockReturn(t) \/ UnclaimRelease(t)

\* The calls a lock holder makes to give the lock back.
Release(t) == Unget(t) \/ Unlock(t) \/ UnclaimAdd(t)

LockNext ==
    \E t \in LockThreads :
        \/ Step(t)
        \/ Release(t)
        \/ GetCall(t)
        \/ ClaimCall(t, FALSE)
        \/ ClaimCall(t, TRUE)
        \/ Lock(t)

LockSpec == LockInit /\ [][LockNext]_lockVars

(***************************************************************************)
(* Properties                                                              *)
(***************************************************************************)

\* While platform_batch_rwlock_lock has returned and unlock has not been
\* called, no other thread is between get and unget, and none holds a claim:
\* the writer is alone although readers only count in their own counters.
WriterAlone ==
    \A t \in LockThreads : at[t] = "write" =>
        \A u \in LockThreads \ {t} : at[u] \notin Reading \cup Claiming

\* At most one thread owns the claim, which readers may share the lock with.
OneClaim ==
    \A t, u \in LockThreads : at[t] \in Claiming /\ at[u] \in Claiming => t = u

\* What the state means: a counter is 1 exactly between its thread's count up
\* and down, ...
CountersMean ==
    \A t \in LockThreads : read_counter[t] = IF at[t] \in Counting THEN 1 ELSE 0

\* ... the flags are up exactly while their owner is in the section, ...
ClaimMeans == claim = (\E t \in LockThreads : at[t] \in Claiming)
LockMeans == lock = (\E t \in LockThreads : at[t] \in {"scan", "write"})

\* ... and a scanning writer has no reader behind its scan.
ScanIsClear ==
    \A t \in LockThreads : at[t] = "scan" =>
        \A u \in LockThreads : u < scan[t] => at[u] \notin Reading

IInv == /\ TypeOK /\ OneClaim /\ CountersMean /\ ClaimMeans /\ LockMeans
        /\ ScanIsClear /\ WriterAlone

\* A scheduled thread performs its pending access, and a reader does not
\* keep trying to claim for ever without giving its read lock back (strong
\* fairness: every failed try_claim passes through Unget's guard).
LockFairness ==
    \A t \in LockThreads : WF_lockVars(Step(t)) /\ SF_lockVars(Unget(t))

LockFairSpec == LockSpec /\ LockFairness

\* platform_batch_rwlock_lock returns: readers that arrive during the scan
\* step back, and those that are in leave.
LockReturns ==
    \A t \in LockThreads : at[t] = "scan" ~> at[t] = "write"

=============================================================================
