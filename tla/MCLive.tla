------------------------------- MODULE MCLive -------------------------------
(* What must happen in the end, on small instances for TLC: the batch lock  *)
(* of the platform and the task system (extended), the write lock of a      *)
(* cached page and the flush of memtables.  A behaviour runs the one that   *)
(* `part' names, under the fairness that module states; the variables of    *)
(* the others stay at their initial values.                                 *)
EXTENDS BatchRWLock, TaskSystem, TLC

CONSTANTS p1, p2, s1, s2, e1, e2, b1, b2, a1, node, NoEntry, NoAddr, NoType,
          NoBatch, Disk,            \* PageCache
          t1, t2, k1,               \* Core
          c1, c2                    \* TaskSystem

VARIABLES
    part,
    lookup, status, diskaddr, ptype, refs, pins, wb, waddr, fresh, atype, hand,
    cachePc, cacheOp, addr, ent, caller, drain,                 \* PageCache
    generation, to_incorporate, retired, is_empty, mt, cmt, branch, trunk,
    prepared, task, op, super, open, mounts, inserts, latest, clean    \* Core

Pages == INSTANCE PageCache WITH
    Threads <- {p1, p2}, Entries <- {e1, e2}, Addrs <- {a1}, Types <- {node},
    PinnedTypes <- {}, Batches <- {b1, b2}, BatchOf <- (e1 :> b1) @@ (e2 :> b2),
    Slots <- {s1, s2}, SlotOf <- (p1 :> s1) @@ (p2 :> s2),
    Roles <- (p1 :> {"get", "write"}) @@ (p2 :> {"write", "alloc", "discard"}),
    pc <- cachePc, op <- cacheOp

Memtables == INSTANCE Core WITH
    Threads <- {t1, t2}, UserKeys <- {k1}, N <- 3, Capacity <- 1, MaxInserts <- 3,
    MaxMounts <- 1, MayCrash <- FALSE,
    Roles <- (t1 :> {"insert"}) @@ (t2 :> {"lookup"})

pageVars == <<lookup, status, diskaddr, ptype, refs, pins, wb, waddr, fresh,
              atype, hand, cachePc, cacheOp, addr, ent, caller, drain>>
coreVars == <<generation, to_incorporate, retired, is_empty, mt, cmt, branch,
              trunk, prepared, task, op, super, open, mounts, inserts, latest,
              clean>>
allVars == <<part, lockVars, vars, pageVars, coreVars>>

LiveInit == /\ part \in {"rwlock", "pages", "memtables", "tasks"}
            /\ LockInit /\ Init /\ Pages!Init /\ Memtables!Init
            /\ part # "pages" => atype[a1] = NoType
            /\ tid[c2] = NoTid       \* c1 opens the library

\* Every client has left the task system.
Finished == part = "tasks" /\ UNCHANGED allVars

LiveNext ==
    \/ part = "rwlock" /\ LockNext /\ UNCHANGED <<part, vars, pageVars, coreVars>>
    \/ part = "tasks" /\ Next /\ UNCHANGED <<part, lockVars, pageVars, coreVars>>
    \/ part = "pages" /\ Pages!Next /\ UNCHANGED <<part, lockVars, vars, coreVars>>
    \/ part = "memtables" /\ Memtables!Next
       /\ UNCHANGED <<part, lockVars, vars, pageVars>>
    \/ Finished

\* BatchRWLock.LockFairness, TaskSystem.Fairness, PageCache.FairSpec,
\* Core.Fairness.
LiveSpec ==
    /\ LiveInit /\ [][LiveNext]_allVars
    /\ \A t \in LockThreads : /\ WF_lockVars(part = "rwlock" /\ Step(t))
                              /\ SF_lockVars(part = "rwlock" /\ Unget(t))
    /\ \A t \in Threads : WF_vars(part = "tasks" /\ Finish(t))
    /\ \A w \in BgThreads :
          WF_vars(part = "tasks" /\ (WorkerTake(w) \/ WorkerWait(w) \/ WorkerExit(w)))
    /\ \A c \in Clients :
          WF_vars(part = "tasks"
                    /\ \/ PerformTake(c) \/ PerformNone(c) \/ PerformDone(c)
                       \/ TestQuiescent(c) \/ Destroy(c)
                       \/ \E g \in TaskTypes : StopGroup(c, g))
    /\ \A t \in {p1, p2} : WF_pageVars(part = "pages" /\ Pages!Step(t))
    /\ \A e \in {e1, e2} :
          WF_pageVars(part = "pages" /\ (Pages!WbIssue(e) \/ Pages!WriteCallback(e)))
    /\ \A g \in Memtables!Gens :
          WF_coreVars(part = "memtables" /\ Memtables!FlushStep(g))
    /\ \A t \in {t1, t2} :
          WF_coreVars(part = "memtables"
                       /\ \/ Memtables!LookupMemtable(t) \/ Memtables!LookupRoot(t)
                          \/ Memtables!IterCollect(t) \/ Memtables!IterRoot(t))

\* PageCache.LockGranted: an announced write lock of a page is granted.
LockGranted == Pages!LockGranted

\* Core.FinalizedIsIncorporated: a finalized memtable reaches the trunk.
FinalizedIsIncorporated == Memtables!FinalizedIsIncorporated
=============================================================================
