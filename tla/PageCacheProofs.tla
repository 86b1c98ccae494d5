-------------------------- MODULE PageCacheProofs --------------------------
(***************************************************************************)
(* Proofs about PageCache for any number of threads, entries, addresses,   *)
(* batches and reference counters, in four parts:                          *)
(*  1. the types, and Frame(t): a step of t leaves the other threads where *)
(*     they are (TypeCorrect);                                             *)
(*  2. the locks: a write lock excludes every other holder of the page     *)
(*     (LockExclusion);                                                    *)
(*  3. the pages: the lookup table, writeback and contents                 *)
(*     (WriteExclusion, WritebackStable, HandleIsCurrent, NoLostWrite);    *)
(*  4. the refinement: the cache implements the lock of PageLocks.         *)
(***************************************************************************)
EXTENDS PageCacheInv, TLAPS

-----------------------------------------------------------------------------
(* Layer 1: types and control.                                             *)

\* Every control point the actions name is one of PCs.
LEMMA PCFacts ==
    /\ "rd_test" \in PCs /\ "rd_inc" \in PCs /\ "rd_free" \in PCs
    /\ "rd_wl" \in PCs /\ "rd_evicted" \in PCs /\ "rd_conflict" \in PCs
    /\ "g_lookup" \in PCs /\ "g_addr" \in PCs /\ "g_wait" \in PCs
    /\ "g_addr2" \in PCs /\ "g_type" \in PCs /\ "g_addr3" \in PCs
    /\ "g_drop" \in PCs /\ "fp" \in PCs /\ "fp_ref" \in PCs
    /\ "fp_status" \in PCs /\ "fp_type" \in PCs /\ "ev" \in PCs
    /\ "adv" \in PCs /\ "ev_claim" \in PCs /\ "ev_load" \in PCs
    /\ "ev_wl" \in PCs /\ "ev_wb" \in PCs /\ "ev_drain" \in PCs
    /\ "ev_verify" \in PCs /\ "ev_unwl" \in PCs /\ "ev_unclaim" \in PCs
    /\ "ev_lookup" \in PCs /\ "ev_addr" \in PCs /\ "ev_type" \in PCs
    /\ "ev_free" \in PCs /\ "ev_unref" \in PCs /\ "l_cas" \in PCs
    /\ "l_abref" \in PCs /\ "l_abtype" \in PCs /\ "l_abfree" \in PCs
    /\ "l_addr" \in PCs /\ "l_read" \in PCs /\ "l_done" \in PCs
    /\ "a_addr" \in PCs /\ "a_lookup" \in PCs /\ "a_pin" \in PCs
    /\ "gw_set" \in PCs /\ "gw_wb" \in PCs /\ "gw_drain" \in PCs
    /\ "d_lookup" \in PCs /\ "d_wait" \in PCs /\ "d_addr" \in PCs
    /\ "d_claim" \in PCs /\ "d_drop" \in PCs /\ "d_unmap" \in PCs
    /\ "d_unaddr" \in PCs /\ "d_type" \in PCs /\ "d_free" \in PCs
    /\ "d_unpin" \in PCs /\ "d_unref" \in PCs /\ "idle" \in PCs
    /\ "reading" \in PCs /\ "claimed" \in PCs /\ "locked" \in PCs
    /\ "dirty" \in PCs /\ "written" \in PCs /\ "unlocked" \in PCs
    /\ "unclaimed" \in PCs /\ "failed" \in PCs
BY DEF PCs, ReadPCs, GetPCs, FreePCs, EvictPCs, LoadPCs, AllocPCs, LockPCs,
       DiscardPCs, ClientPCs

\* Setting, clearing and storing status flags keeps a status word a set of
\* flags (treepass_set_flag, treepass_clear_flag, entry->status = ...).
LEMMA StatusTyped ==
  ASSUME TypeOK, NEW e, NEW f \in Flags, NEW S \in SUBSET Flags,
         SetFlag(e, f) \/ ClearFlag(e, f) \/ StoreStatus(e, S)
  PROVE  status' \in [Entries -> SUBSET Flags]
BY DEF TypeOK, SetFlag, ClearFlag, StoreStatus

\* The five status words the code stores are sets of flags.
LEMMA StatusConstants ==
  /\ FreeStatus \in SUBSET Flags /\ AllocStatus \in SUBSET Flags
  /\ ReadLoadingStatus \in SUBSET Flags
  /\ \A f \in {"CLEAN", "WRITEBACK", "LOADING", "WRITELOCKED", "CLAIMED"} :
        f \in Flags
BY DEF Flags, FreeStatus, AllocStatus, ReadLoadingStatus

\* A step that only moves the control point keeps the types.
LEMMA LocalTyped ==
  ASSUME TypeOK, NEW t \in Threads, NEW p \in PCs, Local(t, p)
  PROVE  TypeOK'
BY DEF TypeOK, Local, Goto, cacheVars, opVars

\* A step that writes the status word of its entry keeps the types.
LEMMA StatusStepTyped ==
  ASSUME TypeOK, NEW t \in Threads, NEW p \in PCs, StatusStep(t, p),
         status' \in [Entries -> SUBSET Flags]
  PROVE  TypeOK'
BY DEF TypeOK, StatusStep, Goto, ioVars, opVars

\* Releasing a reference and leaving the entry keeps the types.
LEMMA UnrefTyped ==
  ASSUME TypeOK, NEW t \in Threads, NEW p \in PCs, Unref(t, p)
  PROVE  TypeOK'
BY ConstantAssumption
   DEF TypeOK, Unref, DecRef, Leave, Goto, Callers, ioVars, opVars

\* Ending an operation keeps the types of the thread's variables.
LEMMA FinishTyped ==
  ASSUME TypeOK, NEW t \in Threads, Finish(t)
  PROVE  /\ pc' \in [Threads -> PCs]
         /\ op' \in [Threads -> Operations \cup {"none"}]
         /\ addr' \in [Threads -> Addrs \cup {NoAddr}]
         /\ ent' \in [Threads -> Entries \cup {NoEntry}]
         /\ caller' \in [Threads -> Callers]
BY PCFacts DEF TypeOK, Finish, Leave, Goto, Callers

\* Releasing a reference and ending the operation keeps the types.
LEMMA UnrefFinishTyped ==
  ASSUME TypeOK, NEW t \in Threads, UnrefFinish(t)
  PROVE  TypeOK'
<1>1. Finish(t)
  BY DEF UnrefFinish
<1>2. refs' \in [Entries -> SUBSET Threads]
  BY DEF UnrefFinish, DecRef, TypeOK
<1> QED BY <1>1, <1>2, FinishTyped DEF TypeOK, UnrefFinish, ioVars

\* Storing a page type or a disk address in the entry keeps the types.
LEMMA TypeStepTyped ==
  ASSUME TypeOK, NEW t \in Threads, NEW p \in PCs,
         NEW ty \in Types \cup {NoType}, TypeStep(t, ty, p)
  PROVE  TypeOK'
BY DEF TypeOK, TypeStep, Goto, ioVars, opVars

\* Setting the address of an entry keeps the types.
LEMMA AddrStepTyped ==
  ASSUME TypeOK, NEW t \in Threads, NEW p \in PCs,
         NEW a \in Addrs \cup {NoAddr}, AddrStep(t, a, p)
  PROVE  TypeOK'
BY DEF TypeOK, AddrStep, Goto, ioVars, opVars

\* Calling treepass_try_get_read keeps the types.
LEMMA CallReadTyped ==
  ASSUME TypeOK, NEW t \in Threads, NEW e \in Entries, NEW c \in Callers,
         CallRead(t, e, c)
  PROVE  TypeOK'
BY PCFacts DEF TypeOK, CallRead, Goto, cacheVars, opVars

\* Starting an operation keeps the types.
LEMMA BeginTyped ==
  ASSUME TypeOK, NEW t \in Threads, NEW o \in Operations, NEW a \in Addrs,
         NEW p \in PCs, Begin(t, o, a, p),
         atype' \in [Addrs -> Types \cup {NoType}]
  PROVE  TypeOK'
BY DEF TypeOK, Begin, Goto, entryVars, ioVars

\* Leaving an entry keeps the types of the thread's local variables.
LEMMA LeaveTyped ==
  ASSUME TypeOK, NEW t \in Threads, NEW p \in PCs, Leave(t, p)
  PROVE  /\ pc' \in [Threads -> PCs]
         /\ ent' \in [Threads -> Entries \cup {NoEntry}]
         /\ caller' \in [Threads -> Callers]
BY DEF TypeOK, Leave, Goto, Callers

\* treepass_try_get_read returns to a control point of its caller.
LEMMA CallersTyped ==
  \A c \in {"get", "discard", "evict"} :
     c \in Callers /\ AfterRead(c) \in PCs /\ AfterEvicted(c) \in PCs
BY PCFacts DEF Callers, AfterRead, AfterEvicted

-----------------------------------------------------------------------------
(* Type correctness of the actions that can end in different ways.         *)

\* A get starts.
LEMMA StartGetTyped ==
  ASSUME TypeOK, NEW t \in Threads, StartGet(t)
  PROVE  TypeOK'
<1> PICK o \in {"get", "tryget", "write"}, a \in Addrs :
       Begin(t, o, a, "g_lookup") /\ UNCHANGED atype
  BY DEF StartGet
<1> QED BY BeginTyped, PCFacts DEF TypeOK, Operations

\* An allocation starts.
LEMMA StartAllocTyped ==
  ASSUME TypeOK, NEW t \in Threads, StartAlloc(t)
  PROVE  TypeOK'
<1> PICK a \in Addrs, ty \in Types :
       Begin(t, "alloc", a, "fp") /\ atype' = [atype EXCEPT ![a] = ty]
  BY DEF StartAlloc
<1> QED BY BeginTyped, PCFacts DEF TypeOK, Operations

\* A discard starts.
LEMMA StartDiscardTyped ==
  ASSUME TypeOK, NEW t \in Threads, StartDiscard(t)
  PROVE  TypeOK'
<1> PICK a \in Addrs : Begin(t, "discard", a, "d_lookup") /\ UNCHANGED atype
  BY DEF StartDiscard
<1> QED BY BeginTyped, PCFacts DEF TypeOK, Operations

\* treepass_try_get_read looks at WRITELOCKED before it counts itself.
LEMMA RdTestTyped ==
  ASSUME TypeOK, NEW t \in Threads, RdTest(t)
  PROVE  TypeOK'
<1>1. CASE Local(t, "rd_inc") BY <1>1, LocalTyped, PCFacts
<1>2. CASE Leave(t, "ev") /\ UNCHANGED <<cacheVars, opVars, drain>>
  BY <1>2, LeaveTyped, PCFacts DEF TypeOK, cacheVars, opVars
<1>3. CASE Finish(t) /\ UNCHANGED <<cacheVars, drain>>
  BY <1>3, FinishTyped DEF TypeOK, cacheVars
<1> QED BY <1>1, <1>2, <1>3 DEF RdTest

\* treepass_try_get_read takes its reference back.
LEMMA RdConflictTyped ==
  ASSUME TypeOK, NEW t \in Threads, RdConflict(t)
  PROVE  TypeOK'
<1>1. CASE Unref(t, "ev") BY <1>1, UnrefTyped, PCFacts
<1>2. CASE UnrefFinish(t) BY <1>2, UnrefFinishTyped
<1>3. CASE DecRef(t, ent[t]) /\ Goto(t, "rd_test")
         /\ UNCHANGED <<lookup, status, diskaddr, ptype, pins, ioVars, fresh,
                        atype, hand, opVars, ent, caller, drain>>
  BY <1>3, PCFacts DEF TypeOK, DecRef, Goto, ioVars, opVars
<1> QED BY <1>1, <1>2, <1>3 DEF RdConflict

\* treepass_get_in_cache looks the address up.
LEMMA GetLookupTyped ==
  ASSUME TypeOK, ControlOK, NEW t \in Threads, GetLookup(t)
  PROVE  TypeOK'
<1>1. addr[t] \in Addrs /\ lookup[addr[t]] \in Entries \cup {NoEntry}
  BY DEF TypeOK, ControlOK, Control, GetLookup
<1>2. CASE lookup[addr[t]] # NoEntry /\ CallRead(t, lookup[addr[t]], "get")
  BY <1>1, <1>2, CallReadTyped, CallersTyped
<1>3. CASE Local(t, "fp") BY <1>3, LocalTyped, PCFacts
<1>4. CASE Finish(t) /\ UNCHANGED <<cacheVars, drain>>
  BY <1>4, FinishTyped DEF TypeOK, cacheVars
<1> QED BY <1>2, <1>3, <1>4 DEF GetLookup

\* treepass_get_free_page stores the type and returns.
LEMMA FpTypeTyped ==
  ASSUME TypeOK, ControlOK, NEW t \in Threads, FpType(t)
  PROVE  TypeOK'
<1>1. addr[t] \in Addrs /\ op[t] \in {"get", "write", "alloc"}
  BY DEF FpType, ControlOK, Control, FreePCs
<1>2. atype[addr[t]] \in Types \cup {NoType} /\ AfterFreePage(op[t]) \in PCs
  BY <1>1, PCFacts DEF AfterFreePage, TypeOK
<1> QED BY <1>2, TypeStepTyped DEF FpType

\* treepass_try_get_write looks at WRITEBACK.
LEMMA EvWbTyped ==
  ASSUME TypeOK, NEW t \in Threads, EvWb(t)
  PROVE  TypeOK'
<1>1. CASE Local(t, "ev_unwl") BY <1>1, LocalTyped, PCFacts
<1>2. CASE drain' = [drain EXCEPT ![t] = Slots] /\ Goto(t, "ev_drain")
         /\ UNCHANGED <<cacheVars, opVars, ent, caller>>
  BY <1>2, PCFacts DEF TypeOK, Goto, cacheVars, opVars
<1> QED BY <1>1, <1>2 DEF EvWb

\* treepass_try_get_write looks at one reference counter.
LEMMA EvDrainTyped ==
  ASSUME TypeOK, NEW t \in Threads, EvDrain(t)
  PROVE  TypeOK'
<1>1. CASE Local(t, "ev_verify")
  BY <1>1, LocalTyped, PCFacts
<1>2. CASE ~ Local(t, "ev_verify")
  <2> PICK s \in drain[t] :
         /\ drain' = [drain EXCEPT ![t] =
                        IF OthersIn(t, ent[t], s) = {} THEN @ \ {s} ELSE {}]
         /\ Goto(t, IF OthersIn(t, ent[t], s) = {} THEN "ev_drain"
                                                   ELSE "ev_unwl")
         /\ UNCHANGED <<cacheVars, opVars, ent, caller>>
    BY <1>2 DEF EvDrain
  <2>1. drain' \in [Threads -> SUBSET Slots]
    BY DEF TypeOK
  <2>2. pc' \in [Threads -> PCs]
    BY PCFacts DEF TypeOK, Goto
  <2> QED BY <2>1, <2>2 DEF TypeOK, cacheVars, opVars
<1> QED BY <1>1, <1>2

\* treepass_try_evict clears the lookup slot.
LEMMA EvLookupTyped ==
  ASSUME TypeOK, NEW t \in Threads, EvLookup(t)
  PROVE  TypeOK'
<1>1. CASE Local(t, "ev_type") BY <1>1, LocalTyped, PCFacts
<1>2. CASE ~ Local(t, "ev_type")
  <2>1. /\ lookup' \in [Addrs -> Entries \cup {NoEntry}] /\ Goto(t, "ev_addr")
        /\ UNCHANGED <<entryVars, ioVars, fresh, atype, hand, opVars, ent,
                       caller, drain>>
    BY <1>2 DEF EvLookup, TypeOK
  <2> QED BY <2>1, PCFacts DEF TypeOK, Goto, entryVars, ioVars, opVars
<1> QED BY <1>1, <1>2

\* treepass_acquire_entry_for_load publishes the entry.
LEMMA LoadCasTyped ==
  ASSUME TypeOK, ControlOK, NEW t \in Threads, LoadCas(t)
  PROVE  TypeOK'
<1>1. CASE Local(t, "l_abref") BY <1>1, LocalTyped, PCFacts
<1>2. CASE ~ Local(t, "l_abref")
  <2>1. lookup' \in [Addrs -> Entries \cup {NoEntry}]
    BY <1>2 DEF LoadCas, TypeOK
  <2> QED BY <1>2, <2>1, PCFacts DEF TypeOK, LoadCas, Goto, entryVars, ioVars,
     opVars
<1> QED BY <1>1, <1>2

\* io_read fills the page.
LEMMA LoadReadTyped ==
  ASSUME TypeOK, ControlOK, NEW t \in Threads, LoadRead(t)
  PROVE  TypeOK'
<1>1. ent[t] \in Entries
  BY DEF LoadRead, ControlOK, Control, EntPCs, PCs, LoadPCs
<1>2. fresh' \in [Addrs -> SUBSET (Entries \cup {Disk})]
  BY <1>1 DEF LoadRead, TypeOK
<1> QED BY <1>2, PCFacts DEF TypeOK, LoadRead, Goto, entryVars, ioVars, opVars

\* The client changes the page.
LEMMA ModifyTyped ==
  ASSUME TypeOK, ControlOK, NEW t \in Threads, Modify(t)
  PROVE  TypeOK'
<1>1. ent[t] \in Entries
  BY DEF Modify, ControlOK, Control, EntPCs, PCs, ClientPCs
<1>2. fresh' \in [Addrs -> SUBSET (Entries \cup {Disk})]
  BY <1>1 DEF Modify, TypeOK
<1> QED BY <1>2, PCFacts DEF TypeOK, Modify, Goto, entryVars, ioVars, opVars

\* treepass_pin counts a pin.
LEMMA AllocPinTyped ==
  ASSUME TypeOK, ControlOK, NEW t \in Threads, AllocPin(t)
  PROVE  TypeOK'
<1>1. ent[t] \in Entries
  BY DEF AllocPin, ControlOK, Control, EntPCs, PCs, AllocPCs
<1>2. pins' \in [Entries -> Nat]
  <2>1. pins[ent[t]] + 1 \in Nat
    BY <1>1 DEF TypeOK
  <2> QED BY <2>1 DEF AllocPin, TypeOK
<1> QED BY <1>2, PCFacts DEF TypeOK, AllocPin, Goto, ioVars, opVars

\* treepass_try_claim.
LEMMA TryClaimTyped ==
  ASSUME TypeOK, NEW t \in Threads, TryClaim(t)
  PROVE  TypeOK'
<1>1. CASE Local(t, "unclaimed") BY <1>1, LocalTyped, PCFacts
<1>2. CASE SetFlag(ent[t], "CLAIMED") /\ StatusStep(t, "claimed")
  BY <1>2, StatusTyped, StatusStepTyped, StatusConstants, PCFacts
<1> QED BY <1>1, <1>2 DEF TryClaim

\* treepass_try_page_discard looks the address up.
LEMMA DiscardLookupTyped ==
  ASSUME TypeOK, ControlOK, NEW t \in Threads, DiscardLookup(t)
  PROVE  TypeOK'
<1>1. addr[t] \in Addrs /\ lookup[addr[t]] \in Entries \cup {NoEntry}
  BY DEF TypeOK, ControlOK, Control, DiscardLookup
<1>2. CASE lookup[addr[t]] # NoEntry /\ CallRead(t, lookup[addr[t]], "discard")
  BY <1>1, <1>2, CallReadTyped, CallersTyped
<1>3. CASE Finish(t) /\ atype' = [atype EXCEPT ![addr[t]] = NoType]
          /\ UNCHANGED <<lookup, entryVars, ioVars, fresh, hand, drain>>
  <2>1. atype' \in [Addrs -> Types \cup {NoType}] BY <1>3 DEF TypeOK
  <2> QED BY <1>3, <2>1, FinishTyped DEF TypeOK, entryVars, ioVars
<1> QED BY <1>2, <1>3 DEF DiscardLookup

-----------------------------------------------------------------------------
(* Every step of a thread keeps the types.                                 *)

\* The steps of the start of an operation keep the types.
LEMMA StartTyped ==
  ASSUME TypeOK, ControlOK, NEW t \in Threads, Start(t)
  PROVE  TypeOK'
<1> QED BY StartGetTyped, StartAllocTyped, StartDiscardTyped DEF Start

\* The steps of treepass_try_get_read keep the types.
LEMMA TryGetReadTyped ==
  ASSUME TypeOK, ControlOK, NEW t \in Threads, TryGetRead(t)
  PROVE  TypeOK'
<1> USE PCFacts, StatusConstants, ConstantAssumption
        DEF TypeOK, ControlOK, Control, Callers, Goto, cacheVars, entryVars,
            ioVars, opVars
<1>1. CASE RdTest(t)
  BY <1>1, RdTestTyped
<1>2. CASE RdInc(t)
  <2>1. refs' \in [Entries -> SUBSET Threads]
    BY <1>2, Zenon DEF RdInc, IncRef
  <2>2. pc' \in [Threads -> PCs]
    BY <1>2 DEF RdInc
  <2> QED BY <1>2, <2>1, <2>2 DEF RdInc
<1>3. CASE RdFree(t)
  BY <1>3 DEF RdFree, Local
<1>4. CASE RdWl(t)
  BY <1>4 DEF RdWl, AfterRead, Local
<1>5. CASE RdEvicted(t)
  BY <1>5 DEF RdEvicted, AfterEvicted, DecRef, Leave, Unref
<1>6. CASE RdConflict(t)
  BY <1>6, RdConflictTyped
<1> QED BY <1>1, <1>2, <1>3, <1>4, <1>5, <1>6 DEF TryGetRead

\* The steps of treepass_get_in_cache keep the types.
LEMMA GetTyped ==
  ASSUME TypeOK, ControlOK, NEW t \in Threads, GetLookup(t) \/ GetInCache(t)
  PROVE  TypeOK'
<1> USE PCFacts, StatusConstants, ConstantAssumption
        DEF TypeOK, ControlOK, Control, Callers, Goto, cacheVars, entryVars,
            ioVars, opVars
<1>1. CASE GetLookup(t)
  BY <1>1, GetLookupTyped
<1>2. CASE GetAddr(t)
  BY <1>2 DEF GetAddr, Local
<1>3. CASE GetWait(t)
  BY <1>3 DEF GetWait, Local
<1>4. CASE GetAddr2(t)
  BY <1>4 DEF GetAddr2, Local
<1>5. CASE GetType(t)
  BY <1>5 DEF GetType, Local
<1>6. CASE GetDrop(t)
  BY <1>6 DEF GetDrop, DecRef, Leave, Unref
<1> QED BY <1>1, <1>2, <1>3, <1>4, <1>5, <1>6 DEF GetInCache

\* The steps of treepass_get_free_page and treepass_move_hand keep the types.
LEMMA GetFreePageTyped ==
  ASSUME TypeOK, ControlOK, NEW t \in Threads, GetFreePage(t)
  PROVE  TypeOK'
<1> USE PCFacts, StatusConstants, ConstantAssumption
        DEF TypeOK, ControlOK, Control, Callers, Goto, cacheVars, entryVars,
            ioVars, opVars
<1>1. CASE FpTake(t)
  BY <1>1 DEF FpTake, AllocStatus, FreeStatus, StoreStatus
<1>2. CASE FpMiss(t)
  BY <1>2 DEF FpMiss, Local
<1>3. CASE FpRef(t)
  BY ZenonT(60), <1>3 DEF FpRef, IncRef
<1>4. CASE FpStatus(t)
  BY <1>4 DEF FpStatus, AllocStatus, ReadLoadingStatus, StatusStep,
     StoreStatus
<1>5. CASE FpType(t)
  BY <1>5, FpTypeTyped
<1>6. CASE EvStay(t)
  BY <1>6 DEF EvStay, Local
<1>7. CASE EvRelease(t)
  BY <1>7 DEF EvRelease
<1>8. CASE MoveHand(t)
  BY <1>8 DEF MoveHand
<1> QED BY <1>1, <1>2, <1>3, <1>4, <1>5, <1>6, <1>7, <1>8 DEF GetFreePage

\* The steps of treepass_try_evict keep the types.
LEMMA TryEvictTyped ==
  ASSUME TypeOK, ControlOK, NEW t \in Threads, TryEvict(t)
  PROVE  TypeOK'
<1> USE PCFacts, StatusConstants, ConstantAssumption
        DEF TypeOK, ControlOK, Control, Callers, Goto, cacheVars, entryVars,
            ioVars, opVars
<1>1. CASE EvFast(t)
  BY <1>1 DEF EvFast, CallRead, EvictableStatus
<1>2. CASE EvClaim(t)
  BY <1>2, SMTT(30) DEF EvClaim, Local, SetFlag, StatusStep
<1>3. CASE EvLoad(t)
  BY <1>3 DEF EvLoad, Local
<1>4. CASE EvWl(t)
  BY <1>4 DEF EvWl, SetFlag, StatusStep
<1>5. CASE EvWb(t)
  BY <1>5, EvWbTyped
<1>6. CASE EvDrain(t)
  BY <1>6, EvDrainTyped
<1>7. CASE EvVerify(t)
  BY <1>7 DEF EvVerify, Local, LockedEvictableStatus
<1>8. CASE EvLookup(t)
  BY <1>8, EvLookupTyped
<1>9. CASE EvAddr(t)
  BY <1>9 DEF EvAddr, AddrStep
<1>10. CASE EvType(t)
  BY <1>10 DEF EvType, TypeStep
<1>11. CASE EvFree(t)
  BY <1>11 DEF EvFree, FreeStatus, StatusStep, StoreStatus
<1>12. CASE EvUnwl(t)
  BY <1>12 DEF EvUnwl, ClearFlag, StatusStep
<1>13. CASE EvUnclaim(t)
  BY <1>13 DEF EvUnclaim, ClearFlag, StatusStep
<1>14. CASE EvUnref(t)
  BY <1>14 DEF EvUnref, DecRef, Leave, Unref
<1> QED BY <1>1, <1>2, <1>3, <1>4, <1>5, <1>6, <1>7, <1>8, <1>9, <1>10, <1>11,
   <1>12, <1>13, <1>14 DEF TryEvict

\* The steps of treepass_get_from_disk keep the types.
LEMMA GetFromDiskTyped ==
  ASSUME TypeOK, ControlOK, NEW t \in Threads, GetFromDisk(t)
  PROVE  TypeOK'
<1> USE PCFacts, StatusConstants, ConstantAssumption
        DEF TypeOK, ControlOK, Control, Callers, Goto, cacheVars, entryVars,
            ioVars, opVars
<1>1. CASE LoadCas(t)
  BY <1>1, LoadCasTyped
<1>2. CASE LoadAbortRef(t)
  BY <1>2 DEF LoadAbortRef, DecRef
<1>3. CASE LoadAbortType(t)
  BY <1>3 DEF LoadAbortType, TypeStep
<1>4. CASE LoadAbortFree(t)
  BY <1>4 DEF LoadAbortFree, FreeStatus, Leave, StoreStatus
<1>5. CASE LoadAddr(t)
  BY <1>5 DEF LoadAddr, AddrStep
<1>6. CASE LoadRead(t)
  BY <1>6, LoadReadTyped
<1>7. CASE LoadDone(t)
  BY <1>7 DEF LoadDone, ClearFlag, StatusStep
<1> QED BY <1>1, <1>2, <1>3, <1>4, <1>5, <1>6, <1>7 DEF GetFromDisk

\* The steps of treepass_alloc keep the types.
LEMMA AllocTyped ==
  ASSUME TypeOK, ControlOK, NEW t \in Threads, Alloc(t)
  PROVE  TypeOK'
<1> USE PCFacts, StatusConstants, ConstantAssumption
        DEF TypeOK, ControlOK, Control, Callers, Goto, cacheVars, entryVars,
            ioVars, opVars
<1>1. CASE AllocAddr(t)
  BY <1>1 DEF AllocAddr, AddrStep
<1>2. CASE AllocLookup(t)
  BY <1>2 DEF AllocLookup
<1>3. CASE AllocPin(t)
  BY <1>3, AllocPinTyped
<1> QED BY <1>1, <1>2, <1>3 DEF Alloc

\* The steps of a client that holds the page keep the types.
LEMMA ClientTyped ==
  ASSUME TypeOK, ControlOK, NEW t \in Threads, Client(t)
  PROVE  TypeOK'
<1> USE PCFacts, StatusConstants, ConstantAssumption
        DEF TypeOK, ControlOK, Control, Callers, Goto, cacheVars, entryVars,
            ioVars, opVars
<1>1. CASE Unget(t)
  BY <1>1 DEF Unget, DecRef, Finish, Leave, UnrefFinish
<1>2. CASE TryClaim(t)
  BY <1>2, TryClaimTyped
<1>3. CASE Lock(t)
  BY <1>3 DEF Lock, Local
<1>4. CASE MarkDirty(t)
  BY <1>4 DEF MarkDirty, ClearFlag, StatusStep
<1>5. CASE Modify(t)
  BY <1>5, ModifyTyped
<1>6. CASE Unlock(t)
  BY <1>6 DEF Unlock, ClearFlag, StatusStep
<1>7. CASE Unclaim(t)
  BY <1>7 DEF Unclaim, ClearFlag, StatusStep
<1> QED BY <1>1, <1>2, <1>3, <1>4, <1>5, <1>6, <1>7 DEF Client

\* The steps of treepass_get_write keep the types.
LEMMA GetWriteTyped ==
  ASSUME TypeOK, ControlOK, NEW t \in Threads, GetWrite(t)
  PROVE  TypeOK'
<1> USE PCFacts, StatusConstants, ConstantAssumption
        DEF TypeOK, ControlOK, Control, Callers, Goto, cacheVars, entryVars,
            ioVars, opVars
<1>1. CASE GwSet(t)
  BY <1>1 DEF GwSet, SetFlag, StatusStep
<1>2. CASE GwWriteback(t)
  BY <1>2 DEF GwWriteback
<1>3. CASE GwDrain(t)
  BY <1>3 DEF GwDrain, Local, OthersIn
<1> QED BY <1>1, <1>2, <1>3 DEF GetWrite

\* The steps of treepass_try_page_discard keep the types.
LEMMA TryPageDiscardTyped ==
  ASSUME TypeOK, ControlOK, NEW t \in Threads, TryPageDiscard(t)
  PROVE  TypeOK'
<1> USE PCFacts, StatusConstants, ConstantAssumption
        DEF TypeOK, ControlOK, Control, Callers, Goto, cacheVars, entryVars,
            ioVars, opVars
<1>1. CASE DiscardLookup(t)
  BY <1>1, DiscardLookupTyped
<1>2. CASE DiscardWait(t)
  BY <1>2 DEF DiscardWait, Local
<1>3. CASE DiscardAddr(t)
  BY <1>3 DEF DiscardAddr, Local
<1>4. CASE DiscardDrop(t)
  BY <1>4 DEF DiscardDrop, DecRef, Leave, Unref
<1>5. CASE DiscardClaim(t)
  BY <1>5, SMTT(30) DEF DiscardClaim, Local, SetFlag, StatusStep
<1>6. CASE DiscardUnmap(t)
  BY <1>6 DEF DiscardUnmap
<1>7. CASE DiscardUnaddr(t)
  BY <1>7 DEF DiscardUnaddr, AddrStep
<1>8. CASE DiscardType(t)
  BY <1>8 DEF DiscardType, TypeStep
<1>9. CASE DiscardFree(t)
  BY <1>9 DEF DiscardFree, FreeStatus, StatusStep, StoreStatus
<1>10. CASE DiscardUnpin(t)
  BY <1>10 DEF DiscardUnpin
<1>11. CASE DiscardUnref(t)
  BY <1>11 DEF DiscardUnref, DecRef, Finish, Leave
<1> QED BY <1>1, <1>2, <1>3, <1>4, <1>5, <1>6, <1>7, <1>8, <1>9, <1>10, <1>11
   DEF TryPageDiscard

-----------------------------------------------------------------------------
(* A step of t leaves the other threads where they are.                    *)

Frame(t) == \A u \in Threads \ {t} :
    /\ pc'[u] = pc[u] /\ op'[u] = op[u] /\ addr'[u] = addr[u]
    /\ ent'[u] = ent[u] /\ caller'[u] = caller[u] /\ drain'[u] = drain[u]
    /\ hand'[u] = hand[u]
    /\ \A e \in Entries : u \in refs'[e] <=> u \in refs[e]

\* No step of t writes a local variable, the hand or a reference of another
\* thread.
LEMMA ThreadFrame ==
  ASSUME TypeOK, NEW t \in Threads, Start(t) \/ Step(t)
  PROVE  Frame(t)
<1> USE DEF TypeOK, Frame, Goto, SetFlag, ClearFlag, StoreStatus, IncRef,
            DecRef, Leave, Finish, Begin, Local, StatusStep, Unref,
            UnrefFinish, CallRead, AfterRead, AfterEvicted, TypeStep,
            AfterFreePage, AddrStep, cacheVars, entryVars, ioVars, opVars
<1>1. CASE Start(t)
  BY <1>1, SMTT(60) DEF Start, StartGet, StartAlloc, StartDiscard
<1>2. CASE TryGetRead(t)
  BY <1>2, SMTT(60) DEF TryGetRead, RdTest, RdInc, RdFree, RdWl, RdEvicted,
     RdConflict
<1>3. CASE GetLookup(t) \/ GetInCache(t)
  BY <1>3, SMTT(60) DEF GetInCache, GetLookup, GetAddr, GetWait, GetAddr2,
     GetType, GetDrop
<1>4. CASE GetFreePage(t)
  BY <1>4, SMTT(60) DEF GetFreePage, FpTake, FpMiss, FpRef, FpStatus, FpType,
     EvStay, EvRelease, MoveHand
<1>5. CASE TryEvict(t)
  BY <1>5, SMTT(60) DEF TryEvict, EvFast, EvClaim, EvLoad, EvWl, EvWb,
     EvDrain, EvVerify, EvLookup, EvAddr, EvType, EvFree, EvUnwl, EvUnclaim,
     EvUnref
<1>6. CASE GetFromDisk(t)
  BY <1>6, SMTT(60) DEF GetFromDisk, LoadCas, LoadAbortRef, LoadAbortType,
     LoadAbortFree, LoadAddr, LoadRead, LoadDone
<1>7. CASE Alloc(t)
  BY <1>7, SMTT(60) DEF Alloc, AllocAddr, AllocLookup, AllocPin
<1>8. CASE Client(t)
  BY <1>8, SMTT(60) DEF Client, Unget, TryClaim, Lock, MarkDirty, Modify,
     Unlock, Unclaim
<1>9. CASE GetWrite(t)
  BY <1>9, SMTT(60) DEF GetWrite, GwSet, GwWriteback, GwDrain
<1>10. CASE TryPageDiscard(t)
  BY <1>10, SMTT(60) DEF TryPageDiscard, DiscardLookup, DiscardWait,
     DiscardAddr, DiscardDrop, DiscardClaim, DiscardUnmap, DiscardUnaddr,
     DiscardType, DiscardFree, DiscardUnpin, DiscardUnref
<1> QED BY <1>1, <1>2, <1>3, <1>4, <1>5, <1>6, <1>7, <1>8, <1>9, <1>10 DEF
   Step

\* A step of t takes it to a control point its operation has.
LEMMA ThreadControl ==
  ASSUME TypeOK, ControlOK, NEW t \in Threads, Start(t) \/ Step(t)
  PROVE  Control(t)'
<1> USE ConstantAssumption DEF TypeOK, ControlOK, Control, Operations, Idle,
            EntPCs, PCs, ReadPCs, GetPCs, FreePCs, EvictPCs, LoadPCs,
            AllocPCs, LockPCs, DiscardPCs, ClientPCs, Goto, SetFlag,
            ClearFlag, StoreStatus, IncRef, DecRef, Leave, Finish, Begin,
            Local, StatusStep, Unref, UnrefFinish, CallRead, AfterRead,
            AfterEvicted, TypeStep, AfterFreePage, AddrStep, cacheVars,
            entryVars, ioVars, opVars
<1>1. CASE Start(t)
  BY <1>1, SMTT(60) DEF Start, StartGet, StartAlloc, StartDiscard
<1>2. CASE TryGetRead(t)
  BY <1>2, SMTT(60) DEF TryGetRead, RdTest, RdInc, RdFree, RdWl, RdEvicted,
     RdConflict
<1>3. CASE GetLookup(t) \/ GetInCache(t)
  BY <1>3, SMTT(60) DEF GetInCache, GetLookup, GetAddr, GetWait, GetAddr2,
     GetType, GetDrop
<1>4. CASE GetFreePage(t)
  BY <1>4, SMTT(60) DEF GetFreePage, FpTake, FpMiss, FpRef, FpStatus, FpType,
     EvStay, EvRelease, MoveHand
<1>5. CASE TryEvict(t)
  BY <1>5, SMTT(60) DEF TryEvict, EvFast, EvClaim, EvLoad, EvWl, EvWb,
     EvDrain, EvVerify, EvLookup, EvAddr, EvType, EvFree, EvUnwl, EvUnclaim,
     EvUnref
<1>6. CASE GetFromDisk(t)
  BY <1>6, SMTT(60) DEF GetFromDisk, LoadCas, LoadAbortRef, LoadAbortType,
     LoadAbortFree, LoadAddr, LoadRead, LoadDone
<1>7. CASE Alloc(t)
  BY <1>7, SMTT(60) DEF Alloc, AllocAddr, AllocLookup, AllocPin
<1>8. CASE Client(t)
  BY <1>8, SMTT(60) DEF Client, Unget, TryClaim, Lock, MarkDirty, Modify,
     Unlock, Unclaim
<1>9. CASE GetWrite(t)
  BY <1>9, SMTT(60) DEF GetWrite, GwSet, GwWriteback, GwDrain
<1>10. CASE TryPageDiscard(t)
  BY <1>10, SMTT(60) DEF TryPageDiscard, DiscardLookup, DiscardWait,
     DiscardAddr, DiscardDrop, DiscardClaim, DiscardUnmap, DiscardUnaddr,
     DiscardType, DiscardFree, DiscardUnpin, DiscardUnref
<1> QED BY <1>1, <1>2, <1>3, <1>4, <1>5, <1>6, <1>7, <1>8, <1>9, <1>10 DEF
   Step

-----------------------------------------------------------------------------
(* Layer 1 is inductive.                                                   *)

\* What a step of a thread keeps.
LEMMA ThreadStep ==
  ASSUME TypeOK, ControlOK, NEW t \in Threads, Start(t) \/ Step(t)
  PROVE  TypeOK' /\ Control(t)' /\ Frame(t)
<1>1. TypeOK'
  BY StartTyped, TryGetReadTyped, GetTyped, GetFreePageTyped, TryEvictTyped,
     GetFromDiskTyped, AllocTyped, ClientTyped, GetWriteTyped,
     TryPageDiscardTyped DEF Step
<1> QED BY <1>1, ThreadControl, ThreadFrame

\* A thread that is left where it is keeps its control facts.
LEMMA FrameControl ==
  ASSUME ControlOK, NEW t \in Threads, Frame(t), Control(t)'
  PROVE  ControlOK'
<1> SUFFICES ASSUME NEW u \in Threads PROVE Control(u)'
  BY DEF ControlOK
<1>1. CASE u = t
  BY <1>1
<1>2. CASE u # t
  BY <1>2 DEF ControlOK, Control, Frame
<1> QED BY <1>1, <1>2

\* Writeback touches no thread.
LEMMA WritebackTyped ==
  ASSUME TypeOK, NEW e \in Entries, Writeback(e)
  PROVE  TypeOK' /\ UNCHANGED <<pc, op, addr, ent, caller, drain, hand, refs>>
<1> USE StatusConstants, StatusTyped DEF WbStage, entryVars, ioVars, opVars
<1>1. CASE TrySetWriteback(e)
  BY <1>1 DEF TypeOK, Stages, TrySetWriteback
<1>2. CASE WbIssue(e)
  BY <1>2 DEF TypeOK, Stages, WbIssue
<1>3. CASE WbStore(e)
  <2>1. fresh' \in [Addrs -> SUBSET (Entries \cup {Disk})]
    BY <1>3 DEF TypeOK, WbStore
  <2> QED BY <1>3, <2>1 DEF TypeOK, Stages, WbStore
<1>4. CASE WbClean(e)
  BY <1>4 DEF TypeOK, Stages, WbClean
<1>5. CASE WbDone(e)
  BY <1>5 DEF TypeOK, Stages, WbDone
<1> QED BY <1>1, <1>2, <1>3, <1>4, <1>5 DEF Writeback, WriteCallback

\* Layer 1 is inductive.
LEMMA TypesAndControl ==
  ASSUME TypeOK, ControlOK, [Next]_vars
  PROVE  TypeOK' /\ ControlOK'
<1>1. CASE \E t \in Threads : Start(t) \/ Step(t)
  BY <1>1, ThreadStep, FrameControl
<1>2. CASE \E e \in Entries : Writeback(e)
  BY <1>2, WritebackTyped DEF ControlOK, Control
<1>3. CASE UNCHANGED vars
  BY <1>3 DEF vars, TypeOK, ControlOK, Control
<1> QED BY <1>1, <1>2, <1>3 DEF Next

\* treepass_init establishes it.
LEMMA InitTyped == Init => TypeOK /\ ControlOK
<1> SUFFICES ASSUME Init PROVE TypeOK /\ ControlOK
  OBVIOUS
<1>1. TypeOK
  BY PCFacts, ConstantAssumption
     DEF Init, TypeOK, Callers, Stages, Flags, FreeStatus
<1>2. ControlOK
  BY DEF Init, ControlOK, Control, EntPCs, PCs, ReadPCs, GetPCs, FreePCs,
     EvictPCs, LoadPCs, AllocPCs, LockPCs, DiscardPCs, ClientPCs
<1> QED BY <1>1, <1>2

(* In every reachable state of the cache, for any number of threads, entries*)
(* and addresses, the variables have their types: no treepass_get_free_page,*)
(* treepass_try_get_read or treepass_get_write returns to a caller it does *)
(* not have, and nobody works on an entry that does not exist.             *)
THEOREM TypeCorrect == Spec => []TypeOK
<1>1. Spec => [](TypeOK /\ ControlOK)
  BY InitTyped, TypesAndControl, PTL DEF Spec
<1> QED BY <1>1, PTL

-----------------------------------------------------------------------------
(***************************************************************************)
(* Part 2, the locks.  Layer 2 of the invariant (batches, references, users*)
(* of an address), then layer 3, the locks, which                          *)
(* is a set of statements of the form "while P(t) holds, the entry of t is *)
(* such and such".  A step can break one in two ways: P becomes true of the*)
(* thread that steps (LearnStep), or the entry is written while P holds of *)
(* another thread (ExclusiveStep: only a thread that is alone on the entry *)
(* writes it).  Every action is an instance of the two, except taking a    *)
(* free entry (FpTake).                                                    *)
(***************************************************************************)

-----------------------------------------------------------------------------
(* Layer 2: batches, references, users of an address.                      *)

\* t keeps its batch, gives it up, or takes one nobody owns.
HandKept(t) == \/ hand'[t] = hand[t] \/ hand'[t] = NoBatch
               \/ \A u \in Threads : hand[u] # hand'[t]

\* treepass_move_hand takes a batch whose batch_busy is clear.
LEMMA ThreadHandKept ==
  ASSUME TypeOK, NEW t \in Threads, Start(t) \/ Step(t)
  PROVE  HandKept(t)
<1> USE DEF TypeOK, HandKept, Goto, SetFlag, ClearFlag, StoreStatus, IncRef,
            DecRef, Leave, Finish, Begin, Local, StatusStep, Unref,
            UnrefFinish, CallRead, AfterRead, AfterEvicted, TypeStep,
            AfterFreePage, AddrStep, cacheVars, entryVars, ioVars, opVars
<1>1. CASE Start(t)
  BY <1>1, SMTT(60) DEF Start, StartGet, StartAlloc, StartDiscard
<1>2. CASE TryGetRead(t)
  BY <1>2, SMTT(60) DEF TryGetRead, RdTest, RdInc, RdFree, RdWl, RdEvicted,
     RdConflict
<1>3. CASE GetLookup(t) \/ GetInCache(t)
  BY <1>3, SMTT(60) DEF GetInCache, GetLookup, GetAddr, GetWait, GetAddr2,
     GetType, GetDrop
<1>4. CASE GetFreePage(t)
  BY <1>4, SMTT(60) DEF GetFreePage, FpTake, FpMiss, FpRef, FpStatus, FpType,
     EvStay, EvRelease, MoveHand
<1>5. CASE TryEvict(t)
  BY <1>5, SMTT(60) DEF TryEvict, EvFast, EvClaim, EvLoad, EvWl, EvWb,
     EvDrain, EvVerify, EvLookup, EvAddr, EvType, EvFree, EvUnwl, EvUnclaim,
     EvUnref
<1>6. CASE GetFromDisk(t)
  BY <1>6, SMTT(60) DEF GetFromDisk, LoadCas, LoadAbortRef, LoadAbortType,
     LoadAbortFree, LoadAddr, LoadRead, LoadDone
<1>7. CASE Alloc(t)
  BY <1>7, SMTT(60) DEF Alloc, AllocAddr, AllocLookup, AllocPin
<1>8. CASE Client(t)
  BY <1>8, SMTT(60) DEF Client, Unget, TryClaim, Lock, MarkDirty, Modify,
     Unlock, Unclaim
<1>9. CASE GetWrite(t)
  BY <1>9, SMTT(60) DEF GetWrite, GwSet, GwWriteback, GwDrain
<1>10. CASE TryPageDiscard(t)
  BY <1>10, SMTT(60) DEF TryPageDiscard, DiscardLookup, DiscardWait,
     DiscardAddr, DiscardDrop, DiscardClaim, DiscardUnmap, DiscardUnaddr,
     DiscardType, DiscardFree, DiscardUnpin, DiscardUnref
<1> QED BY <1>1, <1>2, <1>3, <1>4, <1>5, <1>6, <1>7, <1>8, <1>9, <1>10 DEF
   Step

\* t evicts and fills entries of the batch it owns.
LEMMA ThreadOwnHand ==
  ASSUME TypeOK, ControlOK, HandsOK, NEW t \in Threads, Start(t) \/ Step(t)
  PROVE  OwnHand(t)'
<1> USE ConstantAssumption DEF TypeOK, ControlOK, Control, HandsOK, OwnHand,
            OnHand, EntPCs, PCs, ReadPCs, GetPCs, FreePCs, EvictPCs, LoadPCs,
            AllocPCs, LockPCs, DiscardPCs, ClientPCs, Goto, SetFlag,
            ClearFlag, StoreStatus, IncRef, DecRef, Leave, Finish, Begin,
            Local, StatusStep, Unref, UnrefFinish, CallRead, AfterRead,
            AfterEvicted, TypeStep, AfterFreePage, AddrStep, cacheVars,
            entryVars, ioVars, opVars
<1>1. CASE Start(t)
  BY <1>1, SMTT(60) DEF Start, StartGet, StartAlloc, StartDiscard
<1>2. CASE TryGetRead(t)
  BY <1>2, SMTT(60) DEF TryGetRead, RdTest, RdInc, RdFree, RdWl, RdEvicted,
     RdConflict
<1>3. CASE GetLookup(t) \/ GetInCache(t)
  BY <1>3, SMTT(60) DEF GetInCache, GetLookup, GetAddr, GetWait, GetAddr2,
     GetType, GetDrop
<1>4. CASE GetFreePage(t)
  BY <1>4, SMTT(60) DEF GetFreePage, FpTake, FpMiss, FpRef, FpStatus, FpType,
     EvStay, EvRelease, MoveHand
<1>5. CASE TryEvict(t)
  BY <1>5, SMTT(60) DEF TryEvict, EvFast, EvClaim, EvLoad, EvWl, EvWb,
     EvDrain, EvVerify, EvLookup, EvAddr, EvType, EvFree, EvUnwl, EvUnclaim,
     EvUnref
<1>6. CASE GetFromDisk(t)
  BY <1>6, SMTT(60) DEF GetFromDisk, LoadCas, LoadAbortRef, LoadAbortType,
     LoadAbortFree, LoadAddr, LoadRead, LoadDone
<1>7. CASE Alloc(t)
  BY <1>7, SMTT(60) DEF Alloc, AllocAddr, AllocLookup, AllocPin
<1>8. CASE Client(t)
  BY <1>8, SMTT(60) DEF Client, Unget, TryClaim, Lock, MarkDirty, Modify,
     Unlock, Unclaim
<1>9. CASE GetWrite(t)
  BY <1>9, SMTT(60) DEF GetWrite, GwSet, GwWriteback, GwDrain
<1>10. CASE TryPageDiscard(t)
  BY <1>10, SMTT(60) DEF TryPageDiscard, DiscardLookup, DiscardWait,
     DiscardAddr, DiscardDrop, DiscardClaim, DiscardUnmap, DiscardUnaddr,
     DiscardType, DiscardFree, DiscardUnpin, DiscardUnref
<1> QED BY <1>1, <1>2, <1>3, <1>4, <1>5, <1>6, <1>7, <1>8, <1>9, <1>10 DEF
   Step

\* t is counted in the entry it works on.
LEMMA ThreadCounted ==
  ASSUME TypeOK, ControlOK, RefsOK, NEW t \in Threads, Start(t) \/ Step(t)
  PROVE  Counted(t)'
<1> USE ConstantAssumption DEF TypeOK, ControlOK, Control, RefsOK, Counted,
            RefPCs, EntPCs, PCs, ReadPCs, GetPCs, FreePCs, EvictPCs, LoadPCs,
            AllocPCs, LockPCs, DiscardPCs, ClientPCs, Goto, SetFlag,
            ClearFlag, StoreStatus, IncRef, DecRef, Leave, Finish, Begin,
            Local, StatusStep, Unref, UnrefFinish, CallRead, AfterRead,
            AfterEvicted, TypeStep, AfterFreePage, AddrStep, cacheVars,
            entryVars, ioVars, opVars
<1>1. CASE Start(t)
  BY <1>1, SMTT(60) DEF Start, StartGet, StartAlloc, StartDiscard
<1>2. CASE TryGetRead(t)
  BY <1>2, SMTT(60) DEF TryGetRead, RdTest, RdInc, RdFree, RdWl, RdEvicted,
     RdConflict
<1>3. CASE GetLookup(t) \/ GetInCache(t)
  BY <1>3, SMTT(60) DEF GetInCache, GetLookup, GetAddr, GetWait, GetAddr2,
     GetType, GetDrop
<1>4. CASE GetFreePage(t)
  BY <1>4, SMTT(60) DEF GetFreePage, FpTake, FpMiss, FpRef, FpStatus, FpType,
     EvStay, EvRelease, MoveHand
<1>5. CASE TryEvict(t)
  BY <1>5, SMTT(60) DEF TryEvict, EvFast, EvClaim, EvLoad, EvWl, EvWb,
     EvDrain, EvVerify, EvLookup, EvAddr, EvType, EvFree, EvUnwl, EvUnclaim,
     EvUnref
<1>6. CASE GetFromDisk(t)
  BY <1>6, SMTT(60) DEF GetFromDisk, LoadCas, LoadAbortRef, LoadAbortType,
     LoadAbortFree, LoadAddr, LoadRead, LoadDone
<1>7. CASE Alloc(t)
  BY <1>7, SMTT(60) DEF Alloc, AllocAddr, AllocLookup, AllocPin
<1>8. CASE Client(t)
  BY <1>8, SMTT(60) DEF Client, Unget, TryClaim, Lock, MarkDirty, Modify,
     Unlock, Unclaim
<1>9. CASE GetWrite(t)
  BY <1>9, SMTT(60) DEF GetWrite, GwSet, GwWriteback, GwDrain
<1>10. CASE TryPageDiscard(t)
  BY <1>10, SMTT(60) DEF TryPageDiscard, DiscardLookup, DiscardWait,
     DiscardAddr, DiscardDrop, DiscardClaim, DiscardUnmap, DiscardUnaddr,
     DiscardType, DiscardFree, DiscardUnpin, DiscardUnref
<1> QED BY <1>1, <1>2, <1>3, <1>4, <1>5, <1>6, <1>7, <1>8, <1>9, <1>10 DEF
   Step

\* Batches keep having one owner.
LEMMA HandsFrame ==
  ASSUME HandsOK, NEW t \in Threads, Frame(t), HandKept(t), OwnHand(t)'
  PROVE  HandsOK'
<1>1. \A u \in Threads \ {t} : hand'[u] = hand[u] /\ OwnHand(u)'
  BY DEF Frame, HandsOK, OwnHand, OnHand
<1> QED BY <1>1 DEF HandsOK, HandKept

\* The references of the other threads stay.
LEMMA RefsFrame ==
  ASSUME ControlOK, RefsOK, NEW t \in Threads, Frame(t), Counted(t)'
  PROVE  RefsOK'
<1> SUFFICES ASSUME NEW u \in Threads \ {t}, pc[u] \in RefPCs
             PROVE  u \in refs'[ent[u]]
  BY DEF RefsOK, Counted, Frame
<1>1. ent[u] \in Entries
  BY DEF ControlOK, Control, RefPCs
<1> QED BY <1>1 DEF Frame, RefsOK, Counted

\* t goes on with its operation, or ends it.
UserKept(t) ==
    /\ UNCHANGED atype
    /\ \/ /\ addr'[t] = addr[t] /\ op'[t] = op[t] /\ pc'[t] # "idle"
          /\ Sole(t)' => Sole(t)
       \/ addr'[t] = NoAddr /\ op'[t] = "none" /\ pc'[t] = "idle"

\* Every step does, except the first of an operation and the last of a discard.
LEMMA ThreadUserKept ==
  ASSUME TypeOK, ControlOK, NEW t \in Threads, Step(t),
         ~ DiscardLookup(t), ~ DiscardUnref(t)
  PROVE  UserKept(t)
<1> USE DEF TypeOK, ControlOK, Control, UserKept, Sole, EntPCs, PCs, ReadPCs,
            GetPCs, FreePCs, EvictPCs, LoadPCs, AllocPCs, LockPCs, DiscardPCs,
            ClientPCs, Goto, SetFlag, ClearFlag, StoreStatus, IncRef, DecRef,
            Leave, Finish, Begin, Local, StatusStep, Unref, UnrefFinish,
            CallRead, AfterRead, AfterEvicted, TypeStep, AfterFreePage,
            AddrStep, cacheVars, entryVars, ioVars, opVars
<1>1. CASE TryGetRead(t)
  BY <1>1, SMTT(60) DEF TryGetRead, RdTest, RdInc, RdFree, RdWl, RdEvicted,
     RdConflict
<1>2. CASE GetLookup(t) \/ GetInCache(t)
  BY <1>2, SMTT(60) DEF GetInCache, GetLookup, GetAddr, GetWait, GetAddr2,
     GetType, GetDrop
<1>3. CASE GetFreePage(t)
  BY <1>3, SMTT(60) DEF GetFreePage, FpTake, FpMiss, FpRef, FpStatus, FpType,
     EvStay, EvRelease, MoveHand
<1>4. CASE TryEvict(t)
  BY <1>4, SMTT(60) DEF TryEvict, EvFast, EvClaim, EvLoad, EvWl, EvWb,
     EvDrain, EvVerify, EvLookup, EvAddr, EvType, EvFree, EvUnwl, EvUnclaim,
     EvUnref
<1>5. CASE GetFromDisk(t)
  BY <1>5, SMTT(60) DEF GetFromDisk, LoadCas, LoadAbortRef, LoadAbortType,
     LoadAbortFree, LoadAddr, LoadRead, LoadDone
<1>6. CASE Alloc(t)
  BY <1>6, SMTT(60) DEF Alloc, AllocAddr, AllocLookup, AllocPin
<1>7. CASE Client(t)
  BY <1>7, SMTT(60) DEF Client, Unget, TryClaim, Lock, MarkDirty, Modify,
     Unlock, Unclaim
<1>8. CASE GetWrite(t)
  BY <1>8, SMTT(60) DEF GetWrite, GwSet, GwWriteback, GwDrain
<1>9. CASE TryPageDiscard(t)
  BY <1>9, SMTT(60) DEF TryPageDiscard, DiscardWait,
     DiscardAddr, DiscardDrop, DiscardClaim, DiscardUnmap, DiscardUnaddr,
     DiscardType, DiscardFree, DiscardUnpin
<1> QED BY <1>1, <1>2, <1>3, <1>4, <1>5, <1>6, <1>7, <1>8, <1>9 DEF Step

\* What the rest of layer 2 needs to know of the other threads.
LEMMA UsersOthers ==
  ASSUME NEW t \in Threads, Frame(t), NEW u \in Threads \ {t}
  PROVE  /\ pc'[u] = pc[u] /\ addr'[u] = addr[u] /\ op'[u] = op[u]
         /\ Sole(u)' <=> Sole(u)
BY DEF Frame, Sole

\* A thread that goes on with its operation, or ends it, keeps UsersOK.
LEMMA UsersFrame ==
  ASSUME UsersOK, NEW t \in Threads, Frame(t), UserKept(t)
  PROVE  UsersOK'
BY UsersOthers DEF UsersOK, UserKept

\* The guarantees of the allocator let an operation start where nobody creates
\* or discards the page.
LEMMA StartUsers ==
  ASSUME TypeOK, UsersOK, NEW t \in Threads, Frame(t), Start(t)
  PROVE  UsersOK'
<1>1. CASE StartGet(t)
  <2> PICK a \in Addrs, o \in {"get", "tryget", "write"} :
         /\ Usable(a) /\ op'[t] = o /\ addr'[t] = a /\ pc'[t] = "g_lookup"
         /\ UNCHANGED atype
    BY <1>1 DEF StartGet, Begin, Goto, TypeOK
  <2>1. ~ Sole(t)'
    BY DEF Sole
  <2>2. \A u \in Threads \ {t} : Sole(u) => addr[u] # a
    BY DEF Usable, Sole
  <2> QED BY <2>1, <2>2, UsersOthers DEF UsersOK, Usable
<1>2. CASE StartAlloc(t)
  <2> PICK a \in Addrs, ty \in Types :
         /\ atype[a] = NoType /\ atype' = [atype EXCEPT ![a] = ty]
         /\ Begin(t, "alloc", a, "fp")
    BY <1>2, Zenon DEF StartAlloc
  <2>0. op'[t] = "alloc" /\ addr'[t] = a /\ pc'[t] = "fp"
    BY DEF Begin, Goto, TypeOK
  <2>1. \A u \in Threads \ {t} : addr[u] # a
    BY ConstantAssumption DEF UsersOK
  <2>2. \A u \in Threads \ {t} :
           addr[u] # NoAddr => atype'[addr[u]] = atype[addr[u]]
    BY <2>1 DEF TypeOK
  <2>3. atype'[a] # NoType
    BY ConstantAssumption DEF TypeOK
  <2> QED BY <2>0, <2>1, <2>2, <2>3, UsersOthers, ConstantAssumption
        DEF UsersOK
<1>3. CASE StartDiscard(t)
  <2> PICK a \in Addrs :
         /\ atype[a] # NoType /\ UNCHANGED atype
         /\ op'[t] = "discard" /\ addr'[t] = a /\ pc'[t] = "d_lookup"
         /\ \A u \in Threads : addr[u] # a
    BY <1>3 DEF StartDiscard, Begin, Goto, TypeOK
  <2> QED BY UsersOthers DEF UsersOK
<1> QED BY <1>1, <1>2, <1>3 DEF Start

\* mini_dealloc_extent takes the address away when nobody else uses it.
LEMMA DiscardEndUsers ==
  ASSUME TypeOK, UsersOK, NEW t \in Threads, Frame(t), op[t] = "discard",
         addr[t] \in Addrs, Finish(t),
         atype' = [atype EXCEPT ![addr[t]] = NoType]
  PROVE  UsersOK'
<1>1. \A u \in Threads \ {t} : addr[u] # addr[t]
  BY ConstantAssumption DEF Sole, UsersOK
<1>2. pc'[t] = "idle" /\ op'[t] = "none" /\ addr'[t] = NoAddr
  BY DEF Finish, Leave, Goto, TypeOK
<1>3. \A u \in Threads \ {t} :
         addr[u] # NoAddr => atype'[addr[u]] = atype[addr[u]]
  BY <1>1 DEF TypeOK
<1> QED BY <1>1, <1>2, <1>3, UsersOthers, ConstantAssumption DEF UsersOK, Sole

\* Layer 2 is kept by every step of a thread.
LEMMA ThreadLayer2 ==
  ASSUME TypeOK, ControlOK, HandsOK, RefsOK, UsersOK, NEW t \in Threads,
         Frame(t), Start(t) \/ Step(t)
  PROVE  HandsOK' /\ RefsOK' /\ UsersOK'
<1>1. HandsOK' /\ RefsOK'
  BY ThreadHandKept, ThreadOwnHand, ThreadCounted, HandsFrame, RefsFrame
<1>2. CASE Start(t)
  BY <1>1, <1>2, StartUsers
<1>3. CASE DiscardLookup(t) \/ DiscardUnref(t)
  <2>1. op[t] = "discard" /\ addr[t] \in Addrs
    BY <1>3 DEF DiscardLookup, DiscardUnref, ControlOK, Control, DiscardPCs
  <2>2. CASE CallRead(t, lookup[addr[t]], "discard")
    <3>1. UserKept(t)
      BY <2>1, <2>2 DEF CallRead, Goto, cacheVars, opVars, UserKept, Sole,
                        TypeOK, ClientPCs
    <3> QED BY <1>1, <3>1, UsersFrame
  <2>3. CASE Finish(t) /\ atype' = [atype EXCEPT ![addr[t]] = NoType]
    BY <1>1, <2>1, <2>3, DiscardEndUsers
  <2> QED BY <1>3, <2>2, <2>3 DEF DiscardLookup, DiscardUnref
<1>4. CASE Step(t) /\ ~ DiscardLookup(t) /\ ~ DiscardUnref(t)
  BY <1>1, <1>4, ThreadUserKept, UsersFrame
<1> QED BY <1>2, <1>3, <1>4

-----------------------------------------------------------------------------
(* Layer 3: the vocabulary.                                                *)

\* Layer 3 of the inductive invariant
Locking == ClaimsOK /\ AddressesOK /\ LoadsOK /\ DrainsOK

\* one of the predicates of the invariant says something about t and ent[t]
Involved(t) == \/ Owns(t) \/ Locks(t) \/ Loads(t) \/ Fills(t) \/ Blank(t)
               \/ Confirmed(t) \/ Loaded(t) \/ Admitted(t) \/ Creates(t)
               \/ \E s \in Slots : Drained(t, s)

\* a step of t makes no predicate true that is not in G
Gains(t, G) ==
    /\ Owns(t)' => Owns(t) \/ "Owns" \in G
    /\ Locks(t)' => Locks(t) \/ "Locks" \in G
    /\ Loads(t)' => Loads(t) \/ "Loads" \in G
    /\ Fills(t)' => Fills(t) \/ "Fills" \in G
    /\ Blank(t)' => Blank(t) \/ "Blank" \in G
    /\ Confirmed(t)' => Confirmed(t) \/ "Confirmed" \in G
    /\ Loaded(t)' => Loaded(t) \/ "Loaded" \in G
    /\ Admitted(t)' => Admitted(t) \/ "Admitted" \in G
    /\ Creates(t)' => Creates(t) \/ "Creates" \in G
    /\ \A s \in Slots : Drained(t, s)' => Drained(t, s) \/ "Drained" \in G
    /\ Involved(t)' => ent'[t] = ent[t] /\ addr'[t] = addr[t]

\* A step of t makes nothing true of another thread.
LEMMA OtherGains ==
  ASSUME NEW t \in Threads, Frame(t), NEW x \in Threads, x # t
  PROVE  Gains(x, {})
BY DEF Frame, Gains, Involved, Owns, Locks, Loads, Fills, Blank, Confirmed,
   Loaded,
       Admitted, Drained, Creates

\* All threads at once, for a step of t
Kept(t, G) == \A x \in Threads : Gains(x, IF x = t THEN G ELSE {})

\* So a step is described by what becomes true of t.
LEMMA StepKept ==
  ASSUME NEW t \in Threads, NEW G, Frame(t), Gains(t, G)
  PROVE  Kept(t, G)
BY OtherGains DEF Kept

\* How the predicates are related.
LEMMA PredicateFacts ==
  ASSUME ControlOK, NEW x \in Threads
  PROVE  /\ Locks(x) => Owns(x)
         /\ \A s : Drained(x, s) => Owns(x) /\ Locks(x)
         /\ Creates(x) => Owns(x) /\ Locks(x)
         /\ Loaded(x) => Confirmed(x)
         /\ Confirmed(x) => Admitted(x) \/ Loads(x) \/ Owns(x)
         /\ Confirmed(x) => addr[x] \in Addrs
         /\ Fills(x) \/ Blank(x) => Owns(x) \/ Loads(x)
         /\ Loads(x) => Blank(x) \/ Confirmed(x)
         /\ Loads(x) => OnHand(x) /\ ~ Owns(x)
         /\ Admitted(x) => pc[x] \in RefPCs
         /\ Involved(x) => ent[x] \in Entries
<1> USE DEF ControlOK, Control, RefPCs, OnHand, Owns, Locks, Loads, Fills,
            Blank, Confirmed, Loaded, Admitted, Drained, Creates, HoldPCs,
            UnmapPCs, EntPCs, PCs, ReadPCs, GetPCs, FreePCs, EvictPCs,
            LoadPCs, AllocPCs, LockPCs, DiscardPCs, ClientPCs
<1>1. Locks(x) => Owns(x)
  OBVIOUS
<1>2. \A s : Drained(x, s) => Owns(x) /\ Locks(x)
  OBVIOUS
<1>3. Creates(x) => Owns(x) /\ Locks(x)
  OBVIOUS
<1>4. Loaded(x) => Confirmed(x)
  OBVIOUS
<1>5. Confirmed(x) => Admitted(x) \/ Loads(x) \/ Owns(x)
  OBVIOUS
<1>6. Confirmed(x) => addr[x] \in Addrs
  OBVIOUS
<1>7. Fills(x) \/ Blank(x) => Owns(x) \/ Loads(x)
  OBVIOUS
<1>8. Loads(x) => Blank(x) \/ Confirmed(x)
  OBVIOUS
<1>9. Loads(x) => OnHand(x) /\ ~ Owns(x)
  OBVIOUS
<1>10. Admitted(x) => pc[x] \in RefPCs
  OBVIOUS
<1>11. Involved(x) => ent[x] \in Entries
  BY DEF Involved
<1> QED BY <1>1, <1>2, <1>3, <1>4, <1>5, <1>6, <1>7, <1>8, <1>9, <1>10, <1>11

\* Two threads that work in batches they own are in different entries.
LEMMA LoaderAlone ==
  ASSUME TypeOK, ControlOK, HandsOK, NEW t \in Threads, NEW u \in Threads,
         Loads(t), OnHand(u), ent[u] = ent[t]
  PROVE  t = u
<1>1. OnHand(t) /\ ent[t] \in Entries BY PredicateFacts DEF Involved
<1>2. BatchOf[ent[t]] = hand[t] /\ BatchOf[ent[t]] = hand[u]
  BY <1>1 DEF HandsOK, OwnHand
<1>3. BatchOf[ent[t]] # NoBatch BY <1>1, ConstantAssumption
<1> QED BY <1>2, <1>3 DEF HandsOK

\* the flags other than CLEAN and WRITEBACK, and the addresses, stay
SameWords == /\ UNCHANGED diskaddr
             /\ \A e \in Entries :
                  \A f \in {"FREE", "LOADING", "WRITELOCKED", "CLAIMED"} :
                    f \in status'[e] <=> f \in status[e]

\* No other thread owns or loads the entry t works on.
Alone(t) == \A u \in Threads \ {t} : Owns(u) \/ Loads(u) => ent[u] # ent[t]

\* After a step of t its entry is what the predicates that hold of t say.
Justified(t) ==
    /\ Owns(t)' => "CLAIMED" \in status'[ent[t]]
    /\ Locks(t)' => "WRITELOCKED" \in status'[ent[t]]
    /\ Loads(t)' => "LOADING" \in status'[ent[t]]
    /\ Loads(t)' \/ Fills(t)' \/ diskaddr'[ent[t]] # NoAddr
          => "FREE" \notin status'[ent[t]]
    /\ Blank(t)' => diskaddr'[ent[t]] = NoAddr
    /\ Confirmed(t)' => diskaddr'[ent[t]] = addr[t]
    /\ Loads(t)' => \/ Loads(t)
                     \/ \A u \in Threads \ {t} : Loaded(u) => ent[u] # ent[t]

\* The owner of a claim is alone.
LEMMA OwnerAlone ==
  ASSUME ControlOK, Locking, NEW t \in Threads, Owns(t)
  PROVE  Alone(t)
BY DEF Locking, ClaimsOK, LoadsOK, Alone

\* A thread that loads an entry is alone.
LEMMA LoaderIsAlone ==
  ASSUME TypeOK, ControlOK, HandsOK, Locking, NEW t \in Threads, Loads(t)
  PROVE  Alone(t)
<1>1. \A u \in Threads : Loads(u) => OnHand(u) BY PredicateFacts
<1> QED BY <1>1, LoaderAlone DEF Locking, LoadsOK, Alone

-----------------------------------------------------------------------------
(* Layer 3: the two kinds of steps.                                        *)

\* A step that writes no lock flag and no address, where t may learn something
\* about its entry: that it is admitted as a reader, that the entry has its
\* address, is loaded or is blank, or that a slot has no reader.
LEMMA LearnStep ==
  ASSUME ControlOK, Locking, NEW t \in Threads, Frame(t), SameWords,
         Gains(t, {"Admitted", "Confirmed", "Loaded", "Blank", "Drained"}),
         Admitted(t)' =>
            \/ Admitted(t)
            \/ \A u \in Threads \ {t} : Locks(u) => ent[u] # ent[t],
         Confirmed(t)' => Confirmed(t) \/ diskaddr[ent[t]] = addr[t],
         Loaded(t)' =>
            Loaded(t) \/ \A u \in Threads \ {t} : Loads(u) => ent[u] # ent[t],
         Blank(t)' => Blank(t) \/ diskaddr[ent[t]] = NoAddr,
         \A u \in Threads \ {t} :
            Drained(t, SlotOf[u])' =>
               Drained(t, SlotOf[u]) \/ ~ Admitted(u) \/ ent[u] # ent[t]
  PROVE  Locking'
<1> DEFINE G == {"Admitted", "Confirmed", "Loaded", "Blank", "Drained"}
<1>1. Kept(t, G)
  BY StepKept
<1>2. \A x \in Threads : Involved(x) => ent[x] \in Entries
  BY PredicateFacts
<1>3. \A u \in Threads : /\ Locks(u) => Owns(u)
         /\ Creates(u) => Locks(u)
         /\ \A s : Drained(u, s) => Locks(u)
  BY PredicateFacts
<1>0. \A u \in Threads : SlotOf[u] \in Slots BY ConstantAssumption
<1>4. ClaimsOK'
  BY <1>1, <1>2, <1>3 DEF ClaimsOK, Locking, Kept, Gains, Involved, SameWords
<1>5. AddressesOK'
  BY <1>1, <1>2, <1>3 DEF AddressesOK, Locking, Kept, Gains, Involved,
     SameWords
<1>6. LoadsOK'
  BY <1>1, <1>2, <1>3 DEF LoadsOK, Locking, Kept, Gains, Involved, SameWords
<1>7. DrainsOK'
  <2>1. ASSUME NEW x \in Threads, NEW u \in Threads, x # u,
               Drained(x, SlotOf[u])', Admitted(u)'
        PROVE  ent'[u] # ent'[x]
    <3>1. Gains(x, IF x = t THEN G ELSE {})
       BY <1>1 DEF Kept
    <3>2. Gains(u, IF u = t THEN G ELSE {})
       BY <1>1 DEF Kept
    <3>3. ent'[u] = ent[u] /\ ent'[x] = ent[x]
       BY <1>0, <2>1, <3>1, <3>2 DEF Gains, Involved
    <3>4. CASE x = t
      BY <1>0, <2>1, <3>1, <3>2, <3>3, <3>4 DEF Gains, DrainsOK, Locking
    <3>5. CASE x # t
      <4>0. Drained(x, SlotOf[u]) BY <1>0, <2>1, <3>1, <3>5 DEF Gains
      <4>1. Drained(x, SlotOf[u]) /\ Locks(x) BY <4>0, PredicateFacts
      <4>2. CASE Admitted(u) BY <2>1, <4>1, <4>2, <3>3 DEF DrainsOK, Locking
      <4>3. CASE ~ Admitted(u) BY <2>1, <4>1, <4>3, <3>2, <3>3, <3>5 DEF Gains
      <4> QED BY <4>2, <4>3
    <3> QED BY <3>4, <3>5
  <2>2. ASSUME NEW x \in Threads, NEW u \in Threads, x # u,
               Creates(x)', Admitted(u)', ent'[u] = ent'[x]
        PROVE  addr'[u] # addr'[x]
    BY <2>2, <1>1, <1>3 DEF DrainsOK, Locking, Kept, Gains, Involved
  <2> QED BY <2>1, <2>2 DEF DrainsOK
<1> QED BY <1>4, <1>5, <1>6, <1>7 DEF Locking

\* A step of t that changes no lock flag and makes no predicate true.
LEMMA QuietStep ==
  ASSUME ControlOK, Locking, NEW t \in Threads, Frame(t), SameWords,
         Gains(t, {})
  PROVE  Locking'
<1>1. Gains(t, {"Admitted", "Confirmed", "Loaded", "Blank", "Drained"})
  BY DEF Gains
<1>2. /\ Admitted(t)' => Admitted(t)
      /\ Confirmed(t)' => Confirmed(t)
      /\ Loaded(t)' => Loaded(t)
      /\ Blank(t)' => Blank(t)
      /\ \A u \in Threads \ {t} :
            Drained(t, SlotOf[u])' => Drained(t, SlotOf[u])
  BY ConstantAssumption DEF Gains
<1> QED BY <1>1, <1>2, LearnStep

\* The same, when it is known which predicates can become true.
LEMMA GainStep ==
  ASSUME ControlOK, Locking, NEW t \in Threads, Frame(t), SameWords,
         NEW G \in SUBSET {"Admitted", "Confirmed", "Loaded", "Blank",
                            "Drained"},
         Gains(t, G),
         "Admitted" \in G /\ Admitted(t)' =>
            \/ Admitted(t)
            \/ \A u \in Threads \ {t} : Locks(u) => ent[u] # ent[t],
         "Confirmed" \in G /\ Confirmed(t)' => diskaddr[ent[t]] = addr[t],
         "Loaded" \in G /\ Loaded(t)' =>
            Loaded(t) \/ \A u \in Threads \ {t} : Loads(u) => ent[u] # ent[t],
         "Blank" \in G /\ Blank(t)' => diskaddr[ent[t]] = NoAddr,
         "Drained" \in G => \A u \in Threads \ {t} :
            Drained(t, SlotOf[u])' /\ Admitted(u) /\ ent[u] = ent[t] =>
               Drained(t, SlotOf[u])
  PROVE  Locking'
<1>1. Gains(t, {"Admitted", "Confirmed", "Loaded", "Blank", "Drained"})
  BY DEF Gains
<1>2. /\ Admitted(t)' =>
            Admitted(t) \/ \A u \in Threads \ {t} : Locks(u) => ent[u] # ent[t]
      /\ Confirmed(t)' => Confirmed(t) \/ diskaddr[ent[t]] = addr[t]
      /\ Loaded(t)' =>
            Loaded(t) \/ \A u \in Threads \ {t} : Loads(u) => ent[u] # ent[t]
      /\ Blank(t)' => Blank(t) \/ diskaddr[ent[t]] = NoAddr
  BY DEF Gains
<1>3. \A u \in Threads \ {t} :
            Drained(t, SlotOf[u])' =>
               Drained(t, SlotOf[u]) \/ ~ Admitted(u) \/ ent[u] # ent[t]
  BY ConstantAssumption DEF Gains
<1> QED BY <1>1, <1>2, <1>3, LearnStep

\* A step of a thread that is alone on its entry and writes it.
LEMMA ExclusiveStep ==
  ASSUME TypeOK, ControlOK, Locking, NEW t \in Threads, Frame(t), Alone(t),
         ent[t] \in Entries,
         \A e \in Entries \ {ent[t]} :
            status'[e] = status[e] /\ diskaddr'[e] = diskaddr[e],
         NEW G, Gains(t, G), {"Fills", "Creates", "Drained"} \cap G = {},
         Justified(t),
         diskaddr'[ent[t]] = diskaddr[ent[t]]
           \/ \A u \in Threads \ {t} : Confirmed(u) => ent[u] # ent[t]
  PROVE  Locking'
<1> DEFINE e == ent[t]
           At(x) == /\ ent'[x] = ent[x] /\ ent[x] \in Entries
                    /\ addr'[x] = addr[x]
<1>1. \A x \in Threads \ {t} : Gains(x, {})
  BY OtherGains
<1>2. \A x \in Threads : Involved(x) => ent[x] \in Entries
  BY PredicateFacts
<1>3. \A u \in Threads :
         /\ Locks(u) => Owns(u)
         /\ Fills(u) \/ Blank(u) => Owns(u) \/ Loads(u)
  BY PredicateFacts
<1>4. \A u \in Threads :
         /\ Creates(u) => Owns(u)
         /\ \A s \in Slots : Drained(u, s) => Owns(u)
  BY PredicateFacts
<1>5. \A u \in Threads : SlotOf[u] \in Slots BY ConstantAssumption
<1>6. \A x \in Threads \ {t} :
         /\ Owns(x)' => Owns(x) /\ At(x) /\ ent[x] # e
         /\ Loads(x)' => Loads(x) /\ At(x) /\ ent[x] # e
         /\ Locks(x)' => Locks(x) /\ At(x) /\ ent[x] # e
         /\ Fills(x)' => Fills(x) /\ At(x) /\ ent[x] # e
         /\ Blank(x)' => Blank(x) /\ At(x) /\ ent[x] # e
  BY <1>1, <1>2, <1>3 DEF Gains, Involved, Alone
<1>7. \A x \in Threads \ {t} :
         /\ Confirmed(x)' => Confirmed(x) /\ At(x)
         /\ Loaded(x)' => Loaded(x) /\ At(x)
         /\ Admitted(x)' => Admitted(x) /\ At(x)
         /\ Creates(x)' => Creates(x) /\ At(x) /\ ent[x] # e
         /\ \A s \in Slots :
               Drained(x, s)' => Drained(x, s) /\ At(x) /\ ent[x] # e
  BY <1>1, <1>2, <1>4 DEF Gains, Involved, Alone
<1>8. Involved(t)' => ent'[t] = e /\ addr'[t] = addr[t]
  BY DEF Gains
<1>9. /\ Creates(t)' => Creates(t)
      /\ \A s \in Slots : Drained(t, s)' => Drained(t, s)
      /\ Fills(t)' => Fills(t)
  BY DEF Gains
<1> HIDE DEF e
<1>10. ClaimsOK'
  BY <1>6, <1>8 DEF ClaimsOK, Locking, Involved, Justified, e
<1>11. AddressesOK'
  <2>1. \A x \in Entries : "FREE" \in status'[x] => diskaddr'[x] = NoAddr
    BY DEF AddressesOK, Locking, Justified
  <2>2. \A x \in Threads : Blank(x)' => diskaddr'[ent'[x]] = NoAddr
    BY <1>6, <1>8 DEF AddressesOK, Locking, Involved, Justified, e
  <2>3. \A x \in Threads : Confirmed(x)' => diskaddr'[ent'[x]] = addr'[x]
    BY <1>7, <1>8 DEF AddressesOK, Locking, Involved, Justified, e
  <2> QED BY <2>1, <2>2, <2>3 DEF AddressesOK
<1>12. LoadsOK'
  BY <1>6, <1>7, <1>8 DEF LoadsOK, Locking, Involved, Justified, e
<1>13. DrainsOK'
  BY <1>5, <1>7, <1>8, <1>9 DEF DrainsOK, Locking, Involved, e
<1> QED BY <1>10, <1>11, <1>12, <1>13 DEF Locking

-----------------------------------------------------------------------------
(* Layer 3: the steps that learn something.                                *)

\* A reader that sees no WRITELOCKED after it has counted itself is admitted:
\* whoever sets the flag later finds it in its slot.
LEMMA RdWlLocking ==
  ASSUME IInv, NEW t \in Threads, Frame(t), RdWl(t)
  PROVE  Locking'
<1>1. CASE "WRITELOCKED" \in status[ent[t]]
  <2>1. Gains(t, {}) /\ SameWords
    BY <1>1 DEF IInv, TypeOK, RdWl, Local, Goto, Test, cacheVars, opVars,
       SameWords, Gains, Involved, Owns, Locks, Loads, Fills, Blank,
       Confirmed, Loaded, Admitted, Drained, Creates, HoldPCs, UnmapPCs,
       EntPCs, PCs, ReadPCs, GetPCs, FreePCs, EvictPCs, LoadPCs, AllocPCs,
       LockPCs, DiscardPCs, ClientPCs
  <2> QED BY <2>1, QuietStep DEF IInv, Locking
<1>2. CASE "WRITELOCKED" \notin status[ent[t]]
  <2>1. /\ pc[t] = "rd_wl" /\ pc'[t] \in {"g_addr", "d_wait", "ev_claim"}
        /\ UNCHANGED <<status, diskaddr, ent, addr, op>>
    BY <1>2 DEF IInv, TypeOK, Callers, RdWl, Local, Goto, Test, AfterRead,
       cacheVars, opVars
  <2>2. /\ Gains(t, {"Admitted"}) /\ SameWords
    BY <2>1 DEF SameWords, Gains, Involved, Owns, Locks, Loads, Fills, Blank,
       Confirmed, Loaded, Admitted, Drained, Creates, HoldPCs, UnmapPCs,
       EntPCs, PCs, ReadPCs, GetPCs, FreePCs, EvictPCs, LoadPCs, AllocPCs,
       LockPCs, DiscardPCs, ClientPCs
  <2>3. \A u \in Threads \ {t} : Locks(u) => ent[u] # ent[t]
    BY <1>2 DEF IInv, ClaimsOK
  <2> QED BY <2>2, <2>3, GainStep DEF IInv, Locking
<1> QED BY <1>1, <1>2

\* treepass_get_in_cache reads its address in the entry.
LEMMA GetAddrLocking ==
  ASSUME IInv, NEW t \in Threads, Frame(t), GetAddr(t)
  PROVE  Locking'
<1>1. Gains(t, {"Confirmed"}) /\ SameWords
  BY DEF IInv, TypeOK, GetAddr, Local, Goto, cacheVars, opVars, SameWords,
     Gains, Involved, Owns, Locks, Loads, Fills, Blank, Confirmed, Loaded,
     Admitted, Drained, Creates, HoldPCs, UnmapPCs, EntPCs, PCs, ReadPCs,
     GetPCs, FreePCs, EvictPCs, LoadPCs, AllocPCs, LockPCs, DiscardPCs,
     ClientPCs
<1>2. Confirmed(t)' => diskaddr[ent[t]] = addr[t]
  BY DEF IInv, TypeOK, GetAddr, Local, Goto, Owns, Locks, Loads, Fills, Blank,
     Confirmed, Loaded, Admitted, Drained, Creates, HoldPCs, UnmapPCs, EntPCs,
     PCs, ReadPCs, GetPCs, FreePCs, EvictPCs, LoadPCs, AllocPCs, LockPCs,
     DiscardPCs, ClientPCs
<1> QED BY <1>1, <1>2, GainStep DEF IInv, Locking

\* treepass_get_in_cache has waited for the load.
LEMMA GetWaitLocking ==
  ASSUME IInv, NEW t \in Threads, Frame(t), GetWait(t)
  PROVE  Locking'
<1>1. Gains(t, {"Loaded"}) /\ SameWords
  BY DEF IInv, TypeOK, GetWait, Local, Goto, cacheVars, opVars, SameWords,
     Gains, Involved, Owns, Locks, Loads, Fills, Blank, Confirmed, Loaded,
     Admitted, Drained, Creates, HoldPCs, UnmapPCs, EntPCs, PCs, ReadPCs,
     GetPCs, FreePCs, EvictPCs, LoadPCs, AllocPCs, LockPCs, DiscardPCs,
     ClientPCs
<1>2. \A u \in Threads \ {t} : Loads(u) => ent[u] # ent[t]
  BY DEF GetWait, Test, IInv, LoadsOK
<1> QED BY <1>1, <1>2, GainStep DEF IInv, Locking

\* treepass_try_evict finds an entry without an address.
LEMMA EvLookupLocking ==
  ASSUME IInv, NEW t \in Threads, Frame(t), EvLookup(t)
  PROVE  Locking'
<1>1. /\ pc[t] = "ev_lookup" /\ UNCHANGED <<status, diskaddr, ent, addr, op>>
      /\ \/ pc'[t] = "ev_type" /\ diskaddr[ent[t]] = NoAddr
         \/ pc'[t] = "ev_addr"
  BY DEF IInv, TypeOK, EvLookup, Local, Goto, cacheVars, entryVars, opVars
<1>2. Gains(t, {"Blank"}) /\ SameWords
  BY <1>1 DEF SameWords, Gains, Involved, Owns, Locks, Loads, Fills, Blank,
     Confirmed, Loaded, Admitted, Drained, Creates, HoldPCs, UnmapPCs, EntPCs,
     PCs, ReadPCs, GetPCs, FreePCs, EvictPCs, LoadPCs, AllocPCs, LockPCs,
     DiscardPCs, ClientPCs
<1>3. Blank(t)' => diskaddr[ent[t]] = NoAddr
  BY <1>1 DEF Blank
<1> QED BY <1>2, <1>3, GainStep DEF IInv, Locking

\* An admitted reader is counted in its slot.
LEMMA AdmittedCounted ==
  ASSUME ControlOK, RefsOK, NEW t \in Threads, NEW u \in Threads \ {t},
         Admitted(u), ent[u] = ent[t]
  PROVE  u \in OthersIn(t, ent[t], SlotOf[u])
<1>1. u \in refs[ent[u]]
  BY PredicateFacts DEF RefsOK, Counted
<1> QED BY <1>1 DEF OthersIn

\* treepass_try_get_write finds a slot without other readers.
LEMMA EvDrainLocking ==
  ASSUME IInv, NEW t \in Threads, Frame(t), EvDrain(t)
  PROVE  Locking'
<1>1. CASE drain[t] = {} /\ Local(t, "ev_verify")
  <2>1. Gains(t, {}) /\ SameWords
    BY <1>1 DEF IInv, TypeOK, EvDrain, Local, Goto, cacheVars, opVars,
       SameWords, Gains, Involved, Owns, Locks, Loads, Fills, Blank,
       Confirmed, Loaded, Admitted, Drained, Creates, HoldPCs, UnmapPCs,
       EntPCs, PCs, ReadPCs, GetPCs, FreePCs, EvictPCs, LoadPCs, AllocPCs,
       LockPCs, DiscardPCs, ClientPCs
  <2> QED BY <2>1, QuietStep DEF IInv, Locking
<1>2. CASE ~ (drain[t] = {} /\ Local(t, "ev_verify"))
  <2> PICK s \in drain[t] :
         /\ drain' = [drain EXCEPT ![t] =
                        IF OthersIn(t, ent[t], s) = {} THEN @ \ {s} ELSE {}]
         /\ Goto(t, IF OthersIn(t, ent[t], s) = {} THEN "ev_drain"
                                                   ELSE "ev_unwl")
         /\ UNCHANGED <<cacheVars, opVars, ent, caller>>
    BY <1>2 DEF EvDrain
  <2>1. /\ pc[t] = "ev_drain" /\ UNCHANGED <<status, diskaddr, ent, addr, op>>
        /\ \/ /\ pc'[t] = "ev_drain" /\ drain'[t] = drain[t] \ {s}
              /\ OthersIn(t, ent[t], s) = {}
           \/ pc'[t] = "ev_unwl"
    BY DEF IInv, TypeOK, EvDrain, Goto, cacheVars, opVars
  <2>2. Gains(t, {"Drained"}) /\ SameWords
    BY <2>1 DEF SameWords, Gains, Involved, Owns, Locks, Loads, Fills, Blank,
       Confirmed, Loaded, Admitted, Drained, Creates, HoldPCs, UnmapPCs,
       EntPCs, PCs, ReadPCs, GetPCs, FreePCs, EvictPCs, LoadPCs, AllocPCs,
       LockPCs, DiscardPCs, ClientPCs
  <2>3. ASSUME NEW u \in Threads \ {t}, Drained(t, SlotOf[u])',
               Admitted(u), ent[u] = ent[t]
        PROVE  Drained(t, SlotOf[u])
    <3>1. pc'[t] = "ev_drain" /\ SlotOf[u] \notin drain'[t]
      BY <2>1, <2>3 DEF Drained, UnmapPCs
    <3>2. SlotOf[u] # s
      BY <2>1, <2>3, <3>1, AdmittedCounted DEF IInv
    <3> QED BY <2>1, <3>1, <3>2 DEF Drained
  <2> QED BY <2>2, <2>3, GainStep DEF IInv, Locking
<1> QED BY <1>1, <1>2

\* treepass_get_write finds a slot without other readers.
LEMMA GwDrainLocking ==
  ASSUME IInv, NEW t \in Threads, Frame(t), GwDrain(t)
  PROVE  Locking'
<1> DEFINE Done == /\ drain[t] = {}
                   /\ Local(t, IF op[t] = "discard" THEN "d_unmap"
                                                    ELSE "locked")
<1>1. CASE Done
  <2>1. Gains(t, {}) /\ SameWords
    BY <1>1 DEF IInv, TypeOK, GwDrain, Local, Goto, cacheVars, opVars,
       SameWords, Gains, Involved, Owns, Locks, Loads, Fills, Blank,
       Confirmed, Loaded, Admitted, Drained, Creates, HoldPCs, UnmapPCs,
       EntPCs, PCs, ReadPCs, GetPCs, FreePCs, EvictPCs, LoadPCs, AllocPCs,
       LockPCs, DiscardPCs, ClientPCs
  <2> QED BY <2>1, QuietStep DEF IInv, Locking
<1>2. CASE ~ Done
  <2> PICK s \in drain[t] :
         /\ OthersIn(t, ent[t], s) = {}
         /\ drain' = [drain EXCEPT ![t] = @ \ {s}]
         /\ Goto(t, "gw_drain")
         /\ UNCHANGED <<cacheVars, opVars, ent, caller>>
    BY <1>2 DEF GwDrain
  <2>1. /\ pc[t] = "gw_drain" /\ UNCHANGED <<status, diskaddr, ent, addr, op>>
        /\ pc'[t] = "gw_drain" /\ drain'[t] = drain[t] \ {s}
    BY DEF IInv, TypeOK, GwDrain, Goto, cacheVars, opVars
  <2>2. Gains(t, {"Drained"}) /\ SameWords
    BY <2>1 DEF SameWords, Gains, Involved, Owns, Locks, Loads, Fills, Blank,
       Confirmed, Loaded, Admitted, Drained, Creates, HoldPCs, UnmapPCs,
       EntPCs, PCs, ReadPCs, GetPCs, FreePCs, EvictPCs, LoadPCs, AllocPCs,
       LockPCs, DiscardPCs, ClientPCs
  <2>3. ASSUME NEW u \in Threads \ {t}, Drained(t, SlotOf[u])',
               Admitted(u), ent[u] = ent[t]
        PROVE  Drained(t, SlotOf[u])
    <3>1. SlotOf[u] \notin drain'[t]
      BY <2>1, <2>3 DEF Drained, UnmapPCs
    <3>2. SlotOf[u] # s
      BY <2>3, AdmittedCounted DEF IInv
    <3> QED BY <2>1, <3>1, <3>2 DEF Drained
  <2> QED BY <2>2, <2>3, GainStep DEF IInv, Locking
<1> QED BY <1>1, <1>2

\* treepass_try_page_discard reads its address in the entry, which nobody else
\* can be loading: the address has no other user.
LEMMA DiscardAddrLocking ==
  ASSUME IInv, NEW t \in Threads, Frame(t), DiscardAddr(t)
  PROVE  Locking'
<1>1. Gains(t, {"Confirmed", "Loaded"}) /\ SameWords
  BY DEF IInv, TypeOK, DiscardAddr, Local, Goto, cacheVars, opVars, SameWords,
     Gains, Involved, Owns, Locks, Loads, Fills, Blank, Confirmed, Loaded,
     Admitted, Drained, Creates, HoldPCs, UnmapPCs, EntPCs, PCs, ReadPCs,
     GetPCs, FreePCs, EvictPCs, LoadPCs, AllocPCs, LockPCs, DiscardPCs,
     ClientPCs
<1>2. Confirmed(t)' \/ Loaded(t)' => diskaddr[ent[t]] = addr[t]
  BY DEF IInv, TypeOK, DiscardAddr, Local, Goto, Owns, Locks, Loads, Fills,
     Blank, Confirmed, Loaded, Admitted, Drained, Creates, HoldPCs, UnmapPCs,
     EntPCs, PCs, ReadPCs, GetPCs, FreePCs, EvictPCs, LoadPCs, AllocPCs,
     LockPCs, DiscardPCs, ClientPCs
<1>3. addr[t] \in Addrs /\ Sole(t)
  BY DEF IInv, ControlOK, Control, DiscardAddr, DiscardPCs, Sole
<1>4. \A u \in Threads \ {t} :
         Loads(u) /\ ent[u] = ent[t] => diskaddr[ent[t]] # addr[t]
  BY <1>3, PredicateFacts, ConstantAssumption DEF IInv, AddressesOK, UsersOK
<1> QED BY <1>1, <1>2, <1>4, GainStep DEF IInv, Locking

\* treepass_alloc hands out the page it has filled.
LEMMA AllocReadyLocking ==
  ASSUME IInv, NEW t \in Threads, Frame(t), AllocLookup(t) \/ AllocPin(t)
  PROVE  Locking'
<1>1. /\ pc[t] \in {"a_lookup", "a_pin"} /\ pc'[t] \in {"a_pin", "dirty"}
      /\ UNCHANGED <<status, diskaddr, ent, addr, op>> /\ op[t] = "alloc"
  BY DEF IInv, TypeOK, ControlOK, Control, AllocPCs, AllocLookup, AllocPin,
     Goto, entryVars, opVars
<1>2. Gains(t, {"Loaded", "Admitted"}) /\ SameWords /\ Owns(t)
  BY <1>1 DEF SameWords, Gains, Involved, Owns, Locks, Loads, Fills, Blank,
     Confirmed, Loaded, Admitted, Drained, Creates, HoldPCs, UnmapPCs, EntPCs,
     PCs, ReadPCs, GetPCs, FreePCs, EvictPCs, LoadPCs, AllocPCs, LockPCs,
     DiscardPCs, ClientPCs
<1>3. \A u \in Threads \ {t} : Loads(u) \/ Locks(u) => ent[u] # ent[t]
  BY <1>2, OwnerAlone, PredicateFacts DEF IInv, Locking, Alone
<1> QED BY <1>2, <1>3, GainStep DEF IInv, Locking

-----------------------------------------------------------------------------
(* Layer 3: the steps that write the entry.                                *)

\* treepass_get_free_page takes a free entry, which nobody else works on.
LEMMA FpTakeLocking ==
  ASSUME TypeOK, TypeOK', ControlOK, UsersOK, Locking, NEW t \in Threads,
         Frame(t), FpTake(t)
  PROVE  Locking'
<1> PICK e \in Entries :
       /\ BatchOf[e] = hand[t] /\ status[e] = FreeStatus
       /\ StoreStatus(e, AllocStatus) /\ ent' = [ent EXCEPT ![t] = e]
       /\ UNCHANGED <<diskaddr, op, addr>> /\ pc[t] = "fp"
       /\ Goto(t, IF op[t] = "prefetch" THEN "fp_status" ELSE "fp_ref")
  BY DEF FpTake, opVars
<1>1. /\ ent'[t] = e /\ status'[e] = {"WRITELOCKED", "CLAIMED"}
      /\ \A x \in Entries \ {e} : status'[x] = status[x]
      /\ diskaddr'[e] = NoAddr /\ UNCHANGED diskaddr
  BY DEF TypeOK, StoreStatus, AllocStatus, FreeStatus, Locking, AddressesOK
<1>2. /\ pc'[t] = "fp_ref" /\ op'[t] = op[t] /\ addr'[t] = addr[t]
      /\ addr[t] \in Addrs
  BY DEF TypeOK, Goto, ControlOK, Control, FreePCs
<1>3. /\ ~ Loads(t)' /\ ~ Confirmed(t)' /\ ~ Loaded(t)' /\ ~ Admitted(t)'
      /\ \A s \in Slots : ~ Drained(t, s)'
      /\ Creates(t)' => op[t] = "alloc"
  BY <1>2 DEF Owns, Locks, Loads, Fills, Blank, Confirmed, Loaded, Admitted,
     Drained, Creates, HoldPCs, UnmapPCs, EntPCs, PCs, ReadPCs, GetPCs,
     FreePCs, EvictPCs, LoadPCs, AllocPCs, LockPCs, DiscardPCs, ClientPCs
<1>4. \A x \in Threads \ {t} :
         Gains(x, {}) /\ (Involved(x) => ent[x] \in Entries)
  BY OtherGains, PredicateFacts
<1>5. \A x \in Threads \ {t} :
         /\ Locks(x) => Owns(x)
         /\ Fills(x) \/ Blank(x) => Owns(x) \/ Loads(x)
         /\ Creates(x) => Owns(x)
         /\ Owns(x) \/ Loads(x) => ent[x] # e
  BY PredicateFacts DEF Locking, ClaimsOK, LoadsOK, FreeStatus
<1>6. \A x \in Threads \ {t} : op[t] = "alloc" => addr[x] # addr[t]
  BY <1>2, ConstantAssumption DEF UsersOK, Sole, ClientPCs
<1>7. ClaimsOK'
  BY <1>1, <1>3, <1>4, <1>5 DEF Locking, ClaimsOK, Gains, Involved
<1>8. AddressesOK'
  BY <1>1, <1>3, <1>4, <1>5 DEF Locking, AddressesOK, Gains, Involved
<1>9. LoadsOK'
  BY <1>1, <1>3, <1>4, <1>5 DEF Locking, LoadsOK, Gains, Involved
<1>10. DrainsOK'
  <2>1. \A u \in Threads : SlotOf[u] \in Slots BY ConstantAssumption
  <2>2. ASSUME NEW x \in Threads, NEW u \in Threads, x # u,
               Drained(x, SlotOf[u])', Admitted(u)'
        PROVE  ent'[u] # ent'[x]
    BY <2>1, <2>2, <1>3, <1>4 DEF Locking, DrainsOK, Gains, Involved
  <2>3. ASSUME NEW x \in Threads, NEW u \in Threads, x # u,
               Creates(x)', Admitted(u)', ent'[u] = ent'[x]
        PROVE  addr'[u] # addr'[x]
    BY <2>3, <1>2, <1>3, <1>4, <1>6 DEF Locking, DrainsOK, Gains, Involved
  <2> QED BY <2>2, <2>3 DEF DrainsOK
<1> QED BY <1>7, <1>8, <1>9, <1>10 DEF Locking

\* treepass_try_get_claim: the claim was free, and nobody loads the page.
LEMMA ClaimLocking ==
  ASSUME IInv, NEW t \in Threads, Frame(t),
         \/ TryClaim(t) /\ StatusStep(t, "claimed")
         \/ DiscardClaim(t) /\ StatusStep(t, "gw_set")
         \/ EvClaim(t) /\ StatusStep(t, "ev_load")
  PROVE  Locking'
<1>1. /\ Gains(t, {"Owns"})
      /\ Loaded(t) \/ OnHand(t)
      /\ ~ Locks(t)' /\ ~ Loads(t)' /\ ~ Fills(t)' /\ ~ Blank(t)'
      /\ Confirmed(t)' => Confirmed(t)
  BY DEF IInv, TypeOK, TryClaim, DiscardClaim, EvClaim, StatusStep, Goto,
     opVars, Gains, Involved, OnHand, Owns, Locks, Loads, Fills, Blank,
     Confirmed, Loaded, Admitted, Drained, Creates, HoldPCs, UnmapPCs, EntPCs,
     PCs, ReadPCs, GetPCs, FreePCs, EvictPCs, LoadPCs, AllocPCs, LockPCs,
     DiscardPCs, ClientPCs
<1>2. ent[t] \in Entries
  BY <1>1, PredicateFacts DEF IInv, ControlOK, Control, TryClaim,
     DiscardClaim, EvClaim, EntPCs, PCs, EvictPCs, DiscardPCs, ClientPCs
<1>3. /\ "CLAIMED" \notin status[ent[t]] /\ UNCHANGED diskaddr
      /\ status' = [status EXCEPT ![ent[t]] = @ \cup {"CLAIMED"}]
  BY DEF IInv, TypeOK, TryClaim, DiscardClaim, EvClaim, StatusStep, Local,
     SetFlag, Goto, Test
<1>4. Alone(t)
  BY <1>1, <1>3, PredicateFacts, LoaderAlone DEF IInv, ClaimsOK, LoadsOK, Alone
<1>5. Justified(t)
  BY <1>1, <1>2, <1>3 DEF IInv, TypeOK, Justified, AddressesOK
<1> QED BY <1>1, <1>2, <1>3, <1>4, <1>5, ExclusiveStep DEF IInv, TypeOK,
   Locking

\* treepass_get_write and treepass_try_get_write announce the write lock.
LEMMA AnnounceLocking ==
  ASSUME IInv, NEW t \in Threads, Frame(t), EvWl(t) \/ GwSet(t)
  PROVE  Locking'
<1>1. /\ Gains(t, {"Locks"}) /\ Owns(t)
      /\ ~ Loads(t)' /\ ~ Fills(t)' /\ ~ Blank(t)'
      /\ Confirmed(t)' => Confirmed(t)
  BY DEF IInv, TypeOK, EvWl, GwSet, StatusStep, Goto, opVars, Gains, Involved,
     Owns, Locks, Loads, Fills, Blank, Confirmed, Loaded, Admitted, Drained,
     Creates, HoldPCs, UnmapPCs, EntPCs, PCs, ReadPCs, GetPCs, FreePCs,
     EvictPCs, LoadPCs, AllocPCs, LockPCs, DiscardPCs, ClientPCs
<1>2. ent[t] \in Entries
  BY <1>1, PredicateFacts DEF IInv, Involved
<1>3. /\ status' = [status EXCEPT ![ent[t]] = @ \cup {"WRITELOCKED"}]
      /\ UNCHANGED diskaddr
  BY DEF EvWl, GwSet, StatusStep, SetFlag
<1>4. Alone(t)
  BY <1>1, OwnerAlone DEF IInv, Locking
<1>5. Justified(t)
  BY <1>1, <1>2, <1>3 DEF IInv, TypeOK, Justified, ClaimsOK, AddressesOK
<1> QED BY <1>1, <1>2, <1>3, <1>4, <1>5, ExclusiveStep DEF IInv, TypeOK,
   Locking

\* A write lock or a claim is given back.
LEMMA ReleaseLocking ==
  ASSUME IInv, NEW t \in Threads, Frame(t),
         EvUnwl(t) \/ EvUnclaim(t) \/ Unlock(t) \/ Unclaim(t)
  PROVE  Locking'
<1>1. /\ Gains(t, {}) /\ Owns(t)
      /\ ~ Locks(t)' /\ ~ Loads(t)' /\ ~ Fills(t)' /\ ~ Blank(t)'
      /\ Confirmed(t)' => Confirmed(t)
      /\ EvUnclaim(t) \/ Unclaim(t) => ~ Owns(t)'
  BY DEF IInv, TypeOK, ControlOK, Control, EvUnwl, EvUnclaim, Unlock, Unclaim,
     StatusStep, Goto, opVars, Gains, Involved, Owns, Locks, Loads, Fills,
     Blank, Confirmed, Loaded, Admitted, Drained, Creates, HoldPCs, UnmapPCs,
     EntPCs, PCs, ReadPCs, GetPCs, FreePCs, EvictPCs, LoadPCs, AllocPCs,
     LockPCs, DiscardPCs, ClientPCs
<1>2. ent[t] \in Entries
  BY <1>1, PredicateFacts DEF IInv, Involved
<1>3. /\ \/ status' = [status EXCEPT ![ent[t]] = @ \ {"WRITELOCKED"}]
         \/ /\ status' = [status EXCEPT ![ent[t]] = @ \ {"CLAIMED"}]
            /\ EvUnclaim(t) \/ Unclaim(t)
      /\ UNCHANGED diskaddr
  BY DEF EvUnwl, EvUnclaim, Unlock, Unclaim, StatusStep, ClearFlag
<1>4. Alone(t)
  BY <1>1, OwnerAlone DEF IInv, Locking
<1>5. Justified(t)
  BY <1>1, <1>2, <1>3 DEF IInv, TypeOK, Justified, ClaimsOK, AddressesOK
<1> QED BY <1>1, <1>2, <1>3, <1>4, <1>5, ExclusiveStep DEF IInv, TypeOK,
   Locking

\* An entry without an address is given back to the free entries.
LEMMA FreeLocking ==
  ASSUME IInv, NEW t \in Threads, Frame(t),
         EvFree(t) \/ DiscardFree(t) \/ LoadAbortFree(t)
  PROVE  Locking'
<1>1. /\ Gains(t, {}) /\ Blank(t) /\ (Owns(t) \/ Loads(t))
      /\ ~ Owns(t)' /\ ~ Locks(t)' /\ ~ Loads(t)' /\ ~ Fills(t)' /\ ~ Blank(t)'
      /\ ~ Confirmed(t)'
  BY DEF IInv, TypeOK, EvFree, DiscardFree, LoadAbortFree, Leave, StatusStep,
     Goto, opVars, Gains, Involved, Owns, Locks, Loads, Fills, Blank,
     Confirmed, Loaded, Admitted, Drained, Creates, HoldPCs, UnmapPCs, EntPCs,
     PCs, ReadPCs, GetPCs, FreePCs, EvictPCs, LoadPCs, AllocPCs, LockPCs,
     DiscardPCs, ClientPCs
<1>2. ent[t] \in Entries
  BY <1>1, PredicateFacts DEF IInv, Involved
<1>3. /\ status' = [status EXCEPT ![ent[t]] = {"FREE"}]
      /\ UNCHANGED diskaddr
  BY DEF EvFree, DiscardFree, LoadAbortFree, StatusStep, StoreStatus,
     FreeStatus
<1>4. Alone(t)
  BY <1>1, OwnerAlone, LoaderIsAlone DEF IInv, Locking
<1>5. Justified(t)
  BY <1>1, <1>2, <1>3 DEF IInv, TypeOK, Justified, AddressesOK
<1> QED BY <1>1, <1>2, <1>3, <1>4, <1>5, ExclusiveStep DEF IInv, TypeOK,
   Locking

\* Eviction and discarding take the address out of an entry they have drained.
LEMMA UnaddrLocking ==
  ASSUME IInv, NEW t \in Threads, Frame(t), EvAddr(t) \/ DiscardUnaddr(t)
  PROVE  Locking'
<1>1. /\ Gains(t, {"Blank"}) /\ Owns(t) /\ Locks(t)
      /\ \A s \in Slots : Drained(t, s)
      /\ ~ Loads(t)' /\ ~ Fills(t)' /\ ~ Confirmed(t)'
  BY DEF IInv, TypeOK, EvAddr, DiscardUnaddr, AddrStep, Goto, opVars, Gains,
     Involved, Owns, Locks, Loads, Fills, Blank, Confirmed, Loaded, Admitted,
     Drained, Creates, HoldPCs, UnmapPCs, EntPCs, PCs, ReadPCs, GetPCs,
     FreePCs, EvictPCs, LoadPCs, AllocPCs, LockPCs, DiscardPCs, ClientPCs
<1>2. ent[t] \in Entries
  BY <1>1, PredicateFacts DEF IInv, Involved
<1>3. /\ diskaddr' = [diskaddr EXCEPT ![ent[t]] = NoAddr]
      /\ UNCHANGED status
  BY DEF EvAddr, DiscardUnaddr, AddrStep
<1>4. Alone(t)
  BY <1>1, OwnerAlone DEF IInv, Locking
<1>5. Justified(t)
  BY <1>1, <1>2, <1>3 DEF IInv, TypeOK, Justified, ClaimsOK
<1>6. \A u \in Threads \ {t} : Confirmed(u) => ent[u] # ent[t]
  <2>1. \A u \in Threads \ {t} : Admitted(u) => ent[u] # ent[t]
    BY <1>1, ConstantAssumption DEF IInv, DrainsOK
  <2> QED BY <1>4, <2>1, PredicateFacts DEF Alone, IInv
<1> QED BY <1>1, <1>2, <1>3, <1>4, <1>5, <1>6, ExclusiveStep DEF IInv, TypeOK,
   Locking

\* Loading and allocation give the entry its address.
LEMMA SetAddrLocking ==
  ASSUME IInv, NEW t \in Threads, Frame(t), LoadAddr(t) \/ AllocAddr(t)
  PROVE  Locking'
<1>1. /\ Gains(t, {"Confirmed"}) /\ Blank(t) /\ ~ Blank(t)'
      /\ Owns(t) \/ Loads(t)
      /\ Fills(t) \/ Loads(t)
  BY DEF IInv, TypeOK, LoadAddr, AllocAddr, AddrStep, Goto, opVars, Gains,
     Involved, Owns, Locks, Loads, Fills, Blank, Confirmed, Loaded, Admitted,
     Drained, Creates, HoldPCs, UnmapPCs, EntPCs, PCs, ReadPCs, GetPCs,
     FreePCs, EvictPCs, LoadPCs, AllocPCs, LockPCs, DiscardPCs, ClientPCs
<1>2. ent[t] \in Entries /\ addr[t] \in Addrs
  BY <1>1, PredicateFacts DEF IInv, Involved, ControlOK, Control, LoadAddr,
     AllocAddr
<1>3. /\ diskaddr' = [diskaddr EXCEPT ![ent[t]] = addr[t]]
      /\ UNCHANGED status
  BY DEF LoadAddr, AllocAddr, AddrStep
<1>4. Alone(t)
  BY <1>1, OwnerAlone, LoaderIsAlone DEF IInv, Locking
<1>5. Justified(t)
  <2>1. "FREE" \notin status[ent[t]]
    BY <1>1 DEF IInv, LoadsOK
  <2>2. /\ Owns(t)' => Owns(t)
        /\ Locks(t)' => Locks(t)
        /\ Loads(t)' => Loads(t)
    BY <1>1 DEF Gains
  <2> QED BY <1>1, <1>2, <1>3, <2>1, <2>2 DEF IInv, TypeOK, Justified,
     ClaimsOK, LoadsOK
<1>6. \A u \in Threads \ {t} : Confirmed(u) => ent[u] # ent[t]
  BY <1>1, PredicateFacts, ConstantAssumption DEF IInv, AddressesOK
<1> QED BY <1>1, <1>2, <1>3, <1>4, <1>5, <1>6, ExclusiveStep DEF IInv, TypeOK,
   Locking

\* treepass_get_free_page hands out an entry to be loaded or allocated.
LEMMA FpStatusLocking ==
  ASSUME IInv, NEW t \in Threads, Frame(t), FpStatus(t)
  PROVE  Locking'
<1>1. /\ Gains(t, {"Loads"}) /\ Blank(t) /\ Owns(t) /\ ~ Confirmed(t)'
      /\ op[t] = "alloc" => ~ Loads(t)'
      /\ op[t] # "alloc" => ~ Owns(t)' /\ ~ Locks(t)'
  BY DEF IInv, TypeOK, FpStatus, StatusStep, Goto, opVars, Gains, Involved,
     Owns, Locks, Loads, Fills, Blank, Confirmed, Loaded, Admitted, Drained,
     Creates, HoldPCs, UnmapPCs, EntPCs, PCs, ReadPCs, GetPCs, FreePCs,
     EvictPCs, LoadPCs, AllocPCs, LockPCs, DiscardPCs, ClientPCs
<1>2. ent[t] \in Entries
  BY <1>1, PredicateFacts DEF IInv, Involved
<1>3. /\ status'[ent[t]] = IF op[t] = "alloc" THEN {"WRITELOCKED", "CLAIMED"}
                                             ELSE {"CLEAN", "LOADING"}
      /\ \A e \in Entries \ {ent[t]} : status'[e] = status[e]
      /\ UNCHANGED diskaddr
  BY <1>2 DEF IInv, TypeOK, FpStatus, StatusStep, StoreStatus, AllocStatus,
     ReadLoadingStatus
<1>4. Alone(t)
  BY <1>1, OwnerAlone DEF IInv, Locking
<1>5. \A u \in Threads \ {t} : Loaded(u) => ent[u] # ent[t]
  BY <1>1, PredicateFacts, ConstantAssumption DEF IInv, AddressesOK
<1>6. Justified(t)
  BY <1>1, <1>3, <1>5 DEF IInv, Justified, AddressesOK
<1> QED BY <1>1, <1>2, <1>3, <1>4, <1>6, ExclusiveStep DEF IInv, Locking

\* treepass_finish_load: the loader becomes a reader.
LEMMA LoadDoneLocking ==
  ASSUME IInv, NEW t \in Threads, Frame(t), LoadDone(t)
  PROVE  Locking'
<1>1. /\ Gains(t, {"Loaded", "Admitted"}) /\ Loads(t) /\ Confirmed(t)
      /\ ~ Owns(t)' /\ ~ Locks(t)' /\ ~ Loads(t)' /\ ~ Fills(t)' /\ ~ Blank(t)'
  BY DEF IInv, TypeOK, LoadDone, StatusStep, Goto, opVars, Gains, Involved,
     Owns, Locks, Loads, Fills, Blank, Confirmed, Loaded, Admitted, Drained,
     Creates, HoldPCs, UnmapPCs, EntPCs, PCs, ReadPCs, GetPCs, FreePCs,
     EvictPCs, LoadPCs, AllocPCs, LockPCs, DiscardPCs, ClientPCs
<1>2. ent[t] \in Entries
  BY <1>1, PredicateFacts DEF IInv, Involved
<1>3. /\ status' = [status EXCEPT ![ent[t]] = @ \ {"LOADING"}]
      /\ UNCHANGED diskaddr
  BY DEF LoadDone, StatusStep, ClearFlag
<1>4. Alone(t)
  BY <1>1, LoaderIsAlone DEF IInv, Locking
<1>5. Justified(t)
  BY <1>1, <1>2, <1>3 DEF IInv, TypeOK, Justified, AddressesOK, LoadsOK
<1> QED BY <1>1, <1>2, <1>3, <1>4, <1>5, ExclusiveStep DEF IInv, TypeOK,
   Locking

-----------------------------------------------------------------------------
(* Layer 3: every step.                                                    *)

\* The steps that change no lock flag, no address and nothing t knows of its
\* entry.
Quiet(t) ==
    \/ StartGet(t) \/ StartAlloc(t) \/ StartDiscard(t)
    \/ RdTest(t) \/ RdInc(t) \/ RdFree(t) \/ RdEvicted(t)
    \/ RdConflict(t)
    \/ GetLookup(t) \/ GetAddr2(t) \/ GetType(t)
    \/ GetDrop(t)
    \/ FpMiss(t) \/ FpRef(t) \/ FpType(t) \/ EvStay(t) \/ EvRelease(t)
    \/ MoveHand(t)
    \/ EvFast(t) \/ EvLoad(t) \/ EvWb(t) \/ EvVerify(t) \/ EvType(t)
    \/ EvUnref(t)
    \/ LoadCas(t) \/ LoadAbortRef(t) \/ LoadAbortType(t) \/ LoadRead(t)
    \/ Unget(t) \/ Lock(t) \/ MarkDirty(t) \/ Modify(t)
    \/ GwWriteback(t)
    \/ DiscardLookup(t) \/ DiscardWait(t) \/ DiscardDrop(t)
    \/ DiscardUnmap(t) \/ DiscardType(t) \/ DiscardUnpin(t)
    \/ DiscardUnref(t)

\* They give a thread no role at an entry that it did not have before.
LEMMA QuietGains ==
  ASSUME TypeOK, ControlOK, NEW t \in Threads, Quiet(t)
  PROVE  Gains(t, {}) /\ SameWords
<1> USE DEF TypeOK, ControlOK, Control, Gains, Involved, SameWords,
            Owns, Locks, Loads, Fills, Blank, Confirmed, Loaded, Admitted,
            Drained, Creates, HoldPCs, UnmapPCs, EntPCs, PCs, ReadPCs, GetPCs,
            FreePCs, EvictPCs, LoadPCs, AllocPCs, LockPCs, DiscardPCs,
            ClientPCs, Goto, SetFlag, ClearFlag, StoreStatus, IncRef, DecRef,
            Leave, Finish, Begin, Local, StatusStep, Unref, UnrefFinish,
            CallRead, AfterRead, AfterEvicted, TypeStep, AfterFreePage,
            AddrStep, cacheVars, entryVars, ioVars, opVars
<1>1. CASE StartGet(t) \/ StartAlloc(t) \/ StartDiscard(t)
  BY <1>1 DEF StartGet, StartAlloc, StartDiscard
<1>2. CASE \/ RdTest(t) \/ RdInc(t) \/ RdFree(t) \/ RdEvicted(t)
           \/ RdConflict(t)
  BY <1>2 DEF RdTest, RdInc, RdFree, RdEvicted, RdConflict
<1>3. CASE \/ GetLookup(t) \/ GetAddr2(t) \/ GetType(t)
           \/ GetDrop(t)
  BY <1>3 DEF GetLookup, GetAddr2, GetType, GetDrop
<1>4. CASE \/ FpMiss(t) \/ FpRef(t) \/ FpType(t) \/ EvStay(t) \/ EvRelease(t)
           \/ MoveHand(t)
  BY <1>4 DEF FpMiss, FpRef, FpType, EvStay, EvRelease, MoveHand
<1>5. CASE \/ EvFast(t) \/ EvLoad(t) \/ EvWb(t) \/ EvVerify(t) \/ EvType(t)
           \/ EvUnref(t)
  BY <1>5 DEF EvFast, EvLoad, EvWb, EvVerify, EvType, EvUnref
<1>6. CASE LoadCas(t) \/ LoadAbortRef(t) \/ LoadAbortType(t) \/ LoadRead(t)
  BY <1>6 DEF LoadCas, LoadAbortRef, LoadAbortType, LoadRead
<1>7. CASE Unget(t)
  BY <1>7 DEF Unget
<1>8. CASE Lock(t) \/ GwWriteback(t)
  BY <1>8 DEF Lock, GwWriteback
<1>a. CASE MarkDirty(t)
  BY <1>a DEF MarkDirty
<1>b. CASE Modify(t)
  BY <1>b DEF Modify
<1>9. CASE \/ DiscardLookup(t) \/ DiscardWait(t) \/ DiscardDrop(t)
           \/ DiscardUnmap(t) \/ DiscardType(t) \/ DiscardUnpin(t)
           \/ DiscardUnref(t)
  BY <1>9 DEF DiscardLookup, DiscardWait, DiscardDrop, DiscardUnmap,
     DiscardType, DiscardUnpin, DiscardUnref
<1> HIDE DEF TypeOK, ControlOK, Control, Gains, Involved, SameWords,
             Owns, Locks, Loads, Fills, Blank, Confirmed, Loaded, Admitted,
             Drained, Creates, HoldPCs, UnmapPCs, EntPCs, PCs, ReadPCs, GetPCs,
             FreePCs, EvictPCs, LoadPCs, AllocPCs, LockPCs, DiscardPCs,
             ClientPCs, Goto, SetFlag, ClearFlag, StoreStatus, IncRef, DecRef,
             Leave, Finish, Begin, Local, StatusStep, Unref, UnrefFinish,
             CallRead, AfterRead, AfterEvicted, TypeStep, AfterFreePage,
             AddrStep, cacheVars, entryVars, ioVars, opVars
<1> QED BY <1>1, <1>2, <1>3, <1>4, <1>5, <1>6, <1>7, <1>8, <1>9, <1>a,
           <1>b DEF Quiet

\* A claim that is taken, refused or given back.
LEMMA TryClaimLocking ==
  ASSUME IInv, NEW t \in Threads, Frame(t),
         TryClaim(t) \/ EvClaim(t) \/ DiscardClaim(t)
  PROVE  Locking'
<1>1. CASE \/ TryClaim(t) /\ Local(t, "unclaimed")
           \/ EvClaim(t) /\ Local(t, "ev_unref")
           \/ DiscardClaim(t) /\ Local(t, "d_drop")
  <2>1. Gains(t, {}) /\ SameWords
    BY <1>1 DEF IInv, TypeOK, TryClaim, EvClaim, DiscardClaim, Local, Goto,
       cacheVars, opVars, Gains, Involved, SameWords, Owns, Locks, Loads,
       Fills, Blank, Confirmed, Loaded, Admitted, Drained, Creates, HoldPCs,
       UnmapPCs, EntPCs, PCs, ReadPCs, GetPCs, FreePCs, EvictPCs, LoadPCs,
       AllocPCs, LockPCs, DiscardPCs, ClientPCs
  <2> QED BY <2>1, QuietStep DEF IInv, Locking
<1>2. CASE \/ TryClaim(t) /\ StatusStep(t, "claimed")
           \/ EvClaim(t) /\ StatusStep(t, "ev_load")
           \/ DiscardClaim(t) /\ StatusStep(t, "gw_set")
  BY <1>2, ClaimLocking
<1> QED BY <1>1, <1>2 DEF TryClaim, EvClaim, DiscardClaim

\* Layer 3 is kept by every step of a thread.
LEMMA ThreadLayer3 ==
  ASSUME IInv, TypeOK', NEW t \in Threads, Frame(t), Start(t) \/ Step(t)
  PROVE  Locking'
<1>1. CASE Quiet(t)
  BY <1>1, QuietGains, QuietStep DEF IInv, Locking
<1>2. CASE ~ Quiet(t)
  <2> USE <1>2 DEF Quiet
  <2>1. ~ Start(t)
    BY DEF Start
  <2>2. CASE TryGetRead(t)
    BY <2>2, RdWlLocking DEF TryGetRead
  <2>3. CASE GetLookup(t) \/ GetInCache(t)
    BY <2>3, GetAddrLocking, GetWaitLocking DEF GetInCache
  <2>4. CASE GetFreePage(t)
    BY <2>4, FpTakeLocking, FpStatusLocking DEF GetFreePage, IInv, Locking
  <2>5. CASE TryEvict(t)
    BY <2>5, TryClaimLocking, AnnounceLocking, EvDrainLocking,
       EvLookupLocking, UnaddrLocking, FreeLocking, ReleaseLocking
       DEF TryEvict
  <2>6. CASE GetFromDisk(t)
    BY <2>6, FreeLocking, SetAddrLocking, LoadDoneLocking DEF GetFromDisk
  <2>7. CASE Alloc(t)
    BY <2>7, SetAddrLocking, AllocReadyLocking DEF Alloc
  <2>8. CASE Client(t)
    BY <2>8, TryClaimLocking, ReleaseLocking DEF Client
  <2>9. CASE GetWrite(t)
    BY <2>9, AnnounceLocking, GwDrainLocking DEF GetWrite
  <2>10. CASE TryPageDiscard(t)
    BY <2>10, DiscardAddrLocking, TryClaimLocking, UnaddrLocking, FreeLocking
       DEF TryPageDiscard
  <2> QED BY <2>1, <2>2, <2>3, <2>4, <2>5, <2>6, <2>7, <2>8, <2>9, <2>10
             DEF Step
<1> QED BY <1>1, <1>2

-----------------------------------------------------------------------------
(* The inductive invariant.                                                *)

\* A step of a thread keeps the invariant.
LEMMA ThreadKeepsIInv ==
  ASSUME IInv, NEW t \in Threads, Start(t) \/ Step(t)
  PROVE  IInv'
<1>1. TypeOK' /\ ControlOK' /\ Frame(t)
  BY ThreadStep, FrameControl DEF IInv
<1>2. HandsOK' /\ RefsOK' /\ UsersOK'
  BY <1>1, ThreadLayer2 DEF IInv
<1>3. Locking'
  BY <1>1, ThreadLayer3
<1> QED BY <1>1, <1>2, <1>3 DEF IInv, Locking

\* Writeback changes no flag the invariant speaks of.
LEMMA WritebackKeepsIInv ==
  ASSUME IInv, NEW e \in Entries, Writeback(e)
  PROVE  IInv'
<1>1. TypeOK' /\ UNCHANGED <<pc, op, addr, ent, caller, drain, hand, refs>>
  BY WritebackTyped DEF IInv
<1>2. SameWords /\ UNCHANGED atype
  BY DEF IInv, TypeOK, SameWords, Writeback, WriteCallback, TrySetWriteback,
         WbIssue, WbStore, WbClean, WbDone, SetFlag, ClearFlag, entryVars
<1>3. ControlOK' /\ HandsOK' /\ RefsOK' /\ UsersOK'
  BY <1>1, <1>2 DEF IInv, ControlOK, Control, HandsOK, OwnHand, OnHand, RefsOK,
                    Counted, UsersOK, Sole
<1>4. \A x \in Threads :
         /\ Owns(x)' <=> Owns(x)
         /\ Locks(x)' <=> Locks(x)
         /\ Loads(x)' <=> Loads(x)
         /\ Fills(x)' <=> Fills(x)
         /\ Blank(x)' <=> Blank(x)
         /\ Confirmed(x)' <=> Confirmed(x)
         /\ Loaded(x)' <=> Loaded(x)
         /\ Admitted(x)' <=> Admitted(x)
         /\ Creates(x)' <=> Creates(x)
         /\ \A s : Drained(x, s)' <=> Drained(x, s)
  BY <1>1 DEF Owns, Locks, Loads, Fills, Blank, Confirmed, Loaded, Admitted,
              Creates, Drained
<1>5. \A x \in Threads : Involved(x) => ent[x] \in Entries
  BY PredicateFacts DEF IInv
<1>6. \A x \in Threads : Locks(x) => Owns(x)
  BY PredicateFacts DEF IInv
<1>7. ClaimsOK'
  BY <1>1, <1>2, <1>4, <1>5, <1>6 DEF IInv, ClaimsOK, SameWords, Involved
<1>8. AddressesOK'
  BY <1>1, <1>2, <1>4, <1>5 DEF IInv, AddressesOK, SameWords, Involved
<1>9. LoadsOK'
  BY <1>1, <1>2, <1>4, <1>5 DEF IInv, LoadsOK, SameWords, Involved
<1>10. DrainsOK'
  BY <1>1, <1>4 DEF IInv, DrainsOK
<1> QED BY <1>1, <1>3, <1>7, <1>8, <1>9, <1>10 DEF IInv

\* treepass_init establishes the invariant.
LEMMA InitIInv == Init => IInv
<1> SUFFICES ASSUME Init PROVE IInv
  OBVIOUS
<1>1. TypeOK /\ ControlOK
  BY InitTyped
<1>2. \A t \in Threads :
         pc[t] = "idle" /\ hand[t] = NoBatch /\ addr[t] = NoAddr
                         /\ op[t] = "none"
  BY DEF Init
<1>3. HandsOK /\ RefsOK /\ UsersOK
  BY <1>2 DEF HandsOK, OwnHand, OnHand, RefsOK, Counted, RefPCs, UsersOK,
     Sole, EntPCs, PCs, ReadPCs, GetPCs, FreePCs, EvictPCs, LoadPCs, AllocPCs,
     LockPCs, DiscardPCs, ClientPCs
<1>4. \A t \in Threads : ~ Involved(t)
  BY <1>2 DEF Involved, Owns, Locks, Loads, Fills, Blank, Confirmed, Loaded,
     Admitted, Drained, Creates, HoldPCs, UnmapPCs, EntPCs, PCs, ReadPCs,
     GetPCs, FreePCs, EvictPCs, LoadPCs, AllocPCs, LockPCs, DiscardPCs,
     ClientPCs
<1>5. \A t \in Threads, s \in Slots : ~ Drained(t, s)
  BY <1>4 DEF Involved
<1>6. ClaimsOK /\ LoadsOK /\ AddressesOK
  BY <1>4 DEF Involved, ClaimsOK, LoadsOK, AddressesOK, Init
<1>7. DrainsOK
  BY <1>4, <1>5, ConstantAssumption DEF Involved, DrainsOK
<1> QED BY <1>1, <1>3, <1>6, <1>7 DEF IInv

(* The inductive invariant holds in every reachable state of the cache, for*)
(* any number of threads, entries, addresses, batches and reference counters.*)
THEOREM IInvHolds == Spec => []IInv
<1>1. IInv /\ [Next]_vars => IInv'
  <2> SUFFICES ASSUME IInv, [Next]_vars PROVE IInv'
    OBVIOUS
  <2>1. CASE Next
    BY <2>1, ThreadKeepsIInv, WritebackKeepsIInv DEF Next
  <2>2. CASE UNCHANGED vars
    BY <2>2 DEF vars, IInv, TypeOK, ControlOK, Control, HandsOK, OwnHand,
       OnHand, RefsOK, Counted, UsersOK, Sole, ClaimsOK, AddressesOK, LoadsOK,
       DrainsOK, Owns, Locks, Loads, Fills, Blank, Confirmed, Loaded,
       Admitted, Creates, Drained
  <2> QED BY <2>1, <2>2
<1> QED BY <1>1, InitIInv, PTL DEF Spec

\* The invariant gives the exclusion: a writer is alone because it has drained
\* the readers, or because it has created the page and nobody else can know it.
LEMMA IInvExcludes == IInv => LockExclusion
<1> SUFFICES ASSUME IInv, NEW t \in Threads, NEW u \in Threads, t # u,
                    pc[t] \in WritePCs \cup UnmapPCs, Holds(u), ent[t] = ent[u]
             PROVE  FALSE
  BY DEF LockExclusion
<1>1. Admitted(u) /\ Confirmed(u)
  BY DEF Holds, Admitted, Confirmed, HoldPCs, LockPCs
<1>2. Drained(t, SlotOf[u]) \/ (Creates(t) /\ Confirmed(t))
  BY DEF IInv, ControlOK, Control, WritePCs, Drained, Creates, Confirmed,
         HoldPCs, UnmapPCs
<1>3. CASE Drained(t, SlotOf[u])
  BY <1>1, <1>3 DEF IInv, DrainsOK
<1>4. CASE Creates(t) /\ Confirmed(t)
  BY <1>1, <1>4 DEF IInv, DrainsOK, AddressesOK
<1> QED BY <1>2, <1>3, <1>4

(* While a thread has an entry write locked - a client changing the page, or*)
(* treepass_try_evict or treepass_try_page_discard taking it apart - no other*)
(* client holds the page in it, for any number of threads, entries, addresses*)
(* and reference counters and any sharing of the counters among threads.   *)
THEOREM LockExclusionHolds == Spec => []LockExclusion
BY IInvHolds, IInvExcludes, PTL

-----------------------------------------------------------------------------
(***************************************************************************)
(* Part 3, the pages.  Part 2 gives the locks (IInv).  Here follow the     *)
(* lookup table, writeback and contents (PagesOK).  For each part of       *)
(* PagesOK a step either leaves alone all the part speaks of (Kept), or is *)
(* one of the few actions that do not, each of which has a lemma of its    *)
(* own.                                                                    *)
(***************************************************************************)

-----------------------------------------------------------------------------
(* What a step of t leaves alone.                                          *)

\* the flags in F are what they were, in every entry
SameFlags(F) == \A e \in Entries : \A f \in F :
                   f \in status'[e] <=> f \in status[e]

\* t is between two stores to the lookup table and the address of its entry
Between(t) == Publishes(t) \/ Unmaps(t) \/ Prepares(t)

MapKept(t) == /\ UNCHANGED <<lookup, diskaddr>>
              /\ ~ Between(t) /\ ~ Between(t)'
MapStep(t) ==
    \/ LoadCas(t) /\ lookup[addr[t]] = NoEntry
    \/ LoadAddr(t)
    \/ EvLookup(t) /\ diskaddr[ent[t]] # NoAddr
    \/ EvAddr(t) \/ DiscardUnmap(t) \/ DiscardUnaddr(t)
    \/ AllocAddr(t) \/ AllocLookup(t)

HiddenKept(t) == /\ UNCHANGED <<lookup, atype>>
                 /\ Hidden(t)' => Hidden(t) /\ addr'[t] = addr[t]
HiddenStep(t) ==
    \/ LoadCas(t) /\ lookup[addr[t]] = NoEntry
    \/ EvLookup(t) /\ diskaddr[ent[t]] # NoAddr
    \/ DiscardUnmap(t) \/ AllocLookup(t)
    \/ StartAlloc(t) \/ DiscardLookup(t) \/ DiscardUnref(t)

ReasonsKept(t) == /\ UNCHANGED diskaddr /\ SameFlags({"FREE", "LOADING"})
                  /\ Loads(t) => Loads(t)' /\ ent'[t] = ent[t]
                  /\ Blank(t) => Blank(t)' /\ ent'[t] = ent[t]
ReasonsStep(t) ==
    \/ FpTake(t) \/ FpStatus(t) \/ LoadDone(t) \/ LoadAbortFree(t)
    \/ LoadAddr(t) \/ AllocAddr(t) \/ EvFree(t) \/ DiscardFree(t)
    \/ EvAddr(t) \/ DiscardUnaddr(t)

WritebacksKept(t) == /\ UNCHANGED <<wb, waddr, diskaddr>>
                     /\ SameFlags({"WRITEBACK"})
                     /\ Quiesced(t)' => Quiesced(t) /\ ent'[t] = ent[t]
WritebacksStep(t) ==
    \/ FpTake(t) \/ FpStatus(t) \/ LoadAbortFree(t) \/ EvFree(t)
    \/ DiscardFree(t) \/ EvWb(t) \/ GwWriteback(t)
    \/ LoadAddr(t) \/ AllocAddr(t) \/ EvAddr(t) \/ DiscardUnaddr(t)

SeesKept(t) == /\ SameFlags({"CLEAN"})
               /\ SeesClean(t)' => SeesClean(t) /\ ent'[t] = ent[t]
               /\ SeesDirty(t)' => SeesDirty(t) /\ ent'[t] = ent[t]
SeesStep(t) ==
    \/ FpTake(t) \/ FpStatus(t) \/ LoadAbortFree(t) \/ EvFree(t)
    \/ DiscardFree(t) \/ EvVerify(t) \/ MarkDirty(t)

CurrentKept(t) == /\ UNCHANGED <<fresh, lookup, diskaddr>>
                  /\ SameFlags({"LOADING"}) /\ pc'[t] # "l_done"
                  /\ Initialises(t) => Initialises(t)' /\ ent'[t] = ent[t]
CurrentStep(t) ==
    \/ LoadRead(t) \/ Modify(t)
    \/ LoadCas(t) /\ lookup[addr[t]] = NoEntry
    \/ EvLookup(t) /\ diskaddr[ent[t]] # NoAddr
    \/ DiscardUnmap(t) \/ AllocLookup(t)
    \/ LoadAddr(t) \/ AllocAddr(t) \/ EvAddr(t) \/ DiscardUnaddr(t)
    \/ FpStatus(t) \/ LoadDone(t) \/ LoadAbortFree(t)
    \/ EvFree(t) \/ DiscardFree(t)

StoredKept(t) == /\ UNCHANGED <<fresh, lookup, diskaddr, wb>>
                 /\ SameFlags({"CLEAN"})
StoredStep(t) ==
    \/ LoadRead(t) \/ Modify(t)
    \/ LoadCas(t) /\ lookup[addr[t]] = NoEntry
    \/ EvLookup(t) /\ diskaddr[ent[t]] # NoAddr
    \/ DiscardUnmap(t) \/ AllocLookup(t)
    \/ LoadAddr(t) \/ AllocAddr(t) \/ EvAddr(t) \/ DiscardUnaddr(t)
    \/ FpStatus(t) \/ LoadAbortFree(t) \/ EvFree(t) \/ DiscardFree(t)
    \/ MarkDirty(t)

\* An operation begins without touching an entry.
LEMMA StartFacts ==
  ASSUME TypeOK, NEW t \in Threads, Start(t)
  PROVE  /\ pc[t] = "idle"
         /\ UNCHANGED <<lookup, status, diskaddr, ptype, refs, pins, wb, waddr,
                        fresh, hand, ent, caller, drain>>
         /\ \/ StartGet(t) /\ UNCHANGED atype /\ pc'[t] = "g_lookup"
               /\ op'[t] \in {"get", "tryget", "write"}
            \/ StartAlloc(t) /\ pc'[t] = "fp" /\ op'[t] = "alloc"
            \/ StartDiscard(t) /\ UNCHANGED atype /\ pc'[t] = "d_lookup"
               /\ op'[t] = "discard"
BY SMTT(30)
DEF TypeOK, Start, StartGet, StartAlloc, StartDiscard, Idle, Begin, Goto,
    entryVars, ioVars

\* The actions that touch the lookup table or an address.
LEMMA MapEffects ==
  ASSUME TypeOK, ControlOK, NEW t \in Threads, Start(t) \/ Step(t)
  PROVE  MapKept(t) \/ MapStep(t)
<1> USE DEF TypeOK, ControlOK, Control, MapKept, MapStep, Between, Publishes, Unmaps, Prepares, EntPCs,
            PCs, ReadPCs, GetPCs, FreePCs, EvictPCs, LoadPCs, AllocPCs,
            LockPCs, DiscardPCs, ClientPCs, Goto, SetFlag, ClearFlag,
            StoreStatus, IncRef, DecRef, Leave, Finish, Begin, Local,
            StatusStep, Unref, UnrefFinish, CallRead, AfterRead, AfterEvicted,
            TypeStep, AfterFreePage, AddrStep, cacheVars, entryVars, ioVars,
            opVars
<1>1. CASE Start(t)
  BY <1>1, StartFacts
<1>2. CASE TryGetRead(t)
  BY <1>2, SMTT(60) DEF TryGetRead, RdTest, RdInc, RdFree, RdWl, RdEvicted,
     RdConflict
<1>3. CASE GetLookup(t) \/ GetInCache(t)
  BY <1>3, SMTT(60) DEF GetInCache, GetLookup, GetAddr, GetWait, GetAddr2,
     GetType, GetDrop
<1>4. CASE GetFreePage(t)
  BY <1>4, SMTT(60) DEF GetFreePage, FpTake, FpMiss, FpRef, FpStatus, FpType,
     EvStay, EvRelease, MoveHand
<1>5. CASE TryEvict(t)
  BY <1>5, SMTT(60) DEF TryEvict, EvFast, EvClaim, EvLoad, EvWl, EvWb,
     EvDrain, EvVerify, EvLookup, EvAddr, EvType, EvFree, EvUnwl, EvUnclaim,
     EvUnref
<1>6. CASE GetFromDisk(t)
  BY <1>6, SMTT(60) DEF GetFromDisk, LoadCas, LoadAbortRef, LoadAbortType,
     LoadAbortFree, LoadAddr, LoadRead, LoadDone
<1>7. CASE Alloc(t)
  BY <1>7, SMTT(60) DEF Alloc, AllocAddr, AllocLookup, AllocPin
<1>8. CASE Client(t)
  BY <1>8, SMTT(60) DEF Client, Unget, TryClaim, Lock, MarkDirty, Modify,
     Unlock, Unclaim
<1>9. CASE GetWrite(t)
  BY <1>9, SMTT(60) DEF GetWrite, GwSet, GwWriteback, GwDrain
<1>10. CASE TryPageDiscard(t)
  BY <1>10, SMTT(60) DEF TryPageDiscard, DiscardLookup, DiscardWait,
     DiscardAddr, DiscardDrop, DiscardClaim, DiscardUnmap, DiscardUnaddr,
     DiscardType, DiscardFree, DiscardUnpin, DiscardUnref
<1> QED BY <1>1, <1>2, <1>3, <1>4, <1>5, <1>6, <1>7, <1>8, <1>9, <1>10 DEF
   Step

\* The actions that publish, hide, create or discard a page.
LEMMA HiddenEffects ==
  ASSUME TypeOK, ControlOK, NEW t \in Threads, Start(t) \/ Step(t)
  PROVE  HiddenKept(t) \/ HiddenStep(t)
<1> USE DEF TypeOK, ControlOK, Control, HiddenKept, HiddenStep, Hidden, EntPCs,
            PCs, ReadPCs, GetPCs, FreePCs, EvictPCs, LoadPCs, AllocPCs,
            LockPCs, DiscardPCs, ClientPCs, Goto, SetFlag, ClearFlag,
            StoreStatus, IncRef, DecRef, Leave, Finish, Begin, Local,
            StatusStep, Unref, UnrefFinish, CallRead, AfterRead, AfterEvicted,
            TypeStep, AfterFreePage, AddrStep, cacheVars, entryVars, ioVars,
            opVars
<1>1. CASE Start(t)
  BY <1>1, StartFacts
<1>2. CASE TryGetRead(t)
  BY <1>2, SMTT(60) DEF TryGetRead, RdTest, RdInc, RdFree, RdWl, RdEvicted,
     RdConflict
<1>3. CASE GetLookup(t) \/ GetInCache(t)
  BY <1>3, SMTT(60) DEF GetInCache, GetLookup, GetAddr, GetWait, GetAddr2,
     GetType, GetDrop
<1>4. CASE GetFreePage(t)
  BY <1>4, SMTT(60) DEF GetFreePage, FpTake, FpMiss, FpRef, FpStatus, FpType,
     EvStay, EvRelease, MoveHand
<1>5. CASE TryEvict(t)
  BY <1>5, SMTT(60) DEF TryEvict, EvFast, EvClaim, EvLoad, EvWl, EvWb,
     EvDrain, EvVerify, EvLookup, EvAddr, EvType, EvFree, EvUnwl, EvUnclaim,
     EvUnref
<1>6. CASE GetFromDisk(t)
  BY <1>6, SMTT(60) DEF GetFromDisk, LoadCas, LoadAbortRef, LoadAbortType,
     LoadAbortFree, LoadAddr, LoadRead, LoadDone
<1>7. CASE Alloc(t)
  BY <1>7, SMTT(60) DEF Alloc, AllocAddr, AllocLookup, AllocPin
<1>8. CASE Client(t)
  BY <1>8, SMTT(60) DEF Client, Unget, TryClaim, Lock, MarkDirty, Modify,
     Unlock, Unclaim
<1>9. CASE GetWrite(t)
  BY <1>9, SMTT(60) DEF GetWrite, GwSet, GwWriteback, GwDrain
<1>10. CASE TryPageDiscard(t)
  BY <1>10, SMTT(60) DEF TryPageDiscard, DiscardLookup, DiscardWait,
     DiscardAddr, DiscardDrop, DiscardClaim, DiscardUnmap, DiscardUnaddr,
     DiscardType, DiscardFree, DiscardUnpin, DiscardUnref
<1> QED BY <1>1, <1>2, <1>3, <1>4, <1>5, <1>6, <1>7, <1>8, <1>9, <1>10 DEF
   Step

\* The actions that begin or end a load, or take or free an entry.
LEMMA ReasonsEffects ==
  ASSUME TypeOK, ControlOK, NEW t \in Threads, Start(t) \/ Step(t)
  PROVE  ReasonsKept(t) \/ ReasonsStep(t)
<1> USE DEF TypeOK, ControlOK, Control, ReasonsKept, ReasonsStep, SameFlags, Loads, Blank, FreeStatus, AllocStatus, ReadLoadingStatus, EntPCs,
            PCs, ReadPCs, GetPCs, FreePCs, EvictPCs, LoadPCs, AllocPCs,
            LockPCs, DiscardPCs, ClientPCs, Goto, SetFlag, ClearFlag,
            StoreStatus, IncRef, DecRef, Leave, Finish, Begin, Local,
            StatusStep, Unref, UnrefFinish, CallRead, AfterRead, AfterEvicted,
            TypeStep, AfterFreePage, AddrStep, cacheVars, entryVars, ioVars,
            opVars
<1>1. CASE Start(t)
  BY <1>1, StartFacts
<1>2. CASE TryGetRead(t)
  BY <1>2, SMTT(60) DEF TryGetRead, RdTest, RdInc, RdFree, RdWl, RdEvicted,
     RdConflict
<1>3. CASE GetLookup(t) \/ GetInCache(t)
  BY <1>3, SMTT(60) DEF GetInCache, GetLookup, GetAddr, GetWait, GetAddr2,
     GetType, GetDrop
<1>4. CASE GetFreePage(t)
  BY <1>4, SMTT(60) DEF GetFreePage, FpTake, FpMiss, FpRef, FpStatus, FpType,
     EvStay, EvRelease, MoveHand
<1>5. CASE TryEvict(t)
  BY <1>5, SMTT(60) DEF TryEvict, EvFast, EvClaim, EvLoad, EvWl, EvWb,
     EvDrain, EvVerify, EvLookup, EvAddr, EvType, EvFree, EvUnwl, EvUnclaim,
     EvUnref
<1>6. CASE GetFromDisk(t)
  BY <1>6, SMTT(60) DEF GetFromDisk, LoadCas, LoadAbortRef, LoadAbortType,
     LoadAbortFree, LoadAddr, LoadRead, LoadDone
<1>7. CASE Alloc(t)
  BY <1>7, SMTT(60) DEF Alloc, AllocAddr, AllocLookup, AllocPin
<1>8. CASE Client(t)
  BY <1>8, SMTT(60) DEF Client, Unget, TryClaim, Lock, MarkDirty, Modify,
     Unlock, Unclaim
<1>9. CASE GetWrite(t)
  BY <1>9, SMTT(60) DEF GetWrite, GwSet, GwWriteback, GwDrain
<1>10. CASE TryPageDiscard(t)
  BY <1>10, SMTT(60) DEF TryPageDiscard, DiscardLookup, DiscardWait,
     DiscardAddr, DiscardDrop, DiscardClaim, DiscardUnmap, DiscardUnaddr,
     DiscardType, DiscardFree, DiscardUnpin, DiscardUnref
<1> QED BY <1>1, <1>2, <1>3, <1>4, <1>5, <1>6, <1>7, <1>8, <1>9, <1>10 DEF
   Step

\* The actions that wait for a writeback or could disturb one.
LEMMA WritebacksEffects ==
  ASSUME TypeOK, ControlOK, NEW t \in Threads, Start(t) \/ Step(t)
  PROVE  WritebacksKept(t) \/ WritebacksStep(t)
<1> USE DEF TypeOK, ControlOK, Control, WritebacksKept, WritebacksStep, SameFlags, Quiesced, Locks, Owns, Loads, EntPCs,
            PCs, ReadPCs, GetPCs, FreePCs, EvictPCs, LoadPCs, AllocPCs,
            LockPCs, DiscardPCs, ClientPCs, Goto, SetFlag, ClearFlag,
            StoreStatus, IncRef, DecRef, Leave, Finish, Begin, Local,
            StatusStep, Unref, UnrefFinish, CallRead, AfterRead, AfterEvicted,
            TypeStep, AfterFreePage, AddrStep, cacheVars, entryVars, ioVars,
            opVars
<1>1. CASE Start(t)
  BY <1>1, StartFacts
<1>2. CASE TryGetRead(t)
  BY <1>2, SMTT(60) DEF TryGetRead, RdTest, RdInc, RdFree, RdWl, RdEvicted,
     RdConflict
<1>3. CASE GetLookup(t) \/ GetInCache(t)
  BY <1>3, SMTT(60) DEF GetInCache, GetLookup, GetAddr, GetWait, GetAddr2,
     GetType, GetDrop
<1>4. CASE GetFreePage(t)
  BY <1>4, SMTT(60) DEF GetFreePage, FpTake, FpMiss, FpRef, FpStatus, FpType,
     EvStay, EvRelease, MoveHand
<1>5. CASE TryEvict(t)
  BY <1>5, SMTT(60) DEF TryEvict, EvFast, EvClaim, EvLoad, EvWl, EvWb,
     EvDrain, EvVerify, EvLookup, EvAddr, EvType, EvFree, EvUnwl, EvUnclaim,
     EvUnref
<1>6. CASE GetFromDisk(t)
  BY <1>6, SMTT(60) DEF GetFromDisk, LoadCas, LoadAbortRef, LoadAbortType,
     LoadAbortFree, LoadAddr, LoadRead, LoadDone
<1>7. CASE Alloc(t)
  BY <1>7, SMTT(60) DEF Alloc, AllocAddr, AllocLookup, AllocPin
<1>8. CASE Client(t)
  BY <1>8, SMTT(60) DEF Client, Unget, TryClaim, Lock, MarkDirty, Modify,
     Unlock, Unclaim
<1>9. CASE GetWrite(t)
  BY <1>9, SMTT(60) DEF GetWrite, GwSet, GwWriteback, GwDrain
<1>10. CASE TryPageDiscard(t)
  BY <1>10, SMTT(60) DEF TryPageDiscard, DiscardLookup, DiscardWait,
     DiscardAddr, DiscardDrop, DiscardClaim, DiscardUnmap, DiscardUnaddr,
     DiscardType, DiscardFree, DiscardUnpin, DiscardUnref
<1> QED BY <1>1, <1>2, <1>3, <1>4, <1>5, <1>6, <1>7, <1>8, <1>9, <1>10 DEF
   Step

\* The actions that test or change CLEAN.
LEMMA SeesEffects ==
  ASSUME TypeOK, ControlOK, NEW t \in Threads, Start(t) \/ Step(t)
  PROVE  SeesKept(t) \/ SeesStep(t)
<1> USE DEF TypeOK, ControlOK, Control, SeesKept, SeesStep, SameFlags, SeesClean, SeesDirty, Creates, Loads, FreeStatus, AllocStatus, EntPCs,
            PCs, ReadPCs, GetPCs, FreePCs, EvictPCs, LoadPCs, AllocPCs,
            LockPCs, DiscardPCs, ClientPCs, Goto, SetFlag, ClearFlag,
            StoreStatus, IncRef, DecRef, Leave, Finish, Begin, Local,
            StatusStep, Unref, UnrefFinish, CallRead, AfterRead, AfterEvicted,
            TypeStep, AfterFreePage, AddrStep, cacheVars, entryVars, ioVars,
            opVars
<1>1. CASE Start(t)
  BY <1>1, StartFacts
<1>2. CASE TryGetRead(t)
  BY <1>2, SMTT(60) DEF TryGetRead, RdTest, RdInc, RdFree, RdWl, RdEvicted,
     RdConflict
<1>3. CASE GetLookup(t) \/ GetInCache(t)
  BY <1>3, SMTT(60) DEF GetInCache, GetLookup, GetAddr, GetWait, GetAddr2,
     GetType, GetDrop
<1>4. CASE GetFreePage(t)
  BY <1>4, SMTT(60) DEF GetFreePage, FpTake, FpMiss, FpRef, FpStatus, FpType,
     EvStay, EvRelease, MoveHand
<1>5. CASE TryEvict(t)
  BY <1>5, SMTT(60) DEF TryEvict, EvFast, EvClaim, EvLoad, EvWl, EvWb,
     EvDrain, EvVerify, EvLookup, EvAddr, EvType, EvFree, EvUnwl, EvUnclaim,
     EvUnref
<1>6. CASE GetFromDisk(t)
  BY <1>6, SMTT(60) DEF GetFromDisk, LoadCas, LoadAbortRef, LoadAbortType,
     LoadAbortFree, LoadAddr, LoadRead, LoadDone
<1>7. CASE Alloc(t)
  BY <1>7, SMTT(60) DEF Alloc, AllocAddr, AllocLookup, AllocPin
<1>8. CASE Client(t)
  BY <1>8, SMTT(60) DEF Client, Unget, TryClaim, Lock, MarkDirty, Modify,
     Unlock, Unclaim
<1>9. CASE GetWrite(t)
  BY <1>9, SMTT(60) DEF GetWrite, GwSet, GwWriteback, GwDrain
<1>10. CASE TryPageDiscard(t)
  BY <1>10, SMTT(60) DEF TryPageDiscard, DiscardLookup, DiscardWait,
     DiscardAddr, DiscardDrop, DiscardClaim, DiscardUnmap, DiscardUnaddr,
     DiscardType, DiscardFree, DiscardUnpin, DiscardUnref
<1> QED BY <1>1, <1>2, <1>3, <1>4, <1>5, <1>6, <1>7, <1>8, <1>9, <1>10 DEF
   Step

\* The actions that change what the cache shows.
LEMMA CurrentEffects ==
  ASSUME TypeOK, ControlOK, NEW t \in Threads, Start(t) \/ Step(t)
  PROVE  CurrentKept(t) \/ CurrentStep(t)
<1> USE DEF TypeOK, ControlOK, Control, CurrentKept, CurrentStep, SameFlags, Initialises, FreeStatus, AllocStatus, EntPCs,
            PCs, ReadPCs, GetPCs, FreePCs, EvictPCs, LoadPCs, AllocPCs,
            LockPCs, DiscardPCs, ClientPCs, Goto, SetFlag, ClearFlag,
            StoreStatus, IncRef, DecRef, Leave, Finish, Begin, Local,
            StatusStep, Unref, UnrefFinish, CallRead, AfterRead, AfterEvicted,
            TypeStep, AfterFreePage, AddrStep, cacheVars, entryVars, ioVars,
            opVars
<1>1. CASE Start(t)
  BY <1>1, StartFacts
<1>2. CASE TryGetRead(t)
  BY <1>2, SMTT(60) DEF TryGetRead, RdTest, RdInc, RdFree, RdWl, RdEvicted,
     RdConflict
<1>3. CASE GetLookup(t) \/ GetInCache(t)
  BY <1>3, SMTT(60) DEF GetInCache, GetLookup, GetAddr, GetWait, GetAddr2,
     GetType, GetDrop
<1>4. CASE GetFreePage(t)
  BY <1>4, SMTT(60) DEF GetFreePage, FpTake, FpMiss, FpRef, FpStatus, FpType,
     EvStay, EvRelease, MoveHand
<1>5. CASE TryEvict(t)
  BY <1>5, SMTT(60) DEF TryEvict, EvFast, EvClaim, EvLoad, EvWl, EvWb,
     EvDrain, EvVerify, EvLookup, EvAddr, EvType, EvFree, EvUnwl, EvUnclaim,
     EvUnref
<1>6. CASE GetFromDisk(t)
  BY <1>6, SMTT(60) DEF GetFromDisk, LoadCas, LoadAbortRef, LoadAbortType,
     LoadAbortFree, LoadAddr, LoadRead, LoadDone
<1>7. CASE Alloc(t)
  BY <1>7, SMTT(60) DEF Alloc, AllocAddr, AllocLookup, AllocPin
<1>8. CASE Client(t)
  BY <1>8, SMTT(60) DEF Client, Unget, TryClaim, Lock, MarkDirty, Modify,
     Unlock, Unclaim
<1>9. CASE GetWrite(t)
  BY <1>9, SMTT(60) DEF GetWrite, GwSet, GwWriteback, GwDrain
<1>10. CASE TryPageDiscard(t)
  BY <1>10, SMTT(60) DEF TryPageDiscard, DiscardLookup, DiscardWait,
     DiscardAddr, DiscardDrop, DiscardClaim, DiscardUnmap, DiscardUnaddr,
     DiscardType, DiscardFree, DiscardUnpin, DiscardUnref
<1> QED BY <1>1, <1>2, <1>3, <1>4, <1>5, <1>6, <1>7, <1>8, <1>9, <1>10 DEF
   Step

\* The actions that change what is known to be on disk.
LEMMA StoredEffects ==
  ASSUME TypeOK, ControlOK, NEW t \in Threads, Start(t) \/ Step(t)
  PROVE  StoredKept(t) \/ StoredStep(t)
<1> USE DEF TypeOK, ControlOK, Control, StoredKept, StoredStep, SameFlags, FreeStatus, AllocStatus, EntPCs,
            PCs, ReadPCs, GetPCs, FreePCs, EvictPCs, LoadPCs, AllocPCs,
            LockPCs, DiscardPCs, ClientPCs, Goto, SetFlag, ClearFlag,
            StoreStatus, IncRef, DecRef, Leave, Finish, Begin, Local,
            StatusStep, Unref, UnrefFinish, CallRead, AfterRead, AfterEvicted,
            TypeStep, AfterFreePage, AddrStep, cacheVars, entryVars, ioVars,
            opVars
<1>1. CASE Start(t)
  BY <1>1, StartFacts
<1>2. CASE TryGetRead(t)
  BY <1>2, SMTT(60) DEF TryGetRead, RdTest, RdInc, RdFree, RdWl, RdEvicted,
     RdConflict
<1>3. CASE GetLookup(t) \/ GetInCache(t)
  BY <1>3, SMTT(60) DEF GetInCache, GetLookup, GetAddr, GetWait, GetAddr2,
     GetType, GetDrop
<1>4. CASE GetFreePage(t)
  BY <1>4, SMTT(60) DEF GetFreePage, FpTake, FpMiss, FpRef, FpStatus, FpType,
     EvStay, EvRelease, MoveHand
<1>5. CASE TryEvict(t)
  BY <1>5, SMTT(60) DEF TryEvict, EvFast, EvClaim, EvLoad, EvWl, EvWb,
     EvDrain, EvVerify, EvLookup, EvAddr, EvType, EvFree, EvUnwl, EvUnclaim,
     EvUnref
<1>6. CASE GetFromDisk(t)
  BY <1>6, SMTT(60) DEF GetFromDisk, LoadCas, LoadAbortRef, LoadAbortType,
     LoadAbortFree, LoadAddr, LoadRead, LoadDone
<1>7. CASE Alloc(t)
  BY <1>7, SMTT(60) DEF Alloc, AllocAddr, AllocLookup, AllocPin
<1>8. CASE Client(t)
  BY <1>8, SMTT(60) DEF Client, Unget, TryClaim, Lock, MarkDirty, Modify,
     Unlock, Unclaim
<1>9. CASE GetWrite(t)
  BY <1>9, SMTT(60) DEF GetWrite, GwSet, GwWriteback, GwDrain
<1>10. CASE TryPageDiscard(t)
  BY <1>10, SMTT(60) DEF TryPageDiscard, DiscardLookup, DiscardWait,
     DiscardAddr, DiscardDrop, DiscardClaim, DiscardUnmap, DiscardUnaddr,
     DiscardType, DiscardFree, DiscardUnpin, DiscardUnref
<1> QED BY <1>1, <1>2, <1>3, <1>4, <1>5, <1>6, <1>7, <1>8, <1>9, <1>10 DEF
   Step

-----------------------------------------------------------------------------
(* Facts about the predicates.                                             *)

\* How the predicates of layers 4 to 6 are related to the locks.
LEMMA PageFacts ==
  ASSUME ControlOK, NEW x \in Threads
  PROVE  /\ Unmaps(x) \/ Prepares(x) => Owns(x) /\ Quiesced(x)
         /\ Publishes(x) => Loads(x) /\ Blank(x)
         /\ Quiesced(x) => Owns(x) \/ Loads(x)
         /\ SeesClean(x) \/ SeesDirty(x) => Quiesced(x)
         /\ Hidden(x) => Sole(x) /\ addr[x] \in Addrs
         /\ Initialises(x) => Creates(x) /\ Quiesced(x)
         /\ pc[x] = "l_done" => Loads(x) /\ Confirmed(x)
         /\ Prepares(x) \/ Initialises(x) => Creates(x) /\ Confirmed(x)
         /\ Owns(x) \/ Loads(x) \/ Confirmed(x) => ent[x] \in Entries
         /\ Between(x) \/ Confirmed(x) \/ Owns(x) \/ Loads(x) =>
               addr[x] \in Addrs
<1> USE DEF ControlOK, Control, Owns, Locks, Loads, Blank, Confirmed, Creates,
            Unmaps, Prepares, Publishes, Between, Quiesced, SeesClean,
            SeesDirty, Hidden, Sole, Initialises, HoldPCs, EntPCs, PCs,
            ReadPCs, GetPCs, FreePCs, EvictPCs, LoadPCs, AllocPCs, LockPCs,
            DiscardPCs, ClientPCs
<1>1. Unmaps(x) \/ Prepares(x) => Owns(x) /\ Quiesced(x)
  OBVIOUS
<1>2. Publishes(x) => Loads(x) /\ Blank(x)
  OBVIOUS
<1>3. Quiesced(x) => Owns(x) \/ Loads(x)
  OBVIOUS
<1>4. SeesClean(x) \/ SeesDirty(x) => Quiesced(x)
  OBVIOUS
<1>5. Hidden(x) => Sole(x) /\ addr[x] \in Addrs
  OBVIOUS
<1>6. Initialises(x) => Creates(x) /\ Quiesced(x)
  OBVIOUS
<1>7. pc[x] = "l_done" => Loads(x) /\ Confirmed(x)
  OBVIOUS
<1>8. Prepares(x) \/ Initialises(x) => Creates(x) /\ Confirmed(x)
  OBVIOUS
<1>9. Owns(x) \/ Loads(x) \/ Confirmed(x) => ent[x] \in Entries
  OBVIOUS
<1>10. Between(x) \/ Confirmed(x) \/ Owns(x) \/ Loads(x) => addr[x] \in Addrs
  OBVIOUS
<1> QED BY <1>1, <1>2, <1>3, <1>4, <1>5, <1>6, <1>7, <1>8, <1>9, <1>10

\* A step of t leaves the predicates of another thread alone.
LEMMA PageOthers ==
  ASSUME NEW t \in Threads, Frame(t), NEW u \in Threads \ {t}
  PROVE  /\ ent'[u] = ent[u] /\ addr'[u] = addr[u] /\ pc'[u] = pc[u]
         /\ Publishes(u)' <=> Publishes(u)
         /\ Unmaps(u)' <=> Unmaps(u)
         /\ Prepares(u)' <=> Prepares(u)
         /\ Hidden(u)' <=> Hidden(u)
         /\ Loads(u)' <=> Loads(u)
         /\ Blank(u)' <=> Blank(u)
         /\ Quiesced(u)' <=> Quiesced(u)
         /\ Initialises(u)' <=> Initialises(u)
         /\ SeesClean(u)' <=> SeesClean(u)
         /\ SeesDirty(u)' <=> SeesDirty(u)
BY DEF Frame, Publishes, Unmaps, Prepares, Hidden, Loads, Blank, Quiesced,
       Locks, Owns, Initialises, SeesClean, SeesDirty, Creates

\* A thread at one of these points is alone on its entry.
LEMMA AloneOn ==
  ASSUME IInv, NEW t \in Threads, Owns(t) \/ Loads(t)
  PROVE  Alone(t) /\ ent[t] \in Entries /\ addr[t] \in Addrs
BY OwnerAlone, LoaderIsAlone, PageFacts DEF IInv, Locking

\* An entry that its owner or loader knows to have an address is found there.
LEMMA OwnerMapped ==
  ASSUME IInv, MapOK, NEW t \in Threads, Owns(t) \/ Loads(t),
         ~ Unmaps(t), ~ Prepares(t), diskaddr[ent[t]] # NoAddr
  PROVE  lookup[diskaddr[ent[t]]] = ent[t]
<1>1. Alone(t) /\ ent[t] \in Entries
  BY AloneOn
<1>2. \A u \in Threads : Unmaps(u) \/ Prepares(u) => Owns(u)
  BY PageFacts DEF IInv
<1> QED BY <1>1, <1>2 DEF MapOK, Alone

\* An entry without an address is not in the table, unless its loader has just
\* put it there.
LEMMA BlankUnmapped ==
  ASSUME IInv, MapOK, NEW t \in Threads, Blank(t), ~ Publishes(t),
         NEW a \in Addrs
  PROVE  lookup[a] # ent[t]
<1>1. Owns(t) \/ Loads(t)
  BY PredicateFacts DEF IInv
<1>2. Alone(t) /\ ent[t] \in Entries
  BY <1>1, AloneOn
<1>3. diskaddr[ent[t]] = NoAddr
  BY DEF IInv, AddressesOK
<1>4. \A u \in Threads : Publishes(u) => Loads(u)
  BY PageFacts DEF IInv
<1> QED BY <1>2, <1>3, <1>4, ConstantAssumption DEF MapOK, Alone

\* An entry that has a writeback under way is found under its address.
LEMMA WritebackMapped ==
  ASSUME IInv, MapOK, WritebacksOK, NEW e \in Entries, wb[e] # "idle"
  PROVE  diskaddr[e] \in Addrs /\ lookup[diskaddr[e]] = e
<1>1. \A u \in Threads : Unmaps(u) \/ Prepares(u) => Quiesced(u)
  BY PageFacts DEF IInv
<1>2. diskaddr[e] # NoAddr /\ diskaddr[e] \in Addrs \cup {NoAddr}
  BY DEF WritebacksOK, IInv, TypeOK
<1> QED BY <1>1, <1>2 DEF MapOK, WritebacksOK

\* An address is usable when it is allocated and nobody creates or discards it.
LEMMA UsableSole ==
  ASSUME NEW a \in Addrs
  PROVE  Usable(a) <=> /\ atype[a] # NoType
                       /\ \A u \in Threads : addr[u] = a => ~ Sole(u)
BY DEF Usable, Sole

-----------------------------------------------------------------------------
(* Layer 4: the lookup table.                                              *)

\* A step that touches neither the table nor an address keeps MapOK.
LEMMA MapFrame ==
  ASSUME MapOK, NEW t \in Threads, Frame(t), MapKept(t)
  PROVE  MapOK'
BY PageOthers DEF MapOK, MapKept, Between

\* treepass_get_from_disk publishes its entry where it found none.
LEMMA LoadCasMap ==
  ASSUME IInv, MapOK, NEW t \in Threads, Frame(t), LoadCas(t),
         lookup[addr[t]] = NoEntry
  PROVE  MapOK'
<1>1. /\ pc[t] = "l_cas" /\ pc'[t] = "l_addr" /\ UNCHANGED <<diskaddr, ent, addr>>
      /\ lookup' = [lookup EXCEPT ![addr[t]] = ent[t]]
  BY DEF LoadCas, Goto, entryVars, opVars, IInv, TypeOK
<1>2. Loads(t) /\ Blank(t) /\ ~ Between(t)
  BY <1>1 DEF Loads, Blank, LoadPCs, Between, Publishes, Unmaps, Prepares
<1>3. Publishes(t)' /\ ~ Unmaps(t)' /\ ~ Prepares(t)'
  BY <1>1 DEF Publishes, Unmaps, Prepares
<1>4. diskaddr[ent[t]] = NoAddr /\ addr[t] \in Addrs /\ ent[t] \in Entries
  BY <1>2, AloneOn DEF IInv, AddressesOK
<1>5. \A u \in Threads : Publishes(u) \/ Unmaps(u) \/ Prepares(u) =>
         ent[u] \in Entries
  BY PageFacts DEF IInv
<1>6. lookup \in [Addrs -> Entries \cup {NoEntry}] /\ NoEntry \notin Entries
      /\ diskaddr \in [Entries -> Addrs \cup {NoAddr}]
  BY ConstantAssumption DEF IInv, TypeOK
<1> QED BY <1>1, <1>2, <1>3, <1>4, <1>5, <1>6, PageOthers DEF MapOK, Between

\* ... and stores the address in it.
LEMMA LoadAddrMap ==
  ASSUME IInv, MapOK, NEW t \in Threads, Frame(t), LoadAddr(t)
  PROVE  MapOK'
<1>1. /\ pc[t] = "l_addr" /\ pc'[t] = "l_read" /\ UNCHANGED <<lookup, ent, addr>>
      /\ diskaddr' = [diskaddr EXCEPT ![ent[t]] = addr[t]]
  BY DEF LoadAddr, AddrStep, Goto, opVars, IInv, TypeOK
<1>2. Loads(t) /\ Blank(t) /\ Publishes(t) /\ ~ Unmaps(t) /\ ~ Prepares(t)
  BY <1>1 DEF Loads, Blank, LoadPCs, Publishes, Unmaps, Prepares
<1>3. ~ Publishes(t)' /\ ~ Unmaps(t)' /\ ~ Prepares(t)'
  BY <1>1 DEF Publishes, Unmaps, Prepares
<1>4. /\ diskaddr[ent[t]] = NoAddr /\ addr[t] \in Addrs /\ ent[t] \in Entries
      /\ Alone(t)
  BY <1>2, AloneOn DEF IInv, AddressesOK
<1>5. \A u \in Threads : /\ Publishes(u) => Loads(u) /\ ent[u] \in Entries
                         /\ Unmaps(u) \/ Prepares(u) => Owns(u) /\ ent[u] \in Entries
  BY PageFacts DEF IInv
<1>6. lookup \in [Addrs -> Entries \cup {NoEntry}] /\ NoEntry \notin Entries
      /\ diskaddr \in [Entries -> Addrs \cup {NoAddr}] /\ NoAddr \notin Addrs
  BY ConstantAssumption DEF IInv, TypeOK
<1> QED BY <1>1, <1>2, <1>3, <1>4, <1>5, <1>6, PageOthers DEF MapOK, Alone

\* treepass_try_evict and treepass_try_page_discard take their entry out of the
\* table.
LEMMA UnmapMap ==
  ASSUME IInv, MapOK, NEW t \in Threads, Frame(t),
         DiscardUnmap(t) \/ (EvLookup(t) /\ diskaddr[ent[t]] # NoAddr)
  PROVE  MapOK'
<1>1. /\ pc[t] \in {"d_unmap", "ev_lookup"} /\ pc'[t] \in {"d_unaddr", "ev_addr"}
      /\ UNCHANGED <<diskaddr, ent, addr>>
      /\ diskaddr[ent[t]] \in Addrs
      /\ lookup' = [lookup EXCEPT ![diskaddr[ent[t]]] = NoEntry]
  <2>1. CASE DiscardUnmap(t)
    <3>1. /\ pc[t] = "d_unmap" /\ pc'[t] = "d_unaddr"
          /\ UNCHANGED <<diskaddr, ent, addr>>
          /\ lookup' = [lookup EXCEPT ![addr[t]] = NoEntry]
      BY <2>1 DEF DiscardUnmap, Goto, entryVars, opVars, IInv, TypeOK
    <3>2. Confirmed(t)
      BY <3>1 DEF Confirmed
    <3>3. diskaddr[ent[t]] = addr[t] /\ addr[t] \in Addrs
      BY <3>2, PageFacts DEF IInv, AddressesOK
    <3> QED BY <3>1, <3>3
  <2>2. CASE EvLookup(t) /\ diskaddr[ent[t]] # NoAddr
    <3>1. /\ pc[t] = "ev_lookup" /\ pc'[t] = "ev_addr"
          /\ UNCHANGED <<diskaddr, ent, addr>>
          /\ lookup' = [lookup EXCEPT ![diskaddr[ent[t]]] = NoEntry]
      BY <2>2 DEF EvLookup, Goto, entryVars, opVars, IInv, TypeOK
    <3>2. ent[t] \in Entries
      BY <3>1 DEF IInv, ControlOK, Control, EntPCs, PCs, EvictPCs
    <3> QED BY <2>2, <3>1, <3>2 DEF IInv, TypeOK
  <2> QED BY <2>1, <2>2
<1>2. Owns(t) /\ ~ Publishes(t) /\ ~ Unmaps(t) /\ ~ Prepares(t)
  BY <1>1 DEF Owns, EvictPCs, Publishes, Unmaps, Prepares
<1>3. ~ Publishes(t)' /\ Unmaps(t)'
  BY <1>1 DEF Publishes, Unmaps, Prepares
<1>4. Alone(t) /\ ent[t] \in Entries
  BY <1>2, AloneOn
<1>5. lookup[diskaddr[ent[t]]] = ent[t]
  BY <1>1, <1>2, ConstantAssumption, OwnerMapped
<1>6. \A u \in Threads : /\ Publishes(u) => Loads(u) /\ ent[u] \in Entries
                         /\ Unmaps(u) \/ Prepares(u) => ent[u] \in Entries
                         /\ Between(u) => addr[u] \in Addrs
  BY PageFacts DEF IInv
<1>7. lookup \in [Addrs -> Entries \cup {NoEntry}] /\ NoEntry \notin Entries
      /\ diskaddr \in [Entries -> Addrs \cup {NoAddr}] /\ NoAddr \notin Addrs
  BY ConstantAssumption DEF IInv, TypeOK
<1> QED BY <1>1, <1>2, <1>3, <1>4, <1>5, <1>6, <1>7, PageOthers
        DEF MapOK, Alone, Between

\* ... and then its address out of the entry.
LEMMA UnaddrMap ==
  ASSUME IInv, MapOK, NEW t \in Threads, Frame(t),
         EvAddr(t) \/ DiscardUnaddr(t)
  PROVE  MapOK'
<1>1. /\ pc[t] \in {"ev_addr", "d_unaddr"} /\ pc'[t] \in {"ev_type", "d_type"}
      /\ UNCHANGED <<lookup, ent, addr>>
      /\ diskaddr' = [diskaddr EXCEPT ![ent[t]] = NoAddr]
  BY DEF EvAddr, DiscardUnaddr, AddrStep, Goto, opVars, IInv, TypeOK
<1>2. Owns(t) /\ Unmaps(t) /\ ~ Publishes(t)
  BY <1>1 DEF Owns, EvictPCs, Unmaps, Publishes
<1>3. ~ Publishes(t)' /\ ~ Unmaps(t)' /\ ~ Prepares(t)'
  BY <1>1 DEF Publishes, Unmaps, Prepares
<1>4. Alone(t) /\ ent[t] \in Entries
  BY <1>2, AloneOn
<1>5. \A u \in Threads : /\ Publishes(u) => Loads(u) /\ ent[u] \in Entries
                         /\ Unmaps(u) \/ Prepares(u) => Owns(u) /\ ent[u] \in Entries
  BY PageFacts DEF IInv
<1>6. lookup \in [Addrs -> Entries \cup {NoEntry}] /\ NoEntry \notin Entries
      /\ diskaddr \in [Entries -> Addrs \cup {NoAddr}] /\ NoAddr \notin Addrs
  BY ConstantAssumption DEF IInv, TypeOK
<1> QED BY <1>1, <1>2, <1>3, <1>4, <1>5, <1>6, PageOthers DEF MapOK, Alone

\* treepass_alloc stores the address in its new entry.
LEMMA AllocAddrMap ==
  ASSUME IInv, MapOK, NEW t \in Threads, Frame(t), AllocAddr(t)
  PROVE  MapOK'
<1>1. /\ pc[t] = "a_addr" /\ pc'[t] = "a_lookup" /\ UNCHANGED <<lookup, ent, addr>>
      /\ diskaddr' = [diskaddr EXCEPT ![ent[t]] = addr[t]]
  BY DEF AllocAddr, AddrStep, Goto, opVars, IInv, TypeOK
<1>2. Owns(t) /\ Blank(t) /\ ~ Publishes(t) /\ ~ Unmaps(t) /\ ~ Prepares(t)
  BY <1>1 DEF Owns, Blank, AllocPCs, Publishes, Unmaps, Prepares
<1>3. ~ Publishes(t)' /\ ~ Unmaps(t)' /\ Prepares(t)'
  BY <1>1 DEF Publishes, Unmaps, Prepares
<1>4. /\ diskaddr[ent[t]] = NoAddr /\ addr[t] \in Addrs /\ ent[t] \in Entries
      /\ Alone(t)
  BY <1>2, AloneOn DEF IInv, AddressesOK
<1>5. \A u \in Threads : /\ Publishes(u) => Loads(u) /\ ent[u] \in Entries
                         /\ Unmaps(u) \/ Prepares(u) => Owns(u) /\ ent[u] \in Entries
  BY PageFacts DEF IInv
<1>6. lookup \in [Addrs -> Entries \cup {NoEntry}] /\ NoEntry \notin Entries
      /\ diskaddr \in [Entries -> Addrs \cup {NoAddr}] /\ NoAddr \notin Addrs
  BY ConstantAssumption DEF IInv, TypeOK
<1> QED BY <1>1, <1>2, <1>3, <1>4, <1>5, <1>6, PageOthers DEF MapOK, Alone

\* ... and publishes the entry: nobody else can have put the address there.
LEMMA AllocLookupMap ==
  ASSUME IInv, MapOK, HiddenOK, NEW t \in Threads, Frame(t), AllocLookup(t)
  PROVE  MapOK'
<1>1. /\ pc[t] = "a_lookup" /\ pc'[t] \in {"a_pin", "dirty"}
      /\ UNCHANGED <<diskaddr, ent, addr>>
      /\ lookup' = [lookup EXCEPT ![addr[t]] = ent[t]]
  BY DEF AllocLookup, Goto, entryVars, opVars, IInv, TypeOK
<1>2. Owns(t) /\ Confirmed(t) /\ ~ Publishes(t) /\ ~ Unmaps(t) /\ Prepares(t)
  BY <1>1 DEF Owns, Confirmed, AllocPCs, Publishes, Unmaps, Prepares
<1>3. ~ Publishes(t)' /\ ~ Unmaps(t)' /\ ~ Prepares(t)'
  BY <1>1 DEF Publishes, Unmaps, Prepares
<1>4. /\ diskaddr[ent[t]] = addr[t] /\ addr[t] \in Addrs /\ ent[t] \in Entries
      /\ Alone(t)
  BY <1>2, AloneOn DEF IInv, AddressesOK
<1>5. lookup[addr[t]] = NoEntry
  <2>1. Hidden(t)
    BY <1>1 DEF Hidden, IInv, ControlOK, Control, AllocPCs, ClientPCs
  <2> QED BY <2>1 DEF HiddenOK
<1>6. \A u \in Threads : /\ Publishes(u) => Loads(u) /\ ent[u] \in Entries
                         /\ Unmaps(u) \/ Prepares(u) => Owns(u) /\ ent[u] \in Entries
                         /\ Between(u) => addr[u] \in Addrs
  BY PageFacts DEF IInv
<1>7. lookup \in [Addrs -> Entries \cup {NoEntry}] /\ NoEntry \notin Entries
      /\ diskaddr \in [Entries -> Addrs \cup {NoAddr}] /\ NoAddr \notin Addrs
  BY ConstantAssumption DEF IInv, TypeOK
<1> QED BY <1>1, <1>2, <1>3, <1>4, <1>5, <1>6, <1>7, PageOthers
        DEF MapOK, Alone, Between

\* Every step of a thread keeps the table.
LEMMA ThreadMap ==
  ASSUME IInv, MapOK, HiddenOK, NEW t \in Threads, Frame(t),
         Start(t) \/ Step(t)
  PROVE  MapOK'
<1>1. MapKept(t) \/ MapStep(t)
  BY MapEffects DEF IInv
<1> QED BY <1>1, MapFrame, LoadCasMap, LoadAddrMap, UnmapMap, UnaddrMap,
           AllocAddrMap, AllocLookupMap DEF MapStep

-----------------------------------------------------------------------------
(* Layer 4: pages nobody can find.                                         *)

\* A step that neither publishes, creates nor discards keeps HiddenOK.
LEMMA HiddenFrame ==
  ASSUME HiddenOK, NEW t \in Threads, Frame(t), HiddenKept(t)
  PROVE  HiddenOK'
BY PageOthers DEF HiddenOK, HiddenKept

\* The user of an address that is hidden is its only one.
LEMMA HiddenAlone ==
  ASSUME IInv, NEW t \in Threads, NEW u \in Threads \ {t}, Hidden(u)
  PROVE  addr[u] # addr[t] /\ addr[u] \in Addrs
BY PageFacts, ConstantAssumption DEF IInv, UsersOK

\* An entry is published where an address is allocated and not hidden.
LEMMA PublishHidden ==
  ASSUME IInv, HiddenOK, NEW t \in Threads, Frame(t),
         AllocLookup(t) \/ (LoadCas(t) /\ lookup[addr[t]] = NoEntry)
  PROVE  HiddenOK'
<1>1. /\ pc[t] \in {"a_lookup", "l_cas"}
      /\ UNCHANGED <<atype, addr, op>>
      /\ lookup' = [lookup EXCEPT ![addr[t]] = ent[t]]
      /\ pc'[t] \in {"l_addr", "a_pin", "dirty"}
      /\ pc'[t] = "l_addr" => pc[t] = "l_cas"
  BY DEF AllocLookup, LoadCas, Goto, opVars, IInv, TypeOK
<1>2. ~ Hidden(t)'
  BY <1>1 DEF Hidden, IInv, ControlOK, Control, LoadPCs, ClientPCs
<1>3. addr[t] \in Addrs
  BY <1>1 DEF IInv, ControlOK, Control
<1>4. atype[addr[t]] # NoType
  BY <1>3, ConstantAssumption DEF IInv, UsersOK
<1>5. \A u \in Threads \ {t} : Hidden(u) => addr[u] # addr[t] /\ addr[u] \in Addrs
  BY HiddenAlone
<1> QED BY <1>1, <1>2, <1>3, <1>4, <1>5, PageOthers DEF HiddenOK, IInv, TypeOK

\* Taking an entry out of the table hides a page or leaves it hidden.
LEMMA UnmapHidden ==
  ASSUME IInv, HiddenOK, NEW t \in Threads, Frame(t),
         DiscardUnmap(t) \/ (EvLookup(t) /\ diskaddr[ent[t]] # NoAddr)
  PROVE  HiddenOK'
<1>1. /\ UNCHANGED <<atype, addr, op>>
      /\ \A a \in Addrs : lookup'[a] \in {lookup[a], NoEntry}
  BY DEF DiscardUnmap, EvLookup, entryVars, opVars, IInv, TypeOK
<1>2. Hidden(t)' => Hidden(t) \/ lookup'[addr[t]] = NoEntry
  <2>1. CASE DiscardUnmap(t)
    BY <2>1 DEF DiscardUnmap, IInv, TypeOK, ControlOK, Control
  <2>2. CASE EvLookup(t) /\ diskaddr[ent[t]] # NoAddr
    BY <2>2 DEF EvLookup, Goto, Hidden, ClientPCs, opVars, IInv, TypeOK
  <2> QED BY <2>1, <2>2
<1>3. \A u \in Threads : Hidden(u) => addr[u] \in Addrs
  BY PageFacts DEF IInv
<1> QED BY <1>1, <1>2, <1>3, PageOthers DEF HiddenOK

\* An address that is not allocated is not in the table, so a new page is
\* hidden at first.
LEMMA StartAllocHidden ==
  ASSUME IInv, HiddenOK, NEW t \in Threads, Frame(t), StartAlloc(t)
  PROVE  HiddenOK'
<1>1. PICK a \in Addrs, ty \in Types :
         /\ atype[a] = NoType /\ atype' = [atype EXCEPT ![a] = ty]
         /\ Begin(t, "alloc", a, "fp")
  BY Zenon DEF StartAlloc
<1>2. addr'[t] = a /\ UNCHANGED lookup
  BY <1>1 DEF Begin, IInv, TypeOK
<1> QED BY <1>1, <1>2, PageOthers DEF HiddenOK, IInv, TypeOK

\* A discard ends with the address gone from the table.
LEMMA DiscardHidden ==
  ASSUME IInv, HiddenOK, NEW t \in Threads, Frame(t),
         DiscardLookup(t) \/ DiscardUnref(t)
  PROVE  HiddenOK'
<1>1. addr[t] \in Addrs /\ pc[t] \in {"d_lookup", "d_unref"} /\ op[t] = "discard"
  BY DEF DiscardLookup, DiscardUnref, IInv, ControlOK, Control, DiscardPCs
<1>2. CASE CallRead(t, lookup[addr[t]], "discard")
  <2>1. /\ UNCHANGED <<lookup, atype, op>> /\ pc'[t] = "rd_test"
    BY <1>2 DEF CallRead, Goto, cacheVars, opVars, IInv, TypeOK
  <2>2. ~ Hidden(t)'
    BY <1>1, <2>1 DEF Hidden
  <2> QED BY <2>1, <2>2, PageOthers DEF HiddenOK
<1>3. CASE ~ CallRead(t, lookup[addr[t]], "discard")
  <2>1. /\ UNCHANGED lookup /\ pc'[t] = "idle" /\ op'[t] = "none"
        /\ atype' = [atype EXCEPT ![addr[t]] = NoType]
    BY <1>3 DEF DiscardLookup, DiscardUnref, Finish, Leave, Goto, IInv, TypeOK
  <2>2. lookup[addr[t]] = NoEntry
    <3>1. CASE DiscardLookup(t)
      BY <1>3, <3>1 DEF DiscardLookup
    <3>2. CASE DiscardUnref(t)
      BY <3>2 DEF DiscardUnref, Hidden, HiddenOK
    <3> QED BY <3>1, <3>2
  <2>3. ~ Hidden(t)'
    BY <2>1 DEF Hidden
  <2> QED BY <1>1, <2>1, <2>2, <2>3, PageOthers DEF HiddenOK, IInv, TypeOK
<1> QED BY <1>2, <1>3

\* Every step of a thread keeps HiddenOK.
LEMMA ThreadHidden ==
  ASSUME IInv, HiddenOK, NEW t \in Threads, Frame(t), Start(t) \/ Step(t)
  PROVE  HiddenOK'
<1>1. HiddenKept(t) \/ HiddenStep(t)
  BY HiddenEffects DEF IInv
<1> QED BY <1>1, HiddenFrame, PublishHidden, UnmapHidden, StartAllocHidden,
           DiscardHidden DEF HiddenStep

-----------------------------------------------------------------------------
(* Layer 4: why an entry is loading or has no address.                     *)

\* A step that touches neither keeps ReasonsOK.
LEMMA ReasonsFrame ==
  ASSUME ReasonsOK, NEW t \in Threads, Frame(t), ReasonsKept(t)
  PROVE  ReasonsOK'
BY PageOthers DEF ReasonsOK, ReasonsKept, SameFlags

\* It is enough to look at the entry that a step writes.
LEMMA ReasonsEntry ==
  ASSUME ReasonsOK, NEW t \in Threads, Frame(t), NEW z \in Entries,
         \A x \in Entries \ {z} :
            status'[x] = status[x] /\ diskaddr'[x] = diskaddr[x],
         Loads(t) \/ Blank(t) => ent[t] = z,
         "LOADING" \in status'[z] => Loads(t)' /\ ent'[t] = z,
         diskaddr'[z] = NoAddr =>
            "FREE" \in status'[z] \/ (Blank(t)' /\ ent'[t] = z)
  PROVE  ReasonsOK'
BY PageOthers DEF ReasonsOK

\* The owner of a claim finds its entry loaded.
LEMMA OwnerNotLoading ==
  ASSUME IInv, ReasonsOK, NEW t \in Threads, Owns(t)
  PROVE  "LOADING" \notin status[ent[t]]
<1>1. Alone(t) /\ ent[t] \in Entries /\ ~ Loads(t)
  BY AloneOn, PredicateFacts DEF IInv
<1> QED BY <1>1 DEF ReasonsOK, Alone

\* The steps that take or free an entry, begin or end a load, or store an
\* address.
LEMMA StepReasons ==
  ASSUME IInv, ReasonsOK, NEW t \in Threads, Frame(t), ReasonsStep(t)
  PROVE  ReasonsOK'
<1>1. CASE FpTake(t)
  <2>1. PICK z \in Entries :
           /\ status[z] = FreeStatus /\ status' = [status EXCEPT ![z] = AllocStatus]
           /\ ent'[t] = z /\ UNCHANGED diskaddr
           /\ pc[t] = "fp" /\ pc'[t] \in {"fp_status", "fp_ref"}
    BY ZenonT(60), <1>1 DEF FpTake, StoreStatus, Goto, IInv, TypeOK
  <2>2. ~ Loads(t) /\ ~ Blank(t) /\ Blank(t)'
    BY <2>1 DEF Loads, Blank, LoadPCs
  <2> QED BY <2>1, <2>2, ReasonsEntry DEF AllocStatus, IInv, TypeOK
<1>2. CASE FpStatus(t) \/ LoadDone(t) \/ LoadAbortFree(t) \/ EvFree(t) \/ DiscardFree(t)
  <2>1. /\ pc[t] \in {"fp_status", "l_done", "l_abfree", "ev_free", "d_free"}
        /\ UNCHANGED <<diskaddr, op>>
        /\ \A x \in Entries \ {ent[t]} : status'[x] = status[x]
    BY <1>2 DEF FpStatus, LoadDone, LoadAbortFree, EvFree, DiscardFree,
       StatusStep, StoreStatus, ClearFlag, opVars, IInv, TypeOK
  <2>2. ent[t] \in Entries /\ addr[t] \in Addrs
    BY <2>1 DEF IInv, ControlOK, Control, EntPCs, PCs, FreePCs, EvictPCs,
       LoadPCs, DiscardPCs
  <2>3. CASE FpStatus(t)
    <3>1. /\ pc'[t] = "fp_type" /\ UNCHANGED <<op, ent>>
          /\ status'[ent[t]] = IF op[t] = "alloc" THEN AllocStatus
                                                  ELSE ReadLoadingStatus
      BY <2>2, <2>3 DEF FpStatus, StatusStep, StoreStatus, Goto, opVars, IInv,
         TypeOK
    <3>2. Blank(t)' /\ ("LOADING" \in status'[ent[t]] => Loads(t)')
      BY <3>1 DEF Blank, Loads, AllocStatus
    <3> QED BY <2>1, <2>2, <3>1, <3>2, ReasonsEntry
  <2>4. CASE LoadDone(t)
    <3>1. "LOADING" \notin status'[ent[t]]
      BY <2>2, <2>4 DEF LoadDone, ClearFlag, IInv, TypeOK
    <3>2. diskaddr[ent[t]] = addr[t]
      BY <2>4 DEF LoadDone, Confirmed, IInv, AddressesOK
    <3> QED BY <2>1, <2>2, <3>1, <3>2, ReasonsEntry, ConstantAssumption
  <2>5. CASE LoadAbortFree(t) \/ EvFree(t) \/ DiscardFree(t)
    <3>1. status'[ent[t]] = {"FREE"}
      BY <2>2, <2>5 DEF LoadAbortFree, EvFree, DiscardFree, StoreStatus,
         FreeStatus, IInv, TypeOK
    <3> QED BY <2>1, <2>2, <3>1, ReasonsEntry
  <2> QED BY <1>2, <2>3, <2>4, <2>5
<1>3. CASE LoadAddr(t) \/ AllocAddr(t) \/ EvAddr(t) \/ DiscardUnaddr(t)
  <2>1. /\ pc[t] \in {"l_addr", "a_addr", "ev_addr", "d_unaddr"}
        /\ UNCHANGED <<status, ent>>
        /\ \A x \in Entries \ {ent[t]} : diskaddr'[x] = diskaddr[x]
    BY <1>3 DEF LoadAddr, AllocAddr, EvAddr, DiscardUnaddr, AddrStep, IInv, TypeOK
  <2>2. ent[t] \in Entries /\ addr[t] \in Addrs
    BY <2>1 DEF IInv, ControlOK, Control, EntPCs, PCs, AllocPCs, EvictPCs,
       LoadPCs, DiscardPCs
  <2>3. CASE LoadAddr(t)
    BY <2>1, <2>2, <2>3, ReasonsEntry, ConstantAssumption DEF LoadAddr,
       AddrStep, Goto, Loads, LoadPCs, IInv, TypeOK
  <2>4. CASE AllocAddr(t) \/ EvAddr(t) \/ DiscardUnaddr(t)
    <3>1. Owns(t)
      BY <2>4 DEF AllocAddr, EvAddr, DiscardUnaddr, Owns, AllocPCs, EvictPCs
    <3>2. "LOADING" \notin status'[ent[t]]
      BY <2>1, <3>1, OwnerNotLoading
    <3>3. diskaddr'[ent[t]] = NoAddr => Blank(t)'
      BY <2>2, <2>4, ConstantAssumption DEF AllocAddr, EvAddr, DiscardUnaddr,
         AddrStep, Goto, Blank, IInv, TypeOK
    <3> QED BY <2>1, <2>2, <3>2, <3>3, ReasonsEntry
  <2> QED BY <1>3, <2>3, <2>4
<1> QED BY <1>1, <1>2, <1>3 DEF ReasonsStep

\* Every step of a thread keeps ReasonsOK.
LEMMA ThreadReasons ==
  ASSUME IInv, ReasonsOK, NEW t \in Threads, Frame(t), Start(t) \/ Step(t)
  PROVE  ReasonsOK'
<1>1. ReasonsKept(t) \/ ReasonsStep(t)
  BY ReasonsEffects DEF IInv
<1> QED BY <1>1, ReasonsFrame, StepReasons

-----------------------------------------------------------------------------
(* Layer 5: writeback.                                                     *)

\* A step that does not touch writebacks keeps WritebacksOK.
LEMMA WritebacksFrame ==
  ASSUME IInv, WritebacksOK, NEW t \in Threads, Frame(t), WritebacksKept(t)
  PROVE  WritebacksOK'
<1>1. \A u \in Threads : Quiesced(u) => ent[u] \in Entries
  BY PageFacts DEF IInv
<1> QED BY <1>1, PageOthers DEF WritebacksOK, WritebacksKept, SameFlags

\* It is enough to look at the entry that a step writes, when no writeback of
\* it is under way.
LEMMA WritebacksEntry ==
  ASSUME IInv, WritebacksOK, NEW t \in Threads, Frame(t), NEW z \in Entries,
         \A x \in Entries \ {z} :
            status'[x] = status[x] /\ diskaddr'[x] = diskaddr[x],
         UNCHANGED <<wb, waddr>>,
         "WRITEBACK" \notin status[z], "WRITEBACK" \notin status'[z],
         Quiesced(t)' => ent'[t] = z
  PROVE  WritebacksOK'
<1>1. \A u \in Threads : Quiesced(u) => ent[u] \in Entries
  BY PageFacts DEF IInv
<1>2. wb[z] = "idle"
  BY DEF WritebacksOK
<1> QED BY <1>1, <1>2, PageOthers DEF WritebacksOK

\* The steps that wait for a writeback, or write the status or the address of
\* an entry.
LEMMA StepWritebacks ==
  ASSUME IInv, WritebacksOK, NEW t \in Threads, Frame(t), WritebacksStep(t)
  PROVE  WritebacksOK'
<1>1. CASE FpTake(t)
  <2>1. PICK z \in Entries :
           /\ status[z] = FreeStatus /\ status' = [status EXCEPT ![z] = AllocStatus]
           /\ ent'[t] = z /\ UNCHANGED <<diskaddr, wb, waddr>>
    BY <1>1 DEF FpTake, StoreStatus, ioVars, IInv, TypeOK
  <2>2. "WRITEBACK" \notin status[z] /\ "WRITEBACK" \notin status'[z]
    BY <2>1 DEF FreeStatus, AllocStatus, IInv, TypeOK
  <2> QED BY <2>1, <2>2, WritebacksEntry DEF IInv, TypeOK
<1>2. CASE FpStatus(t) \/ LoadAbortFree(t) \/ EvFree(t) \/ DiscardFree(t)
  <2>1. /\ pc[t] \in {"fp_status", "l_abfree", "ev_free", "d_free"}
        /\ pc'[t] = "g_lookup" \/ UNCHANGED ent
        /\ UNCHANGED <<diskaddr, wb, waddr, op>>
        /\ \A x \in Entries \ {ent[t]} : status'[x] = status[x]
    BY <1>2 DEF FpStatus, LoadAbortFree, EvFree, DiscardFree, StatusStep,
       StoreStatus, Leave, Goto, ioVars, opVars, IInv, TypeOK
  <2>2. Quiesced(t) /\ ent[t] \in Entries
    BY <2>1 DEF Quiesced, Locks, Owns, Loads, EvictPCs, LoadPCs, IInv,
       ControlOK, Control, EntPCs, PCs, FreePCs, DiscardPCs
  <2>3. "WRITEBACK" \notin status'[ent[t]]
    BY <1>2, <2>2 DEF FpStatus, LoadAbortFree, EvFree, DiscardFree,
       StoreStatus, FreeStatus, AllocStatus, ReadLoadingStatus, IInv, TypeOK
  <2>4. pc'[t] = "g_lookup" => ~ Quiesced(t)'
    BY DEF Quiesced, Locks, Owns, Loads, EvictPCs, LoadPCs, AllocPCs, LockPCs
  <2> QED BY <2>1, <2>2, <2>3, <2>4, WritebacksEntry DEF WritebacksOK
<1>3. CASE EvWb(t) \/ GwWriteback(t)
  <2>1. /\ UNCHANGED <<status, diskaddr, wb, waddr, ent, op>>
        /\ pc[t] \in {"ev_wb", "gw_wb"}
        /\ pc'[t] = "ev_unwl" \/ "WRITEBACK" \notin status[ent[t]]
    BY <1>3 DEF EvWb, GwWriteback, Local, Goto, Test, cacheVars, ioVars, opVars,
       IInv, TypeOK
  <2>2. ent[t] \in Entries
    BY <2>1 DEF IInv, ControlOK, Control, EntPCs, PCs, EvictPCs, LockPCs
  <2>3. CASE pc'[t] = "ev_unwl"
    <3>1. ~ Quiesced(t)'
      BY <2>3 DEF Quiesced, Loads, LoadPCs
    <3> QED BY <2>1, <3>1, WritebacksFrame DEF WritebacksKept, SameFlags
  <2>4. CASE "WRITEBACK" \notin status[ent[t]]
    BY <2>1, <2>2, <2>4, WritebacksEntry
  <2> QED BY <2>1, <2>3, <2>4
<1>4. CASE LoadAddr(t) \/ AllocAddr(t) \/ EvAddr(t) \/ DiscardUnaddr(t)
  <2>1. /\ pc[t] \in {"l_addr", "a_addr", "ev_addr", "d_unaddr"}
        /\ UNCHANGED <<status, wb, waddr, ent, op>>
        /\ \A x \in Entries \ {ent[t]} : diskaddr'[x] = diskaddr[x]
    BY <1>4 DEF LoadAddr, AllocAddr, EvAddr, DiscardUnaddr, AddrStep, ioVars,
       opVars, IInv, TypeOK
  <2>2. Quiesced(t) /\ ent[t] \in Entries
    BY <2>1 DEF Quiesced, Locks, Owns, Loads, EvictPCs, LoadPCs, AllocPCs,
       IInv, ControlOK, Control, EntPCs, PCs, DiscardPCs
  <2> QED BY <2>1, <2>2, WritebacksEntry DEF WritebacksOK
<1> QED BY <1>1, <1>2, <1>3, <1>4 DEF WritebacksStep

\* Every step of a thread keeps WritebacksOK.
LEMMA ThreadWritebacks ==
  ASSUME IInv, WritebacksOK, NEW t \in Threads, Frame(t), Start(t) \/ Step(t)
  PROVE  WritebacksOK'
<1>1. WritebacksKept(t) \/ WritebacksStep(t)
  BY WritebacksEffects DEF IInv
<1> QED BY <1>1, WritebacksFrame, StepWritebacks

-----------------------------------------------------------------------------
(* Layer 6: what a thread knows of CLEAN.                                  *)

\* A step that neither tests nor changes CLEAN keeps SeesOK.
LEMMA SeesFrame ==
  ASSUME IInv, SeesOK, NEW t \in Threads, Frame(t), SeesKept(t)
  PROVE  SeesOK'
<1>1. \A u \in Threads : SeesClean(u) \/ SeesDirty(u) => ent[u] \in Entries
  BY PageFacts DEF IInv
<1> QED BY <1>1, PageOthers DEF SeesOK, SeesKept, SameFlags

\* It is enough to look at the entry that a step writes, when nobody else knows
\* anything of it.
LEMMA SeesEntry ==
  ASSUME IInv, SeesOK, NEW t \in Threads, Frame(t), NEW z \in Entries,
         \A x \in Entries \ {z} : status'[x] = status[x],
         \A u \in Threads \ {t} : Owns(u) \/ Loads(u) => ent[u] # z,
         SeesClean(t)' => ent'[t] = z /\ "CLEAN" \in status'[z],
         SeesDirty(t)' => ent'[t] = z /\ "CLEAN" \notin status'[z]
  PROVE  SeesOK'
<1>1. \A u \in Threads \ {t} : SeesClean(u) \/ SeesDirty(u) =>
         ent[u] \in Entries /\ ent[u] # z
  BY PageFacts DEF IInv
<1> QED BY <1>1, PageOthers DEF SeesOK

\* The steps that store a status, verify it or mark the page dirty.
LEMMA StepSees ==
  ASSUME IInv, SeesOK, NEW t \in Threads, Frame(t), SeesStep(t)
  PROVE  SeesOK'
<1>1. CASE FpTake(t)
  <2>1. PICK z \in Entries :
           /\ status[z] = FreeStatus /\ status' = [status EXCEPT ![z] = AllocStatus]
           /\ ent'[t] = z /\ UNCHANGED op /\ pc'[t] \in {"fp_ref", "fp_status"}
    BY ZenonT(60), <1>1 DEF FpTake, StoreStatus, Goto, opVars, IInv, TypeOK
  <2>2. \A u \in Threads : Owns(u) \/ Loads(u) => ent[u] # z
    BY <2>1 DEF FreeStatus, IInv, ClaimsOK, LoadsOK
  <2>3. "CLEAN" \notin status'[z] /\ ~ SeesClean(t)'
    BY <2>1 DEF AllocStatus, SeesClean, Loads, LoadPCs, IInv, TypeOK
  <2> QED BY <2>1, <2>2, <2>3, SeesEntry DEF IInv, TypeOK
<1>2. CASE FpStatus(t)
  <2>1. /\ pc[t] = "fp_status" /\ pc'[t] = "fp_type" /\ UNCHANGED <<op, ent>>
        /\ status' = [status EXCEPT ![ent[t]] =
                        IF op[t] = "alloc" THEN AllocStatus
                                           ELSE ReadLoadingStatus]
    BY <1>2 DEF FpStatus, StoreStatus, StatusStep, Goto, opVars, IInv, TypeOK
  <2>2. Owns(t)
    BY <2>1 DEF Owns
  <2>3. Alone(t) /\ ent[t] \in Entries
    BY <2>2, AloneOn
  <2>4. /\ SeesClean(t)' => op[t] # "alloc"
        /\ SeesDirty(t)' => op[t] = "alloc"
    BY <2>1 DEF SeesClean, SeesDirty, Loads, LoadPCs, Creates
  <2> QED BY <2>1, <2>3, <2>4, SeesEntry DEF Alone, AllocStatus,
             ReadLoadingStatus, IInv, TypeOK
<1>3. CASE LoadAbortFree(t) \/ EvFree(t) \/ DiscardFree(t)
  <2>1. /\ pc[t] \in {"l_abfree", "ev_free", "d_free"}
        /\ pc'[t] \in {"g_lookup", "ev_unref", "d_unpin"}
        /\ status' = [status EXCEPT ![ent[t]] = FreeStatus]
    BY <1>3 DEF LoadAbortFree, EvFree, DiscardFree, StoreStatus, StatusStep,
       Leave, Goto, IInv, TypeOK
  <2>2. Owns(t) \/ Loads(t)
    BY <2>1 DEF Owns, Loads, LoadPCs, EvictPCs
  <2>3. Alone(t) /\ ent[t] \in Entries
    BY <2>2, AloneOn
  <2>4. ~ SeesClean(t)' /\ ~ SeesDirty(t)'
    BY <2>1 DEF SeesClean, SeesDirty, Loads, LoadPCs, Creates, AllocPCs
  <2> QED BY <2>1, <2>3, <2>4, SeesEntry DEF Alone, IInv, TypeOK
<1>4. CASE EvVerify(t)
  <2>1. /\ pc[t] = "ev_verify" /\ UNCHANGED <<status, ent, op>>
        /\ \/ pc'[t] = "ev_unwl"
           \/ pc'[t] = "ev_lookup" /\ "CLEAN" \in status[ent[t]]
    BY <1>4 DEF EvVerify, Local, Goto, cacheVars, opVars, IInv, TypeOK,
       LockedEvictableStatus
  <2>2. Owns(t)
    BY <2>1 DEF Owns, EvictPCs
  <2>3. Alone(t) /\ ent[t] \in Entries
    BY <2>2, AloneOn
  <2>4. /\ SeesClean(t)' => "CLEAN" \in status[ent[t]]
        /\ ~ SeesDirty(t)'
    BY <2>1 DEF SeesClean, SeesDirty, Loads, LoadPCs, Creates, AllocPCs
  <2> QED BY <2>1, <2>3, <2>4, SeesEntry DEF Alone
<1>5. CASE MarkDirty(t)
  <2>1. /\ pc[t] = "locked" /\ pc'[t] = "dirty" /\ UNCHANGED <<op, ent>>
        /\ status' = [status EXCEPT ![ent[t]] = @ \ {"CLEAN"}]
    BY <1>5 DEF MarkDirty, ClearFlag, StatusStep, Goto, opVars, IInv, TypeOK
  <2>2. Owns(t)
    BY <2>1 DEF Owns
  <2>3. Alone(t) /\ ent[t] \in Entries
    BY <2>2, AloneOn
  <2>4. ~ SeesClean(t)'
    BY <2>1 DEF SeesClean, Loads, LoadPCs
  <2> QED BY <2>1, <2>3, <2>4, SeesEntry DEF Alone, IInv, TypeOK
<1> QED BY <1>1, <1>2, <1>3, <1>4, <1>5 DEF SeesStep

\* Every step of a thread keeps SeesOK.
LEMMA ThreadSees ==
  ASSUME IInv, SeesOK, NEW t \in Threads, Frame(t), Start(t) \/ Step(t)
  PROVE  SeesOK'
<1>1. SeesKept(t) \/ SeesStep(t)
  BY SeesEffects DEF IInv
<1> QED BY <1>1, SeesFrame, StepSees

-----------------------------------------------------------------------------
(* Layer 6: what is in the cache is current.                               *)

\* A step that does not change contents, and shows no page it did not show or
\* that is not current, keeps CurrentOK.
LEMMA CurrentShows ==
  ASSUME CurrentOK, NEW t \in Threads, Frame(t), UNCHANGED fresh,
         pc'[t] # "l_done",
         \A x \in Entries, a \in Addrs :
            Shows(x, a)' => Shows(x, a) \/ x \in fresh[a]
  PROVE  CurrentOK'
BY PageOthers DEF CurrentOK

\* A step that changes nothing Shows speaks of.
LEMMA CurrentFrame ==
  ASSUME CurrentOK, NEW t \in Threads, Frame(t), CurrentKept(t)
  PROVE  CurrentOK'
<1>1. ASSUME NEW x \in Entries, NEW a \in Addrs, Shows(x, a)'
      PROVE  Shows(x, a)
  <2>1. \A u \in Threads : ent[u] = x => ~ Initialises(u)
    BY <1>1, PageOthers DEF Shows, CurrentKept
  <2> QED BY <1>1, <2>1 DEF Shows, CurrentKept, SameFlags
<1> QED BY <1>1, CurrentShows DEF CurrentKept

\* A step of an entry's owner or loader that touches no other entry shows none
\* but, perhaps, its own.
LEMMA CurrentEntry ==
  ASSUME IInv, CurrentOK, NEW t \in Threads, Frame(t), UNCHANGED fresh,
         pc'[t] # "l_done", NEW z \in Entries, ent[t] = z,
         \A x \in Entries \ {z} :
            status'[x] = status[x] /\ diskaddr'[x] = diskaddr[x],
         \A a \in Addrs : lookup'[a] \in {lookup[a], NoEntry, z},
         \A a \in Addrs : Shows(z, a)' => z \in fresh[a]
  PROVE  CurrentOK'
<1>1. ASSUME NEW x \in Entries, NEW a \in Addrs, Shows(x, a)', x # z
      PROVE  Shows(x, a)
  <2>1. \A u \in Threads : ent[u] = x => ~ Initialises(u)
    BY <1>1, PageOthers DEF Shows
  <2> QED BY <1>1, <2>1, ConstantAssumption DEF Shows
<1> QED BY <1>1, CurrentShows

\* io_read fills the entry from disk, where the latest content is.
LEMMA LoadReadCurrent ==
  ASSUME IInv, PagesOK, NEW t \in Threads, Frame(t), LoadRead(t)
  PROVE  CurrentOK'
<1>1. /\ pc[t] = "l_read" /\ pc'[t] = "l_done"
      /\ UNCHANGED <<lookup, status, diskaddr, op, ent, addr>>
      /\ fresh' = [a \in Addrs |->
                     IF a = addr[t] /\ Disk \in fresh[a]
                     THEN fresh[a] \cup {ent[t]} ELSE fresh[a] \ {ent[t]}]
  BY DEF LoadRead, Goto, entryVars, opVars, IInv, TypeOK
<1>2. Loads(t) /\ Confirmed(t) /\ SeesClean(t) /\ ~ Unmaps(t) /\ ~ Prepares(t)
  BY <1>1 DEF Loads, LoadPCs, Confirmed, SeesClean, Unmaps, Prepares
<1>3. /\ Alone(t) /\ ent[t] \in Entries /\ addr[t] \in Addrs
      /\ diskaddr[ent[t]] = addr[t] /\ "LOADING" \in status[ent[t]]
  BY <1>2, AloneOn DEF IInv, AddressesOK, LoadsOK
<1>4. lookup[addr[t]] = ent[t]
  BY <1>2, <1>3, OwnerMapped, ConstantAssumption DEF PagesOK
<1>5. Disk \in fresh[addr[t]]
  BY <1>2, <1>3, <1>4, ConstantAssumption DEF PagesOK, SeesOK, StoredOK
<1>6. ASSUME NEW x \in Entries, NEW a \in Addrs, Shows(x, a)'
      PROVE  x \in fresh'[a]
  <2>1. x # ent[t]
    BY <1>1, <1>3, <1>6 DEF Shows
  <2>2. \A u \in Threads : ent[u] = x => ~ Initialises(u)
    BY <1>6, <2>1, PageOthers DEF Shows
  <2>3. Shows(x, a)
    BY <1>1, <1>6, <2>2 DEF Shows
  <2> QED BY <1>1, <2>1, <2>3 DEF PagesOK, CurrentOK
<1>7. ASSUME NEW u \in Threads, pc'[u] = "l_done"
      PROVE  ent'[u] \in fresh'[addr'[u]]
  <2>1. CASE u = t
    BY <1>1, <1>3, <1>5, <2>1
  <2>2. CASE u # t
    <3>1. pc[u] = "l_done" /\ ent'[u] = ent[u] /\ addr'[u] = addr[u]
      BY <1>7, <2>2, PageOthers
    <3>2. Loads(u) /\ addr[u] \in Addrs
      BY <3>1, PageFacts DEF IInv
    <3> QED BY <1>1, <1>3, <2>2, <3>1, <3>2 DEF PagesOK, CurrentOK, Alone
  <2> QED BY <2>1, <2>2
<1> QED BY <1>6, <1>7 DEF CurrentOK

\* A client changes the page that is found under its address.
LEMMA ModifyFacts ==
  ASSUME IInv, PagesOK, NEW t \in Threads, Modify(t)
  PROVE  /\ UNCHANGED <<lookup, status, diskaddr, op, ent, addr, atype, wb>>
         /\ fresh' = [a \in Addrs |->
                       IF a = addr[t] THEN {ent[t]} ELSE fresh[a] \ {ent[t]}]
         /\ Alone(t) /\ ent[t] \in Entries /\ addr[t] \in Addrs
         /\ diskaddr[ent[t]] = addr[t] /\ lookup[addr[t]] = ent[t]
         /\ "CLEAN" \notin status[ent[t]] /\ wb[ent[t]] = "idle"
         /\ pc'[t] = "written"
<1>1. /\ pc[t] = "dirty" /\ pc'[t] = "written"
      /\ UNCHANGED <<lookup, status, diskaddr, op, ent, addr, atype, wb>>
      /\ fresh' = [a \in Addrs |->
                     IF a = addr[t] THEN {ent[t]} ELSE fresh[a] \ {ent[t]}]
  BY DEF Modify, Goto, entryVars, opVars, ioVars, IInv, TypeOK
<1>2. /\ Owns(t) /\ Confirmed(t) /\ SeesDirty(t) /\ ~ Unmaps(t)
      /\ ~ Prepares(t)
  BY <1>1 DEF Owns, Confirmed, HoldPCs, SeesDirty, Unmaps, Prepares
<1>3. /\ Alone(t) /\ ent[t] \in Entries /\ addr[t] \in Addrs
      /\ diskaddr[ent[t]] = addr[t]
  BY <1>2, AloneOn DEF IInv, AddressesOK
<1>4. lookup[addr[t]] = ent[t]
  BY <1>2, <1>3, OwnerMapped, ConstantAssumption DEF PagesOK
<1>5. "CLEAN" \notin status[ent[t]]
  BY <1>2 DEF PagesOK, SeesOK
<1>6. Quiesced(t)
  BY <1>2, PageFacts DEF IInv
<1>7. wb[ent[t]] = "idle"
  BY <1>3, <1>6 DEF PagesOK, WritebacksOK
<1> QED BY <1>1, <1>3, <1>4, <1>5, <1>7

\* After which that entry alone has the latest content.
LEMMA ModifyCurrent ==
  ASSUME IInv, PagesOK, NEW t \in Threads, Frame(t), Modify(t)
  PROVE  CurrentOK'
<1>1. ASSUME NEW x \in Entries, NEW a \in Addrs, Shows(x, a)'
      PROVE  x \in fresh'[a]
  <2>1. CASE a = addr[t]
    BY <1>1, <2>1, ModifyFacts DEF Shows
  <2>2. CASE a # addr[t]
    <3>1. x # ent[t]
      BY <1>1, <2>2, ModifyFacts DEF Shows
    <3>2. \A u \in Threads : ent[u] = x => ~ Initialises(u)
      BY <1>1, <3>1, PageOthers DEF Shows
    <3>3. Shows(x, a)
      BY <1>1, <3>2, ModifyFacts DEF Shows
    <3> QED BY <2>2, <3>1, <3>3, ModifyFacts DEF PagesOK, CurrentOK
  <2> QED BY <2>1, <2>2
<1>2. ASSUME NEW u \in Threads, pc'[u] = "l_done"
      PROVE  ent'[u] \in fresh'[addr'[u]]
  <2>1. u # t
    BY <1>2, ModifyFacts
  <2>2. pc[u] = "l_done" /\ ent'[u] = ent[u] /\ addr'[u] = addr[u]
    BY <1>2, <2>1, PageOthers
  <2>3. Loads(u) /\ Confirmed(u) /\ addr[u] \in Addrs /\ ent[u] # ent[t]
    BY <2>1, <2>2, PageFacts, ModifyFacts DEF IInv, Alone
  <2>4. diskaddr[ent[u]] = addr[u] /\ ~ Unmaps(u) /\ ~ Prepares(u)
    BY <2>2, <2>3 DEF IInv, AddressesOK, Unmaps, Prepares
  <2>5. lookup[addr[u]] = ent[u]
    BY <2>3, <2>4, OwnerMapped, ConstantAssumption DEF PagesOK
  <2>6. addr[u] # addr[t]
    BY <2>3, <2>5, ModifyFacts
  <2> QED BY <2>2, <2>3, <2>6, ModifyFacts DEF PagesOK, CurrentOK
<1> QED BY <1>1, <1>2 DEF CurrentOK

\* The steps that publish, unpublish or free an entry, or store its address or
\* status.
LEMMA EntryCurrent ==
  ASSUME IInv, PagesOK, NEW t \in Threads, Frame(t), CurrentStep(t),
         ~ LoadRead(t), ~ Modify(t)
  PROVE  CurrentOK'
<1>0. ASSUME NEW z \in Entries, ent[t] = z, UNCHANGED fresh, pc'[t] # "l_done",
             \A x \in Entries \ {z} :
                status'[x] = status[x] /\ diskaddr'[x] = diskaddr[x],
             \A a \in Addrs : lookup'[a] \in {lookup[a], NoEntry, z},
             \A a \in Addrs : Shows(z, a)' => z \in fresh[a]
      PROVE  CurrentOK'
  BY <1>0, CurrentEntry DEF PagesOK
<1>1. CASE LoadCas(t) /\ lookup[addr[t]] = NoEntry
  <2>1. /\ pc[t] = "l_cas" /\ pc'[t] = "l_addr"
        /\ UNCHANGED <<status, diskaddr, fresh>>
        /\ lookup' = [lookup EXCEPT ![addr[t]] = ent[t]]
    BY <1>1 DEF LoadCas, Goto, entryVars, IInv, TypeOK
  <2>2. Loads(t) /\ Blank(t)
    BY <2>1 DEF Loads, LoadPCs, Blank
  <2>3. ent[t] \in Entries /\ diskaddr[ent[t]] = NoAddr
    BY <2>2, AloneOn DEF IInv, AddressesOK
  <2> QED BY <1>0, <2>1, <2>3, ConstantAssumption DEF Shows, IInv, TypeOK
<1>2. CASE DiscardUnmap(t) \/ (EvLookup(t) /\ diskaddr[ent[t]] # NoAddr)
  <2>1. /\ pc[t] \in {"d_unmap", "ev_lookup"} /\ pc'[t] \in {"d_unaddr", "ev_addr"}
        /\ UNCHANGED <<status, diskaddr, fresh, ent, op>>
        /\ \A a \in Addrs : lookup'[a] \in {lookup[a], NoEntry}
    BY <1>2 DEF DiscardUnmap, EvLookup, Goto, entryVars, opVars, IInv, TypeOK
  <2>2. Owns(t) /\ ~ Initialises(t)
    BY <2>1 DEF Owns, EvictPCs, Initialises
  <2>3. ent[t] \in Entries
    BY <2>2, AloneOn
  <2>4. ASSUME NEW a \in Addrs, NEW x \in Entries, Shows(x, a)'
        PROVE  Shows(x, a)
    <3>1. \A u \in Threads : ent[u] = x => ~ Initialises(u)
      BY <2>2, <2>4, PageOthers DEF Shows
    <3> QED BY <2>1, <2>4, <3>1, ConstantAssumption DEF Shows
  <2> QED BY <2>1, <2>4, CurrentShows DEF PagesOK
<1>3. CASE AllocLookup(t)
  <2>1. /\ pc[t] = "a_lookup" /\ pc'[t] \in {"a_pin", "dirty"}
        /\ UNCHANGED <<status, diskaddr, fresh, ent, op>>
        /\ lookup' = [lookup EXCEPT ![addr[t]] = ent[t]]
    BY <1>3 DEF AllocLookup, Goto, entryVars, opVars, IInv, TypeOK
  <2>2. Owns(t) /\ Initialises(t)'
    BY <2>1 DEF Owns, Initialises, AllocPCs, IInv, ControlOK, Control
  <2>3. ent[t] \in Entries /\ \A a : ~ Shows(ent[t], a)'
    BY <2>2, AloneOn DEF Shows
  <2> QED BY <1>0, <2>1, <2>3 DEF IInv, TypeOK
<1>4. CASE LoadAddr(t) \/ AllocAddr(t) \/ EvAddr(t) \/ DiscardUnaddr(t)
  <2>1. /\ pc[t] \in {"l_addr", "a_addr", "ev_addr", "d_unaddr"}
        /\ pc'[t] # "l_done" /\ UNCHANGED <<lookup, status, fresh, ent, op>>
        /\ \A x \in Entries \ {ent[t]} : diskaddr'[x] = diskaddr[x]
    BY <1>4 DEF LoadAddr, AllocAddr, EvAddr, DiscardUnaddr, AddrStep, Goto,
       opVars, IInv, TypeOK
  <2>2. ent[t] \in Entries /\ addr[t] \in Addrs
    BY <2>1 DEF IInv, ControlOK, Control, EntPCs, PCs, AllocPCs, EvictPCs,
       LoadPCs, DiscardPCs
  <2>3. \A a \in Addrs : ~ Shows(ent[t], a)'
    <3>1. CASE LoadAddr(t)
      <4>1. Loads(t)
        BY <3>1 DEF LoadAddr, Loads, LoadPCs
      <4>2. "LOADING" \in status'[ent'[t]]
        BY <2>1, <4>1 DEF IInv, LoadsOK
      <4> QED BY <4>2 DEF Shows
    <3>2. CASE AllocAddr(t)
      <4>1. Hidden(t) /\ diskaddr'[ent'[t]] = addr[t]
        BY <2>1, <2>2, <3>2 DEF AllocAddr, AddrStep, Hidden, AllocPCs,
           ClientPCs, IInv, TypeOK, ControlOK, Control
      <4>2. lookup'[addr[t]] = NoEntry
        BY <2>1, <4>1 DEF PagesOK, HiddenOK
      <4> QED BY <2>1, <2>2, <4>1, <4>2, ConstantAssumption DEF Shows
    <3>3. CASE EvAddr(t) \/ DiscardUnaddr(t)
      <4>1. diskaddr'[ent'[t]] = NoAddr
        BY <2>1, <2>2, <3>3 DEF EvAddr, DiscardUnaddr, AddrStep, IInv, TypeOK
      <4> QED BY <4>1, ConstantAssumption DEF Shows
    <3> QED BY <1>4, <3>1, <3>2, <3>3
  <2> QED BY <1>0, <2>1, <2>2, <2>3
<1>5. CASE FpStatus(t) \/ LoadAbortFree(t) \/ EvFree(t) \/ DiscardFree(t)
  <2>1. /\ pc[t] \in {"fp_status", "l_abfree", "ev_free", "d_free"}
        /\ pc'[t] # "l_done" /\ UNCHANGED <<lookup, diskaddr, fresh>>
        /\ \A x \in Entries \ {ent[t]} : status'[x] = status[x]
    BY <1>5 DEF FpStatus, LoadAbortFree, EvFree, DiscardFree, StatusStep,
       StoreStatus, Leave, Goto, IInv, TypeOK
  <2>2. Blank(t) /\ (Owns(t) \/ Loads(t))
    BY <2>1 DEF Blank, Owns, Loads, LoadPCs, EvictPCs
  <2>3. ent[t] \in Entries /\ diskaddr[ent[t]] = NoAddr
    BY <2>2, AloneOn DEF IInv, AddressesOK
  <2>4. PICK z \in Entries : z = ent[t]
    BY <2>3
  <2>5. \A a \in Addrs : ~ Shows(z, a)'
    BY <2>1, <2>3, <2>4, ConstantAssumption DEF Shows
  <2> QED BY <1>0, <2>1, <2>4, <2>5
<1>6. CASE LoadDone(t)
  <2>1. /\ pc[t] = "l_done" /\ pc'[t] = "reading"
        /\ UNCHANGED <<lookup, diskaddr, fresh>>
        /\ \A x \in Entries \ {ent[t]} : status'[x] = status[x]
    BY <1>6 DEF LoadDone, StatusStep, ClearFlag, Goto, IInv, TypeOK
  <2>2. Loads(t) /\ Confirmed(t)
    BY <2>1 DEF Loads, LoadPCs, Confirmed
  <2>3. /\ ent[t] \in Entries /\ diskaddr[ent[t]] = addr[t]
        /\ ent[t] \in fresh[addr[t]]
    BY <2>1, <2>2, AloneOn DEF IInv, AddressesOK, PagesOK, CurrentOK
  <2>4. PICK z \in Entries : z = ent[t]
    BY <2>3
  <2>5. \A a \in Addrs : Shows(z, a)' => z \in fresh[a]
    BY <2>1, <2>3, <2>4 DEF Shows
  <2> QED BY <1>0, <2>1, <2>4, <2>5
<1> QED BY <1>1, <1>2, <1>3, <1>4, <1>5, <1>6 DEF CurrentStep

\* Every step of a thread keeps CurrentOK.
LEMMA ThreadCurrent ==
  ASSUME IInv, PagesOK, NEW t \in Threads, Frame(t), Start(t) \/ Step(t)
  PROVE  CurrentOK'
<1>1. CurrentKept(t) \/ CurrentStep(t)
  BY CurrentEffects DEF IInv
<1> QED BY <1>1, CurrentFrame, LoadReadCurrent, ModifyCurrent, EntryCurrent
        DEF PagesOK

-----------------------------------------------------------------------------
(* Layer 6: what is clean, or not in the cache, is on disk.                *)

\* t goes on creating or discarding its page, or a new page exists or the
\* discarded one is gone.
SoleKept(t) == Sole(t) => Sole(t)' /\ addr'[t] = addr[t]
SoleStep(t) == \/ AllocLookup(t) \/ AllocPin(t)
               \/ DiscardLookup(t) \/ DiscardUnref(t)

\* The actions that end the creation or the discarding of a page.
LEMMA SoleEffects ==
  ASSUME TypeOK, ControlOK, NEW t \in Threads, Step(t)
  PROVE  SoleKept(t) \/ SoleStep(t)
<1> USE DEF TypeOK, ControlOK, Control, SoleKept, SoleStep, Sole, EntPCs,
            PCs, ReadPCs, GetPCs, FreePCs, EvictPCs, LoadPCs, AllocPCs,
            LockPCs, DiscardPCs, ClientPCs, Goto, SetFlag, ClearFlag,
            StoreStatus, IncRef, DecRef, Leave, Finish, Begin, Local,
            StatusStep, Unref, UnrefFinish, CallRead, AfterRead, AfterEvicted,
            TypeStep, AfterFreePage, AddrStep, cacheVars, entryVars, ioVars,
            opVars
<1>1. CASE TryGetRead(t)
  BY <1>1, SMTT(60) DEF TryGetRead, RdTest, RdInc, RdFree, RdWl, RdEvicted,
     RdConflict
<1>2. CASE GetLookup(t) \/ GetInCache(t)
  BY <1>2, SMTT(60) DEF GetInCache, GetLookup, GetAddr, GetWait, GetAddr2,
     GetType, GetDrop
<1>3. CASE GetFreePage(t)
  BY <1>3, SMTT(60) DEF GetFreePage, FpTake, FpMiss, FpRef, FpStatus, FpType,
     EvStay, EvRelease, MoveHand
<1>4. CASE TryEvict(t)
  BY <1>4, SMTT(60) DEF TryEvict, EvFast, EvClaim, EvLoad, EvWl, EvWb,
     EvDrain, EvVerify, EvLookup, EvAddr, EvType, EvFree, EvUnwl, EvUnclaim,
     EvUnref
<1>5. CASE GetFromDisk(t)
  BY <1>5, SMTT(60) DEF GetFromDisk, LoadCas, LoadAbortRef, LoadAbortType,
     LoadAbortFree, LoadAddr, LoadRead, LoadDone
<1>6. CASE Alloc(t)
  BY <1>6, SMTT(60) DEF Alloc, AllocAddr
<1>7. CASE Client(t)
  BY <1>7, SMTT(60) DEF Client, Unget, TryClaim, Lock, MarkDirty, Modify,
     Unlock, Unclaim
<1>8. CASE GetWrite(t)
  BY <1>8, SMTT(60) DEF GetWrite, GwSet, GwWriteback, GwDrain
<1>9. CASE TryPageDiscard(t)
  BY <1>9, SMTT(60) DEF TryPageDiscard, DiscardWait, DiscardAddr, DiscardDrop,
     DiscardClaim, DiscardUnmap, DiscardUnaddr, DiscardType, DiscardFree,
     DiscardUnpin
<1> QED BY <1>1, <1>2, <1>3, <1>4, <1>5, <1>6, <1>7, <1>8, <1>9 DEF Step

\* An address becomes usable only when the page allocated there is published.
LEMMA UsableStep ==
  ASSUME IInv, NEW t \in Threads, Frame(t), Start(t) \/ Step(t),
         NEW a \in Addrs, Usable(a)'
  PROVE  Usable(a) \/ (a = addr[t] /\ (AllocLookup(t) \/ AllocPin(t)))
<1>1. /\ atype'[a] # NoType
      /\ \A u \in Threads : addr'[u] = a => ~ Sole(u)'
  BY DEF Usable, Sole
<1>2. \A u \in Threads \ {t} : addr[u] = a => ~ Sole(u)
  BY <1>1, UsersOthers
<1>3. ASSUME atype[a] # NoType, addr[t] = a => ~ Sole(t)
      PROVE  Usable(a)
  BY <1>2, <1>3, UsableSole
<1>4. CASE Start(t)
  <2>1. addr[t] # a
    BY <1>4, StartFacts, ConstantAssumption DEF IInv, UsersOK
  <2>2. atype[a] # NoType
    <3>1. CASE StartAlloc(t)
      <4>1. PICK b \in Addrs, ty \in Types :
               /\ atype' = [atype EXCEPT ![b] = ty]
               /\ Begin(t, "alloc", b, "fp")
        BY <3>1, Zenon DEF StartAlloc
      <4>2. addr'[t] = b /\ Sole(t)'
        BY <4>1 DEF Begin, Goto, Sole, ClientPCs, IInv, TypeOK
      <4> QED BY <1>1, <4>1, <4>2 DEF IInv, TypeOK
    <3>2. CASE UNCHANGED atype
      BY <1>1, <3>2
    <3> QED BY <1>4, <3>1, <3>2, StartFacts DEF IInv
  <2> QED BY <1>3, <2>1, <2>2
<1>5. CASE DiscardLookup(t) \/ DiscardUnref(t)
  <2>1. op[t] = "discard" /\ addr[t] \in Addrs
    BY <1>5 DEF DiscardLookup, DiscardUnref, IInv, ControlOK, Control, DiscardPCs
  <2>2. CASE CallRead(t, lookup[addr[t]], "discard")
    <3>1. UNCHANGED <<atype, op, addr>>
      BY <2>2 DEF CallRead, cacheVars, opVars
    <3>2. Sole(t)' /\ addr'[t] = addr[t]
      BY <2>1, <3>1 DEF Sole
    <3> QED BY <1>1, <1>3, <3>1, <3>2
  <2>3. CASE atype' = [atype EXCEPT ![addr[t]] = NoType]
    BY <1>1, <1>3, <2>1, <2>3 DEF IInv, TypeOK
  <2> QED BY <1>5, <2>2, <2>3 DEF DiscardLookup, DiscardUnref
<1>6. CASE Step(t) /\ ~ DiscardLookup(t) /\ ~ DiscardUnref(t)
  <2>1. UNCHANGED atype
    BY <1>6, ThreadUserKept DEF UserKept, IInv
  <2>2. CASE SoleKept(t)
    BY <1>1, <1>3, <2>1, <2>2 DEF SoleKept
  <2>3. CASE AllocLookup(t) \/ AllocPin(t)
    BY <1>1, <1>3, <2>1, <2>3
  <2> QED BY <1>6, <2>2, <2>3, SoleEffects DEF SoleStep, IInv
<1> QED BY <1>4, <1>5, <1>6

\* treepass_pin is called when the new page is in the table already.
LEMMA PinnedMapped ==
  ASSUME IInv, MapOK, NEW t \in Threads, AllocPin(t)
  PROVE  lookup[addr[t]] # NoEntry
<1>1. pc[t] = "a_pin"
  BY DEF AllocPin
<1>2. Owns(t) /\ Confirmed(t) /\ ~ Unmaps(t) /\ ~ Prepares(t)
  BY <1>1 DEF Owns, AllocPCs, Confirmed, Unmaps, Prepares
<1>3. diskaddr[ent[t]] = addr[t] /\ addr[t] \in Addrs /\ ent[t] \in Entries
  BY <1>2, AloneOn DEF IInv, AddressesOK
<1> QED BY <1>2, <1>3, OwnerMapped, ConstantAssumption

\* When content stays on disk, a step keeps StoredOK that makes no entry clean,
\* moves no page under writeback, and takes no page out of the cache, unless the
\* content is on disk or the page is discarded.
LEMMA StoredRule ==
  ASSUME IInv, PagesOK, NEW t \in Threads, Frame(t), Start(t) \/ Step(t),
         UNCHANGED wb,
         \A a \in Addrs : Disk \in fresh[a] => Disk \in fresh'[a],
         \A a \in Addrs : lookup'[a] # NoEntry /\ "CLEAN" \in status'[lookup'[a]] =>
            \/ lookup[a] # NoEntry /\ "CLEAN" \in status[lookup[a]]
            \/ Disk \in fresh[a],
         \A x \in Entries : wb[x] # "idle" => diskaddr'[x] = diskaddr[x],
         \A a \in Addrs : lookup'[a] = NoEntry =>
            lookup[a] = NoEntry \/ Disk \in fresh[a] \/ ~ Usable(a)'
  PROVE  StoredOK'
<1>1. ASSUME NEW a \in Addrs, lookup'[a] # NoEntry, "CLEAN" \in status'[lookup'[a]]
      PROVE  Disk \in fresh'[a]
  BY <1>1 DEF PagesOK, StoredOK
<1>2. ASSUME NEW x \in Entries, wb'[x] \in {"stored", "cleaned"}
      PROVE  Disk \in fresh'[diskaddr'[x]]
  <2>1. wb[x] \in {"stored", "cleaned"} /\ wb[x] # "idle"
    BY <1>2
  <2>2. diskaddr[x] \in Addrs
    BY <2>1, WritebackMapped DEF PagesOK
  <2> QED BY <2>1, <2>2 DEF PagesOK, StoredOK
<1>3. ASSUME NEW a \in Addrs, Usable(a)', lookup'[a] = NoEntry
      PROVE  Disk \in fresh'[a]
  <2>1. CASE Disk \in fresh[a]
    BY <2>1
  <2>2. CASE lookup[a] = NoEntry /\ Usable(a)
    BY <2>2 DEF PagesOK, StoredOK, NoLostWrite
  <2>3. CASE lookup[a] = NoEntry /\ a = addr[t] /\ AllocLookup(t)
    <3>1. lookup'[addr[t]] = ent[t]
      BY <2>3 DEF AllocLookup, IInv, TypeOK
    <3>2. ent[t] \in Entries
      BY <2>3 DEF AllocLookup, IInv, ControlOK, Control, EntPCs, PCs, AllocPCs
    <3> QED BY <1>3, <2>3, <3>1, <3>2, ConstantAssumption
  <2>4. CASE lookup[a] = NoEntry /\ a = addr[t] /\ AllocPin(t)
    BY <2>4, PinnedMapped DEF PagesOK
  <2> QED BY <1>3, <2>1, <2>2, <2>3, <2>4, UsableStep
<1> QED BY <1>1, <1>2, <1>3 DEF StoredOK, NoLostWrite

\* A step that touches no content, table, address or CLEAN flag.
LEMMA StoredFrame ==
  ASSUME IInv, PagesOK, NEW t \in Threads, Frame(t), Start(t) \/ Step(t),
         StoredKept(t)
  PROVE  StoredOK'
<1>1. \A a \in Addrs : lookup[a] # NoEntry => lookup[a] \in Entries
  BY DEF IInv, TypeOK
<1> QED BY <1>1, StoredRule DEF StoredKept, SameFlags

\* A modified page is dirty and in the cache, and not being written back.
LEMMA ModifyStored ==
  ASSUME IInv, PagesOK, NEW t \in Threads, Frame(t), Modify(t)
  PROVE  StoredOK'
<1>1. Step(t)
  BY DEF Step, Client
<1>2. \A a \in Addrs \ {addr[t]} : Disk \in fresh[a] => Disk \in fresh'[a]
  BY ModifyFacts, ConstantAssumption
<1>3. ASSUME NEW a \in Addrs, lookup'[a] # NoEntry, "CLEAN" \in status'[lookup'[a]]
      PROVE  Disk \in fresh'[a]
  <2>1. a # addr[t]
    BY <1>3, ModifyFacts
  <2> QED BY <1>2, <1>3, <2>1, ModifyFacts DEF PagesOK, StoredOK
<1>4. ASSUME NEW x \in Entries, wb'[x] \in {"stored", "cleaned"}
      PROVE  Disk \in fresh'[diskaddr'[x]]
  <2>1. wb[x] \in {"stored", "cleaned"} /\ wb[x] # "idle"
    BY <1>4, ModifyFacts
  <2>2. diskaddr[x] \in Addrs /\ lookup[diskaddr[x]] = x
    BY <2>1, WritebackMapped DEF PagesOK
  <2>3. diskaddr[x] # addr[t]
    BY <2>1, <2>2, ModifyFacts
  <2> QED BY <1>2, <2>1, <2>2, <2>3, ModifyFacts DEF PagesOK, StoredOK
<1>5. ASSUME NEW a \in Addrs, Usable(a)', lookup'[a] = NoEntry
      PROVE  Disk \in fresh'[a]
  <2>1. ~ AllocLookup(t) /\ ~ AllocPin(t)
    BY DEF Modify, AllocLookup, AllocPin
  <2>2. Usable(a)
    BY <1>1, <1>5, <2>1, UsableStep
  <2>3. a # addr[t]
    BY <1>5, ModifyFacts, ConstantAssumption
  <2> QED BY <1>2, <1>5, <2>2, <2>3, ModifyFacts DEF PagesOK, StoredOK,
             NoLostWrite
<1> QED BY <1>3, <1>4, <1>5 DEF StoredOK, NoLostWrite

\* A loader finds the content of its page on disk: nobody creates or discards
\* the page, and it is not in the cache.
LEMMA LoadCasStored ==
  ASSUME IInv, PagesOK, NEW t \in Threads, Frame(t), LoadCas(t),
         lookup[addr[t]] = NoEntry
  PROVE  StoredOK'
<1>1. /\ pc[t] = "l_cas" /\ UNCHANGED <<status, diskaddr, fresh, wb>>
      /\ lookup' = [lookup EXCEPT ![addr[t]] = ent[t]]
  BY DEF LoadCas, entryVars, ioVars
<1>2. addr[t] \in Addrs /\ ~ Sole(t)
  BY <1>1 DEF IInv, ControlOK, Control, LoadPCs, Sole
<1>3. ent[t] \in Entries
  BY <1>1 DEF IInv, ControlOK, Control, EntPCs, PCs, LoadPCs
<1>4. atype[addr[t]] # NoType
  BY <1>2, ConstantAssumption DEF IInv, UsersOK
<1>5. \A u \in Threads : addr[u] = addr[t] => ~ Sole(u)
  BY <1>2, ConstantAssumption DEF IInv, UsersOK
<1>6. Disk \in fresh[addr[t]]
  BY <1>2, <1>4, <1>5, UsableSole DEF PagesOK, StoredOK, NoLostWrite
<1>7. Step(t)
  BY DEF Step, GetFromDisk
<1> QED BY <1>1, <1>2, <1>3, <1>6, <1>7, StoredRule, ConstantAssumption
        DEF IInv, TypeOK

\* An evicted page is clean, so its content is on disk; a discarded page is no
\* longer usable.
LEMMA UnmapStored ==
  ASSUME IInv, PagesOK, NEW t \in Threads, Frame(t),
         DiscardUnmap(t) \/ (EvLookup(t) /\ diskaddr[ent[t]] # NoAddr)
  PROVE  StoredOK'
<1>1. Step(t)
  BY DEF Step, TryEvict, TryPageDiscard
<1>2. CASE DiscardUnmap(t)
  <2>1. /\ pc[t] = "d_unmap" /\ UNCHANGED <<status, diskaddr, fresh, wb, addr, op>>
        /\ lookup' = [lookup EXCEPT ![addr[t]] = NoEntry]
    BY <1>2 DEF DiscardUnmap, entryVars, ioVars, opVars
  <2>2. addr[t] \in Addrs /\ op[t] = "discard"
    BY <2>1 DEF IInv, ControlOK, Control, DiscardPCs
  <2>3. ~ Usable(addr[t])'
    BY <2>1, <2>2 DEF Usable
  <2>4. \A a \in Addrs : a # addr[t] => lookup'[a] = lookup[a]
    BY <2>1 DEF IInv, TypeOK
  <2>5. lookup'[addr[t]] = NoEntry
    BY <2>1, <2>2 DEF IInv, TypeOK
  <2>6. \A a \in Addrs : lookup'[a] = NoEntry =>
           lookup[a] = NoEntry \/ Disk \in fresh[a] \/ ~ Usable(a)'
    <3> SUFFICES ASSUME NEW a \in Addrs, lookup'[a] = NoEntry, Usable(a)'
                 PROVE  lookup[a] = NoEntry
      OBVIOUS
    <3>1. a # addr[t]
      BY <2>1, <2>2 DEF Usable
    <3> QED BY <2>4, <3>1
  <2> QED BY <1>1, <2>1, <2>4, <2>5, <2>6, StoredRule
<1>3. CASE EvLookup(t) /\ diskaddr[ent[t]] # NoAddr
  <2>1. /\ pc[t] = "ev_lookup" /\ UNCHANGED <<status, diskaddr, fresh, wb>>
        /\ lookup' = [lookup EXCEPT ![diskaddr[ent[t]]] = NoEntry]
    BY <1>3 DEF EvLookup, entryVars, ioVars
  <2>2. Owns(t) /\ SeesClean(t) /\ ~ Unmaps(t) /\ ~ Prepares(t)
    BY <2>1 DEF Owns, EvictPCs, SeesClean, Unmaps, Prepares
  <2>3. ent[t] \in Entries /\ lookup[diskaddr[ent[t]]] = ent[t]
    BY <1>3, <2>2, AloneOn, OwnerMapped DEF PagesOK
  <2>4. diskaddr[ent[t]] \in Addrs
    BY <1>3, <2>3 DEF IInv, TypeOK
  <2>5. Disk \in fresh[diskaddr[ent[t]]]
    BY <2>2, <2>3, <2>4, ConstantAssumption DEF PagesOK, SeesOK, StoredOK
  <2> QED BY <1>1, <2>1, <2>4, <2>5, StoredRule DEF IInv, TypeOK
<1> QED BY <1>2, <1>3

\* The other steps: a new page is dirty, an entry gets or loses its address, is
\* taken, freed or marked dirty.
LEMMA EntryStored ==
  ASSUME IInv, PagesOK, NEW t \in Threads, Frame(t), Start(t) \/ Step(t),
         \/ LoadRead(t) \/ AllocLookup(t)
         \/ LoadAddr(t) \/ AllocAddr(t) \/ EvAddr(t) \/ DiscardUnaddr(t)
         \/ FpStatus(t) \/ LoadAbortFree(t) \/ EvFree(t) \/ DiscardFree(t)
         \/ MarkDirty(t)
  PROVE  StoredOK'
<1>0. /\ \A a \in Addrs : lookup[a] # NoEntry => lookup[a] \in Entries
      /\ status \in [Entries -> SUBSET Flags] /\ lookup \in [Addrs -> Entries \cup {NoEntry}]
  BY DEF IInv, TypeOK
<1>1. CASE LoadRead(t)
  <2>1. UNCHANGED <<lookup, status, diskaddr, wb>> /\ pc[t] = "l_read"
    BY <1>1 DEF LoadRead, entryVars, ioVars
  <2>2. ent[t] \in Entries
    BY <2>1 DEF IInv, ControlOK, Control, EntPCs, PCs, LoadPCs
  <2>3. \A a \in Addrs : Disk \in fresh[a] => Disk \in fresh'[a]
    BY <1>1, <2>2, ConstantAssumption DEF LoadRead
  <2> QED BY <2>1, <2>3, StoredRule
<1>2. CASE AllocLookup(t)
  <2>1. /\ pc[t] = "a_lookup" /\ UNCHANGED <<status, diskaddr, fresh, wb>>
        /\ lookup' = [lookup EXCEPT ![addr[t]] = ent[t]]
    BY <1>2 DEF AllocLookup, entryVars, ioVars
  <2>2. /\ ent[t] \in Entries /\ addr[t] \in Addrs /\ SeesDirty(t)
    BY <2>1 DEF IInv, ControlOK, Control, EntPCs, PCs, AllocPCs, SeesDirty,
       Creates
  <2>3. "CLEAN" \notin status[ent[t]]
    BY <2>2 DEF PagesOK, SeesOK
  <2> QED BY <1>0, <2>1, <2>2, <2>3, StoredRule, ConstantAssumption
<1>3. CASE LoadAddr(t) \/ AllocAddr(t) \/ EvAddr(t) \/ DiscardUnaddr(t)
  <2>1. /\ pc[t] \in {"l_addr", "a_addr", "ev_addr", "d_unaddr"}
        /\ UNCHANGED <<lookup, status, fresh, wb>>
        /\ \A x \in Entries \ {ent[t]} : diskaddr'[x] = diskaddr[x]
    BY <1>3 DEF LoadAddr, AllocAddr, EvAddr, DiscardUnaddr, AddrStep, ioVars,
       IInv, TypeOK
  <2>2. Quiesced(t) /\ ent[t] \in Entries
    BY <2>1 DEF Quiesced, Locks, Owns, Loads, EvictPCs, LoadPCs, AllocPCs,
       IInv, ControlOK, Control, EntPCs, PCs, DiscardPCs
  <2>3. wb[ent[t]] = "idle"
    BY <2>2 DEF PagesOK, WritebacksOK
  <2> QED BY <2>1, <2>3, StoredRule
<1>4. CASE FpStatus(t) \/ LoadAbortFree(t) \/ EvFree(t) \/ DiscardFree(t)
  <2>1. /\ pc[t] \in {"fp_status", "l_abfree", "ev_free", "d_free"}
        /\ UNCHANGED <<lookup, diskaddr, fresh, wb>>
        /\ \A x \in Entries \ {ent[t]} : status'[x] = status[x]
    BY <1>4 DEF FpStatus, LoadAbortFree, EvFree, DiscardFree, StatusStep,
       StoreStatus, ioVars, IInv, TypeOK
  <2>2. Blank(t) /\ ~ Publishes(t)
    BY <2>1 DEF Blank, Publishes
  <2>3. \A a \in Addrs : lookup[a] # ent[t]
    BY <2>2, BlankUnmapped DEF PagesOK
  <2> QED BY <1>0, <2>1, <2>3, StoredRule
<1>5. CASE MarkDirty(t)
  <2>1. /\ UNCHANGED <<lookup, diskaddr, fresh, wb>>
        /\ \A x \in Entries : status'[x] \subseteq status[x]
    BY <1>5 DEF MarkDirty, StatusStep, ClearFlag, ioVars, IInv, TypeOK
  <2> QED BY <1>0, <2>1, StoredRule
<1> QED BY <1>1, <1>2, <1>3, <1>4, <1>5

\* Every step of a thread keeps StoredOK.
LEMMA ThreadStored ==
  ASSUME IInv, PagesOK, NEW t \in Threads, Frame(t), Start(t) \/ Step(t)
  PROVE  StoredOK'
<1>1. StoredKept(t) \/ StoredStep(t)
  BY StoredEffects DEF IInv
<1> QED BY <1>1, StoredFrame, ModifyStored, LoadCasStored, UnmapStored,
           EntryStored DEF StoredStep

-----------------------------------------------------------------------------
(* Writeback keeps layers 4 to 6.                                          *)

\* Writeback leaves the threads, the table and the addresses alone.
LEMMA WritebackOthers ==
  ASSUME NEW e \in Entries, Writeback(e)
  PROVE  /\ UNCHANGED <<lookup, diskaddr, atype, pc, op, addr, ent>>
         /\ \A u \in Threads :
              /\ Publishes(u)' <=> Publishes(u)
              /\ Unmaps(u)' <=> Unmaps(u)
              /\ Prepares(u)' <=> Prepares(u)
              /\ Hidden(u)' <=> Hidden(u)
              /\ Loads(u)' <=> Loads(u)
              /\ Blank(u)' <=> Blank(u)
              /\ Quiesced(u)' <=> Quiesced(u)
              /\ Initialises(u)' <=> Initialises(u)
              /\ SeesClean(u)' <=> SeesClean(u)
              /\ SeesDirty(u)' <=> SeesDirty(u)
         /\ \A a \in Addrs : Usable(a)' <=> Usable(a)
<1>1. UNCHANGED <<lookup, diskaddr, atype, pc, op, addr, ent>>
  BY DEF Writeback, WriteCallback, TrySetWriteback, WbIssue, WbStore, WbClean,
         WbDone, entryVars, opVars
<1>2. \A a \in Addrs : Usable(a)' <=> Usable(a)
  BY <1>1 DEF Usable
<1> QED BY <1>1, <1>2 DEF Publishes, Unmaps, Prepares, Hidden, Loads, Blank,
           Quiesced, Locks, Owns, Initialises, SeesClean, SeesDirty, Creates

\* The status words after a step of the writeback of e.
LEMMA WritebackFlags ==
  ASSUME TypeOK, NEW e \in Entries, Writeback(e)
  PROVE  /\ \A x \in Entries \ {e} : status'[x] = status[x] /\ wb'[x] = wb[x]
                                     /\ waddr'[x] = waddr[x]
         /\ SameFlags({"FREE", "LOADING"})
         /\ \A x \in Entries : "CLEAN" \in status'[x] =>
               \/ "CLEAN" \in status[x]
               \/ x = e /\ WbClean(e)
         /\ \A x \in Entries : "CLEAN" \in status[x] => "CLEAN" \in status'[x]
         /\ UNCHANGED fresh \/ WbStore(e)
<1>1. CASE TrySetWriteback(e)
  BY <1>1 DEF TypeOK, SameFlags, TrySetWriteback, SetFlag
<1>2. CASE WbIssue(e)
  BY <1>2 DEF TypeOK, SameFlags, WbIssue, WbStage, entryVars
<1>3. CASE WbStore(e)
  BY <1>3 DEF TypeOK, SameFlags, WbStore, WbStage, entryVars
<1>4. CASE WbClean(e)
  BY <1>4 DEF TypeOK, SameFlags, WbClean, WbStage, SetFlag
<1>5. CASE WbDone(e)
  BY <1>5 DEF TypeOK, SameFlags, WbDone, WbStage, ClearFlag
<1> QED BY <1>1, <1>2, <1>3, <1>4, <1>5 DEF Writeback, WriteCallback

\* The table, and what is loading or has no address, stay as they are.
LEMMA WritebackMap ==
  ASSUME IInv, MapOK, HiddenOK, ReasonsOK, NEW e \in Entries, Writeback(e)
  PROVE  MapOK' /\ HiddenOK' /\ ReasonsOK'
<1>1. MapOK'
  BY WritebackOthers DEF MapOK
<1>2. HiddenOK'
  BY WritebackOthers DEF HiddenOK
<1>3. ReasonsOK'
  BY WritebackOthers, WritebackFlags DEF ReasonsOK, SameFlags, IInv
<1> QED BY <1>1, <1>2, <1>3

\* treepass_try_set_writeback succeeds on an entry that has an address and that
\* nobody owns or loads; from then on the four steps of the writeback follow.
LEMMA WritebackWritebacks ==
  ASSUME IInv, PagesOK, NEW e \in Entries, Writeback(e)
  PROVE  WritebacksOK'
<1>0. \A u \in Threads : Quiesced(u) =>
         ent[u] \in Entries /\ (Owns(u) \/ Loads(u))
  BY PageFacts DEF IInv
<1>1. CASE TrySetWriteback(e)
  <2>1. /\ status[e] = {} /\ status' = [status EXCEPT ![e] = @ \cup {"WRITEBACK"}]
        /\ wb' = [wb EXCEPT ![e] = "started"] /\ UNCHANGED waddr
    BY <1>1 DEF TrySetWriteback, SetFlag
  <2>2. \A u \in Threads : Owns(u) \/ Loads(u) => ent[u] # e
    BY <2>1 DEF IInv, ClaimsOK, LoadsOK
  <2>3. \A u \in Threads : Blank(u) => ent[u] # e
    BY <2>2, PredicateFacts DEF IInv
  <2>4. diskaddr[e] # NoAddr
    BY <2>1, <2>3 DEF PagesOK, ReasonsOK
  <2>5. wb[e] = "idle"
    BY <2>1 DEF PagesOK, WritebacksOK
  <2> QED BY <1>0, <2>1, <2>2, <2>4, WritebackOthers DEF PagesOK, WritebacksOK,
             IInv, TypeOK
<1>2. CASE WbIssue(e)
  <2>1. /\ wb[e] = "started" /\ wb' = [wb EXCEPT ![e] = "issued"]
        /\ waddr' = [waddr EXCEPT ![e] = diskaddr[e]] /\ UNCHANGED status
    BY <1>2 DEF WbIssue, WbStage, entryVars
  <2> QED BY <2>1, WritebackOthers DEF PagesOK, WritebacksOK, IInv, TypeOK
<1>3. CASE WbStore(e)
  <2>1. /\ wb[e] = "issued" /\ wb' = [wb EXCEPT ![e] = "stored"]
        /\ UNCHANGED <<waddr, status>>
    BY <1>3 DEF WbStore, WbStage, entryVars
  <2> QED BY <2>1, WritebackOthers DEF PagesOK, WritebacksOK, IInv, TypeOK
<1>4. CASE WbClean(e)
  <2>1. /\ wb[e] = "stored" /\ wb' = [wb EXCEPT ![e] = "cleaned"]
        /\ UNCHANGED waddr /\ status' = [status EXCEPT ![e] = @ \cup {"CLEAN"}]
    BY <1>4 DEF WbClean, WbStage, SetFlag
  <2>2. \A x \in Entries : "WRITEBACK" \in status'[x] <=> "WRITEBACK" \in status[x]
    BY <2>1 DEF IInv, TypeOK
  <2> QED BY <1>0, <2>1, <2>2, WritebackOthers DEF PagesOK, WritebacksOK, IInv,
             TypeOK
<1>5. CASE WbDone(e)
  <2>1. /\ wb[e] = "cleaned" /\ wb' = [wb EXCEPT ![e] = "idle"]
        /\ status' = [status EXCEPT ![e] = @ \ {"WRITEBACK"}]
        /\ waddr' = [waddr EXCEPT ![e] = NoAddr]
    BY <1>5 DEF WbDone, WbStage, ClearFlag
  <2> QED BY <1>0, <2>1, WritebackOthers DEF PagesOK, WritebacksOK, IInv, TypeOK
<1> QED BY <1>1, <1>2, <1>3, <1>4, <1>5 DEF Writeback, WriteCallback

\* The device stores the latest content of the page at its own address.
LEMMA StoreIsCurrent ==
  ASSUME IInv, PagesOK, NEW e \in Entries, WbStore(e)
  PROVE  /\ wb[e] = "issued" /\ diskaddr[e] \in Addrs
         /\ fresh' = [fresh EXCEPT ![diskaddr[e]] = @ \cup {Disk}]
<1>1. /\ wb[e] = "issued"
      /\ fresh' = [a \in Addrs |->
                     IF a # waddr[e] THEN fresh[a]
                     ELSE IF e \in fresh[a] THEN fresh[a] \cup {Disk}
                                            ELSE fresh[a] \ {Disk}]
  BY DEF WbStore, WbStage
<1>2. /\ diskaddr[e] \in Addrs /\ lookup[diskaddr[e]] = e
      /\ waddr[e] = diskaddr[e]
  BY <1>1, WritebackMapped DEF PagesOK, WritebacksOK
<1>3. \A u \in Threads : Quiesced(u) => ent[u] # e
  BY <1>1 DEF PagesOK, WritebacksOK
<1>4. \A u \in Threads : Loads(u) \/ Initialises(u) => Quiesced(u)
  BY PageFacts DEF IInv, Quiesced
<1>5. "LOADING" \notin status[e]
  BY <1>3, <1>4 DEF PagesOK, ReasonsOK
<1>6. Shows(e, diskaddr[e])
  BY <1>2, <1>3, <1>4, <1>5 DEF Shows
<1>7. e \in fresh[diskaddr[e]]
  BY <1>2, <1>6 DEF PagesOK, CurrentOK
<1> QED BY <1>1, <1>2, <1>7 DEF IInv, TypeOK

\* The page a writeback marks clean is dirty to nobody.
LEMMA WritebackSees ==
  ASSUME IInv, PagesOK, NEW e \in Entries, Writeback(e)
  PROVE  SeesOK'
<1>1. \A u \in Threads : SeesClean(u) \/ SeesDirty(u) =>
         Quiesced(u) /\ ent[u] \in Entries
  BY PageFacts DEF IInv
<1>2. ASSUME WbClean(e), NEW u \in Threads, SeesDirty(u)
      PROVE  ent[u] # e
  <2>1. "WRITEBACK" \in status[e]
    BY <1>2 DEF WbClean, WbStage, PagesOK, WritebacksOK
  <2> QED BY <1>1, <1>2, <2>1 DEF PagesOK, WritebacksOK
<1> QED BY <1>1, <1>2, WritebackOthers, WritebackFlags DEF PagesOK, SeesOK, IInv

\* What the cache shows stays current: only copies on disk are added.
LEMMA WritebackCurrent ==
  ASSUME IInv, PagesOK, NEW e \in Entries, Writeback(e)
  PROVE  CurrentOK'
<1>1. \A a \in Addrs : fresh[a] \subseteq fresh'[a]
  BY SMTT(30), WritebackFlags, StoreIsCurrent DEF IInv, TypeOK
<1>2. \A x \in Entries, a \in Addrs : Shows(x, a)' => Shows(x, a)
  BY WritebackOthers, WritebackFlags DEF Shows, SameFlags, IInv
<1>3. \A u \in Threads : pc[u] = "l_done" => addr[u] \in Addrs
  BY DEF IInv, ControlOK, Control
<1> QED BY <1>1, <1>2, <1>3, WritebackOthers DEF PagesOK, CurrentOK

\* A page is marked clean after it has been stored.
LEMMA WritebackStored ==
  ASSUME IInv, PagesOK, NEW e \in Entries, Writeback(e)
  PROVE  StoredOK'
<1>1. \A a \in Addrs : Disk \in fresh[a] => Disk \in fresh'[a]
  BY SMTT(30), WritebackFlags, StoreIsCurrent DEF IInv, TypeOK
<1>2. ASSUME NEW a \in Addrs, lookup'[a] # NoEntry, "CLEAN" \in status'[lookup'[a]]
      PROVE  Disk \in fresh'[a]
  <2>1. lookup[a] \in Entries /\ lookup'[a] = lookup[a]
    BY <1>2, WritebackOthers DEF IInv, TypeOK
  <2>2. CASE "CLEAN" \in status[lookup[a]]
    BY <1>1, <1>2, <2>1, <2>2 DEF PagesOK, StoredOK
  <2>3. CASE lookup[a] = e /\ WbClean(e)
    <3>1. wb[e] = "stored"
      BY <2>3 DEF WbClean, WbStage
    <3>2. \A u \in Threads : Publishes(u) => ent[u] # e
      BY <3>1, PageFacts DEF PagesOK, WritebacksOK, IInv, Quiesced
    <3>3. diskaddr[e] = a
      BY <2>1, <2>3, <3>2, ConstantAssumption DEF PagesOK, MapOK
    <3> QED BY <1>1, <3>1, <3>3 DEF PagesOK, StoredOK
  <2> QED BY <1>2, <2>1, <2>2, <2>3, WritebackFlags DEF IInv
<1>3. ASSUME NEW x \in Entries, wb'[x] \in {"stored", "cleaned"}
      PROVE  Disk \in fresh'[diskaddr'[x]]
  <2>1. diskaddr' = diskaddr
    BY WritebackOthers
  <2>2. CASE wb[x] \in {"stored", "cleaned"}
    <3>1. diskaddr[x] \in Addrs
      BY <2>2, WritebackMapped DEF PagesOK
    <3> QED BY <1>1, <2>1, <2>2, <3>1 DEF PagesOK, StoredOK
  <2>3. CASE WbStore(e) /\ x = e
    BY <2>1, <2>3, StoreIsCurrent DEF IInv, TypeOK
  <2>4. wb[x] \in {"stored", "cleaned"} \/ (WbStore(e) /\ x = e)
    BY <1>3 DEF Writeback, WriteCallback, TrySetWriteback, WbIssue, WbStore,
       WbClean, WbDone, WbStage, IInv, TypeOK
  <2> QED BY <2>2, <2>3, <2>4
<1>4. NoLostWrite'
  BY <1>1, WritebackOthers DEF PagesOK, StoredOK, NoLostWrite
<1> QED BY <1>2, <1>3, <1>4 DEF StoredOK

-----------------------------------------------------------------------------
(* The inductive invariant, and what follows from it.                      *)

\* treepass_init establishes layers 4 to 6.
LEMMA InitPages == Init => PagesOK
<1> SUFFICES ASSUME Init PROVE PagesOK
  OBVIOUS
<1>1. \A t \in Threads : pc[t] = "idle" /\ op[t] = "none" /\ addr[t] = NoAddr
  BY DEF Init
<1>2. \A t \in Threads :
         /\ ~ Publishes(t) /\ ~ Unmaps(t) /\ ~ Hidden(t) /\ ~ Quiesced(t)
         /\ ~ SeesClean(t) /\ ~ SeesDirty(t)
  BY <1>1 DEF Publishes, Unmaps, Hidden, Quiesced, Locks, Owns, Loads,
     SeesClean, SeesDirty, Creates, EvictPCs, LoadPCs, AllocPCs, LockPCs
<1>3. MapOK /\ HiddenOK /\ ReasonsOK
  BY <1>2 DEF Init, MapOK, HiddenOK, ReasonsOK, FreeStatus
<1>4. WritebacksOK /\ SeesOK
  BY <1>2 DEF Init, WritebacksOK, SeesOK, FreeStatus
<1>5. CurrentOK /\ StoredOK
  BY <1>1, ConstantAssumption DEF Init, CurrentOK, StoredOK, Shows, NoLostWrite
<1> QED BY <1>3, <1>4, <1>5 DEF PagesOK

\* A step of a thread keeps them.
LEMMA ThreadKeepsPages ==
  ASSUME IInv, PagesOK, NEW t \in Threads, Start(t) \/ Step(t)
  PROVE  PagesOK'
<1>1. Frame(t)
  BY ThreadStep DEF IInv
<1>2. MapOK' /\ HiddenOK' /\ ReasonsOK'
  BY <1>1, ThreadMap, ThreadHidden, ThreadReasons DEF PagesOK
<1>3. WritebacksOK' /\ SeesOK'
  BY <1>1, ThreadWritebacks, ThreadSees DEF PagesOK
<1>4. CurrentOK' /\ StoredOK'
  BY <1>1, ThreadCurrent, ThreadStored
<1> QED BY <1>2, <1>3, <1>4 DEF PagesOK

\* A step of a writeback keeps them.
LEMMA WritebackKeepsPages ==
  ASSUME IInv, PagesOK, NEW e \in Entries, Writeback(e)
  PROVE  PagesOK'
<1>1. MapOK' /\ HiddenOK' /\ ReasonsOK'
  BY WritebackMap DEF PagesOK
<1> QED BY <1>1, WritebackWritebacks, WritebackSees, WritebackCurrent,
           WritebackStored DEF PagesOK

(* The lookup table, the writebacks and the contents of pages stay        *)
(* consistent in every reachable state, for any number of threads, entries,*)
(* addresses, batches and reference counters: in particular an address is  *)
(* never cached twice, and a clean or uncached page has its content on disk.*)
THEOREM PagesHold == Spec => []PagesOK
<1>1. IInv /\ PagesOK /\ [Next]_vars => PagesOK'
  <2> SUFFICES ASSUME IInv, PagesOK, [Next]_vars PROVE PagesOK'
    OBVIOUS
  <2>1. CASE Next
    BY <2>1, ThreadKeepsPages, WritebackKeepsPages DEF Next
  <2>2. CASE UNCHANGED vars
    BY <2>2 DEF vars, PagesOK, MapOK, HiddenOK, ReasonsOK, WritebacksOK,
       SeesOK, CurrentOK, StoredOK, NoLostWrite, Usable, Shows, Publishes,
       Unmaps, Prepares, Hidden, Loads, Blank, Quiesced, Locks, Owns,
       Initialises, SeesClean, SeesDirty, Creates
  <2> QED BY <2>1, <2>2
<1> QED BY <1>1, InitPages, IInvHolds, PTL DEF Spec

(* The inductive invariant that TLC checks holds of every instance: what   *)
(* every control point relies on about locks, addresses and contents.      *)
THEOREM CacheInvHolds == Spec => []CacheInv
<1>1. IInv /\ PagesOK => CacheInv BY DEF CacheInv
<1> QED BY <1>1, IInvHolds, PagesHold, PTL

\* The page a client holds is found under its address, in its entry.
LEMMA HolderMapped ==
  ASSUME IInv, PagesOK, NEW t \in Threads, Holds(t)
  PROVE  /\ ent[t] \in Entries /\ addr[t] \in Addrs
         /\ diskaddr[ent[t]] = addr[t] /\ lookup[addr[t]] = ent[t]
<1>1. /\ Confirmed(t) /\ Admitted(t) /\ ~ Unmaps(t) /\ ~ Prepares(t)
  BY DEF Holds, Confirmed, Admitted, Unmaps, Prepares, HoldPCs, LockPCs
<1>2. ent[t] \in Entries /\ addr[t] \in Addrs /\ diskaddr[ent[t]] = addr[t]
  BY <1>1, PageFacts DEF IInv, AddressesOK
<1>3. ASSUME NEW u \in Threads, Unmaps(u) \/ Prepares(u), ent[u] = ent[t]
      PROVE  FALSE
  <2>1. u # t
    BY <1>1, <1>3
  <2>2. CASE Unmaps(u)
    <3>1. pc[u] \in UnmapPCs
      BY <2>2 DEF Unmaps, UnmapPCs
    <3> QED BY <1>3, <2>1, <3>1, IInvExcludes DEF LockExclusion
  <2>3. CASE Prepares(u)
    <3>1. Creates(u) /\ Confirmed(u)
      BY <2>3, PageFacts DEF IInv
    <3> QED BY <1>1, <1>2, <1>3, <2>1, <3>1 DEF IInv, DrainsOK, AddressesOK
  <2> QED BY <1>3, <2>2, <2>3
<1> QED BY <1>2, <1>3, ConstantAssumption DEF PagesOK, MapOK

\* Two clients that hold an address hold the same entry, where the write lock
\* excludes.
LEMMA PagesExclude == IInv /\ PagesOK => WriteExclusion
<1> SUFFICES ASSUME IInv, PagesOK, NEW t \in Threads, NEW u \in Threads, t # u,
                    pc[t] \in WritePCs, Holds(u), addr[t] = addr[u]
             PROVE  FALSE
  BY DEF WriteExclusion
<1>1. Holds(t)
  BY DEF Holds, HoldPCs, WritePCs
<1>2. ent[t] = ent[u]
  BY <1>1, HolderMapped
<1> QED BY <1>2, IInvExcludes DEF LockExclusion

\* A handle is to a page the cache shows.
LEMMA PagesCurrent == IInv /\ PagesOK => HandleIsCurrent
<1> SUFFICES ASSUME IInv, PagesOK, NEW t \in Threads, Holds(t),
                    ~ (op[t] = "alloc" /\ pc[t] = "dirty")
             PROVE  /\ diskaddr[ent[t]] = addr[t] /\ lookup[addr[t]] = ent[t]
                    /\ "LOADING" \notin status[ent[t]]
                    /\ ent[t] \in fresh[addr[t]]
  BY DEF HandleIsCurrent
<1>1. /\ ent[t] \in Entries /\ addr[t] \in Addrs
      /\ diskaddr[ent[t]] = addr[t] /\ lookup[addr[t]] = ent[t]
  BY HolderMapped
<1>2. Loaded(t) /\ Admitted(t) /\ ~ Loads(t) /\ ~ Initialises(t)
  BY DEF Holds, HoldPCs, LockPCs, Loaded, Admitted, Loads, LoadPCs, Initialises
<1>3. "LOADING" \notin status[ent[t]]
  BY <1>1, <1>2 DEF IInv, LoadsOK, PagesOK, ReasonsOK
<1>4. \A u \in Threads : ent[u] = ent[t] => ~ Initialises(u)
  <2> SUFFICES ASSUME NEW u \in Threads, ent[u] = ent[t], Initialises(u)
               PROVE  FALSE
    OBVIOUS
  <2>1. u # t /\ Creates(u) /\ Confirmed(u)
    BY <1>2, PageFacts DEF IInv
  <2> QED BY <1>1, <1>2, <2>1 DEF IInv, DrainsOK, AddressesOK
<1>5. Shows(ent[t], addr[t])
  BY <1>1, <1>3, <1>4 DEF Shows
<1> QED BY <1>1, <1>3, <1>5 DEF PagesOK, CurrentOK

\* Whoever may change the page, or takes it apart, has waited for the writeback.
LEMMA PagesStable == IInv /\ PagesOK => WritebackStable
<1> SUFFICES ASSUME IInv, PagesOK, NEW e \in Entries, wb[e] # "idle"
             PROVE  /\ diskaddr[e] # NoAddr /\ lookup[diskaddr[e]] = e
                    /\ wb[e] # "started" => waddr[e] = diskaddr[e]
                    /\ \A t \in Threads :
                          ent[t] = e => pc[t] \notin WritePCs \cup UnmapPCs
  BY DEF WritebackStable
<1>1. \A t \in Threads : pc[t] \in WritePCs \cup UnmapPCs => Quiesced(t)
  BY DEF WritePCs, UnmapPCs, Quiesced, Locks, Owns, EvictPCs
<1> QED BY <1>1, WritebackMapped, ConstantAssumption DEF PagesOK, WritebacksOK

(* While a client changes the page at some address no other client holds   *)
(* that address, through any entry, for any number of threads, entries and *)
(* addresses: eviction, racing loads (the compare-and-swap in              *)
(* treepass_acquire_entry_for_load) and reallocation never cache an address*)
(* twice.                                                                  *)
THEOREM WriteExclusionHolds == Spec => []WriteExclusion
BY IInvHolds, PagesHold, PagesExclude, PTL

(* A handle that treepass_get returned shows the latest content of the     *)
(* address it was asked for, completely loaded, as long as the client keeps*)
(* it.                                                                     *)
THEOREM HandleIsCurrentHolds == Spec => []HandleIsCurrent
BY IInvHolds, PagesHold, PagesCurrent, PTL

(* An allocated page that is not in the cache has its latest content on    *)
(* disk: treepass_try_evict, with the writebacks and loads around it, loses*)
(* nothing that was written.                                               *)
THEOREM NoLostWriteHolds == Spec => []NoLostWrite
<1>1. PagesOK => NoLostWrite
  BY DEF PagesOK, StoredOK
<1> QED BY <1>1, PagesHold, PTL

(* A writeback stores one version of one page at its own address: from     *)
(* treepass_try_set_writeback to treepass_write_callback the page stays    *)
(* where the request says and nobody modifies it.                          *)
THEOREM WritebackStableHolds == Spec => []WritebackStable
BY IInvHolds, PagesHold, PagesStable, PTL

-----------------------------------------------------------------------------
(***************************************************************************)
(* Part 4, the refinement.  A step of a thread changes its lock as         *)
(* PageLocks sees it only where VisibleStep says, and the set of live      *)
(* addresses only where a page is created or its discard begins            *)
(* (UsableStep, UsableKept).  Each of these steps is one action of         *)
(* PageLocks: its guard follows from WriteExclusion, from the claims       *)
(* (ClaimsOK) and from the users of an address (UsersOK).                  *)
(***************************************************************************)

-----------------------------------------------------------------------------
(* The refinement mapping, thread by thread.                               *)

\* lockMode[t]
Mode(t) == IF pc[t] \in WritePCs THEN "write"
           ELSE IF \/ pc[t] \in {"claimed", "unlocked"}
                   \/ pc[t] \in LockPCs /\ op[t] = "write" THEN "claim"
           ELSE IF pc[t] \in {"reading", "unclaimed"} THEN "read"
           ELSE "none"

\* What lockMode and lockPage are, before and after a step.
LEMMA Mapping ==
  ASSUME NEW t \in Threads
  PROVE  /\ lockMode[t] = Mode(t) /\ lockMode'[t] = Mode(t)'
         /\ lockPage[t] = (IF Holds(t) THEN addr[t] ELSE NoAddr)
         /\ lockPage'[t] = (IF Holds(t)' THEN addr'[t] ELSE NoAddr)
<1>1. lockMode[t] = Mode(t)
  BY DEF lockMode, Mode, WritePCs, LockPCs
<1>2. lockMode'[t] = Mode(t)'
  BY DEF lockMode, Mode, WritePCs, LockPCs
<1>3. /\ lockPage[t] = (IF Holds(t) THEN addr[t] ELSE NoAddr)
      /\ lockPage'[t] = (IF Holds(t)' THEN addr'[t] ELSE NoAddr)
  BY DEF lockPage
<1> QED BY <1>1, <1>2, <1>3

\* A thread holds its page in the mode the mapping says.
LEMMA ModeFacts ==
  ASSUME NEW t \in Threads
  PROVE  /\ Mode(t) = "none" <=> ~ Holds(t)
         /\ Mode(t) = "write" <=> pc[t] \in WritePCs
         /\ Mode(t) \in {"claim", "write"} => Owns(t)
         /\ Mode(t) \in {"none", "read", "claim", "write"}
BY DEF Mode, Holds, HoldPCs, WritePCs, LockPCs, Owns

\* A step of t changes the lock of t only.
LEMMA OtherModes ==
  ASSUME NEW t \in Threads, Frame(t)
  PROVE  /\ lockMode' = [lockMode EXCEPT ![t] = Mode(t)']
         /\ lockPage' = [lockPage EXCEPT ![t] = IF Holds(t)' THEN addr'[t]
                                                              ELSE NoAddr]
<1>1. \A u \in Threads \ {t} : /\ Mode(u)' = Mode(u)
                               /\ Holds(u)' <=> Holds(u)
                               /\ addr'[u] = addr[u]
  BY DEF Frame, Mode, Holds
<1>2. /\ lockMode = [u \in Threads |-> Mode(u)]
      /\ lockMode' = [u \in Threads |-> Mode(u)']
  BY DEF lockMode, Mode, WritePCs, LockPCs
<1>3. /\ lockPage = [u \in Threads |-> IF Holds(u) THEN addr[u] ELSE NoAddr]
      /\ lockPage' = [u \in Threads |-> IF Holds(u)' THEN addr'[u] ELSE NoAddr]
  BY DEF lockPage
<1> QED BY <1>1, <1>2, <1>3

-----------------------------------------------------------------------------
(* Which steps PageLocks sees.                                             *)

VisibleKept(t) == /\ Mode(t)' = Mode(t)
                  /\ Holds(t)' <=> Holds(t)
                  /\ Holds(t) => addr'[t] = addr[t]
VisibleStep(t) ==
    \/ GetType(t) /\ pc'[t] = "reading"
    \/ LoadDone(t)
    \/ (AllocLookup(t) \/ AllocPin(t)) /\ pc'[t] = "dirty"
    \/ TryClaim(t) /\ pc'[t] = "claimed"
    \/ GwDrain(t) /\ pc'[t] = "locked"
    \/ Unlock(t) \/ Unclaim(t) \/ Unget(t)

\* The actions that take, strengthen, weaken or give back a lock.
LEMMA VisibleEffects ==
  ASSUME TypeOK, ControlOK, NEW t \in Threads, Start(t) \/ Step(t)
  PROVE  VisibleKept(t) \/ VisibleStep(t)
<1> USE DEF TypeOK, ControlOK, Control, VisibleKept, VisibleStep, Mode, Holds,
            HoldPCs, WritePCs, EntPCs, PCs, ReadPCs, GetPCs, FreePCs,
            EvictPCs, LoadPCs, AllocPCs, LockPCs, DiscardPCs, ClientPCs, Goto,
            SetFlag, ClearFlag, StoreStatus, IncRef, DecRef, Leave, Finish,
            Begin, Local, StatusStep, Unref, UnrefFinish, CallRead, AfterRead,
            AfterEvicted, TypeStep, AfterFreePage, AddrStep, cacheVars,
            entryVars, ioVars, opVars
<1>1. CASE Start(t)
  BY <1>1, StartFacts
<1>2. CASE TryGetRead(t)
  BY <1>2, SMTT(60) DEF TryGetRead, RdTest, RdInc, RdFree, RdWl, RdEvicted,
     RdConflict
<1>3. CASE GetLookup(t) \/ GetInCache(t)
  BY <1>3, SMTT(60) DEF GetInCache, GetLookup, GetAddr, GetWait, GetAddr2,
     GetType, GetDrop
<1>4. CASE GetFreePage(t)
  BY <1>4, SMTT(60) DEF GetFreePage, FpTake, FpMiss, FpRef, FpStatus, FpType,
     EvStay, EvRelease, MoveHand
<1>5. CASE TryEvict(t)
  BY <1>5, SMTT(60) DEF TryEvict, EvFast, EvClaim, EvLoad, EvWl, EvWb,
     EvDrain, EvVerify, EvLookup, EvAddr, EvType, EvFree, EvUnwl, EvUnclaim,
     EvUnref
<1>6. CASE GetFromDisk(t)
  BY <1>6, SMTT(60) DEF GetFromDisk, LoadCas, LoadAbortRef, LoadAbortType,
     LoadAbortFree, LoadAddr, LoadRead, LoadDone
<1>7. CASE Alloc(t)
  BY <1>7, SMTT(60) DEF Alloc, AllocAddr, AllocLookup, AllocPin
<1>8. CASE Client(t)
  BY <1>8, SMTT(60) DEF Client, Unget, TryClaim, Lock, MarkDirty, Modify,
     Unlock, Unclaim
<1>9. CASE GetWrite(t)
  BY <1>9, SMTT(60) DEF GetWrite, GwSet, GwWriteback, GwDrain
<1>10. CASE TryPageDiscard(t)
  BY <1>10, SMTT(60) DEF TryPageDiscard, DiscardLookup, DiscardWait,
     DiscardAddr, DiscardDrop, DiscardClaim, DiscardUnmap, DiscardUnaddr,
     DiscardType, DiscardFree, DiscardUnpin, DiscardUnref
<1> QED BY <1>1, <1>2, <1>3, <1>4, <1>5, <1>6, <1>7, <1>8, <1>9, <1>10 DEF
   Step

\* An address stays usable until its discard begins.
LEMMA UsableKept ==
  ASSUME IInv, NEW t \in Threads, Frame(t), Start(t) \/ Step(t),
         NEW a \in Addrs, Usable(a)
  PROVE  Usable(a)' \/ (StartDiscard(t) /\ addr'[t] = a)
<1>1. /\ atype[a] # NoType
      /\ \A u \in Threads : addr[u] = a => ~ Sole(u)
  BY UsableSole
<1>2. \A u \in Threads \ {t} : addr'[u] = a => ~ Sole(u)'
  BY <1>1, UsersOthers
<1>3. ASSUME atype'[a] # NoType, addr'[t] = a => ~ Sole(t)'
      PROVE  Usable(a)'
  BY <1>2, <1>3 DEF Usable, Sole
<1>4. CASE StartGet(t)
  <2>1. UNCHANGED atype /\ op'[t] \in {"get", "tryget", "write"}
    BY <1>4 DEF StartGet, Begin, IInv, TypeOK
  <2>2. ~ Sole(t)'
    BY <2>1 DEF Sole
  <2> QED BY <1>1, <1>3, <2>1, <2>2
<1>5. CASE StartAlloc(t)
  <2>1. PICK b \in Addrs, ty \in Types :
           /\ atype[b] = NoType /\ atype' = [atype EXCEPT ![b] = ty]
           /\ Begin(t, "alloc", b, "fp")
    BY <1>5, Zenon DEF StartAlloc
  <2>2. addr'[t] = b /\ b # a
    BY <1>1, <2>1 DEF Begin, IInv, TypeOK
  <2> QED BY <1>1, <1>3, <2>1, <2>2 DEF IInv, TypeOK
<1>6. CASE StartDiscard(t)
  <2>1. UNCHANGED atype
    BY <1>6 DEF StartDiscard
  <2> QED BY <1>1, <1>3, <1>6, <2>1
<1>7. CASE DiscardLookup(t) \/ DiscardUnref(t)
  <2>1. op[t] = "discard" /\ addr[t] \in Addrs
    BY <1>7 DEF DiscardLookup, DiscardUnref, IInv, ControlOK, Control,
       DiscardPCs
  <2>2. addr[t] # a
    BY <1>1, <2>1 DEF Sole
  <2>3. CASE CallRead(t, lookup[addr[t]], "discard")
    BY <1>1, <1>3, <2>2, <2>3 DEF CallRead, cacheVars, opVars
  <2>4. CASE Finish(t) /\ atype' = [atype EXCEPT ![addr[t]] = NoType]
    <3>1. addr'[t] = NoAddr
      BY <2>4 DEF Finish, IInv, TypeOK
    <3> QED BY <1>1, <1>3, <2>1, <2>2, <2>4, <3>1, ConstantAssumption
            DEF IInv, TypeOK
  <2> QED BY <1>7, <2>3, <2>4 DEF DiscardLookup, DiscardUnref
<1>8. CASE Step(t) /\ ~ DiscardLookup(t) /\ ~ DiscardUnref(t)
  <2>1. UserKept(t)
    BY <1>8, ThreadUserKept DEF IInv
  <2> QED BY <1>1, <1>3, <2>1, ConstantAssumption DEF UserKept
<1> QED BY <1>4, <1>5, <1>6, <1>7, <1>8 DEF Start

\* The live addresses change when a page is born or its discard begins.
LEMMA LiveSteps ==
  ASSUME IInv, NEW t \in Threads, Frame(t), Start(t) \/ Step(t)
  PROVE  \/ UNCHANGED livePages
         \/ (AllocLookup(t) \/ AllocPin(t)) /\ pc'[t] = "dirty"
         \/ StartDiscard(t)
<1>1. ASSUME NEW a \in Addrs, Usable(a)', ~ Usable(a)
      PROVE  (AllocLookup(t) \/ AllocPin(t)) /\ pc'[t] = "dirty"
  <2>1. a = addr[t] /\ (AllocLookup(t) \/ AllocPin(t))
    BY <1>1, UsableStep
  <2>2. /\ pc[t] \in {"a_lookup", "a_pin"} /\ pc'[t] \in {"a_pin", "dirty"}
        /\ UNCHANGED <<op, addr>>
    BY <2>1 DEF AllocLookup, AllocPin, Goto, opVars, IInv, TypeOK
  <2>3. pc'[t] # "a_pin"
    BY <1>1, <2>1, <2>2 DEF Usable, ClientPCs, IInv, ControlOK, Control,
       AllocPCs
  <2> QED BY <2>1, <2>2, <2>3
<1>2. ASSUME NEW a \in Addrs, Usable(a), ~ Usable(a)'
      PROVE  StartDiscard(t)
  BY <1>2, UsableKept
<1> QED BY <1>1, <1>2 DEF livePages

-----------------------------------------------------------------------------
(* Each visible step is a step of PageLocks.                               *)

\* A page that somebody uses, without creating or discarding it, is live.
LEMMA UserUsable ==
  ASSUME IInv, NEW t \in Threads, addr[t] \in Addrs, ~ Sole(t)
  PROVE  Usable(addr[t])
<1>1. atype[addr[t]] # NoType
  BY ConstantAssumption DEF IInv, UsersOK
<1>2. \A u \in Threads : addr[u] = addr[t] => ~ Sole(u)
  BY ConstantAssumption DEF IInv, UsersOK
<1> QED BY <1>1, <1>2, UsableSole

\* treepass_get returns: nobody has the page write locked.
LEMMA GetRefines ==
  ASSUME IInv, WriteExclusion', NEW t \in Threads, Frame(t),
         (GetType(t) /\ pc'[t] = "reading") \/ LoadDone(t),
         UNCHANGED livePages
  PROVE  PL!Get(t, addr[t])
<1>1. /\ pc[t] \in {"g_type", "l_done"} /\ pc'[t] = "reading"
      /\ UNCHANGED <<op, addr>>
  BY DEF GetType, LoadDone, Local, StatusStep, Goto, cacheVars, opVars, IInv,
         TypeOK
<1>2. Mode(t) = "none" /\ Mode(t)' = "read" /\ Holds(t)'
  BY <1>1 DEF Mode, Holds, HoldPCs, WritePCs, LockPCs
<1>3. addr[t] \in Addrs /\ ~ Sole(t)
  BY <1>1 DEF IInv, ControlOK, Control, GetPCs, LoadPCs, Sole
<1>4. addr[t] \in livePages
  BY <1>3, UserUsable DEF livePages
<1>5. ASSUME NEW u \in Threads \ {t}, lockPage[u] = addr[t]
      PROVE  lockMode[u] # "write"
  <2>1. Holds(u) /\ addr[u] = addr[t]
    BY <1>3, <1>5, Mapping, ConstantAssumption
  <2>2. pc'[u] = pc[u] /\ addr'[u] = addr[u]
    BY DEF Frame
  <2>3. pc[u] \notin WritePCs
    BY <1>1, <1>2, <2>1, <2>2 DEF WriteExclusion
  <2> QED BY <2>3, Mapping, ModeFacts
<1>6. /\ lockMode[t] = "none"
      /\ lockMode' = [lockMode EXCEPT ![t] = "read"]
      /\ lockPage' = [lockPage EXCEPT ![t] = addr[t]]
  BY <1>1, <1>2, Mapping, OtherModes
<1> QED BY <1>4, <1>5, <1>6 DEF PL!Get, PL!Others, PL!Change

\* treepass_alloc returns: nobody can have heard of the page.
LEMMA NewRefines ==
  ASSUME IInv, NEW t \in Threads, Frame(t),
         AllocLookup(t) \/ AllocPin(t), pc'[t] = "dirty"
  PROVE  PL!New(t, addr[t])
<1>1. /\ pc[t] \in {"a_lookup", "a_pin"} /\ UNCHANGED <<op, addr, atype>>
  BY DEF AllocLookup, AllocPin, opVars
<1>2. /\ addr[t] \in Addrs /\ op[t] = "alloc" /\ Sole(t) /\ ~ Sole(t)'
  BY <1>1 DEF IInv, ControlOK, Control, AllocPCs, Sole, ClientPCs
<1>3. Mode(t) = "none" /\ Mode(t)' = "write" /\ Holds(t)'
  BY <1>1 DEF Mode, Holds, HoldPCs, WritePCs, LockPCs
<1>4. ~ Usable(addr[t])
  BY <1>2, UsableSole
<1>5. \A u \in Threads \ {t} : addr[u] # addr[t]
  BY <1>2, ConstantAssumption DEF IInv, UsersOK
<1>6. \A u \in Threads \ {t} : lockPage[u] # addr[t]
  BY <1>2, <1>5, Mapping, ConstantAssumption
<1>7. livePages' = livePages \cup {addr[t]}
  <2>1. /\ atype[addr[t]] # NoType
        /\ \A u \in Threads : addr'[u] = addr[t] => ~ Sole(u)'
    BY <1>1, <1>2, <1>5, ConstantAssumption DEF IInv, UsersOK
  <2>2. ASSUME NEW a \in Addrs, a = addr[t]
        PROVE  Usable(a)'
    BY <1>1, <2>1, <2>2 DEF Usable, Sole
  <2>3. Step(t)
    BY DEF Step, Alloc
  <2>4. \A a \in Addrs : a # addr[t] /\ Usable(a)' => Usable(a)
    BY <2>3, UsableStep
  <2>5. \A a \in Addrs : Usable(a) => Usable(a)'
    <3>1. ~ StartDiscard(t)
      BY <1>1 DEF StartDiscard, Idle
    <3> QED BY <2>3, <3>1, UsableKept
  <2> QED BY <1>2, <2>2, <2>4, <2>5 DEF livePages
<1>8. /\ lockMode[t] = "none"
      /\ lockMode' = [lockMode EXCEPT ![t] = "write"]
      /\ lockPage' = [lockPage EXCEPT ![t] = addr[t]]
  BY <1>1, <1>3, Mapping, OtherModes
<1> QED BY <1>4, <1>6, <1>7, <1>8 DEF PL!New, PL!Others, PL!Change, livePages

\* treepass_try_claim succeeds: the others that hold the page only read it.
LEMMA ClaimRefines ==
  ASSUME IInv, PagesOK, NEW t \in Threads, Frame(t), TryClaim(t),
         pc'[t] = "claimed", UNCHANGED livePages
  PROVE  PL!Claim(t)
<1>1. /\ pc[t] = "reading" /\ UNCHANGED <<op, addr>>
      /\ "CLAIMED" \notin status[ent[t]]
  BY DEF TryClaim, Local, StatusStep, Goto, Test, cacheVars, opVars, IInv,
         TypeOK
<1>2. Mode(t) = "read" /\ Mode(t)' = "claim" /\ Holds(t) /\ Holds(t)'
  BY <1>1 DEF Mode, Holds, HoldPCs, WritePCs, LockPCs
<1>3. addr[t] \in Addrs /\ lockPage[t] = addr[t]
  BY <1>2, HolderMapped, Mapping
<1>4. ASSUME NEW u \in Threads \ {t}, lockPage[u] = lockPage[t]
      PROVE  lockMode[u] = "read"
  <2>1. Holds(u) /\ addr[u] = addr[t]
    BY <1>3, <1>4, Mapping, ConstantAssumption
  <2>2. ent[u] = ent[t]
    BY <1>2, <2>1, HolderMapped
  <2>3. ~ Owns(u)
    BY <1>1, <2>2 DEF IInv, ClaimsOK
  <2> QED BY <2>1, <2>3, Mapping, ModeFacts
<1>5. /\ lockMode[t] = "read"
      /\ lockMode' = [lockMode EXCEPT ![t] = "claim"]
      /\ lockPage' = [lockPage EXCEPT ![t] = addr[t]]
  BY <1>1, <1>2, Mapping, OtherModes
<1>6. lockPage' = lockPage
  BY <1>3, <1>5 DEF lockPage
<1> QED BY <1>4, <1>5, <1>6 DEF PL!Claim, PL!Others, PL!Change

\* treepass_get_write returns: nobody else holds the page.
LEMMA LockRefines ==
  ASSUME IInv, PagesOK, WriteExclusion', NEW t \in Threads, Frame(t),
         GwDrain(t), pc'[t] = "locked", UNCHANGED livePages
  PROVE  PL!Lock(t)
<1>1. /\ pc[t] = "gw_drain" /\ UNCHANGED <<op, addr>> /\ op[t] = "write"
  BY DEF GwDrain, Local, Goto, cacheVars, opVars, IInv, TypeOK, ControlOK,
         Control, LockPCs
<1>2. Mode(t) = "claim" /\ Mode(t)' = "write" /\ Holds(t) /\ Holds(t)'
  BY <1>1 DEF Mode, Holds, HoldPCs, WritePCs, LockPCs
<1>3. addr[t] \in Addrs /\ lockPage[t] = addr[t]
  BY <1>2, HolderMapped, Mapping
<1>4. \A u \in Threads \ {t} : lockPage[u] # lockPage[t]
  <2> SUFFICES ASSUME NEW u \in Threads \ {t}, lockPage[u] = lockPage[t]
               PROVE  FALSE
    OBVIOUS
  <2>1. Holds(u) /\ addr[u] = addr[t]
    BY <1>3, Mapping, ConstantAssumption
  <2>2. Holds(u)' /\ addr'[u] = addr[u]
    BY <2>1 DEF Frame, Holds
  <2> QED BY <1>1, <2>1, <2>2 DEF WriteExclusion, WritePCs
<1>5. /\ lockMode[t] = "claim"
      /\ lockMode' = [lockMode EXCEPT ![t] = "write"]
      /\ lockPage' = [lockPage EXCEPT ![t] = addr[t]]
  BY <1>1, <1>2, Mapping, OtherModes
<1>6. lockPage' = lockPage
  BY <1>3, <1>5 DEF lockPage
<1> QED BY <1>4, <1>5, <1>6 DEF PL!Lock, PL!Others, PL!Change

\* Unlocking, unclaiming and giving back.
LEMMA ReleaseRefines ==
  ASSUME IInv, PagesOK, NEW t \in Threads, Frame(t),
         Unlock(t) \/ Unclaim(t) \/ Unget(t), UNCHANGED livePages
  PROVE  PL!Unlock(t) \/ PL!Unclaim(t) \/ PL!Unget(t)
<1>1. CASE Unlock(t) \/ Unclaim(t)
  <2>1. /\ UNCHANGED <<op, addr>>
        /\ \/ pc[t] = "written" /\ pc'[t] = "unlocked"
           \/ pc[t] \in {"claimed", "unlocked"} /\ pc'[t] = "unclaimed"
    BY <1>1 DEF Unlock, Unclaim, StatusStep, Goto, opVars, IInv, TypeOK
  <2>2. /\ \/ Mode(t) = "write" /\ Mode(t)' = "claim"
           \/ Mode(t) = "claim" /\ Mode(t)' = "read"
        /\ Holds(t) /\ Holds(t)'
    BY <2>1 DEF Mode, Holds, HoldPCs, WritePCs, LockPCs
  <2>3. lockPage' = [lockPage EXCEPT ![t] = addr[t]] /\ lockPage[t] = addr[t]
    BY <2>1, <2>2, Mapping, OtherModes
  <2>4. lockPage' = lockPage
    BY <2>3 DEF lockPage
  <2>5. lockMode[t] = Mode(t) /\ lockMode' = [lockMode EXCEPT ![t] = Mode(t)']
    BY Mapping, OtherModes
  <2> QED BY <2>2, <2>4, <2>5 DEF PL!Unlock, PL!Unclaim, PL!Change
<1>2. CASE Unget(t)
  <2>1. pc[t] \in {"reading", "unclaimed"} /\ pc'[t] = "idle"
    BY <1>2 DEF Unget, UnrefFinish, Finish, Leave, Goto, IInv, TypeOK
  <2>2. Mode(t) = "read" /\ Mode(t)' = "none" /\ ~ Holds(t)'
    BY <2>1 DEF Mode, Holds, HoldPCs, WritePCs, LockPCs
  <2>3. /\ lockMode[t] = "read"
        /\ lockMode' = [lockMode EXCEPT ![t] = "none"]
        /\ lockPage' = [lockPage EXCEPT ![t] = NoAddr]
    BY <2>2, Mapping, OtherModes
  <2> QED BY <2>3 DEF PL!Unget, PL!Change
<1> QED BY <1>1, <1>2

\* cache_extent_discard begins when nobody uses the page.
LEMMA DiscardRefines ==
  ASSUME IInv, NEW t \in Threads, Frame(t), StartDiscard(t),
         UNCHANGED <<lockMode, lockPage>>
  PROVE  \E a \in Addrs : PL!Discard(a)
<1>1. PICK a \in Addrs :
         /\ atype[a] # NoType /\ \A u \in Threads : addr[u] # a
         /\ op'[t] = "discard" /\ addr'[t] = a
  BY DEF StartDiscard, Begin, IInv, TypeOK
<1>2. Usable(a) /\ ~ Usable(a)'
  BY <1>1 DEF Usable
<1>3. \A u \in Threads : lockPage[u] # a
  BY <1>1, Mapping, ConstantAssumption
<1>4. Start(t) /\ ~ AllocLookup(t) /\ ~ AllocPin(t)
  BY DEF Start, StartDiscard, Idle, AllocLookup, AllocPin
<1>5. \A b \in Addrs : Usable(b)' => Usable(b)
  BY <1>4, UsableStep
<1>6. \A b \in Addrs : Usable(b) => Usable(b)' \/ b = a
  BY <1>1, <1>4, UsableKept
<1>7. livePages' = livePages \ {a}
  BY <1>2, <1>5, <1>6 DEF livePages
<1> QED BY <1>2, <1>3, <1>7 DEF PL!Discard, livePages

\* A step PageLocks does not see.
LEMMA HiddenRefines ==
  ASSUME NEW t \in Threads, Frame(t), VisibleKept(t)
  PROVE  UNCHANGED <<lockMode, lockPage>>
<1>1. /\ lockMode' = [lockMode EXCEPT ![t] = lockMode[t]]
      /\ lockPage' = [lockPage EXCEPT ![t] = lockPage[t]]
  BY Mapping, OtherModes DEF VisibleKept
<1> QED BY <1>1 DEF lockMode, lockPage

\* A step of a thread is a step of PageLocks, or changes nothing there.
LEMMA ThreadRefines ==
  ASSUME IInv, PagesOK, WriteExclusion', NEW t \in Threads,
         Start(t) \/ Step(t)
  PROVE  [PL!PLNext]_(PL!plVars)
<1>1. Frame(t)
  BY ThreadStep DEF IInv
<1>2. VisibleKept(t) \/ VisibleStep(t)
  BY VisibleEffects DEF IInv
<1>3. CASE (AllocLookup(t) \/ AllocPin(t)) /\ pc'[t] = "dirty"
  <2>1. addr[t] \in Addrs
    BY <1>3 DEF AllocLookup, AllocPin, IInv, ControlOK, Control
  <2> QED BY <1>1, <1>3, <2>1, NewRefines DEF PL!PLNext
<1>4. CASE StartDiscard(t)
  <2>1. ~ VisibleStep(t)
    BY <1>4 DEF StartDiscard, Idle, VisibleStep, GetType, LoadDone,
       AllocLookup, AllocPin, TryClaim, GwDrain, Unlock, Unclaim, Unget
  <2> QED BY <1>1, <1>2, <1>4, <2>1, HiddenRefines, DiscardRefines
          DEF PL!PLNext
<1>5. CASE UNCHANGED livePages
  <2>1. CASE VisibleKept(t)
    BY <1>1, <1>5, <2>1, HiddenRefines DEF PL!plVars
  <2>2. CASE (GetType(t) /\ pc'[t] = "reading") \/ LoadDone(t)
    <3>1. addr[t] \in Addrs
      BY <2>2 DEF GetType, LoadDone, IInv, ControlOK, Control
    <3> QED BY <1>1, <1>5, <2>2, <3>1, GetRefines DEF PL!PLNext
  <2>3. CASE TryClaim(t) /\ pc'[t] = "claimed"
    BY <1>1, <1>5, <2>3, ClaimRefines DEF PL!PLNext
  <2>4. CASE GwDrain(t) /\ pc'[t] = "locked"
    BY <1>1, <1>5, <2>4, LockRefines DEF PL!PLNext
  <2>5. CASE Unlock(t) \/ Unclaim(t) \/ Unget(t)
    BY <1>1, <1>5, <2>5, ReleaseRefines DEF PL!PLNext
  <2> QED BY <1>2, <1>3, <2>1, <2>2, <2>3, <2>4, <2>5 DEF VisibleStep
<1> QED BY <1>1, <1>3, <1>4, <1>5, LiveSteps

\* Writeback changes nothing PageLocks speaks of.
LEMMA WritebackRefines ==
  ASSUME NEW e \in Entries, Writeback(e)
  PROVE  UNCHANGED PL!plVars
<1>1. UNCHANGED <<pc, op, addr>> /\ UNCHANGED livePages
  BY WritebackOthers DEF livePages
<1> QED BY <1>1 DEF lockMode, lockPage, Holds, PL!plVars

\* The initial states are initial states of PageLocks.
LEMMA InitRefines == Init => PL!PLInit
<1> SUFFICES ASSUME Init PROVE PL!PLInit
  OBVIOUS
<1>1. \A t \in Threads : Mode(t) = "none" /\ ~ Holds(t)
  BY DEF Init, Mode, Holds, HoldPCs, WritePCs, LockPCs
<1>2. lockMode = [t \in Threads |-> "none"]
  BY <1>1 DEF lockMode, Mode
<1>3. lockPage = [t \in Threads |-> NoAddr]
  BY <1>1 DEF lockPage
<1> QED BY <1>2, <1>3 DEF PL!PLInit, livePages

(* Seen from its clients the cache is the atomic reader/claim/writer lock on*)
(* live addresses that cache.h promises: every step - optimistic read locks,*)
(* draining, eviction, loading, writeback - is a step of PageLocks or      *)
(* changes nothing there, for any number of threads, entries and addresses.*)
THEOREM PageLocksImplemented == Spec => ImplementsPageLocks
<1>1. IInv /\ PagesOK /\ WriteExclusion' /\ [Next]_vars
        => [PL!PLNext]_(PL!plVars)
  <2> SUFFICES ASSUME IInv, PagesOK, WriteExclusion', [Next]_vars
               PROVE  [PL!PLNext]_(PL!plVars)
    OBVIOUS
  <2>1. CASE Next
    BY <2>1, ThreadRefines, WritebackRefines DEF Next
  <2>2. CASE UNCHANGED vars
    BY <2>2 DEF vars, lockMode, lockPage, livePages, Holds, Usable, PL!plVars
  <2> QED BY <2>1, <2>2
<1> QED BY <1>1, InitRefines, IInvHolds, PagesHold, WriteExclusionHolds, PTL
        DEF Spec, ImplementsPageLocks, PL!Spec
=============================================================================
