----------------------------- MODULE PageCache -----------------------------
(***************************************************************************)
(* The page cache of treepass.c: the status-word locks (read, claim,       *)
(* write), lookup of a page by disk address, loading on a miss, allocation,*)
(* eviction, discarding and writeback, with one action per atomic memory   *)
(* access of the code.                                                     *)
(*                                                                         *)
(* Abstractions.                                                           *)
(*  - A status word is the set of its six flags.  The clock bits that share*)
(*    the word are dropped: a test of the whole word may also fail because *)
(*    of them, so the failing branch of such a test has no guard.          *)
(*  - The striped counters cc->refcount are the set refs[e] of threads     *)
(*    holding a reference; SlotOf says which counter a thread uses.  A     *)
(*    thread works on one page at a time, so it holds at most one reference*)
(*    to an entry, and the count of slot s is the number of its threads in *)
(*    refs[e].                                                             *)
(*  - Page contents are abstracted to fresh[a], the places (entries, Disk) *)
(*    that hold what was last written to address a.                        *)
(*  - The order in which a batch is scanned and the order in which the     *)
(*    clock hand visits batches are left open.                             *)
(***************************************************************************)
EXTENDS Integers, FiniteSets

CONSTANTS
    Threads,       \* the threads that call the cache
    Entries,       \* cc->entry[0 .. page_capacity - 1]
    Addrs,         \* page-aligned disk addresses
    Types,         \* page_type values other than PAGE_TYPE_INVALID
    PinnedTypes,   \* types whose pages are pinned when allocated (memtable)
    Batches,       \* groups of TP_ENTRIES_PER_BATCH entries
    BatchOf,       \* entry -> batch
    Slots,         \* the TP_RC_WIDTH stripes of the reference counters
    SlotOf,        \* thread -> stripe (tid % TP_RC_WIDTH)
    Roles,         \* thread -> the operations its client code performs
    NoEntry,       \* TP_UNMAPPED_ENTRY
    NoAddr,        \* TP_UNMAPPED_ADDR
    NoType,        \* PAGE_TYPE_INVALID
    NoBatch,       \* free_hand not yet set
    Disk           \* the copy of a page that is on disk

Operations == {"get", "tryget", "write", "alloc", "discard"}

ASSUME ConstantAssumption ==
    /\ PinnedTypes \subseteq Types
    /\ BatchOf \in [Entries -> Batches]
    /\ SlotOf \in [Threads -> Slots]
    /\ Roles \in [Threads -> SUBSET Operations]
    /\ NoEntry \notin Entries
    /\ NoAddr \notin Addrs
    /\ NoType \notin Types
    /\ NoBatch \notin Batches
    /\ Disk \notin Entries

VARIABLES
    lookup,    \* cc->lookup: address -> entry or NoEntry
    status,    \* entry -> set of flags of entry->status
    diskaddr,  \* entry -> entry->page.disk_addr
    ptype,     \* entry -> entry->type
    refs,      \* entry -> threads counted in cc->refcount
    pins,      \* entry -> cc->pincount
    wb,        \* entry -> stage of its writeback I/O
    waddr,     \* entry -> address its writeback I/O writes to
    fresh,     \* address -> places holding its latest content
    atype,     \* address -> type of its extent, NoType when unallocated
    hand,      \* thread -> batch its free_hand owns (batch_busy), or NoBatch
    pc,        \* thread -> control point
    op,        \* thread -> operation in progress
    addr,      \* thread -> address the operation is about
    ent,       \* thread -> entry_number local variable
    caller,    \* thread -> who called treepass_try_get_read
    drain      \* thread -> stripes whose readers are still to be waited for

entryVars == <<status, diskaddr, ptype, refs, pins>>
ioVars    == <<wb, waddr>>
opVars    == <<op, addr>>
cacheVars == <<lookup, status, diskaddr, ptype, refs, pins, wb, waddr, fresh,
               atype, hand>>
vars == <<lookup, status, diskaddr, ptype, refs, pins, wb, waddr, fresh, atype,
          hand, pc, op, addr, ent, caller, drain>>

Flags == {"FREE", "CLEAN", "WRITEBACK", "LOADING", "WRITELOCKED", "CLAIMED"}

FreeStatus            == {"FREE"}
EvictableStatus       == {"CLEAN"}
LockedEvictableStatus == {"CLEAN", "CLAIMED", "WRITELOCKED"}
AllocStatus           == {"WRITELOCKED", "CLAIMED"}
ReadLoadingStatus     == {"CLEAN", "LOADING"}

-----------------------------------------------------------------------------
(* Control points.                                                         *)

\* treepass_try_get_read
ReadPCs == {"rd_test", "rd_inc", "rd_free", "rd_wl", "rd_evicted",
            "rd_conflict"}
\* treepass_get_in_cache, after the read lock
GetPCs == {"g_lookup", "g_addr", "g_wait", "g_addr2", "g_type", "g_addr3",
           "g_drop"}
\* treepass_get_free_page and treepass_move_hand
FreePCs == {"fp", "fp_ref", "fp_status", "fp_type", "ev", "adv"}
\* treepass_try_evict, after its read lock
EvictPCs == {"ev_claim", "ev_load", "ev_wl", "ev_wb", "ev_drain",
             "ev_verify", "ev_unwl", "ev_unclaim", "ev_lookup", "ev_addr",
             "ev_type", "ev_free", "ev_unref"}
\* treepass_acquire_entry_for_load and treepass_get_from_disk
LoadPCs == {"l_cas", "l_abref", "l_abtype", "l_abfree", "l_addr", "l_read",
            "l_done"}
\* treepass_alloc
AllocPCs == {"a_addr", "a_lookup", "a_pin"}
\* treepass_get_write
LockPCs == {"gw_set", "gw_wb", "gw_drain"}
\* treepass_try_page_discard
DiscardPCs == {"d_lookup", "d_wait", "d_addr", "d_claim", "d_drop", "d_unmap",
               "d_unaddr", "d_type", "d_free", "d_unpin", "d_unref"}
\* the client: holding the page read locked, claimed, write locked, and on
\* its way back
ClientPCs == {"idle", "reading", "claimed", "locked", "dirty", "written",
              "unlocked", "unclaimed", "failed"}

PCs == ReadPCs \cup GetPCs \cup FreePCs \cup EvictPCs \cup LoadPCs
         \cup AllocPCs \cup LockPCs \cup DiscardPCs \cup ClientPCs

Callers  == {"get", "discard", "evict"}
Stages   == {"idle", "started", "issued", "stored", "cleaned"}

(* Every variable stays in its type: in particular treepass_get_free_page  *)
(* returns to one of its callers and no thread runs on without an entry.   *)
TypeOK ==
    /\ lookup \in [Addrs -> Entries \cup {NoEntry}]
    /\ status \in [Entries -> SUBSET Flags]
    /\ diskaddr \in [Entries -> Addrs \cup {NoAddr}]
    /\ ptype \in [Entries -> Types \cup {NoType}]
    /\ refs \in [Entries -> SUBSET Threads]
    /\ pins \in [Entries -> Nat]
    /\ wb \in [Entries -> Stages]
    /\ waddr \in [Entries -> Addrs \cup {NoAddr}]
    /\ fresh \in [Addrs -> SUBSET (Entries \cup {Disk})]
    /\ atype \in [Addrs -> Types \cup {NoType}]
    /\ hand \in [Threads -> Batches \cup {NoBatch}]
    /\ pc \in [Threads -> PCs]
    /\ op \in [Threads -> Operations \cup {"none"}]
    /\ addr \in [Threads -> Addrs \cup {NoAddr}]
    /\ ent \in [Threads -> Entries \cup {NoEntry}]
    /\ caller \in [Threads -> Callers]
    /\ drain \in [Threads -> SUBSET Slots]

(* treepass_init: nothing is cached, every entry is free; allocated        *)
(* addresses have their content on disk.                                   *)
Init ==
    /\ lookup = [a \in Addrs |-> NoEntry]
    /\ status = [e \in Entries |-> FreeStatus]
    /\ diskaddr = [e \in Entries |-> NoAddr]
    /\ ptype = [e \in Entries |-> NoType]
    /\ refs = [e \in Entries |-> {}]
    /\ pins = [e \in Entries |-> 0]
    /\ wb = [e \in Entries |-> "idle"]
    /\ waddr = [e \in Entries |-> NoAddr]
    /\ fresh = [a \in Addrs |-> {Disk}]
    /\ atype \in [Addrs -> (Types \ PinnedTypes) \cup {NoType}]
    /\ hand = [t \in Threads |-> NoBatch]
    /\ pc = [t \in Threads |-> "idle"]
    /\ op = [t \in Threads |-> "none"]
    /\ addr = [t \in Threads |-> NoAddr]
    /\ ent = [t \in Threads |-> NoEntry]
    /\ caller = [t \in Threads |-> "get"]
    /\ drain = [t \in Threads |-> {}]

-----------------------------------------------------------------------------
(* Atomic accesses to an entry.                                            *)

Goto(t, p) == pc' = [pc EXCEPT ![t] = p]

\* treepass_test_flag
Test(e, f) == f \in status[e]
\* treepass_set_flag
SetFlag(e, f) == status' = [status EXCEPT ![e] = @ \cup {f}]
\* treepass_clear_flag
ClearFlag(e, f) == status' = [status EXCEPT ![e] = @ \ {f}]
\* entry->status = s
StoreStatus(e, s) == status' = [status EXCEPT ![e] = s]

\* treepass_inc_ref
IncRef(t, e) == refs' = [refs EXCEPT ![e] = @ \cup {t}]
\* treepass_dec_ref
DecRef(t, e) == refs' = [refs EXCEPT ![e] = @ \ {t}]

\* treepass_get_ref(e, s): the references of slot s, t's own not counted
OthersIn(t, e, s) == {r \in refs[e] \ {t} : SlotOf[r] = s}

\* t is done with its entry and goes on at p; its locals lose their meaning
Leave(t, p) ==
    /\ Goto(t, p)
    /\ ent' = [ent EXCEPT ![t] = NoEntry]
    /\ caller' = [caller EXCEPT ![t] = "get"]

\* The operation of t is over.
Finish(t) ==
    /\ Leave(t, "idle")
    /\ op' = [op EXCEPT ![t] = "none"]
    /\ addr' = [addr EXCEPT ![t] = NoAddr]

-----------------------------------------------------------------------------
(* The callers.  The code above the cache keeps a reference to an extent   *)
(* while it uses its pages, hands out an address once the page it allocated*)
(* exists, and discards an extent when its last reference is gone          *)
(* (mini_dealloc_extent): these guarantees of the allocator guard the      *)
(* operations below.                                                       *)

Idle(t, o) == pc[t] = "idle" /\ o \in Roles[t]

\* a is allocated, its pages exist and nobody is discarding them
Usable(a) ==
    /\ atype[a] # NoType
    /\ \A u \in Threads : addr[u] = a =>
          /\ op[u] # "discard"
          /\ op[u] = "alloc" => pc[u] \in ClientPCs

Begin(t, o, a, p) ==
    /\ op' = [op EXCEPT ![t] = o]
    /\ addr' = [addr EXCEPT ![t] = a]
    /\ Goto(t, p)
    /\ UNCHANGED <<lookup, entryVars, ioVars, fresh, hand, ent, caller, drain>>

StartGet(t) == \E o \in {"get", "tryget", "write"}, a \in Addrs :
    /\ Idle(t, o)
    /\ Usable(a)
    /\ Begin(t, o, a, "g_lookup")
    /\ UNCHANGED atype

StartAlloc(t) == \E a \in Addrs, ty \in Types :
    /\ Idle(t, "alloc")
    /\ atype[a] = NoType
    /\ atype' = [atype EXCEPT ![a] = ty]
    /\ Begin(t, "alloc", a, "fp")

StartDiscard(t) == \E a \in Addrs :
    /\ Idle(t, "discard")
    /\ atype[a] # NoType
    /\ \A u \in Threads : addr[u] # a
    /\ Begin(t, "discard", a, "d_lookup")
    /\ UNCHANGED atype

-----------------------------------------------------------------------------
(* treepass_try_get_read and the loop of treepass_get_read around it.      *)

\* Steps that only read the cache and move t's control point
Local(t, p) ==
    /\ Goto(t, p)
    /\ UNCHANGED <<cacheVars, opVars, ent, caller, drain>>

\* Steps that write entry t works on, and nothing outside its status word
StatusStep(t, p) ==
    /\ Goto(t, p)
    /\ UNCHANGED <<lookup, diskaddr, ptype, refs, pins, ioVars, fresh, atype,
                   hand, opVars, ent, caller, drain>>

\* Steps that release t's reference and leave the entry for p
Unref(t, p) ==
    /\ DecRef(t, ent[t])
    /\ Leave(t, p)
    /\ UNCHANGED <<lookup, status, diskaddr, ptype, pins, ioVars, fresh, atype,
                   hand, opVars, drain>>

\* Steps that release t's reference and end its operation
UnrefFinish(t) ==
    /\ DecRef(t, ent[t])
    /\ Finish(t)
    /\ UNCHANGED <<lookup, status, diskaddr, ptype, pins, ioVars, fresh, atype,
                   hand, drain>>

\* treepass_try_get_read(e) is called for c
CallRead(t, e, c) ==
    /\ Goto(t, "rd_test")
    /\ ent' = [ent EXCEPT ![t] = e]
    /\ caller' = [caller EXCEPT ![t] = c]
    /\ UNCHANGED <<cacheVars, opVars, drain>>

\* back in the caller, with the read lock or with GET_RC_EVICTED
AfterRead(c) == CASE c = "get"      -> "g_addr"
                  [] c = "discard"  -> "d_wait"
                  [] c = "evict"    -> "ev_claim"
                  [] c = "prefetch" -> "pf_drop"
AfterEvicted(c) == CASE c = "get"      -> "g_lookup"
                     [] c = "discard"  -> "d_lookup"
                     [] c = "evict"    -> "ev"
                     [] c = "prefetch" -> "fp"

\* Mutant: a reader counts itself before it has looked at WRITELOCKED.
RdTestUnguarded(t) ==
    /\ pc[t] = "rd_test"
    /\ Local(t, "rd_inc")

\* treepass_get_read tries again; the evictor and the non-blocking get give up
RdTest(t) ==
    /\ pc[t] = "rd_test"
    /\ \/ ~ Test(ent[t], "WRITELOCKED") /\ Local(t, "rd_inc")
       \/ /\ Test(ent[t], "WRITELOCKED")
          /\ caller[t] = "evict"
          /\ Leave(t, "ev")
          /\ UNCHANGED <<cacheVars, opVars, drain>>
       \/ /\ Test(ent[t], "WRITELOCKED")
          /\ caller[t] = "get" /\ op[t] = "tryget"
          /\ Finish(t)
          /\ UNCHANGED <<cacheVars, drain>>

RdInc(t) ==
    /\ pc[t] = "rd_inc"
    /\ IncRef(t, ent[t])
    /\ Goto(t, "rd_free")
    /\ UNCHANGED <<lookup, status, diskaddr, ptype, pins, ioVars, fresh, atype,
                   hand, opVars, ent, caller, drain>>

RdFree(t) ==
    /\ pc[t] = "rd_free"
    /\ Local(t, IF Test(ent[t], "FREE") THEN "rd_evicted" ELSE "rd_wl")

\* Mutant: WRITELOCKED is not tested again once the reader is counted.
RdWlUnchecked(t) ==
    /\ pc[t] = "rd_wl"
    /\ Local(t, AfterRead(caller[t]))

RdWl(t) ==
    /\ pc[t] = "rd_wl"
    /\ Local(t, IF Test(ent[t], "WRITELOCKED") THEN "rd_conflict"
                                               ELSE AfterRead(caller[t]))

RdEvicted(t) ==
    /\ pc[t] = "rd_evicted"
    /\ Unref(t, AfterEvicted(caller[t]))

RdConflict(t) ==
    /\ pc[t] = "rd_conflict"
    /\ \/ caller[t] = "evict" /\ Unref(t, "ev")
       \/ caller[t] = "get" /\ op[t] = "tryget" /\ UnrefFinish(t)
       \/ /\ caller[t] = "discard" \/ (caller[t] = "get" /\ op[t] # "tryget")
          /\ DecRef(t, ent[t])
          /\ Goto(t, "rd_test")
          /\ UNCHANGED <<lookup, status, diskaddr, ptype, pins, ioVars, fresh,
                         atype, hand, opVars, ent, caller, drain>>

TryGetRead(t) == \/ RdTest(t) \/ RdInc(t) \/ RdFree(t) \/ RdWl(t)
                 \/ RdEvicted(t) \/ RdConflict(t)

-----------------------------------------------------------------------------
(* treepass_get: treepass_get_internal until it needs no retry.            *)

GetLookup(t) ==
    /\ pc[t] = "g_lookup"
    /\ LET e == lookup[addr[t]] IN
       \/ e # NoEntry /\ CallRead(t, e, "get")
       \/ e = NoEntry /\ op[t] # "tryget" /\ Local(t, "fp")
       \/ /\ e = NoEntry /\ op[t] = "tryget"
          /\ Finish(t)
          /\ UNCHANGED <<cacheVars, drain>>

\* treepass_get_in_cache: t has a reference to the entry it found
GetAddr(t) ==
    /\ pc[t] = "g_addr"
    /\ Local(t, IF diskaddr[ent[t]] = addr[t] THEN "g_wait" ELSE "g_drop")

\* Mutant: a page that is still being loaded is returned.
GetNoWait(t) ==
    /\ pc[t] = "g_wait"
    /\ Local(t, "g_addr2")

GetWait(t) ==
    /\ pc[t] = "g_wait"
    /\ ~ Test(ent[t], "LOADING")
    /\ Local(t, "g_addr2")

\* the address is read again after the wait, and when the type differs: then
\* either the address has changed too, or the assertion fails
GetAddr2(t) ==
    /\ pc[t] \in {"g_addr2", "g_addr3"}
    /\ Local(t, IF diskaddr[ent[t]] # addr[t] THEN "g_drop"
                ELSE IF pc[t] = "g_addr2" THEN "g_type" ELSE "failed")

GetType(t) ==
    /\ pc[t] = "g_type"
    /\ Local(t, IF ptype[ent[t]] = atype[addr[t]] THEN "reading"
                                                  ELSE "g_addr3")

GetDrop(t) ==
    /\ pc[t] = "g_drop"
    /\ Unref(t, "g_lookup")

GetInCache(t) == \/ GetAddr(t) \/ GetWait(t) \/ GetAddr2(t) \/ GetType(t)
                 \/ GetDrop(t)

-----------------------------------------------------------------------------
(* treepass_get_free_page and treepass_move_hand.                          *)

\* take a free entry of the batch t owns
FpTake(t) == \E e \in Entries :
    /\ pc[t] = "fp"
    /\ BatchOf[e] = hand[t]
    /\ status[e] = FreeStatus
    /\ StoreStatus(e, AllocStatus)
    /\ Goto(t, IF op[t] = "prefetch" THEN "fp_status" ELSE "fp_ref")
    /\ ent' = [ent EXCEPT ![t] = e]
    /\ UNCHANGED <<lookup, diskaddr, ptype, refs, pins, ioVars, fresh, atype,
                   hand, opVars, caller, drain>>

\* none was found: early eviction of the batch t owns, or a first batch
FpMiss(t) ==
    /\ pc[t] = "fp"
    /\ Local(t, IF hand[t] = NoBatch THEN "adv" ELSE "ev")

FpRef(t) ==
    /\ pc[t] = "fp_ref"
    /\ IncRef(t, ent[t])
    /\ Goto(t, "fp_status")
    /\ UNCHANGED <<lookup, status, diskaddr, ptype, pins, ioVars, fresh, atype,
                   hand, opVars, ent, caller, drain>>

FpStatus(t) ==
    /\ pc[t] = "fp_status"
    /\ StoreStatus(ent[t], IF op[t] = "alloc" THEN AllocStatus
                                              ELSE ReadLoadingStatus)
    /\ StatusStep(t, "fp_type")

\* Steps that write entry->type
TypeStep(t, ty, p) ==
    /\ ptype' = [ptype EXCEPT ![ent[t]] = ty]
    /\ Goto(t, p)
    /\ UNCHANGED <<lookup, status, diskaddr, refs, pins, ioVars, fresh, atype,
                   hand, opVars, ent, caller, drain>>

\* back in the caller of treepass_get_free_page
AfterFreePage(o) == CASE o = "alloc"             -> "a_addr"
                      [] o = "prefetch"          -> "pf_addr"
                      [] o \in {"get", "write"}  -> "l_cas"

\* Mutant: the entry keeps the type it had.
FpKeepType(t) ==
    /\ pc[t] = "fp_type"
    /\ Local(t, AfterFreePage(op[t]))

FpType(t) ==
    /\ pc[t] = "fp_type"
    /\ TypeStep(t, atype[addr[t]], AfterFreePage(op[t]))

\* the eviction pass over the owned batch ends and the batch is scanned again
EvStay(t) ==
    /\ pc[t] = "ev"
    /\ Local(t, "fp")

\* nothing was evicted early: release the batch ...
EvRelease(t) ==
    /\ pc[t] = "ev"
    /\ hand' = [hand EXCEPT ![t] = NoBatch]
    /\ Goto(t, "adv")
    /\ UNCHANGED <<lookup, entryVars, ioVars, fresh, atype, opVars, ent,
                   caller, drain>>

\* Mutant: the hand moves to a batch without looking at batch_busy.
MoveHandBusy(t) == \E b \in Batches :
    /\ pc[t] = "adv"
    /\ hand' = [hand EXCEPT ![t] = b]
    /\ Goto(t, "ev")
    /\ UNCHANGED <<lookup, entryVars, ioVars, fresh, atype, opVars, ent,
                   caller, drain>>

\* ... and advance to one whose batch_busy is clear
MoveHand(t) == \E b \in Batches :
    /\ pc[t] = "adv"
    /\ \A u \in Threads : hand[u] # b
    /\ hand' = [hand EXCEPT ![t] = b]
    /\ Goto(t, "ev")
    /\ UNCHANGED <<lookup, entryVars, ioVars, fresh, atype, opVars, ent,
                   caller, drain>>

GetFreePage(t) == \/ FpTake(t) \/ FpMiss(t) \/ FpRef(t) \/ FpStatus(t)
                  \/ FpType(t) \/ EvStay(t) \/ EvRelease(t) \/ MoveHand(t)

-----------------------------------------------------------------------------
(* treepass_try_evict, called for the entries of the batch t owns.         *)

\* the fast tests pass (they may also fail: clock, entry_time)
EvFast(t) == \E e \in Entries :
    /\ pc[t] = "ev"
    /\ BatchOf[e] = hand[t]
    /\ status[e] = EvictableStatus
    /\ {r \in refs[e] : SlotOf[r] = SlotOf[t]} = {}
    /\ pins[e] = 0
    /\ CallRead(t, e, "evict")

EvClaim(t) ==
    /\ pc[t] = "ev_claim"
    /\ \/ Test(ent[t], "CLAIMED") /\ Local(t, "ev_unref")
       \/ /\ ~ Test(ent[t], "CLAIMED")
          /\ SetFlag(ent[t], "CLAIMED")
          /\ StatusStep(t, "ev_load")

EvLoad(t) ==
    /\ pc[t] = "ev_load"
    /\ Local(t, IF Test(ent[t], "LOADING") THEN "ev_unclaim" ELSE "ev_wl")

\* treepass_try_get_write
EvWl(t) ==
    /\ pc[t] = "ev_wl"
    /\ SetFlag(ent[t], "WRITELOCKED")
    /\ StatusStep(t, "ev_wb")

EvWb(t) ==
    /\ pc[t] = "ev_wb"
    /\ \/ Test(ent[t], "WRITEBACK") /\ Local(t, "ev_unwl")
       \/ /\ ~ Test(ent[t], "WRITEBACK")
          /\ drain' = [drain EXCEPT ![t] = Slots]
          /\ Goto(t, "ev_drain")
          /\ UNCHANGED <<cacheVars, opVars, ent, caller>>

EvDrain(t) ==
    /\ pc[t] = "ev_drain"
    /\ \/ /\ drain[t] = {}
          /\ Local(t, "ev_verify")
       \/ \E s \in drain[t] :
          /\ drain' = [drain EXCEPT ![t] =
                         IF OthersIn(t, ent[t], s) = {} THEN @ \ {s} ELSE {}]
          /\ Goto(t, IF OthersIn(t, ent[t], s) = {} THEN "ev_drain"
                                                    ELSE "ev_unwl")
          /\ UNCHANGED <<cacheVars, opVars, ent, caller>>

\* Mutant: the status is not read again under the write lock.
EvVerifyPins(t) ==
    /\ pc[t] = "ev_verify"
    /\ Local(t, IF pins[ent[t]] = 0 THEN "ev_lookup" ELSE "ev_unwl")

\* still evictable under the write lock?
EvVerify(t) ==
    /\ pc[t] = "ev_verify"
    /\ \/ /\ status[ent[t]] = LockedEvictableStatus
          /\ pins[ent[t]] = 0
          /\ Local(t, "ev_lookup")
       \/ Local(t, "ev_unwl")

EvLookup(t) ==
    /\ pc[t] = "ev_lookup"
    /\ LET a == diskaddr[ent[t]] IN
       \/ a = NoAddr /\ Local(t, "ev_type")
       \/ /\ a # NoAddr
          /\ lookup' = [lookup EXCEPT ![a] = NoEntry]
          /\ Goto(t, "ev_addr")
          /\ UNCHANGED <<entryVars, ioVars, fresh, atype, hand, opVars, ent,
                         caller, drain>>

\* Steps that write entry->page.disk_addr
AddrStep(t, a, p) ==
    /\ diskaddr' = [diskaddr EXCEPT ![ent[t]] = a]
    /\ Goto(t, p)
    /\ UNCHANGED <<lookup, status, ptype, refs, pins, ioVars, fresh, atype,
                   hand, opVars, ent, caller, drain>>

EvAddr(t) ==
    /\ pc[t] = "ev_addr"
    /\ AddrStep(t, NoAddr, "ev_type")

EvType(t) ==
    /\ pc[t] = "ev_type"
    /\ TypeStep(t, NoType, "ev_free")

EvFree(t) ==
    /\ pc[t] = "ev_free"
    /\ StoreStatus(ent[t], FreeStatus)
    /\ StatusStep(t, "ev_unref")

EvUnwl(t) ==
    /\ pc[t] = "ev_unwl"
    /\ ClearFlag(ent[t], "WRITELOCKED")
    /\ StatusStep(t, "ev_unclaim")

EvUnclaim(t) ==
    /\ pc[t] = "ev_unclaim"
    /\ ClearFlag(ent[t], "CLAIMED")
    /\ StatusStep(t, "ev_unref")

EvUnref(t) ==
    /\ pc[t] = "ev_unref"
    /\ Unref(t, "ev")

TryEvict(t) ==
    \/ EvFast(t) \/ EvClaim(t) \/ EvLoad(t) \/ EvWl(t) \/ EvWb(t) \/ EvDrain(t)
    \/ EvVerify(t) \/ EvLookup(t) \/ EvAddr(t) \/ EvType(t) \/ EvFree(t)
    \/ EvUnwl(t) \/ EvUnclaim(t) \/ EvUnref(t)

-----------------------------------------------------------------------------
(* treepass_get_from_disk: the entry t took is LOADING and referenced.     *)

\* Mutant: the entry is published without a compare-and-swap.
LoadPublish(t) ==
    /\ pc[t] = "l_cas"
    /\ lookup' = [lookup EXCEPT ![addr[t]] = ent[t]]
    /\ Goto(t, "l_addr")
    /\ UNCHANGED <<entryVars, ioVars, fresh, atype, hand, opVars, ent, caller,
                   drain>>

\* publish the entry, unless someone else is already loading the address
LoadCas(t) ==
    /\ pc[t] = "l_cas"
    /\ \/ /\ lookup[addr[t]] = NoEntry
          /\ lookup' = [lookup EXCEPT ![addr[t]] = ent[t]]
          /\ Goto(t, "l_addr")
          /\ UNCHANGED <<entryVars, ioVars, fresh, atype, hand, opVars, ent,
                         caller, drain>>
       \/ lookup[addr[t]] # NoEntry /\ Local(t, "l_abref")

LoadAbortRef(t) ==
    /\ pc[t] = "l_abref"
    /\ DecRef(t, ent[t])
    /\ Goto(t, "l_abtype")
    /\ UNCHANGED <<lookup, status, diskaddr, ptype, pins, ioVars, fresh, atype,
                   hand, opVars, ent, caller, drain>>

LoadAbortType(t) ==
    /\ pc[t] = "l_abtype"
    /\ TypeStep(t, NoType, "l_abfree")

LoadAbortFree(t) ==
    /\ pc[t] = "l_abfree"
    /\ StoreStatus(ent[t], FreeStatus)
    /\ Leave(t, "g_lookup")
    /\ UNCHANGED <<lookup, diskaddr, ptype, refs, pins, ioVars, fresh, atype,
                   hand, opVars, drain>>

LoadAddr(t) ==
    /\ pc[t] = "l_addr"
    /\ AddrStep(t, addr[t], "l_read")

\* io_read: the entry receives what is on disk
LoadRead(t) ==
    /\ pc[t] = "l_read"
    /\ fresh' = [a \in Addrs |->
                   IF a = addr[t] /\ Disk \in fresh[a]
                   THEN fresh[a] \cup {ent[t]} ELSE fresh[a] \ {ent[t]}]
    /\ Goto(t, "l_done")
    /\ UNCHANGED <<lookup, entryVars, ioVars, atype, hand, opVars, ent, caller,
                   drain>>

\* treepass_finish_load
LoadDone(t) ==
    /\ pc[t] = "l_done"
    /\ ClearFlag(ent[t], "LOADING")
    /\ StatusStep(t, "reading")

GetFromDisk(t) ==
    \/ LoadCas(t) \/ LoadAbortRef(t) \/ LoadAbortType(t) \/ LoadAbortFree(t)
    \/ LoadAddr(t) \/ LoadRead(t) \/ LoadDone(t)

-----------------------------------------------------------------------------
(* treepass_alloc, and treepass_pin for the pages of a memtable.           *)

AllocAddr(t) ==
    /\ pc[t] = "a_addr"
    /\ AddrStep(t, addr[t], "a_lookup")

AllocLookup(t) ==
    /\ pc[t] = "a_lookup"
    /\ lookup' = [lookup EXCEPT ![addr[t]] = ent[t]]
    /\ Goto(t, IF atype[addr[t]] \in PinnedTypes THEN "a_pin" ELSE "dirty")
    /\ UNCHANGED <<entryVars, ioVars, fresh, atype, hand, opVars, ent, caller,
                   drain>>

AllocPin(t) ==
    /\ pc[t] = "a_pin"
    /\ pins' = [pins EXCEPT ![ent[t]] = @ + 1]
    /\ Goto(t, "dirty")
    /\ UNCHANGED <<lookup, status, diskaddr, ptype, refs, ioVars, fresh, atype,
                   hand, opVars, ent, caller, drain>>

Alloc(t) == AllocAddr(t) \/ AllocLookup(t) \/ AllocPin(t)

-----------------------------------------------------------------------------
(* What a client does with the page it holds: read it and give it back, or *)
(* claim, lock, mark dirty, modify, unlock, unclaim and give it back.      *)

Unget(t) ==
    /\ \/ pc[t] = "reading" /\ op[t] # "write"
       \/ pc[t] = "unclaimed"
    /\ UnrefFinish(t)

\* Mutant: the claim is taken without looking whether it is free.
ClaimUnchecked(t) ==
    /\ pc[t] = "reading" /\ op[t] = "write"
    /\ SetFlag(ent[t], "CLAIMED")
    /\ StatusStep(t, "claimed")

\* treepass_try_claim; when it fails the client drops its read lock
TryClaim(t) ==
    /\ pc[t] = "reading" /\ op[t] = "write"
    /\ \/ Test(ent[t], "CLAIMED") /\ Local(t, "unclaimed")
       \/ /\ ~ Test(ent[t], "CLAIMED")
          /\ SetFlag(ent[t], "CLAIMED")
          /\ StatusStep(t, "claimed")

\* treepass_lock calls treepass_get_write
Lock(t) ==
    /\ pc[t] = "claimed"
    /\ Local(t, "gw_set")

MarkDirty(t) ==
    /\ pc[t] = "locked"
    /\ ClearFlag(ent[t], "CLEAN")
    /\ StatusStep(t, "dirty")

Modify(t) ==
    /\ pc[t] = "dirty"
    /\ fresh' = [a \in Addrs |->
                   IF a = addr[t] THEN {ent[t]} ELSE fresh[a] \ {ent[t]}]
    /\ Goto(t, "written")
    /\ UNCHANGED <<lookup, entryVars, ioVars, atype, hand, opVars, ent, caller,
                   drain>>

Unlock(t) ==
    /\ pc[t] = "written"
    /\ ClearFlag(ent[t], "WRITELOCKED")
    /\ StatusStep(t, "unlocked")

\* a claim may also be given back without having locked the page
Unclaim(t) ==
    /\ pc[t] \in {"claimed", "unlocked"}
    /\ ClearFlag(ent[t], "CLAIMED")
    /\ StatusStep(t, "unclaimed")

Client(t) == \/ Unget(t) \/ TryClaim(t) \/ Lock(t) \/ MarkDirty(t) \/ Modify(t)
             \/ Unlock(t) \/ Unclaim(t)

-----------------------------------------------------------------------------
(* treepass_get_write: announce the write lock, then wait for the writeback*)
(* in progress and for the readers, one counter after the other.           *)

GwSet(t) ==
    /\ pc[t] = "gw_set"
    /\ SetFlag(ent[t], "WRITELOCKED")
    /\ StatusStep(t, "gw_wb")

\* Mutant: the write lock does not wait for the writeback in progress.
GwNoWait(t) ==
    /\ pc[t] = "gw_wb"
    /\ drain' = [drain EXCEPT ![t] = Slots]
    /\ Goto(t, "gw_drain")
    /\ UNCHANGED <<cacheVars, opVars, ent, caller>>

GwWriteback(t) ==
    /\ pc[t] = "gw_wb"
    /\ ~ Test(ent[t], "WRITEBACK")
    /\ drain' = [drain EXCEPT ![t] = Slots]
    /\ Goto(t, "gw_drain")
    /\ UNCHANGED <<cacheVars, opVars, ent, caller>>

GwDrain(t) ==
    /\ pc[t] = "gw_drain"
    /\ \/ \E s \in drain[t] :
          /\ OthersIn(t, ent[t], s) = {}
          /\ drain' = [drain EXCEPT ![t] = @ \ {s}]
          /\ Goto(t, "gw_drain")
          /\ UNCHANGED <<cacheVars, opVars, ent, caller>>
       \/ /\ drain[t] = {}
          /\ Local(t, IF op[t] = "discard" THEN "d_unmap" ELSE "locked")

GetWrite(t) == GwSet(t) \/ GwWriteback(t) \/ GwDrain(t)

-----------------------------------------------------------------------------
(* treepass_try_page_discard.                                              *)

DiscardLookup(t) ==
    /\ pc[t] = "d_lookup"
    /\ LET e == lookup[addr[t]] IN
       \/ e # NoEntry /\ CallRead(t, e, "discard")
       \/ /\ e = NoEntry
          /\ Finish(t)
          /\ atype' = [atype EXCEPT ![addr[t]] = NoType]
          /\ UNCHANGED <<lookup, entryVars, ioVars, fresh, hand, drain>>

\* Mutant: a page that is still being loaded is discarded.
DiscardNoWait(t) ==
    /\ pc[t] = "d_wait"
    /\ Local(t, "d_addr")

DiscardWait(t) ==
    /\ pc[t] = "d_wait"
    /\ ~ Test(ent[t], "LOADING")
    /\ Local(t, "d_addr")

DiscardAddr(t) ==
    /\ pc[t] = "d_addr"
    /\ Local(t, IF diskaddr[ent[t]] = addr[t] THEN "d_claim" ELSE "d_drop")

DiscardDrop(t) ==
    /\ pc[t] = "d_drop"
    /\ Unref(t, "d_lookup")

DiscardClaim(t) ==
    /\ pc[t] = "d_claim"
    /\ \/ Test(ent[t], "CLAIMED") /\ Local(t, "d_drop")
       \/ /\ ~ Test(ent[t], "CLAIMED")
          /\ SetFlag(ent[t], "CLAIMED")
          /\ StatusStep(t, "gw_set")

DiscardUnmap(t) ==
    /\ pc[t] = "d_unmap"
    /\ lookup' = [lookup EXCEPT ![addr[t]] = NoEntry]
    /\ Goto(t, "d_unaddr")
    /\ UNCHANGED <<entryVars, ioVars, fresh, atype, hand, opVars, ent, caller,
                   drain>>

DiscardUnaddr(t) ==
    /\ pc[t] = "d_unaddr"
    /\ AddrStep(t, NoAddr, "d_type")

DiscardType(t) ==
    /\ pc[t] = "d_type"
    /\ TypeStep(t, NoType, "d_free")

DiscardFree(t) ==
    /\ pc[t] = "d_free"
    /\ StoreStatus(ent[t], FreeStatus)
    /\ StatusStep(t, "d_unpin")

\* Mutant: the pin count is decremented where it should be reset.
DiscardDecPin(t) ==
    /\ pc[t] = "d_unpin"
    /\ pins' = [pins EXCEPT ![ent[t]] = @ - 1]
    /\ Goto(t, "d_unref")
    /\ UNCHANGED <<lookup, status, diskaddr, ptype, refs, ioVars, fresh, atype,
                   hand, opVars, ent, caller, drain>>

\* treepass_reset_pin
DiscardUnpin(t) ==
    /\ pc[t] = "d_unpin"
    /\ pins' = [pins EXCEPT ![ent[t]] = 0]
    /\ Goto(t, "d_unref")
    /\ UNCHANGED <<lookup, status, diskaddr, ptype, refs, ioVars, fresh, atype,
                   hand, opVars, ent, caller, drain>>

\* after which mini_dealloc_extent gives the extent back to the allocator
DiscardUnref(t) ==
    /\ pc[t] = "d_unref"
    /\ DecRef(t, ent[t])
    /\ Finish(t)
    /\ atype' = [atype EXCEPT ![addr[t]] = NoType]
    /\ UNCHANGED <<lookup, status, diskaddr, ptype, pins, ioVars, fresh, hand,
                   drain>>

TryPageDiscard(t) ==
    \/ DiscardLookup(t) \/ DiscardWait(t) \/ DiscardAddr(t) \/ DiscardDrop(t)
    \/ DiscardClaim(t) \/ DiscardUnmap(t) \/ DiscardUnaddr(t) \/ DiscardType(t)
    \/ DiscardFree(t) \/ DiscardUnpin(t) \/ DiscardUnref(t)

-----------------------------------------------------------------------------
(* Writeback of one page by whichever thread cleans the batch.             *)

\* treepass_try_set_writeback (it may also refuse, because of the clock)
TrySetWriteback(e) ==
    /\ status[e] = {}
    /\ SetFlag(e, "WRITEBACK")
    /\ wb' = [wb EXCEPT ![e] = "started"]
    /\ UNCHANGED <<lookup, diskaddr, ptype, refs, pins, waddr, fresh, atype,
                   hand, pc, opVars, ent, caller, drain>>

WbStage(e, from, to) ==
    /\ wb[e] = from
    /\ wb' = [wb EXCEPT ![e] = to]

\* the request is built from entry->page.disk_addr and submitted
WbIssue(e) ==
    /\ WbStage(e, "started", "issued")
    /\ waddr' = [waddr EXCEPT ![e] = diskaddr[e]]
    /\ UNCHANGED <<lookup, entryVars, fresh, atype, hand, pc, opVars, ent,
                   caller, drain>>

\* the device stores the page
WbStore(e) ==
    /\ WbStage(e, "issued", "stored")
    /\ fresh' = [a \in Addrs |->
                   IF a # waddr[e] THEN fresh[a]
                   ELSE IF e \in fresh[a] THEN fresh[a] \cup {Disk}
                                          ELSE fresh[a] \ {Disk}]
    /\ UNCHANGED <<lookup, entryVars, waddr, atype, hand, pc, opVars, ent,
                   caller, drain>>

\* treepass_write_callback
WbClean(e) ==
    /\ WbStage(e, "stored", "cleaned")
    /\ SetFlag(e, "CLEAN")
    /\ UNCHANGED <<lookup, diskaddr, ptype, refs, pins, waddr, fresh, atype,
                   hand, pc, opVars, ent, caller, drain>>

WbDone(e) ==
    /\ WbStage(e, "cleaned", "idle")
    /\ ClearFlag(e, "WRITEBACK")
    /\ waddr' = [waddr EXCEPT ![e] = NoAddr]
    /\ UNCHANGED <<lookup, diskaddr, ptype, refs, pins, fresh, atype, hand, pc,
                   opVars, ent, caller, drain>>

WriteCallback(e) == WbStore(e) \/ WbClean(e) \/ WbDone(e)
Writeback(e) == TrySetWriteback(e) \/ WbIssue(e) \/ WriteCallback(e)

-----------------------------------------------------------------------------
Start(t) == StartGet(t) \/ StartAlloc(t) \/ StartDiscard(t)

Step(t) == \/ TryGetRead(t) \/ GetLookup(t) \/ GetInCache(t) \/ GetFreePage(t)
           \/ TryEvict(t) \/ GetFromDisk(t) \/ Alloc(t) \/ Client(t)
           \/ GetWrite(t) \/ TryPageDiscard(t)

Next == \/ \E t \in Threads : Start(t) \/ Step(t)
        \/ \E e \in Entries : Writeback(e)

Spec == Init /\ [][Next]_vars

-----------------------------------------------------------------------------
(* Properties.                                                             *)

\* Where a client owns the page handle treepass_get or treepass_alloc gave it
HoldPCs == {"reading", "claimed", "locked", "dirty", "written", "unlocked",
            "unclaimed"}
Holds(t) == \/ pc[t] \in HoldPCs
            \/ pc[t] \in LockPCs /\ op[t] = "write"
\* Where it may change the page
WritePCs == {"locked", "dirty", "written"}
\* Where treepass_try_evict and treepass_try_page_discard take a page apart
UnmapPCs == {"ev_lookup", "ev_addr", "ev_type", "ev_free",
             "d_unmap", "d_unaddr", "d_type", "d_free"}

(* While a thread has an entry write locked - a client changing the page, or*)
(* eviction or discarding taking it apart - no other client holds the page *)
(* in that entry (treepass_get_write and treepass_try_get_write, which drain*)
(* one reference counter after the other, against the optimistic           *)
(* treepass_try_get_read).                                                 *)
LockExclusion ==
    \A t, u \in Threads :
        /\ t # u /\ pc[t] \in WritePCs \cup UnmapPCs /\ Holds(u)
        => ent[t] # ent[u]

(* While a client changes the page at some address no other client holds   *)
(* that address, through this entry or any other: an address is never cached*)
(* twice, whatever eviction, racing loads and reallocation do.             *)
WriteExclusion ==
    \A t, u \in Threads :
        t # u /\ pc[t] \in WritePCs /\ Holds(u) => addr[t] # addr[u]

(* A handle that treepass_get returned shows the latest content of the     *)
(* address it was asked for, completely loaded.                            *)
HandleIsCurrent ==
    \A t \in Threads :
        Holds(t) /\ ~(op[t] = "alloc" /\ pc[t] = "dirty") =>
            /\ diskaddr[ent[t]] = addr[t]
            /\ lookup[addr[t]] = ent[t]
            /\ "LOADING" \notin status[ent[t]]
            /\ ent[t] \in fresh[addr[t]]

(* Nothing written is lost: while an allocated page is not in the cache,   *)
(* its latest content is on disk, whatever eviction, writeback and loading *)
(* did before.                                                             *)
NoLostWrite ==
    \A a \in Addrs : Usable(a) /\ lookup[a] = NoEntry => Disk \in fresh[a]

(* The type assertion in treepass_get_in_cache never fails: a mismatch is  *)
(* always explained by an address that has changed.                        *)
TypeAssertHolds == \A t \in Threads : pc[t] # "failed"

(* A page that was pinned when it was allocated (the pages of a memtable)  *)
(* stays in the cache until it is discarded: "Pin the page in the cache,   *)
(* disallowing eviction" (cache.h).                                        *)
PinnedUntilDiscarded ==
    \A a \in Addrs : Usable(a) /\ atype[a] \in PinnedTypes =>
        lookup[a] # NoEntry /\ pins[lookup[a]] > 0

(* From the moment a writeback is issued until its callback the page stays *)
(* where the request says and nobody modifies it, so the request stores one*)
(* version of one page, at its own address.                                *)
WritebackStable ==
    \A e \in Entries : wb[e] # "idle" =>
        /\ diskaddr[e] # NoAddr
        /\ lookup[diskaddr[e]] = e
        /\ wb[e] # "started" => waddr[e] = diskaddr[e]
        /\ \A t \in Threads : ent[t] = e => pc[t] \notin WritePCs \cup UnmapPCs

-----------------------------------------------------------------------------
(* Liveness: every thread that has begun an operation goes on taking steps *)
(* (a client gives its page back), and submitted I/O completes.            *)
FairSpec == /\ Spec
            /\ \A t \in Threads : WF_vars(Step(t))
            /\ \A e \in Entries : WF_vars(WbIssue(e) \/ WriteCallback(e))

(* treepass_get_write cannot fail and does not wait forever: once announced,*)
(* the write lock is granted, because a new reader looks at WRITELOCKED    *)
(* before it counts itself.                                                *)
LockGranted ==
    \A t \in Threads : pc[t] = "gw_set" ~> pc[t] \in {"locked", "d_unmap"}

-----------------------------------------------------------------------------
(* The cache implements the lock on addresses that PageLocks describes.    *)

lockMode == [t \in Threads |->
    CASE pc[t] \in WritePCs                        -> "write"
      [] pc[t] \in {"claimed", "unlocked"}         -> "claim"
      [] pc[t] \in LockPCs /\ op[t] = "write"      -> "claim"
      [] pc[t] \in {"reading", "unclaimed"}        -> "read"
      [] OTHER                                     -> "none"]
lockPage == [t \in Threads |-> IF Holds(t) THEN addr[t] ELSE NoAddr]
livePages == {a \in Addrs : Usable(a)}

PL == INSTANCE PageLocks WITH mode <- lockMode, page <- lockPage,
                              live <- livePages

(* Seen from the clients, every step of the cache - with its optimistic read*)
(* locks, draining, eviction and loading - is a step of the atomic         *)
(* reader/claim/writer lock of PageLocks, or changes nothing there.        *)
ImplementsPageLocks == PL!Spec

=============================================================================
