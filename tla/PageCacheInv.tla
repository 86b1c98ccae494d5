---------------------------- MODULE PageCacheInv ----------------------------
(***************************************************************************)
(* The inductive invariant of the page cache, in six layers; each layer is *)
(* inductive given the ones before it.  IInv, the first three, is about    *)
(* the locks and gives LockExclusion; PagesOK, the last three, is about    *)
(* the lookup table, writeback and contents, and gives WriteExclusion,     *)
(* WritebackStable, HandleIsCurrent and NoLostWrite.                       *)
(***************************************************************************)
EXTENDS PageCache

-----------------------------------------------------------------------------
(* Layer 1: which operation a thread can be in at which control point.     *)

\* the local variable entry_number is set
EntPCs == (PCs \ {"idle", "g_lookup", "d_lookup", "fp", "ev", "adv"})

Control(t) ==
    /\ pc[t] # "idle" => addr[t] \in Addrs
    /\ pc[t] \in EntPCs => ent[t] \in Entries
    /\ pc[t] \in GetPCs \cup {"reading", "failed"} =>
           op[t] \in {"get", "tryget", "write"}
    /\ pc[t] \in FreePCs \cup EvictPCs => op[t] \in {"get", "write", "alloc"}
    /\ pc[t] \in LoadPCs => op[t] \in {"get", "write"}
    /\ pc[t] \in AllocPCs => op[t] = "alloc"
    /\ pc[t] \in LockPCs => op[t] \in {"write", "discard"}
    /\ pc[t] \in DiscardPCs => op[t] = "discard"
    /\ pc[t] \in {"claimed", "locked"} => op[t] = "write"
    /\ pc[t] \in {"dirty", "written", "unlocked", "unclaimed"} =>
           op[t] \in {"write", "alloc"}
    /\ pc[t] \in ReadPCs =>
           \/ caller[t] = "get" /\ op[t] \in {"get", "tryget", "write"}
           \/ caller[t] = "discard" /\ op[t] = "discard"
           \/ caller[t] = "evict" /\ op[t] \in {"get", "write", "alloc"}

ControlOK == \A t \in Threads : Control(t)

-----------------------------------------------------------------------------
(* Layer 2: batches have one owner, references are counted, an address that*)
(* is being created or discarded has one user.                             *)

\* t evicts entries of the batch it owns, or fills an entry it took there
OnHand(t) == \/ pc[t] \in EvictPCs \cup LoadPCs \cup AllocPCs
             \/ pc[t] \in {"fp_ref", "fp_status", "fp_type"}
             \/ pc[t] \in ReadPCs /\ caller[t] = "evict"

OwnHand(t) == OnHand(t) => BatchOf[ent[t]] = hand[t]

HandsOK ==
    /\ \A t, u \in Threads : t # u /\ hand[t] = hand[u] => hand[t] = NoBatch
    /\ \A t \in Threads : OwnHand(t)

\* t is counted in the references of ent[t]
RefPCs == EntPCs \ {"rd_test", "rd_inc", "fp_ref", "l_abtype", "l_abfree"}

Counted(t) == pc[t] \in RefPCs => t \in refs[ent[t]]

RefsOK == \A t \in Threads : Counted(t)

\* t creates or discards the page at addr[t]
Sole(t) == \/ op[t] = "discard"
           \/ op[t] = "alloc" /\ pc[t] \notin ClientPCs

UsersOK ==
    /\ \A t \in Threads : addr[t] # NoAddr => atype[addr[t]] # NoType
    /\ \A t \in Threads : pc[t] = "idle" => addr[t] = NoAddr /\ op[t] = "none"
    /\ \A t, u \in Threads :
          t # u /\ addr[t] # NoAddr /\ Sole(t) => addr[u] # addr[t]

-----------------------------------------------------------------------------
(* Layer 3: the locks.                                                     *)

\* t has the claim of ent[t] ...
Owns(t) ==
    \/ pc[t] \in {"claimed", "locked", "dirty", "written", "unlocked"}
    \/ pc[t] \in LockPCs \cup AllocPCs \cup {"fp_ref", "fp_status"}
    \/ pc[t] = "fp_type" /\ op[t] = "alloc"
    \/ pc[t] \in EvictPCs \ {"ev_claim", "ev_unref"}
    \/ pc[t] \in {"d_unmap", "d_unaddr", "d_type", "d_free"}
\* ... and has set, not yet cleared, its WRITELOCKED flag
Locks(t) ==
    /\ Owns(t)
    /\ pc[t] \notin {"claimed", "unlocked", "gw_set", "ev_load", "ev_wl",
                     "ev_unclaim"}

ClaimsOK ==
    /\ \A t \in Threads : Owns(t) => "CLAIMED" \in status[ent[t]]
    /\ \A t \in Threads : Locks(t) => "WRITELOCKED" \in status[ent[t]]
    /\ \A t, u \in Threads : Owns(t) /\ Owns(u) /\ ent[t] = ent[u] => t = u

\* t fills an entry from disk, or gives it up
Loads(t) == \/ pc[t] \in LoadPCs
            \/ pc[t] = "fp_type" /\ op[t] # "alloc"
\* t has taken an entry that was free
Fills(t) == pc[t] \in AllocPCs \cup {"fp_ref", "fp_status", "fp_type"}
\* t has taken an entry and not yet given it an address, or has taken it back
Blank(t) == pc[t] \in {"fp_ref", "fp_status", "fp_type", "l_cas", "l_abref",
                       "l_abtype", "l_abfree", "l_addr", "a_addr",
                       "ev_type", "ev_free", "d_type", "d_free"}
\* t has seen its address in the entry
Confirmed(t) == \/ pc[t] \in {"g_wait", "g_addr2", "g_type", "g_addr3",
                              "d_claim", "d_unmap", "d_unaddr", "l_read",
                              "l_done", "a_lookup", "a_pin", "failed"}
                \/ pc[t] \in HoldPCs \cup LockPCs
\* t has seen its address in the entry and the entry not LOADING
Loaded(t) == \/ pc[t] \in {"g_addr2", "g_type", "g_addr3", "failed", "d_claim",
                           "d_unmap", "d_unaddr"}
             \/ pc[t] \in HoldPCs \cup LockPCs

AddressesOK ==
    /\ \A e \in Entries : "FREE" \in status[e] => diskaddr[e] = NoAddr
    /\ \A t \in Threads : Blank(t) => diskaddr[ent[t]] = NoAddr
    /\ \A t \in Threads : Confirmed(t) => diskaddr[ent[t]] = addr[t]

LoadsOK ==
    /\ \A t \in Threads : Loads(t) => /\ "LOADING" \in status[ent[t]]
                                      /\ "FREE" \notin status[ent[t]]
    /\ \A t \in Threads : Fills(t) => "FREE" \notin status[ent[t]]
    /\ \A t, u \in Threads :
          t # u /\ Loads(t) /\ ent[u] = ent[t] => ~ Owns(u)
    /\ \A t, u \in Threads :
          t # u /\ Loads(t) /\ ent[u] = ent[t] => ~ Loaded(u)

\* u has passed both tests of treepass_try_get_read
Admitted(u) ==
    \/ pc[u] \in GetPCs \ {"g_lookup"}
    \/ pc[u] \in EvictPCs \cup LockPCs \cup HoldPCs \cup {"failed"}
    \/ pc[u] \in DiscardPCs \ {"d_lookup"}

\* t has found no other reader in slot s
Drained(t, s) ==
    \/ pc[t] \in {"gw_drain", "ev_drain"} /\ s \notin drain[t]
    \/ pc[t] \in {"locked", "ev_verify"} \cup UnmapPCs
    \/ pc[t] \in {"dirty", "written"} /\ op[t] = "write"
\* t holds the write lock of a page it is creating
Creates(t) ==
    /\ op[t] = "alloc"
    /\ pc[t] \in AllocPCs \cup {"dirty", "written", "fp_ref", "fp_status",
                               "fp_type"}

DrainsOK ==
    /\ \A t, u \in Threads :
          /\ t # u /\ Drained(t, SlotOf[u]) /\ Admitted(u)
          => ent[u] # ent[t]
    /\ \A t, u \in Threads :
          /\ t # u /\ Creates(t) /\ Admitted(u) /\ ent[u] = ent[t]
          => addr[u] # addr[t]

(* The inductive invariant: what every thread at every control point may   *)
(* rely on, so that no step of another thread breaks LockExclusion.        *)
IInv == /\ TypeOK /\ ControlOK
        /\ HandsOK /\ RefsOK /\ UsersOK
        /\ ClaimsOK /\ AddressesOK /\ LoadsOK /\ DrainsOK

-----------------------------------------------------------------------------
(* Layer 4: the lookup table.  An entry has an address and is found under  *)
(* it, but for the moments between the two stores.                         *)

\* t has published its entry and not yet stored the address in it
Publishes(t) == pc[t] = "l_addr"
\* t has removed the entry from the table and not yet its address
Unmaps(t) == pc[t] \in {"ev_addr", "d_unaddr"}
\* t has stored the address in its entry and not yet published it
Prepares(t) == pc[t] = "a_lookup"

\* t creates a page nobody can find yet, or has removed the one it discards
Hidden(t) ==
    \/ op[t] = "alloc" /\ pc[t] \notin ClientPCs \cup {"a_pin"}
    \/ pc[t] \in {"d_unaddr", "d_type", "d_free", "d_unpin", "d_unref"}

MapOK ==
    /\ \A a \in Addrs : lookup[a] # NoEntry =>
          \/ diskaddr[lookup[a]] = a
          \/ \E t \in Threads :
                Publishes(t) /\ ent[t] = lookup[a] /\ addr[t] = a
    /\ \A e \in Entries : diskaddr[e] # NoAddr =>
          \/ lookup[diskaddr[e]] = e
          \/ \E t \in Threads : (Unmaps(t) \/ Prepares(t)) /\ ent[t] = e
    /\ \A t \in Threads : Publishes(t) => lookup[addr[t]] = ent[t]
    /\ \A t \in Threads : Unmaps(t) =>
          diskaddr[ent[t]] # NoAddr /\ lookup[diskaddr[ent[t]]] # ent[t]

HiddenOK ==
    /\ \A a \in Addrs : atype[a] = NoType => lookup[a] = NoEntry
    /\ \A t \in Threads : Hidden(t) => lookup[addr[t]] = NoEntry

\* An entry that is loading, or without an address, is so for a reason.
ReasonsOK ==
    /\ \A e \in Entries : "LOADING" \in status[e] =>
          \E t \in Threads : Loads(t) /\ ent[t] = e
    /\ \A e \in Entries : diskaddr[e] = NoAddr =>
          \/ "FREE" \in status[e]
          \/ \E t \in Threads : Blank(t) /\ ent[t] = e

-----------------------------------------------------------------------------
(* Layer 5: writeback.                                                     *)

\* t has made sure that no writeback of its entry is under way
Quiesced(t) ==
    \/ Locks(t) /\ pc[t] \notin {"gw_wb", "ev_wb", "ev_unwl"}
    \/ Loads(t)

WritebacksOK ==
    /\ \A e \in Entries : wb[e] # "idle" <=> "WRITEBACK" \in status[e]
    /\ \A t \in Threads : Quiesced(t) => "WRITEBACK" \notin status[ent[t]]
    /\ \A e \in Entries : wb[e] # "idle" => diskaddr[e] # NoAddr
    /\ \A e \in Entries :
          wb[e] \notin {"idle", "started"} => waddr[e] = diskaddr[e]

-----------------------------------------------------------------------------
(* Layer 6: contents.                                                      *)

\* t has published a new page and not yet given it its first content
Initialises(t) == op[t] = "alloc" /\ pc[t] \in {"a_pin", "dirty"}

\* the page at a is found in entry e, and is complete
Shows(e, a) ==
    /\ diskaddr[e] = a /\ lookup[a] = e
    /\ "LOADING" \notin status[e]
    /\ \A t \in Threads : ent[t] = e => ~ Initialises(t)

\* t loads the entry, or has seen it clean when it was alone
SeesClean(t) == Loads(t) \/ pc[t] = "ev_lookup"
\* t has marked the entry dirty
SeesDirty(t) == pc[t] \in {"dirty", "written"} \/ Creates(t)

SeesOK ==
    /\ \A t \in Threads : SeesClean(t) => "CLEAN" \in status[ent[t]]
    /\ \A t \in Threads : SeesDirty(t) => "CLEAN" \notin status[ent[t]]

\* what is in the cache is current ...
CurrentOK ==
    /\ \A a \in Addrs, e \in Entries : Shows(e, a) => e \in fresh[a]
    /\ \A t \in Threads : pc[t] = "l_done" => ent[t] \in fresh[addr[t]]

\* ... and what is clean, or not in the cache, is on disk
StoredOK ==
    /\ \A a \in Addrs :
          lookup[a] # NoEntry /\ "CLEAN" \in status[lookup[a]] =>
             Disk \in fresh[a]
    /\ \A e \in Entries :
          wb[e] \in {"stored", "cleaned"} => Disk \in fresh[diskaddr[e]]
    /\ NoLostWrite

(* What the lookup table, writeback and the contents of pages add to the   *)
(* locks, so that no step breaks HandleIsCurrent, NoLostWrite or           *)
(* WritebackStable.                                                        *)
PagesOK == /\ MapOK /\ HiddenOK /\ ReasonsOK
           /\ WritebacksOK
           /\ SeesOK /\ CurrentOK /\ StoredOK

(* The whole invariant: what each control point of each thread may rely on *)
(* whatever the other threads do.                                          *)
CacheInv == IInv /\ PagesOK

=============================================================================
