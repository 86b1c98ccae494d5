---------------------------- MODULE PagePrefetch ----------------------------
(***************************************************************************)
(* treepass_prefetch on top of PageCache: an asynchronous load that holds  *)
(* no reference to the entry it fills.  Unlike treepass_get_from_disk, it  *)
(* writes entry->page.disk_addr BEFORE it knows whether it wins the lookup *)
(* slot, and takes the address back when it loses.                         *)
(*                                                                         *)
(* An extent has one page here, so a request is submitted as soon as its   *)
(* page has an entry.                                                      *)
(***************************************************************************)
EXTENDS PageCache

CONSTANT Prefetchers    \* the threads that prefetch, a subset of Threads

VARIABLES
    pfio,     \* entry -> stage of the prefetch that loads it
    pfaddr    \* entry -> address that prefetch reads

pfVars == <<vars, pfio, pfaddr>>

PfInit == /\ Init
          /\ pfio = [e \in Entries |-> "idle"]
          /\ pfaddr = [e \in Entries |-> NoAddr]

StartPrefetch(t) == \E a \in Addrs :
    /\ pc[t] = "idle" /\ t \in Prefetchers
    /\ Usable(a)
    /\ Begin(t, "prefetch", a, "pf_lookup")
    /\ UNCHANGED atype

PfLookup(t) ==
    /\ pc[t] = "pf_lookup"
    /\ LET e == lookup[addr[t]] IN
       \/ e # NoEntry /\ CallRead(t, e, "prefetch")
       \/ e = NoEntry /\ Local(t, "fp")

\* GET_RC_CONFLICT and GET_RC_SUCCESS: the page is in the cache
PfConflict(t) ==
    /\ caller[t] = "prefetch"
    /\ \/ /\ pc[t] = "rd_test"
          /\ Test(ent[t], "WRITELOCKED")
          /\ Finish(t)
          /\ UNCHANGED <<cacheVars, drain>>
       \/ pc[t] = "rd_conflict" /\ UnrefFinish(t)

PfDrop(t) ==
    /\ pc[t] = "pf_drop"
    /\ UnrefFinish(t)

\* the entry got from treepass_get_free_page receives the address ...
PfAddr(t) ==
    /\ pc[t] = "pf_addr"
    /\ AddrStep(t, addr[t], "pf_cas")

\* ... which someone else may be loading already
PfLose(t) ==
    /\ pc[t] = "pf_cas"
    /\ lookup[addr[t]] # NoEntry
    /\ Local(t, "pf_unaddr")

\* Mutant: the abort also clears the lookup slot, which belongs to the winner.
PfUnmap(t) ==
    /\ pc[t] = "pf_unaddr"
    /\ lookup' = [lookup EXCEPT ![addr[t]] = NoEntry]
    /\ diskaddr' = [diskaddr EXCEPT ![ent[t]] = NoAddr]
    /\ Goto(t, "pf_untype")
    /\ UNCHANGED <<status, ptype, refs, pins, ioVars, fresh, atype, hand,
                   opVars, ent, caller, drain>>

PfUnaddr(t) ==
    /\ pc[t] = "pf_unaddr"
    /\ AddrStep(t, NoAddr, "pf_untype")

PfUntype(t) ==
    /\ pc[t] = "pf_untype"
    /\ TypeStep(t, NoType, "pf_free")

\* release the entry and look at the same page again
PfFree(t) ==
    /\ pc[t] = "pf_free"
    /\ StoreStatus(ent[t], FreeStatus)
    /\ Leave(t, "pf_lookup")
    /\ UNCHANGED <<lookup, diskaddr, ptype, refs, pins, ioVars, fresh, atype,
                   hand, opVars, drain>>

PfStep(t) == \/ StartPrefetch(t) \/ PfLookup(t) \/ PfConflict(t) \/ PfDrop(t)
             \/ PfAddr(t) \/ PfLose(t) \/ PfUnaddr(t) \/ PfUntype(t)
             \/ PfFree(t)

\* the lookup slot is won: submit the read
PfWin(t) ==
    /\ pc[t] = "pf_cas"
    /\ lookup[addr[t]] = NoEntry
    /\ lookup' = [lookup EXCEPT ![addr[t]] = ent[t]]
    /\ pfio' = [pfio EXCEPT ![ent[t]] = "issued"]
    /\ pfaddr' = [pfaddr EXCEPT ![ent[t]] = addr[t]]
    /\ Finish(t)
    /\ UNCHANGED <<entryVars, ioVars, fresh, atype, hand, drain>>

\* the device has delivered the page
PfRead(e) ==
    /\ pfio[e] = "issued"
    /\ pfio' = [pfio EXCEPT ![e] = "read"]
    /\ fresh' = [a \in Addrs |->
                   IF a = pfaddr[e] /\ Disk \in fresh[a] THEN fresh[a] \cup {e}
                                                         ELSE fresh[a] \ {e}]
    /\ UNCHANGED <<lookup, entryVars, ioVars, atype, hand, pc, opVars, ent,
                   caller, drain, pfaddr>>

\* Mutant: LOADING is cleared when the request is submitted.
PfCallbackEarly(e) ==
    /\ pfio[e] = "issued"
    /\ ClearFlag(e, "LOADING")
    /\ UNCHANGED <<lookup, diskaddr, ptype, refs, pins, ioVars, fresh, atype,
                   hand, pc, opVars, ent, caller, drain, pfio, pfaddr>>

\* treepass_prefetch_callback calls treepass_finish_load
PfCallback(e) ==
    /\ pfio[e] = "read"
    /\ pfio' = [pfio EXCEPT ![e] = "idle"]
    /\ pfaddr' = [pfaddr EXCEPT ![e] = NoAddr]
    /\ ClearFlag(e, "LOADING")
    /\ UNCHANGED <<lookup, diskaddr, ptype, refs, pins, ioVars, fresh, atype,
                   hand, pc, opVars, ent, caller, drain>>

PfNext == \/ /\ Next \/ \E t \in Threads : PfStep(t)
             /\ UNCHANGED <<pfio, pfaddr>>
          \/ \E t \in Threads : PfWin(t)
          \/ \E e \in Entries : PfRead(e) \/ PfCallback(e)

PfSpec == PfInit /\ [][PfNext]_pfVars

(* The request of a prefetch and its entry stay together until the callback:*)
(* although the prefetching thread has gone and holds no reference, the    *)
(* entry is still LOADING, at that address and found there.                *)
PrefetchStable ==
    \A e \in Entries : pfio[e] # "idle" =>
        /\ "LOADING" \in status[e]
        /\ diskaddr[e] = pfaddr[e]
        /\ lookup[pfaddr[e]] = e

=============================================================================
