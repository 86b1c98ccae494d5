----------------------------- MODULE PageLocks -----------------------------
(***************************************************************************)
(* What the page cache promises its clients (cache.h): for every live      *)
(* address a lock with three modes.  Any number of readers share a page;   *)
(* one of them may claim it while the others go on reading; the claim      *)
(* becomes a write lock when no other client holds the page.  A new page is*)
(* born write locked; a page goes away only when nobody holds it.          *)
(***************************************************************************)
CONSTANTS Threads, Addrs, NoAddr

VARIABLES
    mode,   \* thread -> how it holds its page
    page,   \* thread -> the page it holds, or NoAddr
    live    \* the addresses that exist

plVars == <<mode, page, live>>

Modes == {"none", "read", "claim", "write"}

PLInit ==
    /\ mode = [t \in Threads |-> "none"]
    /\ page = [t \in Threads |-> NoAddr]
    /\ live \subseteq Addrs

Others(t, a) == {u \in Threads \ {t} : page[u] = a}

Change(t, from, to) ==
    /\ mode[t] = from
    /\ mode' = [mode EXCEPT ![t] = to]

\* cache_get
Get(t, a) ==
    /\ a \in live
    /\ \A u \in Others(t, a) : mode[u] # "write"
    /\ Change(t, "none", "read")
    /\ page' = [page EXCEPT ![t] = a]
    /\ UNCHANGED live

\* cache_alloc
New(t, a) ==
    /\ a \notin live
    /\ Others(t, a) = {}
    /\ Change(t, "none", "write")
    /\ page' = [page EXCEPT ![t] = a]
    /\ live' = live \cup {a}

\* cache_try_claim, when it succeeds
Claim(t) ==
    /\ \A u \in Others(t, page[t]) : mode[u] = "read"
    /\ Change(t, "read", "claim")
    /\ UNCHANGED <<page, live>>

\* cache_lock returns
Lock(t) ==
    /\ Others(t, page[t]) = {}
    /\ Change(t, "claim", "write")
    /\ UNCHANGED <<page, live>>

\* cache_unlock
Unlock(t) == Change(t, "write", "claim") /\ UNCHANGED <<page, live>>

\* cache_unclaim
Unclaim(t) == Change(t, "claim", "read") /\ UNCHANGED <<page, live>>

\* cache_unget
Unget(t) ==
    /\ Change(t, "read", "none")
    /\ page' = [page EXCEPT ![t] = NoAddr]
    /\ UNCHANGED live

\* cache_extent_discard
Discard(a) ==
    /\ a \in live
    /\ \A t \in Threads : page[t] # a
    /\ live' = live \ {a}
    /\ UNCHANGED <<mode, page>>

PLNext == \/ \E t \in Threads : \/ \E a \in Addrs : Get(t, a) \/ New(t, a)
                                \/ Claim(t) \/ Lock(t) \/ Unlock(t)
                                \/ Unclaim(t) \/ Unget(t)
          \/ \E a \in Addrs : Discard(a)

Spec == PLInit /\ [][PLNext]_plVars
=============================================================================
