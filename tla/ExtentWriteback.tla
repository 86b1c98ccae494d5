--------------------------- MODULE ExtentWriteback ---------------------------
(* Writing pages back: the cleaner's treepass_batch_start_writeback, which  *)
(* extends a write to the neighbouring pages of the extent, and the syncs   *)
(* of a page and of an extent (treepass.c).  They run at the same time, and *)
(* TP_WRITEBACK decides who writes a page; treepass_write_callback ends the *)
(* write of every page of a request.                                        *)
(*                                                                          *)
(* PageCache has the locks of one page; here a writer, an eviction and an   *)
(* allocation are one step each, and a page is clean, dirty or gone.  The   *)
(* clock is left out: a cleaner passes over a dirty page when it likes.     *)
EXTENDS Naturals, Integers, Sequences, FiniteSets, SequencesExt

CONSTANTS NumPages, page_capacity,
          PagesPerExtent,
          Cleaners,    \* threads in treepass_batch_start_writeback
          PageSyncer,  \* whether some thread is in core_set_super_block or
                       \*   shard_log_write, which sync a page
          ExtentSyncer,  \* whether some thread syncs extents
          MaxSyncs,    \* bound: extents that are synced
          None

Pages == 1 .. NumPages
Entries == 1 .. page_capacity
ExtentOf(p) == (p - 1) \div PagesPerExtent

VARIABLES
    lookup,       \* page -> entry or None
    disk_addr,    \* entry -> page or None
    status,       \* entry -> "free", "clean" or "dirty"
    writeback,    \* entries with TP_WRITEBACK
    requests,     \* issued writes: [id, pages, counted]; pages are entries
    cleaner,      \* cleaner -> where it is
    page_sync,    \* where the page syncer is
    extent_sync,  \* where the extent syncer is
    outstanding,  \* the counter that the extent syncer gave
    syncs,        \* extents synced so far
    failed        \* assertions of the code that have failed

vars == <<lookup, disk_addr, status, writeback, requests, cleaner, page_sync,
          extent_sync, outstanding, syncs, failed>>

\* entry: the one the loop is at; first, end: the pages the request spans.
IdleCleaner == [pc |-> "idle", entry |-> 1, addr |-> None, first |-> None,
                end |-> None, next |-> None]
IdlePageSync == [pc |-> "idle", entry |-> None]
IdleExtentSync == [pc |-> "idle", page |-> None, last |-> None, entry |-> None,
                   req |-> <<>>]

Init == /\ lookup = [p \in Pages |-> None]
        /\ disk_addr = [e \in Entries |-> None]
        /\ status = [e \in Entries |-> "free"]
        /\ writeback = {}
        /\ requests = {}
        /\ cleaner = [c \in Cleaners |-> IdleCleaner]
        /\ page_sync = IdlePageSync
        /\ extent_sync = IdleExtentSync
        /\ outstanding = 0
        /\ syncs = 0
        /\ failed = {}

pages == <<lookup, disk_addr, status>>
writes == <<writeback, requests>>
actors == <<cleaner, page_sync, extent_sync, outstanding, syncs>>

-----------------------------------------------------------------------------
(* Other threads (the steps of PageCache).                                  *)

\* treepass_alloc, or a load, of a page that is not in the cache.
Enter(p, e, s) ==
    /\ lookup[p] = None
    /\ status[e] = "free"
    /\ lookup' = [lookup EXCEPT ![p] = e]
    /\ disk_addr' = [disk_addr EXCEPT ![e] = p]
    /\ status' = [status EXCEPT ![e] = s]
    /\ UNCHANGED <<writes, actors, failed>>

\* A writer waits for the end of writeback.
Dirty(e) ==
    /\ status[e] = "clean"
    /\ e \notin writeback
    /\ status' = [status EXCEPT ![e] = "dirty"]
    /\ UNCHANGED <<lookup, disk_addr, writes, actors, failed>>

\* The syncer of a page has a reference, or has given it up (core.c:198).
Evict(e) ==
    /\ status[e] = "clean"
    /\ e \notin writeback
    /\ status' = [status EXCEPT ![e] = "free"]
    /\ lookup' = [lookup EXCEPT ![disk_addr[e]] = None]
    /\ disk_addr' = [disk_addr EXCEPT ![e] = None]
    /\ UNCHANGED <<writes, actors, failed>>

-----------------------------------------------------------------------------
(* treepass_try_set_writeback, treepass_write_callback.                     *)

Cleanable(e) == e # None /\ status[e] = "dirty" /\ e \notin writeback
SetWriteback(e) == writeback' = writeback \cup {e}

\* Every request is another one, also for the same entries.
Issue(entries, counted) ==
    LET used == {q.id : q \in requests}
        id   == CHOOSE i \in 1 .. Cardinality(requests) + 1 : i \notin used
    IN  requests' = requests \cup {[id |-> id, pages |-> entries,
                                    counted |-> counted]}

\* The pages of the request are clean, unless they were not in writeback.
WriteCallback(q) ==
    LET es == Range(q.pages)
    IN  /\ status' = [e \in Entries |-> IF e \in es THEN "clean" ELSE status[e]]
        /\ writeback' = writeback \ es
        /\ requests' = requests \ {q}
        /\ outstanding' = IF q.counted THEN outstanding - Len(q.pages)
                                       ELSE outstanding
        /\ failed' = IF es \subseteq writeback THEN failed
                                               ELSE failed \cup {"callback"}
        /\ UNCHANGED <<lookup, disk_addr, cleaner, page_sync, extent_sync, syncs>>

-----------------------------------------------------------------------------
(* treepass_batch_start_writeback.                                          *)

At(c, label) == cleaner[c].pc = label
SetCleaner(c, r) == cleaner' = [cleaner EXCEPT ![c] = r]
NextEntry(r) == IF r.entry = page_capacity THEN IdleCleaner
                ELSE [IdleCleaner EXCEPT !.pc = "entry", !.entry = r.entry + 1]
InExtent(p, q) == p \in Pages /\ ExtentOf(p) = ExtentOf(q)

StartBatch(c) ==
    /\ At(c, "idle")
    /\ SetCleaner(c, [IdleCleaner EXCEPT !.pc = "entry"])
    /\ UNCHANGED <<pages, writes, page_sync, extent_sync, outstanding, syncs,
                   failed>>

\* It reads the address of the entry before it has TP_WRITEBACK.
ReadEntry(c) ==
    /\ At(c, "entry")
    /\ SetCleaner(c, [cleaner[c] EXCEPT !.pc = "set",
                                        !.addr = disk_addr[cleaner[c].entry]])
    /\ UNCHANGED <<pages, writes, page_sync, extent_sync, outstanding, syncs,
                   failed>>

\* Not cleanable, or too hot for this pass, or not a branch page.
PassOver(c) ==
    /\ At(c, "set")
    /\ SetCleaner(c, NextEntry(cleaner[c]))
    /\ UNCHANGED <<pages, writes, page_sync, extent_sync, outstanding, syncs,
                   failed>>

SetFirst(c) ==
    LET r == cleaner[c]
        p == disk_addr[r.entry]
    IN  /\ At(c, "set")
        /\ Cleanable(r.entry)
        /\ SetWriteback(r.entry)
        /\ SetCleaner(c, [r EXCEPT !.pc = "back", !.first = p, !.end = p])
        /\ failed' = IF r.addr # None /\ lookup[r.addr] = r.entry THEN failed
                     ELSE failed \cup {"entry"}
        /\ UNCHANGED <<pages, requests, page_sync, extent_sync, outstanding,
                       syncs>>

\* Walking through the extent: look the neighbour up ...
Walk(c) ==
    LET r == cleaner[c]
        p == IF r.pc = "back" THEN r.first - 1 ELSE r.end + 1
        n == IF r.addr # None /\ InExtent(p, r.addr) THEN lookup[p] ELSE None
    IN  /\ r.pc \in {"back", "forward"}
        /\ SetCleaner(c, [r EXCEPT !.next = n,
             !.pc = IF r.pc = "back" THEN "back_set" ELSE "forward_set"])
        /\ UNCHANGED <<pages, writes, page_sync, extent_sync, outstanding,
                       syncs, failed>>

\* ... and take it along if it is cleanable; otherwise turn, or build.
TakeAlong(c) ==
    LET r == cleaner[c]
    IN  /\ r.pc \in {"back_set", "forward_set"}
        /\ Cleanable(r.next)
        /\ SetWriteback(r.next)
        /\ SetCleaner(c, IF r.pc = "back_set"
                         THEN [r EXCEPT !.pc = "back", !.first = @ - 1]
                         ELSE [r EXCEPT !.pc = "forward", !.end = @ + 1])
        /\ UNCHANGED <<pages, requests, page_sync, extent_sync, outstanding,
                       syncs, failed>>

EndWalk(c) ==
    LET r == cleaner[c]
    IN  /\ r.pc \in {"back_set", "forward_set"}
        /\ ~Cleanable(r.next)
        /\ SetCleaner(c, [r EXCEPT !.pc = IF @ = "back_set" THEN "forward"
                                                            ELSE "build"])
        /\ UNCHANGED <<pages, writes, page_sync, extent_sync, outstanding,
                       syncs, failed>>

\* The request is built of the entries that the lookup has now.
BuildRequest(c) ==
    LET r  == cleaner[c]
        es == [i \in 1 .. r.end - r.first + 1 |-> lookup[r.first + i - 1]]
    IN  /\ At(c, "build")
        /\ IF None \in Range(es)
           THEN failed' = failed \cup {"lookup"} /\ UNCHANGED requests
           ELSE Issue(es, FALSE) /\ UNCHANGED failed
        /\ SetCleaner(c, NextEntry(r))
        /\ UNCHANGED <<pages, writeback, page_sync, extent_sync, outstanding,
                       syncs>>

-----------------------------------------------------------------------------
(* treepass_page_sync: its callers unlock the page they have changed and    *)
(* then sync it.                                                            *)

ChangeAndUnlock(e) ==
    /\ page_sync.pc = "idle"
    /\ status[e] # "free"
    /\ e \notin writeback
    /\ status' = [status EXCEPT ![e] = "dirty"]
    /\ page_sync' = [pc |-> "unlocked", entry |-> e]
    /\ UNCHANGED <<lookup, disk_addr, writes, cleaner, extent_sync, outstanding,
                   syncs, failed>>

SyncPage ==
    LET e == page_sync.entry
    IN  /\ page_sync.pc = "unlocked"
        /\ IF Cleanable(e)
           THEN /\ SetWriteback(e)
                /\ page_sync' = [page_sync EXCEPT !.pc = "writing"]
                /\ UNCHANGED failed
           ELSE /\ failed' = IF status[e] = "clean" THEN failed
                             ELSE failed \cup {"page_sync"}
                /\ page_sync' = IdlePageSync
                /\ UNCHANGED writeback
        /\ UNCHANGED <<pages, requests, cleaner, extent_sync, outstanding, syncs>>

\* The blocking sync writes the page itself.
PageWritten ==
    /\ page_sync.pc = "writing"
    /\ status' = [status EXCEPT ![page_sync.entry] = "clean"]
    /\ writeback' = writeback \ {page_sync.entry}
    /\ page_sync' = IdlePageSync
    /\ UNCHANGED <<lookup, disk_addr, requests, cleaner, extent_sync,
                   outstanding, syncs, failed>>

\* Otherwise the callback ends it.
PageIssued ==
    /\ page_sync.pc = "writing"
    /\ Issue(<<page_sync.entry>>, FALSE)
    /\ page_sync' = IdlePageSync
    /\ UNCHANGED <<pages, writeback, cleaner, extent_sync, outstanding, syncs,
                   failed>>

-----------------------------------------------------------------------------
(* treepass_extent_sync: a request for every run of pages it can set        *)
(* TP_WRITEBACK on.                                                         *)

StartExtentSync(x) ==
    /\ extent_sync.pc = "idle"
    /\ syncs < MaxSyncs
    /\ syncs' = syncs + 1
    /\ extent_sync' = [IdleExtentSync EXCEPT
                         !.pc = "page", !.page = PagesPerExtent * x + 1,
                         !.last = PagesPerExtent * (x + 1)]
    /\ UNCHANGED <<pages, writes, cleaner, page_sync, outstanding, failed>>

LookupPage ==
    /\ extent_sync.pc = "page"
    /\ extent_sync.page <= extent_sync.last
    /\ extent_sync' = [extent_sync EXCEPT !.pc = "set",
                                          !.entry = lookup[extent_sync.page]]
    /\ UNCHANGED <<pages, writes, cleaner, page_sync, outstanding, syncs, failed>>

AddPage ==
    /\ extent_sync.pc = "set"
    /\ Cleanable(extent_sync.entry)
    /\ SetWriteback(extent_sync.entry)
    /\ extent_sync' = [extent_sync EXCEPT !.pc = "page", !.page = @ + 1,
                         !.req = Append(@, extent_sync.entry)]
    /\ UNCHANGED <<pages, requests, cleaner, page_sync, outstanding, syncs,
                   failed>>

\* The run ends here; what it has is counted, then issued.
EndRun ==
    /\ \/ /\ extent_sync.pc = "set"
          /\ ~Cleanable(extent_sync.entry)
       \/ /\ extent_sync.pc = "page"
          /\ extent_sync.page > extent_sync.last
    /\ extent_sync' = [extent_sync EXCEPT !.pc = "count", !.page = @ + 1]
    /\ UNCHANGED <<pages, writes, cleaner, page_sync, outstanding, syncs, failed>>

\* A mistake in CountRun: the write is issued uncounted.
CountRunNot ==
    /\ extent_sync.pc = "count"
    /\ extent_sync' = [extent_sync EXCEPT !.pc = "issue"]
    /\ UNCHANGED <<pages, writes, cleaner, page_sync, outstanding, syncs, failed>>

CountRun ==
    /\ extent_sync.pc = "count"
    /\ outstanding' = outstanding + Len(extent_sync.req)
    /\ extent_sync' = [extent_sync EXCEPT !.pc = "issue"]
    /\ UNCHANGED <<pages, writes, cleaner, page_sync, syncs, failed>>

IssueRun ==
    /\ extent_sync.pc = "issue"
    /\ IF extent_sync.req = <<>> THEN UNCHANGED requests
                                 ELSE Issue(extent_sync.req, TRUE)
    /\ extent_sync' = IF extent_sync.page > extent_sync.last
                      THEN IdleExtentSync
                      ELSE [extent_sync EXCEPT !.pc = "page", !.req = <<>>]
    /\ UNCHANGED <<pages, writeback, cleaner, page_sync, outstanding, syncs,
                   failed>>

-----------------------------------------------------------------------------
Clean(c) == \/ StartBatch(c) \/ ReadEntry(c) \/ PassOver(c) \/ SetFirst(c)
            \/ Walk(c) \/ TakeAlong(c) \/ EndWalk(c) \/ BuildRequest(c)
SyncExtent == \/ LookupPage \/ AddPage \/ EndRun \/ CountRun \/ IssueRun

Next == \/ \E p \in Pages, e \in Entries, s \in {"clean", "dirty"} : Enter(p, e, s)
        \/ \E e \in Entries : Dirty(e) \/ Evict(e)
        \/ \E q \in requests : WriteCallback(q)
        \/ \E c \in Cleaners : Clean(c)
        \/ PageSyncer /\ (\E e \in Entries : ChangeAndUnlock(e))
        \/ SyncPage \/ PageWritten \/ PageIssued
        \/ ExtentSyncer /\ (\E p \in Pages : StartExtentSync(ExtentOf(p)))
        \/ SyncExtent

Spec == Init /\ [][Next]_vars

-----------------------------------------------------------------------------
Counted == {q \in requests : q.counted}
CountedPages == FoldLeft(LAMBDA n, q : n + Len(q.pages), 0, SetToSeq(Counted))

(* The counter given to treepass_extent_sync is never below the pages that  *)
(* are issued and not written, and exact when the call has returned: its    *)
(* caller waits for zero, and an unsigned counter must not go below it.     *)
OutstandingIsExact ==
    /\ outstanding >= CountedPages
    /\ extent_sync.pc = "idle" => outstanding = CountedPages

(* treepass.c:2753 asserts that a page that cannot be put in writeback is   *)
(* clean.                                                                   *)
SyncFindsClean == "page_sync" \notin failed

(* The assertions of treepass_write_callback (treepass.c:1100 and 1102) and *)
(* of the cleaner's loop (treepass.c:1180): a request writes entries that   *)
(* its issuer put in writeback.                                             *)
WritesAreMarked == failed \cap {"entry", "lookup", "callback"} = {}
=============================================================================
