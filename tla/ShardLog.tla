------------------------------ MODULE ShardLog ------------------------------
(***************************************************************************)
(* The sharded log of shard_log.c: every thread fills a page of its own,   *)
(* ends and checksums it when the next entry does not fit, syncs it and    *)
(* takes another one; the iterator reads the pages in the order in which   *)
(* they were allocated up to the first one that is not valid.  Pages live  *)
(* in the cache, whose cleaner may write one back whenever it is unlocked, *)
(* and which evicts a page that is CLEAN and not held: the next get reads  *)
(* what is on disk.  The offset is the thread's own and is not read again. *)
(* Lengths are in units: an entry of size n takes HEADER + n.              *)
(***************************************************************************)
EXTENDS Naturals, Sequences, FiniteSets

CONSTANTS
    Threads,
    Sizes,          \* lengths of the tuples that are logged
    HEADER,         \* sizeof(log_entry)
    PAGE,           \* page size without sizeof(shard_log_hdr)
    MaxEntries      \* bound: entries written

VARIABLES
    pages,      \* log pages in the cache, in allocation order
    dirty,      \* pages that are not CLEAN
    disk,       \* page -> its contents on disk
    mine,       \* thread -> its page (thread_data->addr), 0 if SHARD_UNMAPPED
    offset,     \* thread -> where its next entry goes (thread_data->offset)
    syncing,    \* thread -> size it still has to write after the sync, or 0
    written,    \* entries written: the generations in use
    crashed,
    counted,    \* what the first pass of the iterator found, or NotCounted
    reopened    \* ghost: pages that were changed while they were CLEAN

vars == <<pages, dirty, disk, mine, offset, syncing, written, crashed, counted,
          reopened>>

NotCounted == [pages |-> 0, entries |-> 0, done |-> FALSE]

\* A page: its entries and where they are, where the end mark is, the entry
\* count of the header and whether the checksum matches.
NoMark == PAGE + 1
NewPage == [entries |-> {}, mark |-> NoMark, num_entries |-> 0, sum |-> FALSE]
NoPage == NewPage

Capacity(n) == HEADER + n

\* shard_log_init
Init ==
    /\ pages = <<>> /\ dirty = {} /\ disk = <<>>
    /\ mine = [t \in Threads |-> 0]
    /\ offset = [t \in Threads |-> 0]
    /\ syncing = [t \in Threads |-> 0]
    /\ written = 0
    /\ crashed = FALSE
    /\ counted = NotCounted
    /\ reopened = {}

Put(p, x, g, n) ==
    [p EXCEPT !.entries = @ \cup {[at |-> x, generation |-> g, size |-> n]},
              !.num_entries = @ + 1,
              !.sum = FALSE]

\* A page that is changed is not marked dirty.
Change(p, new) ==
    /\ pages' = [pages EXCEPT ![p] = new]
    /\ reopened' = IF p \in dirty THEN reopened ELSE reopened \cup {p}

\* get_new_page_for_thread and the entry that goes into the new page; a page
\* that was just allocated is dirty.
WriteNew(t, n) ==
    /\ pages' = Append(pages, Put(NewPage, 0, written + 1, n))
    /\ mine' = [mine EXCEPT ![t] = Len(pages')]
    /\ offset' = [offset EXCEPT ![t] = Capacity(n)]
    /\ written' = written + 1

\* (Nobody writes any more when the log is read.)
Ready(t) ==
    /\ ~crashed /\ counted = NotCounted
    /\ syncing[t] = 0 /\ written < MaxEntries

FreeSpace(t) == PAGE - offset[t]

WriteFirst(t, n) ==
    /\ Ready(t) /\ mine[t] = 0
    /\ WriteNew(t, n)
    /\ disk' = Append(disk, NoPage)
    /\ dirty' = dirty \cup {Len(pages')}
    /\ UNCHANGED <<syncing, crashed, counted, reopened>>

WriteFits(t, n) ==
    /\ Ready(t) /\ mine[t] # 0 /\ Capacity(n) <= FreeSpace(t)
    /\ Change(mine[t], Put(pages[mine[t]], offset[t], written + 1, n))
    /\ offset' = [offset EXCEPT ![t] = @ + Capacity(n)]
    /\ written' = written + 1
    /\ UNCHANGED <<dirty, disk, mine, syncing, crashed, counted>>


MarksEnd(t) == HEADER <= FreeSpace(t)

\* The entry does not fit: the page is ended, checksummed and unlocked.
WriteSeal(t, n) ==
    /\ Ready(t) /\ mine[t] # 0 /\ FreeSpace(t) < Capacity(n)
    /\ Change(mine[t],
              [pages[mine[t]] EXCEPT !.mark = IF MarksEnd(t) THEN offset[t] ELSE @,
                                     !.sum = TRUE])
    /\ syncing' = [syncing EXCEPT ![t] = n]
    /\ UNCHANGED <<dirty, disk, mine, offset, written, crashed, counted>>

\* cache_page_sync writes the page unless it is clean; the entry then goes
\* to a new page.
SyncAndWrite(t) ==
    /\ ~crashed /\ syncing[t] # 0
    /\ LET p == mine[t]
           synced == IF p \in dirty THEN [disk EXCEPT ![p] = pages[p]] ELSE disk
       IN  /\ disk' = Append(synced, NoPage)
           /\ dirty' = (dirty \ {p}) \cup {Len(pages) + 1}
    /\ WriteNew(t, syncing[t])
    /\ syncing' = [syncing EXCEPT ![t] = 0]
    /\ UNCHANGED <<crashed, counted, reopened>>

\* The cache's cleaner.
Clean(p) ==
    /\ ~crashed /\ p \in dirty
    /\ disk' = [disk EXCEPT ![p] = pages[p]]
    /\ dirty' = dirty \ {p}
    /\ UNCHANGED <<pages, mine, offset, syncing, written, crashed, counted, reopened>>

\* A page that is clean and not held is evicted; its next get loads it.
EvictAndLoad(p) ==
    /\ ~crashed /\ p \notin dirty
    /\ \A t \in Threads : mine[t] = p => syncing[t] = 0
    /\ pages' = [pages EXCEPT ![p] = disk[p]]
    /\ UNCHANGED <<dirty, disk, mine, offset, syncing, written, crashed, counted,
                   reopened>>

\* After a crash the cache is empty: pages are read from the disk.
Crash ==
    /\ ~crashed /\ crashed' = TRUE
    /\ pages' = disk
    /\ dirty' = {}
    /\ mine' = [t \in Threads |-> 0]
    /\ offset' = [t \in Threads |-> 0]
    /\ syncing' = [t \in Threads |-> 0]
    /\ counted' = NotCounted
    /\ UNCHANGED <<disk, written, reopened>>

-----------------------------------------------------------------------------
\* shard_log_iterator_init

\* The pages up to the first one that is not valid (shard_log_valid).
ValidPages == {i \in DOMAIN pages : \A j \in 1 .. i : pages[j].sum}

\* terminal_log_entry at x: no room for an entry header, or the end mark.
\* Anything else is read as an entry.
Terminal(p, x) == PAGE - x < HEADER \/ x = p.mark

Garbage == [at |-> 0, generation |-> 0, size |-> 0]

\* The walk over page p from x on; where nothing was written the bytes are
\* whatever the page held before.
RECURSIVE Walk(_, _)
Walk(p, x) ==
    IF Terminal(p, x) THEN <<>>
    ELSE LET here == {e \in p.entries : e.at = x}
         IN  IF here = {} THEN <<Garbage>>
             ELSE LET e == CHOOSE e \in here : TRUE
                  IN  <<e>> \o Walk(p, x + Capacity(e.size))

\* The first pass counts pages and entries, as the headers have them.
FirstPass ==
    /\ counted = NotCounted /\ \A t \in Threads : syncing[t] = 0
    /\ LET S[n \in 0 .. Len(pages)] ==
              IF n = 0 THEN 0
              ELSE S[n - 1] + (IF n \in ValidPages THEN pages[n].num_entries ELSE 0)
       IN  counted' = [pages |-> Cardinality(ValidPages), entries |-> S[Len(pages)],
                       done |-> TRUE]
    /\ UNCHANGED <<pages, dirty, disk, mine, offset, syncing, written, crashed,
                   reopened>>

\* What the second pass, made later, copies: the walks over the pages that are
\* valid then.
RECURSIVE Join(_)
Join(n) == IF n = 0 THEN <<>> ELSE Join(n - 1) \o Walk(pages[n], 0)
Collected == Join(Cardinality(ValidPages))

-----------------------------------------------------------------------------

Next ==
    \/ \E t \in Threads : \/ \E n \in Sizes : \/ WriteFirst(t, n)
                                              \/ WriteFits(t, n)
                                              \/ WriteSeal(t, n)
                          \/ SyncAndWrite(t)
    \/ \E p \in DOMAIN pages : Clean(p) \/ EvictAndLoad(p)
    \/ Crash
    \/ FirstPass

Spec == Init /\ [][Next]_vars

-----------------------------------------------------------------------------


\* In pages that both passes find valid the second one finds as many entries as
\* the first one has counted (the assertion at the end of
\* shard_log_iterator_init), whatever the cache did to the pages before.
PassesAgree ==
    counted.done /\ Cardinality(ValidPages) = counted.pages =>
        Len(Collected) = counted.entries

\* A page whose sync has returned is on disk as it was ended.
SyncedIsDurable ==
    \A p \in DOMAIN pages :
        pages[p].sum /\ (\A t \in Threads : mine[t] # p) => disk[p] = pages[p]

=============================================================================
