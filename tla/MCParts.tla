------------------------------ MODULE MCParts ------------------------------
(* Small instances of the structures beneath the tree for TLC, checked side *)
(* by side: the heap, the extent allocator, the clock hand, asynchronous    *)
(* I/O and asynchronous gets (extended: theorems are about them), the      *)
(* merge iterator, the routing filter, the mini allocator, the log, the     *)
(* status word, the page cache with an entry that changes its type and      *)
(* prefetches, the packing of a branch, the writeback of extents and the    *)
(* clock hand over pages of each kind.  A behaviour runs the one `part'     *)
(* names.  One set of variables serves all that are not extended: v1, v2,   *)
(* ... are the variables of the module in the order of its INSTANCE, and    *)
(* those it does not need are Unused.                                       *)
EXTENDS ShmemHeap, RcAllocator, ClockHand, AsyncIo, AsyncGet, Sequences, TLC

CONSTANTS
    u1, u2, q1, q2, f1, f2, c1, c2, a1, a2, branch, memtable,       \* PageCache
    w1, w2,                                                     \* StatusClock
    x1, x2, r1,                                                 \* RcAllocator
    NoEntry, NoAddr, NoType, NoBatch, Disk

VARIABLES part, v1, v2, v3, v4, v5, v6, v7, v8, v9, v10, v11, v12, v13, v14,
          v15, v16, v17, v18, v19

all == <<v1, v2, v3, v4, v5, v6, v7, v8, v9, v10, v11, v12, v13, v14, v15, v16,
         v17, v18, v19>>
from3 == <<v3, v4, v5, v6, v7, v8, v9, v10, v11, v12, v13, v14, v15, v16, v17,
           v18, v19>>
from5 == <<v5, v6, v7, v8, v9, v10, v11, v12, v13, v14, v15, v16, v17,
           v18, v19>>
from8 == <<v8, v9, v10, v11, v12, v13, v14, v15, v16, v17, v18, v19>>
from11 == <<v11, v12, v13, v14, v15, v16, v17, v18, v19>>
from12 == <<v12, v13, v14, v15, v16, v17, v18, v19>>
from16 == <<v16, v17, v18, v19>>
from18 == <<v18, v19>>

\* The variables of the modules that are extended.
extended == <<vars, rcVars, handVars, ioVars, getVars>>

-----------------------------------------------------------------------------
(* The merge iterator: three trees with every choice of two keys.  The      *)
(* oldest has no deletes: with no tuples in it the second one is the oldest.*)

Merge == INSTANCE MergeIterator WITH
    NumTrees <- 3, NumKeys <- 2,
    Inputs <- {i \in [1 .. 3 -> [1 .. 2 -> {"none", "update", "delete"}]] :
                 \A k \in 1 .. 2 : i[1][k] # "delete"},
    Modes <- {"raw", "intermediate", "full"},
    Starts <- (1 .. 3) \X {"next", "prev"}, MaxMoves <- 4,
    input <- v1, mode <- v2, pos <- v3, ordered <- v4, num_remaining <- v5,
    next_key_equal <- v6, forwards <- v7, can_prev <- v8, can_next <- v9,
    curr_key <- v10, curr_data <- v11, pc <- v12, at <- v13, shared <- v14,
    moves <- v15

(* The routing filter: branches of two and of five keys, fingerprints of    *)
(* four bits, so that buckets divide and values widen.                      *)

Filter == INSTANCE RoutingFilter WITH
    fingerprint_size <- 4, log_index_size <- 1, WORD <- 2, MaxAdds <- 3,
    Batches <- {<<a, b>> : a, b \in {0, 1, 6, 15}}
                 \cup {<<2, 3, 6, 7, 8>>, <<0, 4, 8, 12, 14>>},
    filter <- v1, added <- v2

(* One mini allocator.                                                      *)

Mini == INSTANCE MiniAllocator WITH
    Threads <- {1, 2}, NumBatches <- 2, NumExtents <- 7, PagesPerExtent <- 2,
    EntriesPerPage <- 1, MaxAllocs <- 4,
    ref <- v1, cached <- v2, others <- v3, next_addr <- v4, next_extent <- v5,
    meta_tail <- v6, next_meta_addr <- v7, entries <- v8, page_lock <- v9,
    pc <- v10, batch <- v11, addr <- v12, tail <- v13, todo <- v14,
    holds <- v15, released <- v16, given <- v17

(* The log: tuples that do and do not fit the rest of a page.               *)

Log == INSTANCE ShardLog WITH
    Threads <- {1, 2}, Sizes <- {1, 2, 3}, HEADER <- 2, PAGE <- 8,
    MaxEntries <- 4,
    pages <- v1, dirty <- v2, disk <- v3, mine <- v4, syncing <- v5,
    written <- v6, crashed <- v7, offset <- v8, counted <- v9, reopened <- v10

(* The page cache: a reader that prefetches, against a thread that          *)
(* allocates and discards pages of two types in the one entry, or pages at  *)
(* one address in two entries; and the status word of an entry.             *)

Types2 == INSTANCE PagePrefetch WITH
    Threads <- {u1, u2}, Prefetchers <- {u1}, Entries <- {f1},
    Addrs <- {a1, a2}, Types <- {branch, memtable}, PinnedTypes <- {memtable},
    Batches <- {c1, c2}, BatchOf <- f1 :> c1, Slots <- {q1, q2},
    SlotOf <- (u1 :> q1) @@ (u2 :> q2),
    Roles <- (u1 :> {"get"}) @@ (u2 :> {"write", "alloc", "discard"}),
    lookup <- v1, status <- v2, diskaddr <- v3, ptype <- v4, refs <- v5,
    pins <- v6, wb <- v7, waddr <- v8, fresh <- v9, atype <- v10, hand <- v11,
    pc <- v12, op <- v13, addr <- v14, ent <- v15, caller <- v16, drain <- v17,
    pfio <- v18, pfaddr <- v19
Loads2 == INSTANCE PagePrefetch WITH
    Threads <- {u1, u2}, Prefetchers <- {u1}, Entries <- {f1, f2},
    Addrs <- {a1}, Types <- {branch}, PinnedTypes <- {},
    Batches <- {c1, c2}, BatchOf <- (f1 :> c1) @@ (f2 :> c2),
    Slots <- {q1, q2}, SlotOf <- (u1 :> q1) @@ (u2 :> q2),
    Roles <- (u1 :> {"get"}) @@ (u2 :> {"write", "alloc", "discard"}),
    lookup <- v1, status <- v2, diskaddr <- v3, ptype <- v4, refs <- v5,
    pins <- v6, wb <- v7, waddr <- v8, fresh <- v9, atype <- v10, hand <- v11,
    pc <- v12, op <- v13, addr <- v14, ent <- v15, caller <- v16, drain <- v17,
    pfio <- v18, pfaddr <- v19
Word == INSTANCE StatusClock WITH
    Threads <- {w1, w2}, Discarders <- {w1, w2}, Spare <- 1, MaxPasses <- 2,
    status <- v1, pc <- v2, below <- v3, sweep <- v4, wbp <- v5, stage <- v6,
    old <- v7

(* Packing a branch of four heights.  (What is extended has the constants   *)
(* of the configuration: a heap with room for one large fragment in its     *)
(* array, a device that gets full, the I/O context of two threads with a    *)
(* kernel that holds one request, two gets with a kernel that holds one     *)
(* read, and two threads with clock hands over two batches of pages in use.)*)

Pack == INSTANCE BTreePack WITH
    LeafCap <- 1, IndexCap <- 2, PagesPerExtent <- 2, MaxTuples <- 7,
    InputClocks <- {0, 3}, TP_CLOCK_MAX <- 3, None <- NoEntry,
    input <- v1, max_tuples <- v2, req <- v3, outcome <- v4

(* A cleaner that meets the syncs of a page and of its extent; an extent    *)
(* that is synced in several runs while its pages change; and one thread    *)
(* with a clock hand over pages of each kind.                               *)

Writes == INSTANCE ExtentWriteback WITH
    NumPages <- 2, page_capacity <- 2, PagesPerExtent <- 2, Cleaners <- {w1},
    PageSyncer <- TRUE, ExtentSyncer <- TRUE, MaxSyncs <- 1, None <- NoEntry,
    lookup <- v1, disk_addr <- v2, status <- v3, writeback <- v4,
    requests <- v5, cleaner <- v6, page_sync <- v7, extent_sync <- v8,
    outstanding <- v9, syncs <- v10, failed <- v11
Runs == INSTANCE ExtentWriteback WITH
    NumPages <- 3, page_capacity <- 3, PagesPerExtent <- 3, Cleaners <- {},
    PageSyncer <- TRUE, ExtentSyncer <- TRUE, MaxSyncs <- 1, None <- NoEntry,
    lookup <- v1, disk_addr <- v2, status <- v3, writeback <- v4,
    requests <- v5, cleaner <- v6, page_sync <- v7, extent_sync <- v8,
    outstanding <- v9, syncs <- v10, failed <- v11
Sweep == INSTANCE ClockHand WITH
    HandThreads <- {x1}, batch_capacity <- 2, EntriesPerBatch <- 1,
    cleaner_gap <- 1, HandClockMax <- 2,
    Uses <- {<<"clean", 0, TRUE>>, <<"dirty", 2, FALSE>>},
    MaxPasses <- 3, NumBatchCounts <- 5, NoHand <- NoEntry,
    page <- v1, clock <- v2, cold <- v3, wbPasses <- v4, batch_busy <- v5,
    evict_hand <- v6, thread <- v7, evict_batches <- v8,
    last_ei_check_cycle <- v9, evict_interval <- v10, last_cycle_ts <- v11

-----------------------------------------------------------------------------
Unused == "unused"

\* The variables from number n on are not used.
Rests(n) == /\ n <= 1 => v1 = Unused /\ v2 = Unused
            /\ n <= 3 => v3 = Unused /\ v4 = Unused
            /\ n <= 5 => v5 = Unused /\ v6 = Unused /\ v7 = Unused
            /\ n <= 8 => v8 = Unused
            /\ n <= 9 => v9 = Unused /\ v10 = Unused
            /\ n <= 11 => v11 = Unused
            /\ n <= 12 => v12 = Unused
            /\ n <= 13 => v13 = Unused /\ v14 = Unused /\ v15 = Unused
            /\ n <= 16 => v16 = Unused /\ v17 = Unused
            /\ n <= 18 => v18 = Unused /\ v19 = Unused

PartsInit ==
    /\ Init /\ RcInit /\ HandInit /\ IoInit /\ GetInit
    /\ \/ part = "merge" /\ Merge!Init /\ Rests(16)
       \/ part = "filter" /\ Filter!Init /\ Rests(3)
       \/ part = "mini" /\ Mini!Init /\ Rests(18)
       \/ part = "log" /\ Log!Init /\ Rests(11)
       \/ part = "types" /\ Types2!PfInit
       \/ part = "loads" /\ Loads2!PfInit
       \/ part = "pack" /\ Pack!Init /\ Rests(5)
       \/ part \in {"heap", "alloc", "hands", "io", "get"} /\ Rests(1)
       \/ part = "extents" /\ Writes!Init /\ Rests(12)
       \/ part = "runs" /\ Runs!Init /\ Rests(12)
       \/ part = "sweep" /\ Sweep!HandInit /\ Rests(12)
       \/ part = "word" /\ Word!Init /\ Rests(8)

\* Bounded by a number of calls, these parts come to an end.
Finished == /\ part \in {"merge", "filter", "log", "pack", "io"}
            /\ UNCHANGED <<extended, all>>

\* What stays is said first, once for all successors of a state.
PartsNext ==
    /\ UNCHANGED part
    /\ \/ part = "merge" /\ UNCHANGED <<extended, from16>> /\ Merge!Next
       \/ part = "filter" /\ UNCHANGED <<extended, from3>> /\ Filter!Next
       \/ part = "mini" /\ UNCHANGED <<extended, from18>> /\ Mini!Next
       \/ part = "log" /\ UNCHANGED <<extended, from11>> /\ Log!Next
       \/ part = "types" /\ UNCHANGED extended /\ Types2!PfNext
       \/ part = "loads" /\ UNCHANGED extended /\ Loads2!PfNext
       \/ part = "pack" /\ UNCHANGED <<extended, from5>> /\ Pack!Next
       \/ part = "heap" /\ UNCHANGED <<rcVars, handVars, ioVars, getVars, all>>
          /\ Next
       \/ part = "alloc" /\ UNCHANGED <<vars, handVars, ioVars, getVars, all>>
          /\ RcNext
       \/ part = "hands" /\ UNCHANGED <<vars, rcVars, ioVars, getVars, all>>
          /\ HandNext
       \/ part = "io" /\ UNCHANGED <<vars, rcVars, handVars, getVars, all>>
          /\ IoNext
       \/ part = "get" /\ UNCHANGED <<vars, rcVars, handVars, ioVars, all>>
          /\ GetNext
       \/ part = "extents" /\ UNCHANGED <<extended, from12>> /\ Writes!Next
       \/ part = "runs" /\ UNCHANGED <<extended, from12>> /\ Runs!Next
       \/ part = "sweep" /\ UNCHANGED <<extended, from12>> /\ Sweep!HandNext
       \/ part = "word" /\ UNCHANGED <<extended, from8>> /\ Word!Next
       \/ Finished

PartsSpec == PartsInit /\ [][PartsNext]_<<part, extended, all>>

-----------------------------------------------------------------------------
(* Properties, each defined and explained in its module.  Those of the      *)
(* modules that are extended need no definition here: FragmentsDisjoint,    *)
(* AllocationsAreExact, BatchesAreExclusive, ClosedIsQuiet and              *)
(* AsyncGetsReturn.                                                         *)

\* MergeIterator.MergeIsExact: the iterator shows the merge of its trees, key
\* by key, in both directions.
MergeIsExact == part = "merge" => Merge!MergeIsExact

\* RoutingFilter.FilterIsExact: a lookup finds exactly the branches that were
\* added with its fingerprint.
FilterIsExact == part = "filter" => Filter!FilterIsExact

\* MiniAllocator.ExtentsAccounted: every extent the mini allocator has taken is
\* in its chain of meta pages or held by a batch, so that all are given back;
\* and GivenBackClean: none is given back with pages in the cache.
ExtentsAccounted ==
    part = "mini" => Mini!ExtentsAccounted /\ Mini!GivenBackClean


\* PagePrefetch.PrefetchStable: the entry that a prefetch loads stays LOADING,
\* at its address, until the callback, although nobody holds it; and of
\* PageCache, with a prefetch under way: HandleIsCurrent, NoLostWrite and
\* TypeAssertHolds, although entries are reused for other pages and types.
ReuseIsSafe ==
    /\ part = "types" => Types2!TypeAssertHolds /\ Types2!PrefetchStable
    /\ part = "loads" => /\ Loads2!PrefetchStable /\ Loads2!HandleIsCurrent
                         /\ Loads2!NoLostWrite

\* BTreePack.PackIsExact: a packed branch is its input, for lookups, scans and
\* counts, it keeps no other extents, and no lock however it ends.
PackIsExact == part = "pack" => Pack!PackIsExact

\* ExtentWriteback.OutstandingIsExact: the counter of treepass_extent_sync
\* covers the pages that are not written yet, and is exact in the end, although
\* it is raised run by run while earlier runs complete.
OutstandingIsExact ==
    /\ part = "extents" => Writes!OutstandingIsExact
    /\ part = "runs" => Runs!OutstandingIsExact


\* StatusClock.ClockKeepsFlags: changing the clock counter never changes a flag
\* of the same word.
ClockKeepsFlags ==
    [][part = "word" => Word!ClockStepKeepsFlags]_<<part, extended, all>>
=============================================================================
