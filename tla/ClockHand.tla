------------------------------ MODULE ClockHand ------------------------------
(* The clock hand of the page cache: treepass_get_free_page and             *)
(* treepass_move_hand, by which every thread sweeps batches of entries of   *)
(* its own, the eviction interval that treepass_evict_batch measures, and   *)
(* the emptying of the cache by treepass_flush and treepass_evict_all.      *)
(*                                                                          *)
(* Evicting an entry and starting a writeback are one step here (PageCache  *)
(* and ExtentWriteback have theirs).  A page is clean, dirty, in writeback, *)
(* or held by a reference, a lock or a pin.  Durations are left out: the    *)
(* interval is the set of the sweeps averaged into it, a timestamp the      *)
(* number of the sweep at whose end it was taken.                           *)
EXTENDS Naturals

CONSTANTS HandThreads,
          batch_capacity,      \* batches of the cache
          EntriesPerBatch,
          cleaner_gap,         \* how far the cleaner is ahead of the hand
          HandClockMax,        \* TP_CLOCK_MAX
          Uses,                \* how pages are given back: <<page, clock, cold>>
          MaxPasses,           \* passes over the cache for a free page (3)
          NumBatchCounts,      \* evict_batches wraps there (2^32)
          NoHand

(* What the theorems assume: the cache has batches and entries in them, and *)
(* a page is given back clean or dirty with a clock the word has room for.  *)
HandAssumption ==
    /\ batch_capacity \in Nat \ {0}
    /\ EntriesPerBatch \in Nat \ {0}
    /\ cleaner_gap \in Nat
    /\ HandClockMax \in Nat
    /\ MaxPasses \in Nat
    /\ NumBatchCounts \in Nat \ {0}
    /\ Uses \subseteq {"clean", "dirty"} \X (0 .. HandClockMax) \X BOOLEAN
    /\ NoHand \notin Nat
ASSUME HandConstants == HandAssumption

Batches == 0 .. batch_capacity - 1
Entries == 0 .. batch_capacity * EntriesPerBatch - 1
EntriesOf(b) == {e \in Entries : e \div EntriesPerBatch = b}

VARIABLES
    page,        \* entry -> "free", "clean", "dirty", "writeback" or "held"
    clock,       \* entry -> clock counter
    cold,        \* entries of branch pages with entry_time 0
    wbPasses,    \* entry in writeback -> num_passes of the cleaner
    batch_busy,  \* batch -> BOOLEAN
    evict_hand,  \* cc->evict_hand % batch_capacity
    thread,      \* thread -> its calls, with its free_hand
    evict_batches, last_ei_check_cycle,
    evict_interval,  \* the sweeps that are averaged into it; none: EI_NOT_READY
    last_cycle_ts    \* the sweep after which the last timestamp was taken

handVars == <<page, clock, cold, wbPasses, batch_busy, evict_hand, thread,
              evict_batches, last_ei_check_cycle, evict_interval,
              last_cycle_ts>>

NewThread == [pc |-> "idle", free_hand |-> NoHand, hand |-> NoHand, passes |-> 0,
              max_hand |-> NoHand, cycle |-> 0, expected |-> 0, ei |-> {},
              round |-> 0]

HandInit ==
    /\ page = [e \in Entries |-> "free"]
    /\ clock = [e \in Entries |-> 0]
    /\ cold = {}
    /\ wbPasses = [e \in Entries |-> 0]
    /\ batch_busy = [b \in Batches |-> FALSE]
    /\ evict_hand = 0
    /\ thread = [t \in HandThreads |-> NewThread]
    /\ evict_batches = 0
    /\ last_ei_check_cycle = 0
    /\ evict_interval = {}
    /\ last_cycle_ts = 0

entries == <<page, clock, cold, wbPasses>>
interval == <<evict_batches, last_ei_check_cycle, evict_interval, last_cycle_ts>>

At(t, label) == thread[t].pc = label
HandReturn(t) == thread' = [thread EXCEPT
               ![t] = [NewThread EXCEPT !.free_hand = thread[t].free_hand]]
Goto(t, label) == thread' = [thread EXCEPT ![t].pc = label]
SetBusy(b, v) == batch_busy' = [batch_busy EXCEPT ![b] = v]
Ahead(t) == (thread[t].hand + cleaner_gap) % batch_capacity

\* The cache is being emptied: nobody else uses it.
Closing == \E t \in HandThreads : thread[t].pc \in {"flush", "empty", "emptied"}

-----------------------------------------------------------------------------
(* Users of the pages.                                                      *)

\* A get that hits keeps the page from eviction ...
Use(e) ==
    /\ ~Closing
    /\ page[e] = "clean"
    /\ page' = [page EXCEPT ![e] = "held"]
    /\ clock' = [clock EXCEPT ![e] = 0]
    /\ cold' = cold \ {e}
    /\ UNCHANGED <<wbPasses, batch_busy, evict_hand, thread, interval>>

\* ... until it is given back, accessed often or not, perhaps changed.
GiveBack(e, use) ==
    /\ ~Closing
    /\ page[e] = "held"
    /\ page' = [page EXCEPT ![e] = use[1]]
    /\ clock' = [clock EXCEPT ![e] = use[2]]
    /\ cold' = IF use[3] THEN cold \cup {e} ELSE cold
    /\ UNCHANGED <<wbPasses, batch_busy, evict_hand, thread, interval>>

\* treepass_write_callback: under pressure the clock of a branch page is reset.
WriteDone(e) ==
    /\ page[e] = "writeback"
    /\ page' = [page EXCEPT ![e] = "clean"]
    /\ clock' = IF wbPasses[e] \in 1 .. HandClockMax - 1
                THEN [clock EXCEPT ![e] = 0] ELSE clock
    /\ wbPasses' = [wbPasses EXCEPT ![e] = 0]
    /\ UNCHANGED <<cold, batch_busy, evict_hand, thread, interval>>

-----------------------------------------------------------------------------
(* treepass_get_free_page.                                                  *)

\* The first time a thread has no batch yet.
GetFreePage(t) ==
    /\ ~Closing
    /\ At(t, "idle")
    /\ thread' = [thread EXCEPT
         ![t].passes = 0, ![t].max_hand = thread[t].free_hand,
         ![t].pc = IF thread[t].free_hand = NoHand THEN "advance" ELSE "scan"]
    /\ UNCHANGED <<entries, batch_busy, evict_hand, interval>>

TakeEntry(t, e) ==
    /\ At(t, "scan")
    /\ e \in EntriesOf(thread[t].free_hand)
    /\ page[e] = "free"
    /\ page' = [page EXCEPT ![e] = "held"]
    /\ HandReturn(t)
    /\ UNCHANGED <<clock, cold, wbPasses, batch_busy, evict_hand, interval>>

NoFreeEntry(t) ==
    /\ At(t, "scan")
    /\ \A e \in EntriesOf(thread[t].free_hand) : page[e] # "free"
    /\ Goto(t, "early")
    /\ UNCHANGED <<entries, batch_busy, evict_hand, interval>>

\* It gives up after three passes over the cache.
Wrapped(r) == r.max_hand = NoHand \/ r.free_hand < r.max_hand
CountPass(t) ==
    /\ At(t, "moved")
    /\ LET r == thread[t]
           n == IF Wrapped(r) THEN r.passes + 1 ELSE r.passes
       IN  IF n = MaxPasses THEN HandReturn(t)
           ELSE thread' = [thread EXCEPT ![t].passes = n, ![t].pc = "scan",
                                         ![t].max_hand = r.free_hand]
    /\ UNCHANGED <<entries, batch_busy, evict_hand, interval>>

-----------------------------------------------------------------------------
(* treepass_move_hand.                                                      *)

Evictable(e) == page[e] = "clean" /\ clock[e] = 0
Freed(es) == /\ page' = [e \in Entries |-> IF e \in es THEN "free" ELSE page[e]]
             /\ cold' = cold \ es

\* treepass_evict_batch_ee: cold pages of the batch go first, and it is kept.
EarlyEvict(t) ==
    LET es == {e \in EntriesOf(thread[t].free_hand) \cap cold : Evictable(e)}
    IN  /\ At(t, "early")
        /\ Freed(es)
        /\ Goto(t, IF es = {} THEN "release" ELSE "moved")
        /\ UNCHANGED <<clock, wbPasses, batch_busy, evict_hand, interval>>

ReleaseBatch(t) ==
    /\ At(t, "release")
    /\ SetBusy(thread[t].free_hand, FALSE)
    /\ Goto(t, "advance")
    /\ UNCHANGED <<entries, evict_hand, interval>>

AdvanceHand(t) ==
    /\ At(t, "advance")
    /\ evict_hand' = (evict_hand + 1) % batch_capacity
    /\ thread' = [thread EXCEPT ![t].hand = evict_hand', ![t].pc = "clean"]
    /\ UNCHANGED <<entries, batch_busy, interval>>

\* Clean the batch ahead, unless somebody has it.
TryClean(t) ==
    /\ At(t, "clean")
    /\ IF batch_busy[Ahead(t)]
       THEN Goto(t, "take") /\ UNCHANGED batch_busy
       ELSE Goto(t, "cleaning") /\ SetBusy(Ahead(t), TRUE)
    /\ UNCHANGED <<entries, evict_hand, interval>>

\* treepass_batch_start_writeback
Written(es, passes) ==
    /\ page' = [e \in Entries |-> IF e \in es THEN "writeback" ELSE page[e]]
    /\ wbPasses' = [e \in Entries |-> IF e \in es THEN passes ELSE wbPasses[e]]
Cleanable(e, passes) == page[e] = "dirty" /\ clock[e] <= passes

CleanBatch(t) ==
    /\ At(t, "cleaning")
    /\ Written({e \in EntriesOf(Ahead(t)) : Cleanable(e, thread[t].passes)},
               thread[t].passes)
    /\ SetBusy(Ahead(t), FALSE)
    /\ Goto(t, "take")
    /\ UNCHANGED <<clock, cold, evict_hand, interval>>

\* A mistake in TakeBatch: the hand goes on without looking.
TakeBatchAny(t) ==
    /\ At(t, "take")
    /\ Goto(t, "evict") /\ SetBusy(thread[t].hand, TRUE)
    /\ UNCHANGED <<entries, evict_hand, interval>>

\* The batch under the hand, or on to the next one.
TakeBatch(t) ==
    /\ At(t, "take")
    /\ IF batch_busy[thread[t].hand]
       THEN Goto(t, "advance") /\ UNCHANGED batch_busy
       ELSE Goto(t, "evict") /\ SetBusy(thread[t].hand, TRUE)
    /\ UNCHANGED <<entries, evict_hand, interval>>

-----------------------------------------------------------------------------
(* treepass_evict_batch.                                                    *)

\* treepass_try_evict of every entry: a page with a clock survives the sweep.
SweepBatch(b) ==
    LET es == EntriesOf(b)
    IN  /\ Freed({e \in es : Evictable(e)})
        /\ clock' = [e \in Entries |-> IF e \in es /\ clock[e] > 0
                                       THEN clock[e] - 1 ELSE clock[e]]
        /\ UNCHANGED wbPasses

EvictBatch(t) ==
    /\ At(t, "evict")
    /\ SweepBatch(thread[t].hand)
    /\ Goto(t, IF thread[t].passes = 0 THEN "count" ELSE "settle")
    /\ UNCHANGED <<batch_busy, evict_hand, interval>>

\* The thread whose batch completes a sweep of the cache measures it.
CountBatch(t) ==
    LET n == (evict_batches + 1) % NumBatchCounts
    IN  /\ At(t, "count")
        /\ evict_batches' = n
        /\ thread' = [thread EXCEPT
             ![t].cycle = n \div batch_capacity,
             ![t].pc = IF n % batch_capacity = 0 /\ n > 0 THEN "measure"
                                                          ELSE "settle"]
        /\ UNCHANGED <<entries, batch_busy, evict_hand, last_ei_check_cycle,
                       evict_interval, last_cycle_ts>>

ReadCycle(t) ==
    /\ At(t, "measure")
    /\ thread' = [thread EXCEPT
         ![t].expected = last_ei_check_cycle,
         ![t].pc = IF last_ei_check_cycle >= thread[t].cycle THEN "settle"
                                                             ELSE "sample"]
    /\ UNCHANGED <<entries, batch_busy, evict_hand, interval>>

\* The interval is read some time before it is written ...
Sample(t) ==
    /\ At(t, "sample")
    /\ thread' = [thread EXCEPT ![t].ei = evict_interval, ![t].pc = "elect"]
    /\ UNCHANGED <<entries, batch_busy, evict_hand, interval>>

\* ... unless another thread has left a later timestamp than this one took.
SampleIsLate(t) ==
    /\ At(t, "sample")
    /\ last_cycle_ts > 0
    /\ Goto(t, "settle")
    /\ UNCHANGED <<entries, batch_busy, evict_hand, interval>>


\* The compare-and-swap drops the update of a thread that was overtaken.
Elect(t) ==
    /\ At(t, "elect")
    /\ IF last_ei_check_cycle = thread[t].expected
       THEN last_ei_check_cycle' = thread[t].cycle /\ Goto(t, "store")
       ELSE UNCHANGED last_ei_check_cycle /\ Goto(t, "settle")
    /\ UNCHANGED <<entries, batch_busy, evict_hand, evict_batches,
                   evict_interval, last_cycle_ts>>

\* The sweeps an update stands for: since the last one it knows of.
SweepsOf(r) == r.expected + 1 .. r.cycle

\* The average of those sweeps and of the interval read (or the first guess).
StoreInterval(t) ==
    /\ At(t, "store")
    /\ evict_interval' = thread[t].ei \cup SweepsOf(thread[t])
    /\ Goto(t, "stamp")
    /\ UNCHANGED <<entries, batch_busy, evict_hand, evict_batches,
                   last_ei_check_cycle, last_cycle_ts>>

StoreTimestamp(t) ==
    /\ At(t, "stamp")
    /\ last_cycle_ts' = thread[t].cycle
    /\ Goto(t, "settle")
    /\ UNCHANGED <<entries, batch_busy, evict_hand, evict_batches,
                   last_ei_check_cycle, evict_interval>>

UpdateInterval(t) == \/ ReadCycle(t) \/ Sample(t) \/ SampleIsLate(t)
                     \/ Elect(t) \/ StoreInterval(t) \/ StoreTimestamp(t)

\* treepass_move_hand returns; the first batch of a thread is scanned at once.
Settle(t) ==
    /\ At(t, "settle")
    /\ thread' = [thread EXCEPT
         ![t].free_hand = thread[t].hand, ![t].hand = NoHand,
         ![t].cycle = 0, ![t].expected = 0, ![t].ei = {},
         ![t].pc = IF thread[t].free_hand = NoHand THEN "scan" ELSE "moved"]
    /\ UNCHANGED <<entries, batch_busy, evict_hand, interval>>

-----------------------------------------------------------------------------
(* treepass_flush, then treepass_evict_all, when nobody uses the cache.     *)

Flush(t) ==
    /\ \A u \in HandThreads : At(u, "idle")
    /\ \A e \in Entries : page[e] \notin {"held", "writeback"}
    /\ Written({e \in Entries : Cleanable(e, HandClockMax)}, HandClockMax)
    /\ Goto(t, "flush")
    /\ UNCHANGED <<clock, cold, batch_busy, evict_hand, interval>>

Rounds == HandClockMax + 1

StartEvictAll(t) ==
    /\ At(t, "flush")
    /\ \A e \in Entries : page[e] # "writeback"
    /\ thread' = [thread EXCEPT ![t].pc = "empty", ![t].hand = 0,
                                ![t].round = 0]
    /\ UNCHANGED <<entries, batch_busy, evict_hand, interval>>

EvictAll(t) ==
    LET r == thread[t]
        last == r.round + 1 = Rounds
    IN  /\ At(t, "empty")
        /\ SweepBatch(r.hand)
        /\ thread' = [thread EXCEPT
             ![t].round = IF last THEN 0 ELSE r.round + 1,
             ![t].hand = IF last THEN (r.hand + 1) % batch_capacity ELSE r.hand,
             ![t].pc = IF last /\ r.hand + 1 = batch_capacity THEN "emptied"
                                                              ELSE "empty"]
        /\ UNCHANGED <<batch_busy, evict_hand, interval>>

Reopen(t) ==
    /\ At(t, "emptied")
    /\ HandReturn(t)
    /\ UNCHANGED <<entries, batch_busy, evict_hand, interval>>

-----------------------------------------------------------------------------
MoveHand(t) == \/ EarlyEvict(t) \/ ReleaseBatch(t) \/ AdvanceHand(t)
               \/ TryClean(t) \/ CleanBatch(t) \/ TakeBatch(t) \/ EvictBatch(t)
               \/ CountBatch(t) \/ UpdateInterval(t) \/ Settle(t)

HandNext ==
    \/ \E t \in HandThreads :
         \/ GetFreePage(t) \/ NoFreeEntry(t) \/ CountPass(t)
         \/ \E e \in Entries : TakeEntry(t, e)
         \/ MoveHand(t)
         \/ Flush(t) \/ StartEvictAll(t) \/ EvictAll(t) \/ Reopen(t)
    \/ \E e \in Entries :
         \/ Use(e) \/ WriteDone(e)
         \/ \E use \in Uses : GiveBack(e, use)

HandSpec == HandInit /\ [][HandNext]_handVars

-----------------------------------------------------------------------------
\* The batches a thread has to itself: its own, the one it cleans ahead, the
\* one it has just taken.
OwnedBatches(t) ==
    LET r == thread[t]
    IN  CASE r.pc \in {"release", "advance", "clean", "take"} ->
               IF r.pc = "release" THEN {r.free_hand} ELSE {}
          [] r.pc = "cleaning" -> {Ahead(t)}
          [] r.pc \in {"evict", "count", "measure", "sample", "elect", "store",
                       "stamp", "settle"} -> {r.hand}
          [] OTHER -> IF r.free_hand = NoHand THEN {} ELSE {r.free_hand}

(* No two threads sweep, clean or scan the same batch, and a batch is busy  *)
(* only if somebody has it: what treepass_move_hand asserts when it gives   *)
(* a batch back (treepass.c:1552 and 1564).                                 *)
BatchesAreExclusive ==
    /\ \A t, u \in HandThreads : t # u => OwnedBatches(t) \cap OwnedBatches(u) = {}
    /\ {b \in Batches : batch_busy[b]} = UNION {OwnedBatches(t) : t \in HandThreads}

(* No sweep is averaged into the eviction interval twice: what an update    *)
(* that has won the compare-and-swap adds is not in the interval it has     *)
(* read, not part of another update that has still to be stored, and later  *)
(* ones start from there (treepass.c:1508), although the interval is read   *)
(* before the compare-and-swap and written after it.                        *)
SweepsCountedOnce ==
    /\ evict_interval \subseteq 1 .. last_ei_check_cycle
    /\ \A t \in HandThreads : At(t, "store") =>
         /\ SweepsOf(thread[t]) \subseteq 1 .. last_ei_check_cycle
         /\ SweepsOf(thread[t]) \cap thread[t].ei = {}
         /\ \A u \in HandThreads \ {t} : At(u, "store") =>
              SweepsOf(thread[t]) \cap SweepsOf(thread[u]) = {}

(* treepass.c:1508 says the compare-and-swap "ensures exactly one EI update *)
(* per cycle": when no update is under way, every sweep that was elected is *)
(* in the interval, and the timestamp is that of the last one.              *)
EverySweepAveraged ==
    (\A t \in HandThreads : thread[t].pc \notin {"store", "stamp"}) =>
        /\ evict_interval = 1 .. last_ei_check_cycle
        /\ last_cycle_ts = last_ei_check_cycle

(* treepass_flush and treepass_evict_all leave no page in the cache,        *)
(* whatever its clock was (treepass.c:1726).                                *)
EmptiedIsEmpty ==
    (\E t \in HandThreads : At(t, "emptied")) => \A e \in Entries : page[e] = "free"
=============================================================================
