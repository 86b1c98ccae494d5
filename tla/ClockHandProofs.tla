-------------------------- MODULE ClockHandProofs --------------------------
(* The clock hand for any number of threads, batches and entries.           *)
(*                                                                          *)
(* Batches: a step either leaves the batches of its thread alone, takes one *)
(* that was not busy or gives one back (OwnersKept, OwnersTake,             *)
(* OwnersGive), so that what is busy is always somebody's, and one's only.  *)
(* The interval: the compare-and-swap lets an update through only if nobody *)
(* has updated since it read the cycle, so that the interval it read, later *)
(* than that, has no sweep of its own in it, and the updates let through    *)
(* before it are all for earlier sweeps (UpdatesAdvance).  Emptying: the    *)
(* batches behind the hand of treepass_evict_all are empty, and no page of  *)
(* the batch under it has more sweeps to live than are left (Emptying).     *)
EXTENDS ClockHand, TLAPS

HandLabels == {"idle", "scan", "early", "moved", "release", "advance", "clean",
               "cleaning", "take", "evict", "count", "measure", "sample",
               "elect", "store", "stamp", "settle", "flush", "empty", "emptied"}
MaybeBatch == Batches \cup {NoHand}
ThreadState == [pc : HandLabels, free_hand : MaybeBatch, hand : MaybeBatch,
                passes : Nat, max_hand : MaybeBatch, cycle : Nat,
                expected : Nat, ei : SUBSET Nat, round : Nat]

\* The type of every variable.
HandTypeOK ==
    /\ page \in [Entries -> {"free", "clean", "dirty", "writeback", "held"}]
    /\ clock \in [Entries -> 0 .. HandClockMax]
    /\ cold \subseteq Entries
    /\ wbPasses \in [Entries -> Nat]
    /\ batch_busy \in [Batches -> BOOLEAN]
    /\ evict_hand \in Batches
    /\ thread \in [HandThreads -> ThreadState]
    /\ evict_batches \in Nat
    /\ last_ei_check_cycle \in Nat
    /\ evict_interval \subseteq Nat
    /\ last_cycle_ts \in Nat

\* Where a thread has a batch of its own or one under its hand.
HandsAreSet ==
    \A t \in HandThreads :
        /\ thread[t].pc \in {"scan", "early", "moved", "release"} =>
             thread[t].free_hand \in Batches
        /\ thread[t].pc \in {"clean", "cleaning", "take", "evict", "count",
                             "measure", "sample", "elect", "store", "stamp",
                             "settle", "empty"} =>
             thread[t].hand \in Batches

\* The update of a thread whose record is r goes forward: from the sweeps in
\* the interval it has read, and past the last sweep that anybody has elected.
Advances(r, last) ==
    /\ r.pc \in {"sample", "elect", "store"} => r.expected < r.cycle
    /\ r.pc = "elect" => r.ei \subseteq 1 .. last
    /\ r.pc = "store" => r.ei \subseteq 1 .. r.expected /\ r.cycle <= last

\* ... and one of two updates is for the earlier sweeps.
UpdatesAdvance ==
    /\ evict_interval \subseteq 1 .. last_ei_check_cycle
    /\ \A t \in HandThreads : Advances(thread[t], last_ei_check_cycle)
    /\ \A t, u \in HandThreads :
         t # u /\ thread[t].pc = "store" /\ thread[u].pc = "store" =>
           \/ thread[t].cycle <= thread[u].expected
           \/ thread[u].cycle <= thread[t].expected

-----------------------------------------------------------------------------
\* The batches that are busy are those of exactly one thread.
Exclusive(own, busy) ==
    /\ \A t \in HandThreads : own[t] \subseteq Batches
    /\ \A t, u \in HandThreads : t # u => own[t] \cap own[u] = {}
    /\ \A b \in Batches : busy[b] <=> \E t \in HandThreads : b \in own[t]

owners == [t \in HandThreads |-> OwnedBatches(t)]

\* What a thread takes was not busy ...
LEMMA TakingIsExclusive ==
    ASSUME NEW own, NEW own2, NEW busy \in [Batches -> BOOLEAN], NEW busy2,
           NEW t \in HandThreads, NEW b \in Batches,
           Exclusive(own, busy), busy[b] = FALSE,
           own[t] = {}, own2[t] = {b},
           \A u \in HandThreads \ {t} : own2[u] = own[u],
           busy2 = [busy EXCEPT ![b] = TRUE]
    PROVE  Exclusive(own2, busy2)
  BY DEF Exclusive

\* ... and what it gives back is its own.
LEMMA GivingIsExclusive ==
    ASSUME NEW own, NEW own2, NEW busy \in [Batches -> BOOLEAN], NEW busy2,
           NEW t \in HandThreads, NEW b \in Batches,
           Exclusive(own, busy),
           own[t] = {b}, own2[t] = {},
           \A u \in HandThreads \ {t} : own2[u] = own[u],
           busy2 = [busy EXCEPT ![b] = FALSE]
    PROVE  Exclusive(own2, busy2)
  BY DEF Exclusive

\* A number modulo the number of batches is a batch.
LEMMA ModuloIsBatch ==
    ASSUME HandAssumption, NEW n \in Nat
    PROVE  n % batch_capacity \in Batches
  BY DEF HandAssumption, Batches

\* The batch of an entry.
LEMMA EntryHasBatch ==
    ASSUME HandAssumption, NEW e \in Entries
    PROVE  e \div EntriesPerBatch \in Batches
  <1>1. /\ EntriesPerBatch \in Nat /\ EntriesPerBatch > 0
        /\ batch_capacity \in Nat /\ batch_capacity > 0
        /\ e \in Nat /\ e < batch_capacity * EntriesPerBatch
    BY DEF HandAssumption, Entries
  <1> DEFINE q == e \div EntriesPerBatch
  <1>2. q \in Nat /\ EntriesPerBatch * q <= e
    BY <1>1
  <1>3. ASSUME q >= batch_capacity PROVE FALSE
    <2> HIDE DEF q
    <2>1. EntriesPerBatch * q >= EntriesPerBatch * batch_capacity
      BY <1>1, <1>2, <1>3
    <2> QED BY <1>1, <1>2, <2>1
  <1> QED BY <1>1, <1>2, <1>3 DEF Batches


\* The batch the cleaner works on.
LEMMA AheadIsBatch ==
    ASSUME HandAssumption, NEW t, thread[t].hand \in Batches
    PROVE  Ahead(t) \in Batches
  BY DEF Ahead, HandAssumption, Batches

-----------------------------------------------------------------------------
(* What a step does to the thread that takes it.                            *)

\* The thread goes on at label, with the batches fh and h; the others stay.
Moves(t, label, fh, h) ==
    /\ thread' \in [HandThreads -> ThreadState]
    /\ \A u \in HandThreads \ {t} : thread'[u] = thread[u]
    /\ thread'[t].pc = label
    /\ thread'[t].free_hand = fh
    /\ thread'[t].hand = h

\* A step that sets the thread's record to r is a move.
LEMMA SettingMoves ==
    ASSUME thread \in [HandThreads -> ThreadState], NEW t \in HandThreads,
           NEW r \in ThreadState, thread' = [thread EXCEPT ![t] = r]
    PROVE  Moves(t, r.pc, r.free_hand, r.hand) /\ thread'[t] = r
  BY DEF Moves

\* Goto only moves the program counter.
LEMMA GotoMoves ==
    ASSUME thread \in [HandThreads -> ThreadState], NEW t \in HandThreads,
           NEW label \in HandLabels, Goto(t, label)
    PROVE  /\ Moves(t, label, thread[t].free_hand, thread[t].hand)
           /\ thread'[t] = [thread[t] EXCEPT !.pc = label]
  <1> DEFINE r == [thread[t] EXCEPT !.pc = label]
  <1>1. r \in ThreadState /\ r.pc = label /\ r.free_hand = thread[t].free_hand
        /\ r.hand = thread[t].hand
    BY DEF ThreadState
  <1>2. thread' = [thread EXCEPT ![t] = r]
    BY DEF Goto
  <1> HIDE DEF r
  <1>3. Moves(t, r.pc, r.free_hand, r.hand) /\ thread'[t] = r
    BY <1>1, <1>2, SettingMoves
  <1> QED BY <1>1, <1>3 DEF r

\* A call that ends keeps the batch of the thread.
LEMMA ReturnMoves ==
    ASSUME thread \in [HandThreads -> ThreadState], NEW t \in HandThreads,
           HandReturn(t)
    PROVE  Moves(t, "idle", thread[t].free_hand, NoHand)
  <1> DEFINE r == [NewThread EXCEPT !.free_hand = thread[t].free_hand]
  <1>1. r \in ThreadState /\ r.pc = "idle" /\ r.free_hand = thread[t].free_hand
        /\ r.hand = NoHand
    BY DEF ThreadState, NewThread, MaybeBatch, HandLabels
  <1>2. thread' = [thread EXCEPT ![t] = r]
    BY DEF HandReturn
  <1> HIDE DEF r
  <1>3. Moves(t, r.pc, r.free_hand, r.hand)
    BY <1>1, <1>2, SettingMoves
  <1> QED BY <1>1, <1>3

\* A call begins in the batch the thread has, or has to find one.
LEMMA GetFreePageMoves ==
    ASSUME HandTypeOK, NEW t \in HandThreads, GetFreePage(t)
    PROVE  LET fh == thread[t].free_hand
           IN  Moves(t, IF fh = NoHand THEN "advance" ELSE "scan", fh, thread[t].hand)
  <1> DEFINE l == IF thread[t].free_hand = NoHand THEN "advance" ELSE "scan"
             r == [thread[t] EXCEPT !.passes = 0, !.max_hand = thread[t].free_hand,
                                    !.pc = l]
  <1>1. thread[t] \in ThreadState /\ l \in HandLabels
    BY DEF HandTypeOK, HandLabels
  <1>2. thread' = [thread EXCEPT ![t] = r]
    BY DEF GetFreePage, HandTypeOK
  <1> HIDE DEF l
  <1>3. r \in ThreadState /\ r.pc = l /\ r.free_hand = thread[t].free_hand
        /\ r.hand = thread[t].hand
    BY <1>1 DEF ThreadState
  <1> HIDE DEF r
  <1>4. Moves(t, r.pc, r.free_hand, r.hand)
    BY <1>2, <1>3, SettingMoves DEF HandTypeOK
  <1> QED BY <1>3, <1>4 DEF l

\* The end of a batch: the call gives up, or goes round once more.
LEMMA CountPassMoves ==
    ASSUME HandTypeOK, HandsAreSet, NEW t \in HandThreads, CountPass(t)
    PROVE  \/ Moves(t, "idle", thread[t].free_hand, NoHand)
           \/ Moves(t, "scan", thread[t].free_hand, thread[t].hand)
  <1> DEFINE n == IF Wrapped(thread[t]) THEN thread[t].passes + 1
                                        ELSE thread[t].passes
             r == [thread[t] EXCEPT !.passes = n, !.pc = "scan",
                                    !.max_hand = thread[t].free_hand]
  <1>1. thread[t] \in ThreadState /\ n \in Nat
    BY DEF HandTypeOK, ThreadState
  <1>2. CASE n = MaxPasses
    BY <1>2, ReturnMoves DEF CountPass, HandTypeOK
  <1>3. CASE n # MaxPasses
    <2>1. thread' = [thread EXCEPT ![t] = r]
      BY <1>3 DEF CountPass, HandTypeOK
    <2> HIDE DEF n
    <2>2. r \in ThreadState /\ r.pc = "scan" /\ r.free_hand = thread[t].free_hand
          /\ r.hand = thread[t].hand
      BY <1>1 DEF ThreadState, HandLabels
    <2> HIDE DEF r
    <2>3. Moves(t, r.pc, r.free_hand, r.hand)
      BY <2>1, <2>2, SettingMoves DEF HandTypeOK
    <2> QED BY <2>2, <2>3
  <1> QED BY <1>2, <1>3

\* The hand of all threads moves on by a batch, which is always one.
LEMMA AdvanceHandMoves ==
    ASSUME HandAssumption, HandTypeOK, NEW t \in HandThreads, AdvanceHand(t)
    PROVE  /\ evict_hand' \in Batches
           /\ Moves(t, "clean", thread[t].free_hand, evict_hand')
  <1> DEFINE r == [thread[t] EXCEPT !.hand = evict_hand', !.pc = "clean"]
  <1>1. thread[t] \in ThreadState
    BY DEF HandTypeOK
  <1>2. evict_hand' \in Batches
    BY ModuloIsBatch DEF AdvanceHand, HandTypeOK, Batches
  <1>3. thread' = [thread EXCEPT ![t] = r]
    BY DEF AdvanceHand, HandTypeOK
  <1>4. r \in ThreadState /\ r.pc = "clean" /\ r.free_hand = thread[t].free_hand
        /\ r.hand = evict_hand'
    BY <1>1, <1>2 DEF ThreadState, HandLabels, MaybeBatch
  <1> HIDE DEF r
  <1>5. Moves(t, r.pc, r.free_hand, r.hand)
    BY <1>3, <1>4, SettingMoves DEF HandTypeOK
  <1> QED BY <1>2, <1>4, <1>5

\* A batch is counted, and after a whole sweep the interval is measured.
LEMMA CountBatchMoves ==
    ASSUME HandAssumption, HandTypeOK, NEW t \in HandThreads, CountBatch(t)
    PROVE  \E l \in {"measure", "settle"} :
               Moves(t, l, thread[t].free_hand, thread[t].hand)
  <1> DEFINE n == (evict_batches + 1) % NumBatchCounts
             c == n \div batch_capacity
             l == IF n % batch_capacity = 0 /\ n > 0 THEN "measure" ELSE "settle"
             r == [thread[t] EXCEPT !.cycle = c, !.pc = l]
  <1>1. thread[t] \in ThreadState
    BY DEF HandTypeOK
  <1>2. n \in Nat
    BY DEF HandTypeOK, HandAssumption
  <1>3. thread' = [thread EXCEPT ![t] = r]
    BY DEF CountBatch, HandTypeOK
  <1> HIDE DEF n
  <1>4. c \in Nat /\ l \in {"measure", "settle"}
    BY <1>2 DEF HandAssumption
  <1> HIDE DEF c, l
  <1>5. r \in ThreadState /\ r.pc = l /\ r.free_hand = thread[t].free_hand
        /\ r.hand = thread[t].hand
    BY <1>1, <1>4 DEF ThreadState, HandLabels
  <1> HIDE DEF r
  <1>6. Moves(t, r.pc, r.free_hand, r.hand)
    BY <1>3, <1>5, SettingMoves DEF HandTypeOK
  <1> QED BY <1>4, <1>5, <1>6

\* Only a thread that has seen an older cycle goes on to update it.
LEMMA ReadCycleMoves ==
    ASSUME HandTypeOK, NEW t \in HandThreads, ReadCycle(t)
    PROVE  \E l \in {"sample", "settle"} :
               /\ Moves(t, l, thread[t].free_hand, thread[t].hand)
               /\ l = "sample" => thread'[t].expected < thread'[t].cycle
  <1> DEFINE l == IF last_ei_check_cycle >= thread[t].cycle THEN "settle" ELSE "sample"
             r == [thread[t] EXCEPT !.expected = last_ei_check_cycle, !.pc = l]
  <1>1. thread[t] \in ThreadState /\ last_ei_check_cycle \in Nat
        /\ thread[t].cycle \in Nat
    BY DEF HandTypeOK, ThreadState
  <1>2. thread' = [thread EXCEPT ![t] = r]
    BY DEF ReadCycle, HandTypeOK
  <1>3. /\ l \in {"sample", "settle"}
        /\ l = "sample" => last_ei_check_cycle < thread[t].cycle
    BY <1>1
  <1> HIDE DEF l
  <1>4. r \in ThreadState /\ r.pc = l /\ r.free_hand = thread[t].free_hand
        /\ r.hand = thread[t].hand /\ r.expected = last_ei_check_cycle
        /\ r.cycle = thread[t].cycle
    BY <1>1, <1>3 DEF ThreadState, HandLabels
  <1> HIDE DEF r
  <1>5. Moves(t, r.pc, r.free_hand, r.hand) /\ thread'[t] = r
    BY <1>2, <1>4, SettingMoves DEF HandTypeOK
  <1> QED BY <1>3, <1>4, <1>5

\* The interval is read.
LEMMA SampleMoves ==
    ASSUME HandTypeOK, NEW t \in HandThreads, Sample(t)
    PROVE  /\ Moves(t, "elect", thread[t].free_hand, thread[t].hand)
           /\ thread'[t].ei = evict_interval
           /\ thread'[t].expected = thread[t].expected
           /\ thread'[t].cycle = thread[t].cycle
  <1> DEFINE r == [thread[t] EXCEPT !.ei = evict_interval, !.pc = "elect"]
  <1>1. thread[t] \in ThreadState /\ evict_interval \subseteq Nat
    BY DEF HandTypeOK
  <1>2. thread' = [thread EXCEPT ![t] = r]
    BY DEF Sample, HandTypeOK
  <1>3. r \in ThreadState /\ r.pc = "elect" /\ r.free_hand = thread[t].free_hand
        /\ r.hand = thread[t].hand /\ r.ei = evict_interval
        /\ r.expected = thread[t].expected /\ r.cycle = thread[t].cycle
    BY <1>1 DEF ThreadState, HandLabels
  <1> HIDE DEF r
  <1>4. Moves(t, r.pc, r.free_hand, r.hand) /\ thread'[t] = r
    BY <1>2, <1>3, SettingMoves DEF HandTypeOK
  <1> QED BY <1>3, <1>4

\* The steps of an update keep the batch under the hand.
LEMMA UpdateMoves ==
    ASSUME HandTypeOK, NEW t \in HandThreads, UpdateInterval(t)
    PROVE  /\ thread[t].pc \in {"measure", "sample", "elect", "store", "stamp"}
           /\ batch_busy' = batch_busy
           /\ \E l \in {"sample", "elect", "store", "stamp", "settle"} :
                Moves(t, l, thread[t].free_hand, thread[t].hand)
  <1>0. thread \in [HandThreads -> ThreadState]
    BY DEF HandTypeOK
  <1>1. CASE ReadCycle(t)
    BY <1>1, ReadCycleMoves DEF ReadCycle, At
  <1>2. CASE Sample(t)
    BY <1>2, SampleMoves DEF Sample, At
  <1>3. CASE SampleIsLate(t) \/ Elect(t) \/ StoreInterval(t) \/ StoreTimestamp(t)
    <2>1. \E l \in HandLabels : /\ l \in {"store", "stamp", "settle"}
                                /\ Goto(t, l)
      BY <1>3 DEF SampleIsLate, Elect, StoreInterval, StoreTimestamp, HandLabels
    <2>2. \E l \in {"store", "stamp", "settle"} :
              Moves(t, l, thread[t].free_hand, thread[t].hand)
      BY <1>0, <2>1, GotoMoves
    <2> QED
      BY <1>3, <2>2 DEF SampleIsLate, Elect, StoreInterval, StoreTimestamp, At
  <1> QED BY <1>1, <1>2, <1>3 DEF UpdateInterval

\* The batch that was evicted becomes the one the thread takes from.
LEMMA SettleMoves ==
    ASSUME HandTypeOK, NEW t \in HandThreads, Settle(t)
    PROVE  \E l \in {"scan", "moved"} : Moves(t, l, thread[t].hand, NoHand)
  <1> DEFINE l == IF thread[t].free_hand = NoHand THEN "scan" ELSE "moved"
             r == [thread[t] EXCEPT !.free_hand = thread[t].hand, !.hand = NoHand,
                                    !.cycle = 0, !.expected = 0, !.ei = {},
                                    !.pc = l]
  <1>1. thread[t] \in ThreadState /\ l \in {"scan", "moved"}
    BY DEF HandTypeOK
  <1>2. thread' = [thread EXCEPT ![t] = r]
    BY DEF Settle, HandTypeOK
  <1> HIDE DEF l
  <1>3. r \in ThreadState /\ r.pc = l /\ r.free_hand = thread[t].hand
        /\ r.hand = NoHand
    BY <1>1 DEF ThreadState, HandLabels, MaybeBatch
  <1> HIDE DEF r
  <1>4. Moves(t, r.pc, r.free_hand, r.hand)
    BY <1>2, <1>3, SettingMoves DEF HandTypeOK
  <1> QED BY <1>1, <1>3, <1>4

\* Emptying begins with the first batch.
LEMMA StartEvictAllMoves ==
    ASSUME HandAssumption, HandTypeOK, NEW t \in HandThreads, StartEvictAll(t)
    PROVE  /\ 0 \in Batches
           /\ Moves(t, "empty", thread[t].free_hand, 0)
           /\ thread'[t].round = 0
  <1> DEFINE r == [thread[t] EXCEPT !.pc = "empty", !.hand = 0, !.round = 0]
  <1>1. thread[t] \in ThreadState
    BY DEF HandTypeOK
  <1>2. 0 \in Batches
    BY DEF HandAssumption, Batches
  <1>3. thread' = [thread EXCEPT ![t] = r]
    BY DEF StartEvictAll, HandTypeOK
  <1>4. r \in ThreadState /\ r.pc = "empty" /\ r.free_hand = thread[t].free_hand
        /\ r.hand = 0 /\ r.round = 0
    BY <1>1, <1>2 DEF ThreadState, HandLabels, MaybeBatch
  <1> HIDE DEF r
  <1>5. Moves(t, r.pc, r.free_hand, r.hand) /\ thread'[t] = r
    BY <1>3, <1>4, SettingMoves DEF HandTypeOK
  <1> QED BY <1>2, <1>4, <1>5

\* A sweep of treepass_evict_all is the last of its batch, or not.
LEMMA EvictAllMoves ==
    ASSUME HandAssumption, HandTypeOK, HandsAreSet, NEW t \in HandThreads,
           EvictAll(t)
    PROVE  /\ thread[t].hand \in Batches
           /\ \/ /\ thread[t].round + 1 # Rounds
                 /\ Moves(t, "empty", thread[t].free_hand, thread[t].hand)
                 /\ thread'[t].round = thread[t].round + 1
              \/ /\ thread[t].round + 1 = Rounds
                 /\ thread[t].hand + 1 # batch_capacity
                 /\ thread[t].hand + 1 \in Batches
                 /\ Moves(t, "empty", thread[t].free_hand, thread[t].hand + 1)
                 /\ thread'[t].round = 0
              \/ /\ thread[t].round + 1 = Rounds
                 /\ thread[t].hand + 1 = batch_capacity
                 /\ Moves(t, "emptied", thread[t].free_hand, 0)
  <1> DEFINE s == thread[t]
             r1 == [s EXCEPT !.round = s.round + 1, !.hand = s.hand, !.pc = "empty"]
             r2 == [s EXCEPT !.round = 0, !.hand = s.hand + 1, !.pc = "empty"]
             r3 == [s EXCEPT !.round = 0, !.hand = 0, !.pc = "emptied"]
  <1>1. s \in ThreadState /\ s.hand \in Batches /\ s.round + 1 \in Nat
    BY DEF HandTypeOK, HandsAreSet, EvictAll, At, ThreadState
  <1>2. CASE s.round + 1 # Rounds
    <2>1. thread' = [thread EXCEPT ![t] = r1]
      BY <1>2 DEF EvictAll, HandTypeOK
    <2>2. r1 \in ThreadState /\ r1.pc = "empty" /\ r1.free_hand = s.free_hand
          /\ r1.hand = s.hand /\ r1.round = s.round + 1
      BY <1>1 DEF ThreadState, HandLabels, MaybeBatch
    <2> HIDE DEF r1
    <2>3. Moves(t, r1.pc, r1.free_hand, r1.hand) /\ thread'[t] = r1
      BY <2>1, <2>2, SettingMoves DEF HandTypeOK
    <2> QED BY <1>1, <1>2, <2>2, <2>3
  <1>3. CASE s.round + 1 = Rounds /\ s.hand + 1 # batch_capacity
    <2>1. (s.hand + 1) % batch_capacity = s.hand + 1 /\ s.hand + 1 \in Batches
      BY <1>1, <1>3 DEF HandAssumption, Batches
    <2>2. thread' = [thread EXCEPT ![t] = r2]
      BY <1>3, <2>1 DEF EvictAll, HandTypeOK
    <2>3. r2 \in ThreadState /\ r2.pc = "empty" /\ r2.free_hand = s.free_hand
          /\ r2.hand = s.hand + 1 /\ r2.round = 0
      BY <1>1, <2>1 DEF ThreadState, HandLabels, MaybeBatch
    <2> HIDE DEF r2
    <2>4. Moves(t, r2.pc, r2.free_hand, r2.hand) /\ thread'[t] = r2
      BY <2>2, <2>3, SettingMoves DEF HandTypeOK
    <2> QED BY <1>1, <1>3, <2>1, <2>3, <2>4
  <1>4. CASE s.round + 1 = Rounds /\ s.hand + 1 = batch_capacity
    <2>1. (s.hand + 1) % batch_capacity = 0 /\ 0 \in Batches
      BY <1>1, <1>4 DEF HandAssumption, Batches
    <2>2. thread' = [thread EXCEPT ![t] = r3]
      BY <1>4, <2>1 DEF EvictAll, HandTypeOK
    <2>3. r3 \in ThreadState /\ r3.pc = "emptied" /\ r3.free_hand = s.free_hand
          /\ r3.hand = 0
      BY <1>1, <2>1 DEF ThreadState, HandLabels, MaybeBatch
    <2> HIDE DEF r3
    <2>4. Moves(t, r3.pc, r3.free_hand, r3.hand)
      BY <2>2, <2>3, SettingMoves DEF HandTypeOK
    <2> QED BY <1>1, <1>4, <2>1, <2>3, <2>4
  <1> QED BY <1>2, <1>3, <1>4

-----------------------------------------------------------------------------
(* Who has which batch after a step.                                        *)

\* The batches of a thread by its label, as OwnedBatches has it.
LEMMA OwnedAt ==
    ASSUME NEW t
    PROVE  LET r == thread[t]
           IN  /\ r.pc \in {"advance", "clean", "take"} => OwnedBatches(t) = {}
               /\ r.pc = "release" => OwnedBatches(t) = {r.free_hand}
               /\ r.pc = "cleaning" => OwnedBatches(t) = {Ahead(t)}
               /\ r.pc \in {"evict", "count", "measure", "sample", "elect",
                            "store", "stamp", "settle"} =>
                    OwnedBatches(t) = {r.hand}
               /\ r.pc \in {"idle", "scan", "early", "moved", "flush", "empty",
                            "emptied"} =>
                    OwnedBatches(t) = IF r.free_hand = NoHand THEN {} ELSE {r.free_hand}
  BY DEF OwnedBatches

\* The same of the state after a step.
LEMMA OwnedAfter ==
    ASSUME NEW t
    PROVE  LET r == thread'[t]
           IN  /\ r.pc \in {"advance", "clean", "take"} => OwnedBatches(t)' = {}
               /\ r.pc = "release" => OwnedBatches(t)' = {r.free_hand}
               /\ r.pc = "cleaning" => OwnedBatches(t)' = {Ahead(t)'}
               /\ r.pc \in {"evict", "count", "measure", "sample", "elect",
                            "store", "stamp", "settle"} =>
                    OwnedBatches(t)' = {r.hand}
               /\ r.pc \in {"idle", "scan", "early", "moved", "flush", "empty",
                            "emptied"} =>
                    OwnedBatches(t)' = IF r.free_hand = NoHand THEN {} ELSE {r.free_hand}
  BY DEF OwnedBatches

Resting == {"idle", "scan", "early", "moved", "flush", "empty", "emptied"}
Holding == {"evict", "count", "measure", "sample", "elect", "store", "stamp",
            "settle"}
Without == {"advance", "clean", "take"}

\* A move between labels of one kind keeps what the thread has.
LEMMA OwnedKept ==
    ASSUME NEW t, NEW l, NEW fh, NEW h, Moves(t, l, fh, h),
           \/ thread[t].pc \in Resting /\ l \in Resting /\ fh = thread[t].free_hand
           \/ thread[t].pc \in Holding /\ l \in Holding /\ h = thread[t].hand
           \/ thread[t].pc \in Without /\ l \in Without
    PROVE  OwnedBatches(t)' = OwnedBatches(t)
  <1> USE DEF Resting, Holding, Without
  <1>1. thread'[t].pc = l /\ thread'[t].free_hand = fh /\ thread'[t].hand = h
    BY DEF Moves
  <1>2. CASE thread[t].pc \in Resting /\ l \in Resting /\ fh = thread[t].free_hand
    BY <1>1, <1>2, OwnedAt, OwnedAfter
  <1>3. CASE thread[t].pc \in Holding /\ l \in Holding /\ h = thread[t].hand
    BY <1>1, <1>3, OwnedAt, OwnedAfter
  <1>4. CASE thread[t].pc \in Without /\ l \in Without
    BY <1>1, <1>4, OwnedAt, OwnedAfter
  <1> QED BY <1>2, <1>3, <1>4

\* The threads that did not move have what they had.
LEMMA OthersOwn ==
    ASSUME NEW t \in HandThreads, NEW l, NEW fh, NEW h, Moves(t, l, fh, h)
    PROVE  \A u \in HandThreads \ {t} : OwnedBatches(u)' = OwnedBatches(u)
  BY DEF Moves, OwnedBatches, Ahead

\* A step that changes no ownership and no busy flag.
LEMMA OwnersKept ==
    ASSUME NEW t \in HandThreads, NEW l, NEW fh, NEW h, Moves(t, l, fh, h),
           Exclusive(owners, batch_busy), OwnedBatches(t)' = OwnedBatches(t),
           batch_busy' = batch_busy
    PROVE  Exclusive(owners, batch_busy)'
  <1>1. \A u \in HandThreads : OwnedBatches(u)' = OwnedBatches(u)
    BY OthersOwn
  <1>2. owners' = owners
    BY <1>1 DEF owners
  <1> QED BY <1>2 DEF Exclusive

\* A step that takes a batch that was not busy.
LEMMA OwnersTake ==
    ASSUME NEW t \in HandThreads, NEW l, NEW fh, NEW h, Moves(t, l, fh, h),
           NEW b \in Batches, HandTypeOK,
           Exclusive(owners, batch_busy), ~batch_busy[b],
           OwnedBatches(t) = {}, OwnedBatches(t)' = {b}, SetBusy(b, TRUE)
    PROVE  Exclusive(owners, batch_busy)'
  <1>1. \A u \in HandThreads \ {t} : OwnedBatches(u)' = OwnedBatches(u)
    BY OthersOwn
  <1>2. /\ owners[t] = {} /\ owners'[t] = {b}
        /\ \A u \in HandThreads \ {t} : owners'[u] = owners[u]
    BY <1>1 DEF owners
  <1>3. /\ batch_busy \in [Batches -> BOOLEAN]
        /\ batch_busy' = [batch_busy EXCEPT ![b] = TRUE]
    BY DEF HandTypeOK, SetBusy
  <1>4. Exclusive(owners', batch_busy')
    <2>1. batch_busy[b] = FALSE
      BY <1>3
    <2> QED BY <1>2, <1>3, <2>1, TakingIsExclusive
  <1> QED BY <1>4 DEF Exclusive

\* A step that gives a batch back.
LEMMA OwnersGive ==
    ASSUME NEW t \in HandThreads, NEW l, NEW fh, NEW h, Moves(t, l, fh, h),
           NEW b \in Batches, HandTypeOK,
           Exclusive(owners, batch_busy),
           OwnedBatches(t) = {b}, OwnedBatches(t)' = {}, SetBusy(b, FALSE)
    PROVE  Exclusive(owners, batch_busy)'
  <1>1. \A u \in HandThreads \ {t} : OwnedBatches(u)' = OwnedBatches(u)
    BY OthersOwn
  <1>2. /\ owners[t] = {b} /\ owners'[t] = {}
        /\ \A u \in HandThreads \ {t} : owners'[u] = owners[u]
    BY <1>1 DEF owners
  <1>3. /\ batch_busy \in [Batches -> BOOLEAN]
        /\ batch_busy' = [batch_busy EXCEPT ![b] = FALSE]
    BY DEF HandTypeOK, SetBusy
  <1>4. Exclusive(owners', batch_busy')
    BY <1>2, <1>3, GivingIsExclusive
  <1> QED BY <1>4 DEF Exclusive

\* A move to a label that needs a batch, or a hand, with one.
LEMMA HandsSetKept ==
    ASSUME HandsAreSet, NEW t \in HandThreads, NEW l, NEW fh, NEW h,
           Moves(t, l, fh, h),
           l \in {"scan", "early", "moved", "release"} => fh \in Batches,
           l \in {"clean", "cleaning", "take", "evict", "count", "measure",
                  "sample", "elect", "store", "stamp", "settle", "empty"} =>
             h \in Batches
    PROVE  HandsAreSet'
  <1> SUFFICES ASSUME NEW u \in HandThreads
               PROVE  /\ thread'[u].pc \in {"scan", "early", "moved", "release"} =>
                           thread'[u].free_hand \in Batches
                      /\ thread'[u].pc \in {"clean", "cleaning", "take", "evict",
                                            "count", "measure", "sample",
                                            "elect", "store", "stamp",
                                            "settle", "empty"} =>
                           thread'[u].hand \in Batches
    BY DEF HandsAreSet
  <1>1. CASE u = t
    BY <1>1 DEF Moves
  <1>2. CASE u # t
    BY <1>2 DEF Moves, HandsAreSet
  <1> QED BY <1>1, <1>2

Batched == HandTypeOK /\ HandsAreSet /\ Exclusive(owners, batch_busy)

(* Every step keeps the batches exclusive.  One step per action: its move,  *)
(* and what it owns before and after.                                       *)
LEMMA BatchesKept ==
    ASSUME HandAssumption, Batched, HandNext
    PROVE  /\ thread' \in [HandThreads -> ThreadState]
           /\ HandsAreSet'
           /\ Exclusive(owners, batch_busy)'
  <1> DEFINE Kept == /\ thread' \in [HandThreads -> ThreadState]
                     /\ HandsAreSet'
                     /\ Exclusive(owners, batch_busy)'
  <1>0. /\ HandTypeOK /\ HandsAreSet /\ Exclusive(owners, batch_busy)
        /\ thread \in [HandThreads -> ThreadState]
        /\ \A t \in HandThreads : thread[t].free_hand \in MaybeBatch
    BY DEF Batched, HandTypeOK, ThreadState
  <1>m. ASSUME NEW t \in HandThreads, NEW l, NEW fh, NEW h, Moves(t, l, fh, h)
        PROVE  /\ thread' \in [HandThreads -> ThreadState]
               /\ thread'[t].pc = l /\ thread'[t].free_hand = fh /\ thread'[t].hand = h
    BY <1>m DEF Moves
  <1>g. ASSUME NEW t \in HandThreads, NEW l \in HandLabels, Goto(t, l)
        PROVE  /\ Moves(t, l, thread[t].free_hand, thread[t].hand)
               /\ thread' \in [HandThreads -> ThreadState]
               /\ thread'[t].pc = l /\ thread'[t].free_hand = thread[t].free_hand
               /\ thread'[t].hand = thread[t].hand
               /\ Ahead(t)' = Ahead(t)
    BY <1>0, <1>g, GotoMoves DEF Moves, Ahead
  <1>1. ASSUME NEW t \in HandThreads, GetFreePage(t) PROVE Kept
    <2> DEFINE fh == thread[t].free_hand
               l == IF fh = NoHand THEN "advance" ELSE "scan"
    <2>1. Moves(t, l, fh, thread[t].hand)
      BY <1>0, <1>1, GetFreePageMoves
    <2>2. HandsAreSet'
      BY <1>0, <2>1, HandsSetKept DEF MaybeBatch
    <2>3. thread[t].pc = "idle" /\ batch_busy' = batch_busy
      BY <1>1 DEF GetFreePage, At
    <2>4. OwnedBatches(t)' = OwnedBatches(t)
      <3>1. CASE fh = NoHand
        BY ZenonT(60), <1>m, <2>1, <2>3, <3>1, OwnedAt, OwnedAfter
      <3>2. CASE fh # NoHand
        BY <2>1, <2>3, <3>2, OwnedKept DEF Resting
      <3> QED BY <3>1, <3>2
    <2> QED BY <1>0, <1>m, <2>1, <2>2, <2>3, <2>4, OwnersKept
  <1>2. ASSUME NEW t \in HandThreads, NEW e \in Entries, TakeEntry(t, e) PROVE Kept
    <2>1. Moves(t, "idle", thread[t].free_hand, NoHand)
      BY <1>0, <1>2, ReturnMoves DEF TakeEntry
    <2>2. HandsAreSet'
      BY <1>0, <2>1, HandsSetKept
    <2>3. thread[t].pc = "scan" /\ batch_busy' = batch_busy
      BY <1>2 DEF TakeEntry, At
    <2>4. OwnedBatches(t)' = OwnedBatches(t)
      BY <2>1, <2>3, OwnedKept DEF Resting, Holding, Without
    <2> QED BY <1>0, <1>m, <2>1, <2>2, <2>3, <2>4, OwnersKept
  <1>3. ASSUME NEW t \in HandThreads, NoFreeEntry(t) PROVE Kept
    <2>1. thread[t].pc = "scan" /\ batch_busy' = batch_busy /\ Goto(t, "early")
      BY <1>3 DEF NoFreeEntry, At
    <2>2. HandsAreSet'
      BY <1>0, <1>g, <2>1, HandsSetKept DEF HandsAreSet, HandLabels
    <2>3. OwnedBatches(t)' = OwnedBatches(t)
      BY <1>g, <2>1, OwnedKept DEF HandLabels, Resting, Holding, Without
    <2> QED BY <1>0, <1>g, <2>1, <2>2, <2>3, OwnersKept DEF HandLabels
  <1>4. ASSUME NEW t \in HandThreads, CountPass(t) PROVE Kept
    <2>1. thread[t].pc = "moved" /\ batch_busy' = batch_busy
      BY <1>4 DEF CountPass, At
    <2>2. CASE Moves(t, "idle", thread[t].free_hand, NoHand)
      <3>1. HandsAreSet'
        BY <1>0, <2>2, HandsSetKept
      <3>2. OwnedBatches(t)' = OwnedBatches(t)
        BY <2>1, <2>2, OwnedKept DEF Resting, Holding, Without
      <3> QED BY <1>0, <1>m, <2>1, <2>2, <3>1, <3>2, OwnersKept
    <2>3. CASE Moves(t, "scan", thread[t].free_hand, thread[t].hand)
      <3>1. HandsAreSet'
        BY <1>0, <2>1, <2>3, HandsSetKept DEF HandsAreSet
      <3>2. OwnedBatches(t)' = OwnedBatches(t)
        BY <2>1, <2>3, OwnedKept DEF Resting, Holding, Without
      <3> QED BY <1>0, <1>m, <2>1, <2>3, <3>1, <3>2, OwnersKept
    <2> QED BY <1>0, <1>4, <2>2, <2>3, CountPassMoves
  <1>5. ASSUME NEW t \in HandThreads, EarlyEvict(t) PROVE Kept
    <2>1. PICK l \in {"release", "moved"} : Goto(t, l)
      BY <1>5 DEF EarlyEvict
    <2>2. thread[t].pc = "early" /\ batch_busy' = batch_busy /\ l \in HandLabels
      BY <1>5 DEF EarlyEvict, At, HandLabels
    <2>3. HandsAreSet'
      BY <1>0, <1>g, <2>1, <2>2, HandsSetKept DEF HandsAreSet
    <2>5. thread[t].free_hand \in Batches /\ thread[t].free_hand # NoHand
      BY <1>0, <2>2 DEF HandsAreSet, HandAssumption, Batches
    <2>4. OwnedBatches(t)' = OwnedBatches(t)
      BY ZenonT(60), <1>g, <2>1, <2>2, <2>5, OwnedAt, OwnedAfter
    <2> QED BY <1>0, <1>g, <2>1, <2>2, <2>3, <2>4, OwnersKept
  <1>6. ASSUME NEW t \in HandThreads, ReleaseBatch(t) PROVE Kept
    <2>1. /\ thread[t].pc = "release" /\ SetBusy(thread[t].free_hand, FALSE)
          /\ Goto(t, "advance") /\ "advance" \in HandLabels
          /\ thread[t].free_hand \in Batches
      BY <1>0, <1>6 DEF ReleaseBatch, At, HandLabels, HandsAreSet
    <2>2. HandsAreSet'
      BY <1>0, <1>g, <2>1, HandsSetKept
    <2>3. OwnedBatches(t) = {thread[t].free_hand} /\ OwnedBatches(t)' = {}
      BY <1>g, <2>1, OwnedAt, OwnedAfter
    <2> QED BY <1>0, <1>g, <2>1, <2>2, <2>3, OwnersGive
  <1>7. ASSUME NEW t \in HandThreads, AdvanceHand(t) PROVE Kept
    <2>1. thread[t].pc = "advance" /\ batch_busy' = batch_busy
      BY <1>7 DEF AdvanceHand, At
    <2>2. Moves(t, "clean", thread[t].free_hand, evict_hand') /\ evict_hand' \in Batches
      BY <1>0, <1>7, AdvanceHandMoves
    <2>3. HandsAreSet'
      BY <1>0, <2>2, HandsSetKept
    <2>4. OwnedBatches(t)' = OwnedBatches(t)
      BY <2>1, <2>2, OwnedKept DEF Resting, Holding, Without
    <2> QED BY <1>0, <1>m, <2>1, <2>2, <2>3, <2>4, OwnersKept
  <1>8. ASSUME NEW t \in HandThreads, TryClean(t) PROVE Kept
    <2>1. /\ thread[t].pc = "clean" /\ thread[t].hand \in Batches
          /\ "take" \in HandLabels /\ "cleaning" \in HandLabels
          /\ Ahead(t) \in Batches
      BY <1>0, <1>8, AheadIsBatch DEF TryClean, At, HandsAreSet, HandLabels
    <2>2. CASE batch_busy[Ahead(t)]
      <3>1. Goto(t, "take") /\ batch_busy' = batch_busy
        BY <1>8, <2>2 DEF TryClean
      <3>2. HandsAreSet'
        BY <1>0, <1>g, <2>1, <3>1, HandsSetKept
      <3>3. OwnedBatches(t)' = OwnedBatches(t)
        BY <1>g, <2>1, <3>1, OwnedKept DEF Resting, Holding, Without
      <3> QED BY <1>0, <1>g, <2>1, <3>1, <3>2, <3>3, OwnersKept
    <2>3. CASE ~batch_busy[Ahead(t)]
      <3>1. Goto(t, "cleaning") /\ SetBusy(Ahead(t), TRUE)
        BY <1>8, <2>3 DEF TryClean
      <3>2. HandsAreSet'
        BY <1>0, <1>g, <2>1, <3>1, HandsSetKept
      <3>3. OwnedBatches(t) = {} /\ OwnedBatches(t)' = {Ahead(t)}
        BY <1>g, <2>1, <3>1, OwnedAt, OwnedAfter
      <3> QED BY <1>0, <1>g, <2>1, <2>3, <3>1, <3>2, <3>3, OwnersTake
    <2> QED BY <2>2, <2>3
  <1>9. ASSUME NEW t \in HandThreads, CleanBatch(t) PROVE Kept
    <2>1. /\ thread[t].pc = "cleaning" /\ thread[t].hand \in Batches
          /\ "take" \in HandLabels /\ Ahead(t) \in Batches
          /\ Goto(t, "take") /\ SetBusy(Ahead(t), FALSE)
      BY <1>0, <1>9, AheadIsBatch DEF CleanBatch, At, HandsAreSet, HandLabels
    <2>2. HandsAreSet'
      BY <1>0, <1>g, <2>1, HandsSetKept
    <2>3. OwnedBatches(t) = {Ahead(t)} /\ OwnedBatches(t)' = {}
      BY <1>g, <2>1, OwnedAt, OwnedAfter
    <2> QED BY <1>0, <1>g, <2>1, <2>2, <2>3, OwnersGive
  <1>10. ASSUME NEW t \in HandThreads, TakeBatch(t) PROVE Kept
    <2>1. /\ thread[t].pc = "take" /\ thread[t].hand \in Batches
          /\ "advance" \in HandLabels /\ "evict" \in HandLabels
      BY <1>0, <1>10 DEF TakeBatch, At, HandsAreSet, HandLabels
    <2>2. CASE batch_busy[thread[t].hand]
      <3>1. Goto(t, "advance") /\ batch_busy' = batch_busy
        BY <1>10, <2>2 DEF TakeBatch
      <3>2. HandsAreSet'
        BY <1>0, <1>g, <2>1, <3>1, HandsSetKept
      <3>3. OwnedBatches(t)' = OwnedBatches(t)
        BY <1>g, <2>1, <3>1, OwnedKept DEF Resting, Holding, Without
      <3> QED BY <1>0, <1>g, <2>1, <3>1, <3>2, <3>3, OwnersKept
    <2>3. CASE ~batch_busy[thread[t].hand]
      <3>1. Goto(t, "evict") /\ SetBusy(thread[t].hand, TRUE)
        BY <1>10, <2>3 DEF TakeBatch
      <3>2. HandsAreSet'
        BY <1>0, <1>g, <2>1, <3>1, HandsSetKept
      <3>3. OwnedBatches(t) = {} /\ OwnedBatches(t)' = {thread[t].hand}
        BY <1>g, <2>1, <3>1, OwnedAt, OwnedAfter
      <3> QED BY <1>0, <1>g, <2>1, <2>3, <3>1, <3>2, <3>3, OwnersTake
    <2> QED BY <2>2, <2>3
  <1>11. ASSUME NEW t \in HandThreads, EvictBatch(t) PROVE Kept
    <2>1. PICK l \in {"count", "settle"} : Goto(t, l)
      BY <1>11 DEF EvictBatch
    <2>2. /\ thread[t].pc = "evict" /\ batch_busy' = batch_busy /\ l \in HandLabels
          /\ thread[t].hand \in Batches
      BY <1>0, <1>11 DEF EvictBatch, At, HandLabels, HandsAreSet
    <2>3. HandsAreSet'
      BY <1>0, <1>g, <2>1, <2>2, HandsSetKept
    <2>4. OwnedBatches(t)' = OwnedBatches(t)
      BY <1>g, <2>1, <2>2, OwnedKept DEF Resting, Holding, Without
    <2> QED BY <1>0, <1>g, <2>1, <2>2, <2>3, <2>4, OwnersKept
  <1>12. ASSUME NEW t \in HandThreads, CountBatch(t) PROVE Kept
    <2>1. PICK l \in {"measure", "settle"} :
              Moves(t, l, thread[t].free_hand, thread[t].hand)
      BY <1>0, <1>12, CountBatchMoves
    <2>2. /\ thread[t].pc = "count" /\ batch_busy' = batch_busy
          /\ thread[t].hand \in Batches
      BY <1>0, <1>12 DEF CountBatch, At, HandsAreSet
    <2>3. HandsAreSet'
      BY <1>0, <2>1, <2>2, HandsSetKept
    <2>4. OwnedBatches(t)' = OwnedBatches(t)
      BY <2>1, <2>2, OwnedKept DEF Resting, Holding, Without
    <2> QED BY <1>0, <1>m, <2>1, <2>2, <2>3, <2>4, OwnersKept
  <1>13. ASSUME NEW t \in HandThreads, UpdateInterval(t) PROVE Kept
    <2>1. PICK l \in {"sample", "elect", "store", "stamp", "settle"} :
              Moves(t, l, thread[t].free_hand, thread[t].hand)
      BY <1>0, <1>13, UpdateMoves
    <2>2. /\ thread[t].pc \in {"measure", "sample", "elect", "store", "stamp"}
          /\ batch_busy' = batch_busy
      BY <1>0, <1>13, UpdateMoves
    <2>3. HandsAreSet'
      <3>1. thread[t].hand \in Batches
        BY <1>0, <2>2 DEF HandsAreSet
      <3> QED BY <1>0, <2>1, <3>1, HandsSetKept
    <2>4. OwnedBatches(t)' = OwnedBatches(t)
      BY <2>1, <2>2, OwnedKept DEF Resting, Holding, Without
    <2> QED BY <1>0, <1>m, <2>1, <2>2, <2>3, <2>4, OwnersKept
  <1>15. ASSUME NEW t \in HandThreads, Settle(t) PROVE Kept
    <2>1. PICK l \in {"scan", "moved"} : Moves(t, l, thread[t].hand, NoHand)
      BY <1>0, <1>15, SettleMoves
    <2>2. /\ thread[t].pc = "settle" /\ batch_busy' = batch_busy
          /\ thread[t].hand \in Batches /\ thread[t].hand # NoHand
      BY <1>0, <1>15 DEF Settle, At, HandsAreSet, HandAssumption, Batches
    <2>3. HandsAreSet'
      BY <1>0, <2>1, <2>2, HandsSetKept
    <2>4. OwnedBatches(t)' = OwnedBatches(t)
      <3>1. thread'[t].pc = l /\ thread'[t].free_hand = thread[t].hand
        BY <2>1 DEF Moves
      <3> QED BY <2>2, <3>1, OwnedAt, OwnedAfter
    <2> QED BY <1>0, <1>m, <2>1, <2>2, <2>3, <2>4, OwnersKept
  <1>16. ASSUME NEW t \in HandThreads, Flush(t) PROVE Kept
    <2>1. /\ Goto(t, "flush") /\ "flush" \in HandLabels
          /\ thread[t].pc = "idle" /\ batch_busy' = batch_busy
      BY <1>0, <1>16 DEF Flush, At, HandLabels
    <2>2. HandsAreSet'
      BY <1>0, <1>g, <2>1, HandsSetKept
    <2>3. OwnedBatches(t)' = OwnedBatches(t)
      BY <1>g, <2>1, OwnedKept DEF Resting, Holding, Without
    <2> QED BY <1>0, <1>g, <2>1, <2>2, <2>3, OwnersKept
  <1>17. ASSUME NEW t \in HandThreads, StartEvictAll(t) PROVE Kept
    <2>1. thread[t].pc = "flush" /\ batch_busy' = batch_busy
      BY <1>17 DEF StartEvictAll, At
    <2>2. Moves(t, "empty", thread[t].free_hand, 0) /\ 0 \in Batches
      BY <1>0, <1>17, StartEvictAllMoves
    <2>3. HandsAreSet'
      BY <1>0, <2>2, HandsSetKept
    <2>4. OwnedBatches(t)' = OwnedBatches(t)
      BY <2>1, <2>2, OwnedKept DEF Resting, Holding, Without
    <2> QED BY <1>0, <1>m, <2>1, <2>2, <2>3, <2>4, OwnersKept
  <1>18. ASSUME NEW t \in HandThreads, EvictAll(t) PROVE Kept
    <2>1. thread[t].pc = "empty" /\ batch_busy' = batch_busy
      BY <1>18 DEF EvictAll, At
    <2>2. PICK l \in {"empty", "emptied"}, h \in MaybeBatch :
              /\ Moves(t, l, thread[t].free_hand, h)
              /\ l = "empty" => h \in Batches
      BY <1>0, <1>18, EvictAllMoves DEF MaybeBatch, HandAssumption, Batches
    <2>3. HandsAreSet'
      BY <1>0, <2>2, HandsSetKept
    <2>4. OwnedBatches(t)' = OwnedBatches(t)
      BY <2>1, <2>2, OwnedKept DEF Resting, Holding, Without
    <2> QED BY <1>0, <1>m, <2>1, <2>2, <2>3, <2>4, OwnersKept
  <1>19. ASSUME NEW t \in HandThreads, Reopen(t) PROVE Kept
    <2>1. thread[t].pc = "emptied" /\ batch_busy' = batch_busy /\ HandReturn(t)
      BY <1>19 DEF Reopen, At
    <2>2. Moves(t, "idle", thread[t].free_hand, NoHand)
      BY <1>0, <2>1, ReturnMoves
    <2>3. HandsAreSet'
      BY <1>0, <2>2, HandsSetKept
    <2>4. OwnedBatches(t)' = OwnedBatches(t)
      BY <2>1, <2>2, OwnedKept DEF Resting, Holding, Without
    <2> QED BY <1>0, <1>m, <2>1, <2>2, <2>3, <2>4, OwnersKept
  <1>20. CASE UNCHANGED <<thread, batch_busy>>
    <2>1. owners' = owners
      BY <1>20 DEF owners, OwnedBatches, Ahead
    <2> QED BY <1>0, <1>20, <2>1 DEF HandsAreSet, Exclusive
  <1>21. ASSUME NEW e \in Entries,
                Use(e) \/ WriteDone(e) \/ \E use \in Uses : GiveBack(e, use)
         PROVE  Kept
    BY <1>20, <1>21 DEF Use, WriteDone, GiveBack
  <1> QED
    BY <1>1, <1>2, <1>3, <1>4, <1>5, <1>6, <1>7, <1>8, <1>9, <1>10, <1>11,
       <1>12, <1>13, <1>15, <1>16, <1>17, <1>18, <1>19, <1>21
    DEF HandNext, MoveHand

-----------------------------------------------------------------------------
(* Types, and the eviction interval.                                        *)

\* The variables other than the threads keep their types.
LEMMA CacheTypesKept ==
    ASSUME HandAssumption, HandTypeOK, HandsAreSet, HandNext,
           thread' \in [HandThreads -> ThreadState]
    PROVE  HandTypeOK'
  <1> USE DEF HandTypeOK, entries, interval
  <1>1. ASSUME NEW t \in HandThreads,
               GetFreePage(t) \/ NoFreeEntry(t) \/ CountPass(t) \/ Settle(t)
                 \/ StartEvictAll(t) \/ Reopen(t)
        PROVE  HandTypeOK'
    BY <1>1 DEF GetFreePage, NoFreeEntry, CountPass, Settle, StartEvictAll,
                Reopen
  <1>2. ASSUME NEW t \in HandThreads, NEW e \in Entries, TakeEntry(t, e)
        PROVE  HandTypeOK'
    BY <1>2 DEF TakeEntry
  <1>3. ASSUME NEW t \in HandThreads, EarlyEvict(t) PROVE HandTypeOK'
    BY <1>3 DEF EarlyEvict, Freed
  <1>4. ASSUME NEW t \in HandThreads, ReleaseBatch(t) PROVE HandTypeOK'
    BY <1>4 DEF ReleaseBatch, SetBusy
  <1>5. ASSUME NEW t \in HandThreads, AdvanceHand(t) PROVE HandTypeOK'
    BY <1>5, AdvanceHandMoves DEF AdvanceHand
  <1>6. ASSUME NEW t \in HandThreads, TryClean(t) \/ TakeBatch(t) PROVE HandTypeOK'
    BY <1>6 DEF TryClean, TakeBatch, SetBusy
  <1>7. ASSUME NEW t \in HandThreads, CleanBatch(t) PROVE HandTypeOK'
    <2>1. thread[t].passes \in Nat
      BY DEF ThreadState
    <2> QED BY <1>7, <2>1 DEF CleanBatch, Written, SetBusy
  <1>8. ASSUME NEW t \in HandThreads, EvictBatch(t) \/ EvictAll(t) PROVE HandTypeOK'
    <2>1. PICK b : SweepBatch(b)
      BY <1>8 DEF EvictBatch, EvictAll
    <2>2. clock' \in [Entries -> 0 .. HandClockMax]
      <3>1. clock' = [e \in Entries |-> IF e \in EntriesOf(b) /\ clock[e] > 0
                                        THEN clock[e] - 1 ELSE clock[e]]
        BY <2>1 DEF SweepBatch
      <3>2. ASSUME NEW e \in Entries
            PROVE  (IF e \in EntriesOf(b) /\ clock[e] > 0
                    THEN clock[e] - 1 ELSE clock[e]) \in 0 .. HandClockMax
        <4>1. clock[e] \in 0 .. HandClockMax /\ HandClockMax \in Nat
          BY DEF HandAssumption
        <4> QED BY <4>1
      <3> QED BY <3>1, <3>2
    <2>3. /\ page' \in [Entries -> {"free", "clean", "dirty", "writeback", "held"}]
          /\ cold' \subseteq Entries /\ wbPasses' = wbPasses
      BY <2>1 DEF SweepBatch, Freed
    <2> QED BY <1>8, <2>2, <2>3 DEF EvictBatch, EvictAll
  <1>9. ASSUME NEW t \in HandThreads, CountBatch(t) PROVE HandTypeOK'
    <2>1. (evict_batches + 1) % NumBatchCounts \in Nat
      BY DEF HandAssumption
    <2> QED BY <1>9, <2>1 DEF CountBatch
  <1>10. ASSUME NEW t \in HandThreads, UpdateInterval(t) PROVE HandTypeOK'
    <2>1. /\ thread[t].cycle \in Nat /\ thread[t].expected \in Nat
          /\ thread[t].ei \subseteq Nat
      BY DEF ThreadState
    <2>2. CASE ReadCycle(t) \/ Sample(t) \/ SampleIsLate(t)
      BY <2>2 DEF ReadCycle, Sample, SampleIsLate
    <2>3. CASE Elect(t)
      BY <2>1, <2>3 DEF Elect
    <2>4. CASE StoreInterval(t)
      <3>1. SweepsOf(thread[t]) \subseteq Nat
        BY <2>1 DEF SweepsOf
      <3> QED BY <2>1, <2>4, <3>1 DEF StoreInterval
    <2>5. CASE StoreTimestamp(t)
      BY <2>1, <2>5 DEF StoreTimestamp
    <2> QED BY <1>10, <2>2, <2>3, <2>4, <2>5 DEF UpdateInterval
  <1>11. ASSUME NEW t \in HandThreads, Flush(t) PROVE HandTypeOK'
    BY <1>11 DEF Flush, Written, HandAssumption
  <1>12. ASSUME NEW e \in Entries, Use(e) PROVE HandTypeOK'
    BY <1>12 DEF Use, HandAssumption
  <1>13. ASSUME NEW e \in Entries, WriteDone(e) PROVE HandTypeOK'
    <2>1. 0 \in 0 .. HandClockMax
      BY DEF HandAssumption
    <2>2. clock' \in [Entries -> 0 .. HandClockMax]
      BY <1>13, <2>1 DEF WriteDone
    <2> QED BY <1>13, <2>2 DEF WriteDone
  <1>14. ASSUME NEW e \in Entries, NEW use \in Uses, GiveBack(e, use)
         PROVE  HandTypeOK'
    <2>1. use[1] \in {"clean", "dirty"} /\ use[2] \in 0 .. HandClockMax
      BY DEF HandAssumption
    <2> QED BY <1>14, <2>1 DEF GiveBack
  <1> QED
    BY <1>1, <1>2, <1>3, <1>4, <1>5, <1>6, <1>7, <1>8, <1>9, <1>10, <1>11,
       <1>12, <1>13, <1>14 DEF HandNext, MoveHand

\* Updates of the interval go on without overlapping.
LEMMA UpdatesKept ==
    ASSUME HandAssumption, Batched, UpdatesAdvance, HandNext
    PROVE  UpdatesAdvance'
  <1>0. /\ HandTypeOK /\ HandsAreSet
        /\ thread \in [HandThreads -> ThreadState]
        /\ last_ei_check_cycle \in Nat
        /\ \A t \in HandThreads : thread[t].cycle \in Nat /\ thread[t].expected \in Nat
    BY DEF Batched, HandTypeOK, ThreadState
  <1> DEFINE Same == UNCHANGED <<last_ei_check_cycle, evict_interval>>
  <1>1. ASSUME NEW t \in HandThreads, NEW l, NEW fh, NEW h, Moves(t, l, fh, h),
               l # "store", Advances(thread'[t], last_ei_check_cycle), Same
        PROVE  UpdatesAdvance'
    BY <1>1 DEF Moves, UpdatesAdvance
  <1>2. ASSUME NEW t \in HandThreads, NEW l, NEW fh, NEW h, Moves(t, l, fh, h),
               l \notin {"sample", "elect", "store"}, Same
        PROVE  UpdatesAdvance'
    <2>1. Advances(thread'[t], last_ei_check_cycle)
      BY <1>2 DEF Moves, Advances
    <2> QED BY <1>1, <1>2, <2>1
  <1>3. ASSUME NEW t \in HandThreads, NEW l \in HandLabels, Goto(t, l),
               l \notin {"sample", "elect", "store"}, Same
        PROVE  UpdatesAdvance'
    <2>1. Moves(t, l, thread[t].free_hand, thread[t].hand)
      BY <1>0, <1>3, GotoMoves
    <2> QED BY <1>2, <1>3, <2>1
  <1>4. ASSUME NEW t \in HandThreads,
               GetFreePage(t) \/ CountPass(t) \/ AdvanceHand(t) \/ CountBatch(t)
                 \/ Settle(t) \/ StartEvictAll(t) \/ EvictAll(t)
        PROVE  UpdatesAdvance'
    <2>1. \E l, fh, h : Moves(t, l, fh, h) /\ l \notin {"sample", "elect", "store"}
      BY <1>0, <1>4, GetFreePageMoves, CountPassMoves, AdvanceHandMoves,
         CountBatchMoves, SettleMoves, StartEvictAllMoves, EvictAllMoves
    <2>2. Same
      BY <1>4 DEF GetFreePage, CountPass, AdvanceHand, CountBatch, Settle,
                  StartEvictAll, EvictAll, interval
    <2> QED BY <1>2, <2>1, <2>2
  <1>5. ASSUME NEW t \in HandThreads, ReadCycle(t) PROVE UpdatesAdvance'
    <2>1. Same
      BY <1>5 DEF ReadCycle, interval
    <2>2. PICK l \in {"sample", "settle"} :
              /\ Moves(t, l, thread[t].free_hand, thread[t].hand)
              /\ l = "sample" => thread'[t].expected < thread'[t].cycle
      BY <1>0, <1>5, ReadCycleMoves
    <2>3. Advances(thread'[t], last_ei_check_cycle)
      BY <2>2 DEF Moves, Advances
    <2> QED BY <1>1, <2>1, <2>2, <2>3
  <1>6. ASSUME NEW t \in HandThreads, Sample(t) PROVE UpdatesAdvance'
    <2>1. Same /\ thread[t].pc = "sample"
      BY <1>6 DEF Sample, At, interval
    <2>2. /\ Moves(t, "elect", thread[t].free_hand, thread[t].hand)
          /\ thread'[t].ei = evict_interval
          /\ thread'[t].expected = thread[t].expected
          /\ thread'[t].cycle = thread[t].cycle
      BY <1>0, <1>6, SampleMoves
    <2>3. thread[t].expected < thread[t].cycle
          /\ evict_interval \subseteq 1 .. last_ei_check_cycle
      BY <2>1 DEF UpdatesAdvance, Advances
    <2>4. Advances(thread'[t], last_ei_check_cycle)
      BY <2>2, <2>3 DEF Moves, Advances
    <2> QED BY <1>1, <2>1, <2>2, <2>4
  <1>7. ASSUME NEW t \in HandThreads, SampleIsLate(t) \/ StoreTimestamp(t)
        PROVE  UpdatesAdvance'
    BY <1>3, <1>7 DEF SampleIsLate, StoreTimestamp, interval, HandLabels
  <1>8. ASSUME NEW t \in HandThreads, Elect(t) PROVE UpdatesAdvance'
    <2>1. CASE last_ei_check_cycle # thread[t].expected
      BY <1>3, <1>8, <2>1 DEF Elect, HandLabels
    <2>2. CASE last_ei_check_cycle = thread[t].expected
      <3>1. /\ thread[t].pc = "elect" /\ evict_interval' = evict_interval
            /\ last_ei_check_cycle' = thread[t].cycle
            /\ Goto(t, "store")
        BY <1>8, <2>2 DEF Elect, At
      <3>2. /\ thread[t].expected < thread[t].cycle
            /\ thread[t].ei \subseteq 1 .. thread[t].expected
        BY <2>2, <3>1 DEF UpdatesAdvance, Advances
      <3>3. /\ thread' = [thread EXCEPT ![t].pc = "store"]
            /\ \A u \in HandThreads \ {t} : thread'[u] = thread[u]
            /\ thread'[t] = [thread[t] EXCEPT !.pc = "store"]
        BY <1>0, <3>1 DEF Goto
      <3>4. /\ thread'[t].pc = "store" /\ thread'[t].ei = thread[t].ei
            /\ thread'[t].expected = thread[t].expected
            /\ thread'[t].cycle = thread[t].cycle
        BY <1>0, <3>3 DEF ThreadState
      <3>5. evict_interval' \subseteq 1 .. last_ei_check_cycle'
        BY <1>0, <2>2, <3>1, <3>2 DEF UpdatesAdvance
      <3>6. ASSUME NEW u \in HandThreads
            PROVE  Advances(thread'[u], last_ei_check_cycle')
        <4>1. CASE u = t
          BY <1>0, <3>1, <3>2, <3>4, <4>1 DEF Advances
        <4>2. CASE u # t
          <5>1. Advances(thread[u], last_ei_check_cycle) /\ thread'[u] = thread[u]
            BY <3>3, <4>2 DEF UpdatesAdvance
          <5>2. 1 .. last_ei_check_cycle \subseteq 1 .. last_ei_check_cycle'
            BY <1>0, <2>2, <3>1, <3>2
          <5>3. thread[u].cycle <= last_ei_check_cycle =>
                  thread[u].cycle <= last_ei_check_cycle'
            BY <1>0, <2>2, <3>1, <3>2
          <5> QED BY <5>1, <5>2, <5>3 DEF Advances
        <4> QED BY <4>1, <4>2
      <3>7. ASSUME NEW u \in HandThreads \ {t}, thread'[u].pc = "store"
            PROVE  thread'[u].cycle <= thread'[t].expected
        BY <2>2, <3>3, <3>4, <3>7 DEF UpdatesAdvance, Advances
      <3>8. ASSUME NEW u \in HandThreads, NEW v \in HandThreads, u # v,
                   thread'[u].pc = "store", thread'[v].pc = "store"
            PROVE  \/ thread'[u].cycle <= thread'[v].expected
                   \/ thread'[v].cycle <= thread'[u].expected
        <4>1. CASE u = t \/ v = t
          BY <3>7, <3>8, <4>1
        <4>2. CASE u # t /\ v # t
          BY <3>3, <3>8, <4>2 DEF UpdatesAdvance
        <4> QED BY <4>1, <4>2
      <3> QED BY <3>5, <3>6, <3>8 DEF UpdatesAdvance
    <2> QED BY <2>1, <2>2
  <1>9. ASSUME NEW t \in HandThreads, StoreInterval(t) PROVE UpdatesAdvance'
    <2>1. /\ thread[t].pc = "store" /\ last_ei_check_cycle' = last_ei_check_cycle
          /\ evict_interval' = thread[t].ei \cup SweepsOf(thread[t])
          /\ Goto(t, "stamp")
      BY <1>9 DEF StoreInterval, At
    <2>2. /\ thread[t].ei \subseteq 1 .. thread[t].expected
          /\ thread[t].expected < thread[t].cycle
          /\ thread[t].cycle <= last_ei_check_cycle
      BY <2>1 DEF UpdatesAdvance, Advances
    <2>3. evict_interval' \subseteq 1 .. last_ei_check_cycle
      BY <1>0, <2>1, <2>2 DEF SweepsOf
    <2>4. Moves(t, "stamp", thread[t].free_hand, thread[t].hand)
      BY <1>0, <2>1, GotoMoves DEF HandLabels
    <2>5. Advances(thread'[t], last_ei_check_cycle)
      BY <2>4 DEF Moves, Advances
    <2> QED BY <2>1, <2>3, <2>4, <2>5 DEF Moves, UpdatesAdvance
  <1>10. ASSUME NEW t \in HandThreads,
               NoFreeEntry(t) \/ EarlyEvict(t) \/ ReleaseBatch(t) \/ TryClean(t)
                 \/ CleanBatch(t) \/ TakeBatch(t) \/ EvictBatch(t) \/ Flush(t)
        PROVE  UpdatesAdvance'
    <2>1. \E l \in HandLabels \ {"sample", "elect", "store"} : Goto(t, l)
      BY <1>10 DEF NoFreeEntry, EarlyEvict, ReleaseBatch, TryClean, CleanBatch,
                   TakeBatch, EvictBatch, Flush, HandLabels
    <2>2. Same
      BY <1>10 DEF NoFreeEntry, EarlyEvict, ReleaseBatch, TryClean, CleanBatch,
                   TakeBatch, EvictBatch, Flush, interval
    <2> QED BY <1>3, <2>1, <2>2
  <1>11. ASSUME NEW t \in HandThreads, HandReturn(t), Same
        PROVE  UpdatesAdvance'
    <2>1. Moves(t, "idle", thread[t].free_hand, NoHand)
      BY <1>0, <1>11, ReturnMoves
    <2> QED BY <1>2, <1>11, <2>1
  <1>12. ASSUME NEW t \in HandThreads,
               Reopen(t) \/ \E e \in Entries : TakeEntry(t, e)
        PROVE  UpdatesAdvance'
    BY <1>11, <1>12 DEF Reopen, TakeEntry, interval
  <1>13. ASSUME NEW e \in Entries,
               Use(e) \/ WriteDone(e) \/ \E use \in Uses : GiveBack(e, use)
        PROVE  UpdatesAdvance'
    BY <1>13 DEF Use, WriteDone, GiveBack, interval, UpdatesAdvance
  <1> QED
    BY <1>4, <1>5, <1>6, <1>7, <1>8, <1>9, <1>10, <1>12, <1>13
    DEF HandNext, MoveHand, UpdateInterval

-----------------------------------------------------------------------------
(* Emptying the cache.                                                      *)

\* Where a thread closes the cache.
ClosingLabels == {"flush", "empty", "emptied"}

(* While a thread empties the cache the others are idle and no page is dirty *)
(* or held.  The batches before its hand are empty, and a page of the batch  *)
(* it sweeps has as many sweeps to live as are left, at most.                *)
Emptying ==
    \A t \in HandThreads :
        /\ thread[t].pc \in ClosingLabels =>
             /\ \A u \in HandThreads \ {t} : thread[u].pc = "idle"
             /\ \A e \in Entries : page[e] \in {"free", "clean", "writeback"}
        /\ thread[t].pc \in {"empty", "emptied"} =>
             \A e \in Entries : page[e] # "writeback"
        /\ thread[t].pc = "empty" =>
             /\ thread[t].round <= HandClockMax
             /\ \A e \in Entries :
                  /\ e \div EntriesPerBatch < thread[t].hand => page[e] = "free"
                  /\ e \div EntriesPerBatch = thread[t].hand /\ page[e] = "clean" =>
                       clock[e] + thread[t].round <= HandClockMax
        /\ thread[t].pc = "emptied" => \A e \in Entries : page[e] = "free"

\* Nobody is closing after the move of a thread that was in a call.
LEMMA MovesKeepOpen ==
    ASSUME Emptying, NEW t \in HandThreads, NEW l, NEW fh, NEW h,
           Moves(t, l, fh, h), l \notin ClosingLabels,
           \/ ~Closing
           \/ thread[t].pc \notin ClosingLabels /\ thread[t].pc # "idle"
    PROVE  Emptying'
  <1>1. \A u \in HandThreads : thread[u].pc \notin ClosingLabels
    BY DEF Emptying, Closing, ClosingLabels
  <1>2. \A u \in HandThreads : thread'[u].pc \notin ClosingLabels
    BY <1>1 DEF Moves
  <1> QED BY <1>2 DEF Emptying, ClosingLabels

\* Sweeping a batch frees the clean pages without a clock, and ages the rest.
LEMMA SweepEffect ==
    ASSUME HandTypeOK, NEW b, SweepBatch(b), NEW e \in Entries,
           page[e] \in {"free", "clean"}
    PROVE  /\ page'[e] \in {"free", "clean"}
           /\ page[e] = "free" => page'[e] = "free"
           /\ e \div EntriesPerBatch = b =>
                /\ page'[e] = "clean" => clock[e] > 0 /\ clock'[e] = clock[e] - 1
           /\ e \div EntriesPerBatch # b =>
                page'[e] = page[e] /\ clock'[e] = clock[e]
  <1>1. clock[e] \in 0 .. HandClockMax
    BY DEF HandTypeOK
  <1>2. e \in EntriesOf(b) <=> e \div EntriesPerBatch = b
    BY DEF EntriesOf
  <1>3. /\ page'[e] = IF e \in EntriesOf(b) /\ Evictable(e) THEN "free" ELSE page[e]
        /\ clock'[e] = IF e \in EntriesOf(b) /\ clock[e] > 0
                       THEN clock[e] - 1 ELSE clock[e]
    BY DEF SweepBatch, Freed, EntriesOf
  <1> QED BY <1>1, <1>2, <1>3 DEF Evictable

\* Emptying goes on as the invariant says.
LEMMA EmptyingKept ==
    ASSUME HandAssumption, Batched, Emptying, HandNext
    PROVE  Emptying'
  <1>0. /\ HandTypeOK /\ HandsAreSet
        /\ thread \in [HandThreads -> ThreadState]
        /\ page \in [Entries -> {"free", "clean", "dirty", "writeback", "held"}]
        /\ clock \in [Entries -> 0 .. HandClockMax]
    BY DEF Batched, HandTypeOK
  <1>1. ASSUME NEW t \in HandThreads,
               CountPass(t) \/ AdvanceHand(t) \/ CountBatch(t)
                 \/ UpdateInterval(t) \/ Settle(t)
        PROVE  Emptying'
    <2>1. \E l, fh, h : Moves(t, l, fh, h) /\ l \notin ClosingLabels
      BY <1>0, <1>1, CountPassMoves, AdvanceHandMoves, CountBatchMoves,
         UpdateMoves, SettleMoves DEF ClosingLabels
    <2>2. thread[t].pc \notin ClosingLabels /\ thread[t].pc # "idle"
      BY <1>0, <1>1, UpdateMoves DEF CountPass, AdvanceHand, CountBatch, Settle,
                                     At, ClosingLabels
    <2> QED BY <2>1, <2>2, MovesKeepOpen
  <1>2. ASSUME NEW t \in HandThreads,
               NoFreeEntry(t) \/ EarlyEvict(t) \/ ReleaseBatch(t) \/ TryClean(t)
                 \/ CleanBatch(t) \/ TakeBatch(t) \/ EvictBatch(t)
        PROVE  Emptying'
    <2>1. \E l \in HandLabels \ ClosingLabels : Goto(t, l)
      BY <1>2 DEF NoFreeEntry, EarlyEvict, ReleaseBatch, TryClean, CleanBatch,
                  TakeBatch, EvictBatch, HandLabels, ClosingLabels
    <2>2. \E l, fh, h : Moves(t, l, fh, h) /\ l \notin ClosingLabels
      BY <1>0, <2>1, GotoMoves
    <2>3. thread[t].pc \notin ClosingLabels /\ thread[t].pc # "idle"
      BY <1>2 DEF NoFreeEntry, EarlyEvict, ReleaseBatch, TryClean, CleanBatch,
                  TakeBatch, EvictBatch, At, ClosingLabels
    <2> QED BY <2>2, <2>3, MovesKeepOpen
  <1>3. ASSUME NEW t \in HandThreads, GetFreePage(t) PROVE Emptying'
    <2>1. \E l, fh, h : Moves(t, l, fh, h) /\ l \notin ClosingLabels
      BY <1>0, <1>3, GetFreePageMoves DEF ClosingLabels
    <2> QED BY <1>3, <2>1, MovesKeepOpen DEF GetFreePage
  <1>4. ASSUME NEW t \in HandThreads, NEW e \in Entries, TakeEntry(t, e)
        PROVE  Emptying'
    <2>1. Moves(t, "idle", thread[t].free_hand, NoHand)
      BY <1>0, <1>4, ReturnMoves DEF TakeEntry
    <2> QED BY <1>4, <2>1, MovesKeepOpen DEF TakeEntry, At, ClosingLabels
  <1>5. ASSUME NEW t \in HandThreads, Flush(t) PROVE Emptying'
    <2>1. Moves(t, "flush", thread[t].free_hand, thread[t].hand)
      BY <1>0, <1>5, GotoMoves DEF Flush, HandLabels
    <2>2. /\ thread'[t].pc = "flush"
          /\ \A u \in HandThreads \ {t} : thread'[u].pc = "idle"
      BY <1>5, <2>1 DEF Moves, Flush, At
    <2>3. ASSUME NEW e \in Entries PROVE page'[e] \in {"free", "clean", "writeback"}
      <3>1. page[e] \in {"free", "clean", "dirty"} /\ clock[e] <= HandClockMax
        BY <1>0, <1>5 DEF Flush
      <3>2. page'[e] = IF Cleanable(e, HandClockMax) THEN "writeback" ELSE page[e]
        BY <1>5 DEF Flush, Written
      <3> QED BY <3>1, <3>2 DEF Cleanable
    <2> QED BY <2>2, <2>3 DEF Emptying, ClosingLabels
  <1>6. ASSUME NEW t \in HandThreads, StartEvictAll(t) PROVE Emptying'
    <2>1. /\ Moves(t, "empty", thread[t].free_hand, 0) /\ thread'[t].round = 0
          /\ 0 \in Batches
      BY <1>0, <1>6, StartEvictAllMoves
    <2>2. /\ thread[t].pc = "flush" /\ page' = page /\ clock' = clock
          /\ \A e \in Entries : page[e] # "writeback"
      BY <1>6 DEF StartEvictAll, At, entries
    <2>3. /\ thread'[t].pc = "empty" /\ thread'[t].hand = 0
          /\ \A u \in HandThreads \ {t} : thread'[u].pc = "idle"
      BY <2>1, <2>2 DEF Moves, Emptying, ClosingLabels
    <2>4. \A e \in Entries : page'[e] \in {"free", "clean"}
      BY <2>2 DEF Emptying, ClosingLabels
    <2>5. ASSUME NEW e \in Entries
          PROVE  ~(e \div EntriesPerBatch < 0) /\ clock'[e] + 0 <= HandClockMax
      BY <1>0, <2>2, EntryHasBatch DEF Batches, HandAssumption
    <2>6. HandClockMax >= 0
      BY DEF HandAssumption
    <2> QED BY <2>1, <2>3, <2>4, <2>5, <2>6 DEF Emptying, ClosingLabels
  <1>7. ASSUME NEW t \in HandThreads, EvictAll(t) PROVE Emptying'
    <2> DEFINE b == thread[t].hand
               k == thread[t].round
    <2>1. /\ thread[t].pc = "empty" /\ SweepBatch(b) /\ b \in Batches
          /\ k \in Nat /\ k <= HandClockMax /\ HandClockMax \in Nat
      BY <1>0, <1>7
      DEF EvictAll, At, Emptying, ThreadState, HandsAreSet, HandAssumption
    <2>2. ASSUME NEW e \in Entries
          PROVE  /\ page[e] \in {"free", "clean"}
                 /\ clock[e] \in 0 .. HandClockMax
                 /\ e \div EntriesPerBatch \in Batches
                 /\ e \div EntriesPerBatch < b => page[e] = "free"
                 /\ e \div EntriesPerBatch = b /\ page[e] = "clean" =>
                      clock[e] + k <= HandClockMax
      BY <1>0, <2>1, EntryHasBatch DEF Emptying, ClosingLabels
    <2>3. ASSUME NEW e \in Entries
          PROVE  /\ page'[e] \in {"free", "clean"}
                 /\ clock'[e] \in 0 .. HandClockMax
                 /\ e \div EntriesPerBatch < b => page'[e] = "free"
                 /\ e \div EntriesPerBatch = b /\ page'[e] = "clean" =>
                      clock'[e] + (k + 1) <= HandClockMax
      <3>1. clock'[e] \in 0 .. HandClockMax
        BY <2>1, <2>2 DEF SweepBatch
      <3>2. /\ page'[e] \in {"free", "clean"}
            /\ page[e] = "free" => page'[e] = "free"
            /\ e \div EntriesPerBatch = b /\ page'[e] = "clean" =>
                 clock[e] > 0 /\ clock'[e] = clock[e] - 1 /\ page[e] = "clean"
        BY <1>0, <2>1, <2>2, SweepEffect
      <3> QED BY <2>1, <2>2, <3>1, <3>2
    <2>4. \A u \in HandThreads \ {t} : thread[u].pc = "idle"
      BY <2>1 DEF Emptying, ClosingLabels
    <2>5. CASE /\ k + 1 # Rounds
               /\ Moves(t, "empty", thread[t].free_hand, b)
               /\ thread'[t].round = k + 1
      <3>1. k + 1 <= HandClockMax
        BY <2>1, <2>5 DEF Rounds
      <3>2. /\ thread'[t].pc = "empty" /\ thread'[t].hand = b
            /\ \A u \in HandThreads \ {t} : thread'[u].pc = "idle"
        BY <2>4, <2>5 DEF Moves
      <3> QED BY <2>3, <2>5, <3>1, <3>2 DEF Emptying, ClosingLabels
    <2>6. ASSUME k + 1 = Rounds, NEW e \in Entries, e \div EntriesPerBatch = b
          PROVE  page'[e] = "free"
      BY <2>1, <2>3, <2>6 DEF Rounds
    <2>7. CASE /\ k + 1 = Rounds /\ b + 1 \in Batches
               /\ Moves(t, "empty", thread[t].free_hand, b + 1)
               /\ thread'[t].round = 0
      <3>1. /\ thread'[t].pc = "empty" /\ thread'[t].hand = b + 1
            /\ \A u \in HandThreads \ {t} : thread'[u].pc = "idle"
        BY <2>4, <2>7 DEF Moves
      <3>2. ASSUME NEW e \in Entries
            PROVE  /\ e \div EntriesPerBatch < b + 1 => page'[e] = "free"
                   /\ clock'[e] + 0 <= HandClockMax
        <4>1. e \div EntriesPerBatch \in Nat /\ b \in Nat
          BY <2>1, <2>2 DEF Batches
        <4> QED BY <2>1, <2>3, <2>6, <2>7, <4>1
      <3> QED BY <2>1, <2>3, <2>7, <3>1, <3>2 DEF Emptying, ClosingLabels
    <2>8. CASE /\ k + 1 = Rounds /\ b + 1 = batch_capacity
               /\ Moves(t, "emptied", thread[t].free_hand, 0)
      <3>1. /\ thread'[t].pc = "emptied"
            /\ \A u \in HandThreads \ {t} : thread'[u].pc = "idle"
        BY <2>4, <2>8 DEF Moves
      <3>2. ASSUME NEW e \in Entries PROVE page'[e] = "free"
        <4>1. /\ e \div EntriesPerBatch \in Nat /\ b \in Nat
              /\ e \div EntriesPerBatch <= b
          BY <2>1, <2>2, <2>8 DEF Batches, HandAssumption
        <4> QED BY <2>3, <2>6, <2>8, <4>1
      <3> QED BY <3>1, <3>2 DEF Emptying, ClosingLabels
    <2> QED BY <1>0, <1>7, <2>5, <2>7, <2>8, EvictAllMoves
  <1>8. ASSUME NEW t \in HandThreads, Reopen(t) PROVE Emptying'
    <2>1. Moves(t, "idle", thread[t].free_hand, NoHand)
      BY <1>0, <1>8, ReturnMoves DEF Reopen
    <2>2. \A u \in HandThreads : thread'[u].pc = "idle"
      BY <1>8, <2>1 DEF Moves, Reopen, At, Emptying, ClosingLabels
    <2> QED BY <2>2 DEF Emptying, ClosingLabels
  <1>9. ASSUME NEW e \in Entries, Use(e) \/ \E use \in Uses : GiveBack(e, use)
        PROVE  Emptying'
    <2>1. ~Closing /\ thread' = thread
      BY <1>9 DEF Use, GiveBack
    <2> QED BY <2>1 DEF Emptying, Closing, ClosingLabels
  <1>10. ASSUME NEW e \in Entries, WriteDone(e) PROVE Emptying'
    <2>1. /\ thread' = thread /\ page[e] = "writeback"
          /\ page' = [page EXCEPT ![e] = "clean"]
      BY <1>10 DEF WriteDone
    <2>2. \A t \in HandThreads : thread[t].pc \notin {"empty", "emptied"}
      BY <2>1 DEF Emptying
    <2>3. ASSUME NEW t \in HandThreads, thread[t].pc \in ClosingLabels,
                 NEW f \in Entries
          PROVE  page'[f] \in {"free", "clean", "writeback"}
      BY <1>0, <2>1, <2>3 DEF Emptying
    <2> QED BY <2>1, <2>2, <2>3 DEF Emptying, ClosingLabels
  <1> QED
    BY <1>1, <1>2, <1>3, <1>4, <1>5, <1>6, <1>7, <1>8, <1>9, <1>10
    DEF HandNext, MoveHand

-----------------------------------------------------------------------------
(* The inductive invariant.                                                 *)
HandInv == Batched /\ UpdatesAdvance /\ Emptying

\* The invariant holds when the cache is created.
LEMMA HandInvInit == HandAssumption /\ HandInit => HandInv
  <1> SUFFICES ASSUME HandAssumption, HandInit PROVE HandInv
    OBVIOUS
  <1>1. NewThread \in ThreadState
    BY DEF NewThread, ThreadState, HandLabels, MaybeBatch
  <1>2. HandTypeOK
    BY <1>1 DEF HandInit, HandTypeOK, HandAssumption, Batches
  <1>3. \A t \in HandThreads : thread[t] = NewThread
    BY DEF HandInit
  <1>4. \A t \in HandThreads : thread[t].pc = "idle" /\ thread[t].free_hand = NoHand
    <2>1. NewThread.pc = "idle" /\ NewThread.free_hand = NoHand
      BY DEF NewThread
    <2> QED BY <1>3, <2>1
  <1>5. HandsAreSet /\ Emptying
    BY <1>4 DEF HandsAreSet, Emptying, ClosingLabels
  <1>6. UpdatesAdvance
    BY <1>4 DEF UpdatesAdvance, Advances, HandInit
  <1>7. \A t \in HandThreads : OwnedBatches(t) = {}
    BY <1>4, OwnedAt
  <1>8. Exclusive(owners, batch_busy)
    BY <1>7 DEF Exclusive, owners, HandInit
  <1> QED BY <1>2, <1>5, <1>6, <1>8 DEF HandInv, Batched

\* ... and every step keeps it.
LEMMA HandInvNext == HandAssumption /\ HandInv /\ [HandNext]_handVars => HandInv'
  <1> SUFFICES ASSUME HandAssumption, HandInv, [HandNext]_handVars PROVE HandInv'
    OBVIOUS
  <1>1. CASE HandNext
    <2>1. /\ thread' \in [HandThreads -> ThreadState]
          /\ HandsAreSet' /\ Exclusive(owners, batch_busy)'
      BY <1>1, BatchesKept DEF HandInv
    <2>2. HandTypeOK'
      BY <1>1, <2>1, CacheTypesKept DEF HandInv, Batched
    <2>3. UpdatesAdvance' /\ Emptying'
      BY <1>1, UpdatesKept, EmptyingKept DEF HandInv
    <2> QED BY <2>1, <2>2, <2>3 DEF HandInv, Batched
  <1>2. CASE UNCHANGED handVars
    <2>1. owners' = owners
      BY <1>2 DEF owners, OwnedBatches, Ahead, handVars
    <2> QED
      BY <1>2, <2>1 DEF handVars, HandInv, Batched, HandTypeOK, HandsAreSet,
                        Exclusive, UpdatesAdvance, Emptying
  <1> QED BY <1>1, <1>2

(* No two threads ever have the same batch of the cache, whether they scan  *)
(* it, clean it or evict from it, and a batch is marked busy exactly while  *)
(* a thread has it: what the assertions of treepass_move_hand rely on.      *)
THEOREM HandsExclusive == HandSpec => []BatchesAreExclusive
  <1>1. HandInv => BatchesAreExclusive
    <2> SUFFICES ASSUME HandInv PROVE BatchesAreExclusive
      OBVIOUS
    <2>1. /\ \A t \in HandThreads : OwnedBatches(t) \subseteq Batches
          /\ \A t, u \in HandThreads : t # u => OwnedBatches(t) \cap OwnedBatches(u) = {}
          /\ \A b \in Batches : batch_busy[b] <=> \E t \in HandThreads : b \in OwnedBatches(t)
      BY DEF HandInv, Batched, Exclusive, owners
    <2> QED BY <2>1 DEF BatchesAreExclusive
  <1> QED BY HandConstants, HandInvInit, HandInvNext, <1>1, PTL DEF HandSpec

(* No sweep of the cache is averaged into the eviction interval twice,      *)
(* however the reads, the compare-and-swap and the stores of the threads    *)
(* that measure interleave, and treepass_evict_all leaves no page behind,   *)
(* whatever clocks the pages had.                                           *)
THEOREM SweepsExact == HandSpec => [](SweepsCountedOnce /\ EmptiedIsEmpty)
  <1>1. HandInv => EmptiedIsEmpty
    BY DEF HandInv, Emptying, EmptiedIsEmpty, At
  <1>2. HandInv => SweepsCountedOnce
    <2> SUFFICES ASSUME HandInv PROVE SweepsCountedOnce
      OBVIOUS
    <2>1. /\ last_ei_check_cycle \in Nat
          /\ \A t \in HandThreads : thread[t].cycle \in Nat /\ thread[t].expected \in Nat
      BY DEF HandInv, Batched, HandTypeOK, ThreadState
    <2>2. evict_interval \subseteq 1 .. last_ei_check_cycle
      BY DEF HandInv, UpdatesAdvance
    <2>3. ASSUME NEW t \in HandThreads, thread[t].pc = "store"
          PROVE  /\ SweepsOf(thread[t]) \subseteq 1 .. last_ei_check_cycle
                 /\ SweepsOf(thread[t]) \cap thread[t].ei = {}
      <3>1. /\ thread[t].ei \subseteq 1 .. thread[t].expected
            /\ thread[t].cycle <= last_ei_check_cycle
        BY <2>3 DEF HandInv, UpdatesAdvance, Advances
      <3> QED BY <2>1, <3>1 DEF SweepsOf
    <2>4. ASSUME NEW t \in HandThreads, NEW u \in HandThreads \ {t},
                 thread[t].pc = "store", thread[u].pc = "store"
          PROVE  SweepsOf(thread[t]) \cap SweepsOf(thread[u]) = {}
      <3>1. \/ thread[t].cycle <= thread[u].expected
            \/ thread[u].cycle <= thread[t].expected
        BY <2>4 DEF HandInv, UpdatesAdvance
      <3> QED BY <2>1, <3>1 DEF SweepsOf
    <2> QED BY <2>2, <2>3, <2>4 DEF SweepsCountedOnce, At
  <1> QED BY HandConstants, HandInvInit, HandInvNext, <1>1, <1>2, PTL DEF HandSpec
=============================================================================
