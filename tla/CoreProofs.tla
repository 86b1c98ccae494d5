----------------------------- MODULE CoreProofs -----------------------------
(***************************************************************************)
(* Proofs about memtables and their incorporation, for any number of       *)
(* threads, keys, memtables and inserts.                                   *)
(*                                                                         *)
(* The argument.  What a lookup finds is right (OrderOK) because newer     *)
(* generations have newer values and the generations between the retired   *)
(* and the current one are all there (WindowOK); they are, because the     *)
(* turn to incorporate passes from generation to generation without being  *)
(* lost or doubled (TasksOK, StatesOK), a rotation waits for the next      *)
(* memtable (InsertersOK) and a memtable is recycled only when nobody has  *)
(* a reference to it (RefsOK, HoldsOK).  A packed branch and a prepared    *)
(* root have the tuples of their memtable (ContentOK), so the way that is  *)
(* left to a reader has what it must find (ReadersOK).                     *)
(***************************************************************************)
EXTENDS Core, FiniteSetTheorems, WellFoundedInduction, TLAPS
-----------------------------------------------------------------------------
(* The inductive invariant                                                 *)

NatMaps == [UserKeys -> Nat]

Bounded ==
    /\ generation \in Nat /\ to_incorporate \in Nat
    /\ retired \in Int /\ -1 <= retired /\ retired < generation
    /\ is_empty \in BOOLEAN /\ clean \in BOOLEAN
    /\ open \in {"open", "closing", "closed"}
    /\ latest \in NatMaps /\ trunk \in NatMaps /\ prepared \in NatMaps
    /\ super \in [root : NatMaps, unmounted : BOOLEAN]

MtRecords == [state : States, gen : Nat, ref : Nat \ {0}, tuples : NatMaps,
              count : Nat]
BranchRecords == [tuples : NatMaps, refs : Nat]
TaskRecords == [pc : TaskPcs, gen : Nat]
OpRecords == [pc : OpPcs, key : UserKeys, gen : Int, end : Int, root : NatMaps,
              floor : NatMaps, val : Nat,
              hold : SUBSET [gen : Gens, packed : BOOLEAN]]

Typed ==
    /\ mt \in [Slots -> MtRecords]
    /\ cmt \in [Slots -> Int]
    /\ branch \in [Gens -> BranchRecords]
    /\ task \in [Gens -> TaskRecords]
    /\ op \in [Threads -> OpRecords]

TypesOK == Bounded /\ Typed

\* Inserts that were called and have not reached a memtable.
InsertPcs == {"begin", "rotate", "lock", "advance", "insert"}
Pending == {t \in Threads : op[t].pc \in InsertPcs}

\* Every generation but the current one took an insert, so generations do
\* not run out before inserts do.
CountOK ==
    /\ inserts \in Nat /\ inserts <= MaxInserts
    /\ generation + (IF is_empty THEN 0 ELSE 1) + Cardinality(Pending) <= inserts

\* The database is closed or being closed: only flush tasks run.
Shut == open = "closing" \/ clean

\* Which generations the memtables have: those between the retired one and
\* the current one are all there.
WindowOK ==
    /\ \A s \in Slots :
          /\ Slot(mt[s].gen) = s
          /\ mt[s].gen <= retired + N
          /\ generation - N <= mt[s].gen
          /\ ~Shut => generation - N < mt[s].gen
    /\ \A g \in Gens : retired < g /\ g < generation => Mt(g).gen = g
    /\ ~Shut => Mt(generation).gen = generation

\* A thread about to advance has finalized the current memtable.
Advancing == \E t \in Threads : op[t].pc = "advance"

\* What a memtable's generation says of its state.
StateOK(s) ==
    LET m == mt[s] IN
    /\ m.state = "INCORPORATED" <=> m.gen <= retired
    /\ m.count > 0 => m.tuples # Empty
    /\ m.gen > generation =>
          m.state = "READY" /\ m.tuples = Empty /\ m.count = 0
    /\ m.gen = generation =>
          /\ m.state \in {"READY", "FINALIZED"}
          /\ m.state = "FINALIZED" <=> Advancing
          /\ is_empty => m.tuples = Empty
          /\ ~is_empty => m.count > 0
    /\ m.gen < generation =>
          /\ m.state # "READY" /\ m.tuples # Empty
          /\ m.state = "FINALIZED" => task[m.gen].pc = "queued"
          /\ m.state = "COMPACTING" => task[m.gen].pc = "compact"
          /\ m.state = "ASSIGNED" =>
                /\ m.gen = to_incorporate
                /\ \E i \in Gens :
                      task[i].pc \in {"prepare", "release", "block", "commit"}

StatesOK == \A s \in Slots : StateOK(s)

BeforeCommit == {"prepare", "release", "block", "commit"}
AfterCommit == {"recycle", "continue"}
Incorporates(g) == task[g].pc \in BeforeCommit \cup AfterCommit

\* Where the flush task of generation g is.
TaskOK(g) ==
    /\ g >= generation <=> task[g].pc = "none"
    /\ task[g].pc \in {"queued", "compact", "start"} => task[g].gen = g
    /\ task[g].pc \in {"queued", "compact"} => retired < g
    /\ task[g].pc = "queued" => Mt(g).state = "FINALIZED"
    /\ task[g].pc = "compact" => Mt(g).state = "COMPACTING"
    /\ task[g].pc = "start" /\ retired < g =>
          Mt(g).state \in {"COMPACTED", "ASSIGNED"}
    /\ task[g].pc \in BeforeCommit =>
          /\ task[g].gen = to_incorporate /\ to_incorporate = retired + 1
          /\ to_incorporate < generation
          /\ Mt(to_incorporate).state = "ASSIGNED"
    /\ task[g].pc \in AfterCommit =>
          task[g].gen = to_incorporate /\ to_incorporate = retired
    /\ task[g].pc = "recycle" => Mt(retired).gen = retired

\* One task incorporates at a time; when none does, the task of the next
\* generation is still to come, if that has been finalized.
TasksOK ==
    /\ \A g \in Gens : TaskOK(g)
    /\ \A g, h \in Gens : Incorporates(g) /\ Incorporates(h) => g = h
    /\ (\A g \in Gens : ~Incorporates(g)) =>
          \/ /\ to_incorporate = retired + 1
             /\ to_incorporate < generation =>
                   task[to_incorporate].pc \in {"queued", "compact", "start"}
          \/ Shut /\ generation = retired + 1

\* Inserters: the generation does not move under a thread that has the
\* insert lock, and a thread that rotates finds the next memtable ready.
InsertersOK ==
    /\ \A t \in Threads :
          op[t].pc \in {"rotate", "lock", "advance", "insert"} =>
             op[t].gen = generation
    /\ \A t \in Threads :
          op[t].pc \in {"rotate", "lock", "advance"} =>
             /\ Mt(generation).count > 0
             /\ Mt(generation + 1).gen = generation + 1
    /\ \A t, u \in Threads :
          op[t].pc \in {"lock", "advance"} /\ op[u].pc \in {"lock", "advance"} =>
             t = u
    /\ \A t, u \in Threads :
          op[t].pc = "advance" => op[u].pc \notin {"rotate", "insert", "end"}

\* Packed branches and the prepared root have the content of their memtables.
ContentOK ==
    /\ \A s \in Slots :
          mt[s].state \in {"COMPACTED", "ASSIGNED"} =>
             /\ cmt[s] = mt[s].gen
             /\ branch[mt[s].gen].tuples = mt[s].tuples
    /\ \A g \in Gens :
          task[g].pc \in {"release", "block", "commit"} =>
             prepared = Over(Mt(to_incorporate).tuples, trunk)

\* A memtable that lookups search.
Searched(s) == retired < mt[s].gen /\ mt[s].gen <= generation

\* Newer generations have newer values, the trunk the oldest, and the latest
\* is among them.
OrderOK ==
    \A k \in UserKeys :
       /\ trunk[k] <= latest[k]
       /\ \A s \in Slots : Searched(s) =>
             /\ mt[s].tuples[k] <= latest[k]
             /\ mt[s].tuples[k] # 0 => trunk[k] <= mt[s].tuples[k]
             /\ \A r \in Slots :
                   Searched(r) /\ mt[r].gen < mt[s].gen /\ mt[s].tuples[k] # 0 =>
                      mt[r].tuples[k] <= mt[s].tuples[k]
       /\ \/ trunk[k] = latest[k]
          \/ \E s \in Slots : Searched(s) /\ mt[s].tuples[k] = latest[k]

\* The memtables and branches that iterators hold.
Users(g) == {t \in Threads : [gen |-> g, packed |-> FALSE] \in op[t].hold}
Packers(g) == {t \in Threads : [gen |-> g, packed |-> TRUE] \in op[t].hold}

HoldsOK ==
    \A t \in Threads : \A h \in op[t].hold :
       IF h.packed
       THEN /\ h.gen < generation
            /\ h.gen <= retired \/ Mt(h.gen).state \in {"COMPACTED", "ASSIGNED"}
       ELSE Mt(h.gen).gen = h.gen

\* The memtable's own reference, until its incorporation gives it back ...
Own(g) == \/ g > retired
          \/ g = retired /\ \E i \in Gens : task[i].pc = "recycle"

\* ... and those of its branch: of the memtable, and of the new root.
BranchOwn(g) == Mt(g).gen = g /\ Packed(g)
RootOwn(g) == \E i \in Gens : task[i].pc = "release" /\ task[i].gen = g

MtRefOK(s) ==
    Cardinality(Users(mt[s].gen)) + (IF Own(mt[s].gen) THEN 1 ELSE 0) <= mt[s].ref
BranchRefOK(g) ==
    Cardinality(Packers(g)) + (IF BranchOwn(g) THEN 1 ELSE 0)
       + (IF RootOwn(g) THEN 1 ELSE 0) <= branch[g].refs

RefsOK == (\A s \in Slots : MtRefOK(s)) /\ (\A g \in Gens : BranchRefOK(g))

\* What lookups and iterators will find on the way that is left to them.
Ahead(t, k) ==
    \/ trunk[k] >= op[t].floor[k]
    \/ \E s \in Slots : /\ retired < mt[s].gen /\ mt[s].gen <= op[t].gen
                        /\ mt[s].tuples[k] >= op[t].floor[k]
Held(t, k) ==
    \E h \in op[t].hold :
       IF h.packed THEN branch[h.gen].tuples[k] >= op[t].floor[k]
       ELSE Mt(h.gen).tuples[k] >= op[t].floor[k]

ReaderOK(t) ==
    /\ op[t].pc \in {"memtables", "collect"} =>
          op[t].end = retired /\ retired <= op[t].gen /\ op[t].gen <= generation
    /\ op[t].pc = "memtables" => Ahead(t, op[t].key)
    /\ op[t].pc = "trunk" => op[t].root[op[t].key] >= op[t].floor[op[t].key]
    /\ op[t].pc = "found" => op[t].val >= op[t].floor[op[t].key]
    /\ op[t].pc = "collect" => \A k \in UserKeys : Ahead(t, k) \/ Held(t, k)
    /\ op[t].pc = "iterate" => \A k \in UserKeys :
          op[t].root[k] >= op[t].floor[k] \/ Held(t, k)

ReadersOK == \A t \in Threads : ReaderOK(t)

\* A database that was closed has everything in the root of its super block.
LifeOK ==
    /\ Shut => is_empty /\ \A t \in Threads : op[t].pc = "idle"
    /\ super.unmounted => clean
    /\ clean => /\ open = "closed" /\ super.unmounted /\ super.root = latest
                /\ \A g \in Gens : task[g].pc \in {"none", "done"}

IInv == /\ TypesOK /\ CountOK /\ LifeOK /\ WindowOK /\ StatesOK /\ TasksOK
        /\ InsertersOK /\ ContentOK /\ OrderOK /\ HoldsOK /\ RefsOK /\ ReadersOK
-----------------------------------------------------------------------------
(* Slots: the memtable of generation g is memtables[g % N]                 *)

\* A number is quotient times divisor plus remainder.
LEMMA Division ==
    ASSUME NEW n \in Nat \ {0}, NEW g \in Nat
    PROVE  /\ g = n * (g \div n) + (g % n)
           /\ g \div n \in Int /\ g % n \in 0 .. n - 1
  OBVIOUS

\* Equal numbers have equal remainders.
LEMMA Remainder ==
    ASSUME NEW n \in Nat \ {0}, NEW q \in Int, NEW r \in 0 .. n - 1,
           NEW p \in Int, NEW s \in 0 .. n - 1, n * q + r = n * p + s
    PROVE  r = s
<1>1. n * (q - p) = s - r OBVIOUS
<1>2. CASE q > p
  <2>1. n * (q - p) >= n  BY <1>2
  <2> QED BY <2>1, <1>1
<1>3. CASE p > q
  <2>1. n * (p - q) >= n  BY <1>3
  <2>2. n * (p - q) = r - s OBVIOUS
  <2> QED BY <2>1, <2>2
<1> QED BY <1>1, <1>2, <1>3

\* A generation has a slot.
LEMMA SlotType == \A g \in Nat : Slot(g) \in Slots
  BY CoreAssumption DEF Slot, Slots

\* memtable_context_create gives slot s the generation s.
LEMMA FirstSlots == \A s \in Slots : s \in Nat /\ Slot(s) = s
  BY CoreAssumption DEF Slot, Slots

\* Recycling a memtable leaves it in its slot.
LEMMA NextSlot == \A g, h \in Nat : h = g + N => Slot(h) = Slot(g)
<1> SUFFICES ASSUME NEW g \in Nat, NEW h \in Nat, h = g + N
             PROVE  h % N = g % N
  BY DEF Slot
<1>0. N \in Nat \ {0} BY CoreAssumption
<1>1. g = N * (g \div N) + (g % N) /\ g \div N \in Int /\ g % N \in 0 .. N - 1
  BY <1>0, Division
<1>2. h = N * (h \div N) + (h % N) /\ h \div N \in Int /\ h % N \in 0 .. N - 1
  BY <1>0, Division
<1> SUFFICES ASSUME NEW q \in Int, NEW r \in 0 .. N - 1, NEW p \in Int,
                    NEW s \in 0 .. N - 1, g = N * q + r, h = N * p + s
             PROVE  s = r
  BY <1>1, <1>2
<1>3. N * (q + 1) + r = N * p + s BY CoreAssumption
<1>4. q + 1 \in Int OBVIOUS
<1> QED BY <1>3, <1>4, Remainder, CoreAssumption

\* Generations less than N apart have different slots.
LEMMA NearSlots ==
    ASSUME NEW g \in Nat, NEW h \in Nat, g - h < N, h - g < N, Slot(g) = Slot(h)
    PROVE  g = h
<1>1. g = N * (g \div N) + (g % N) /\ g \div N \in Int
  BY CoreAssumption, Division
<1>2. h = N * (h \div N) + (h % N) /\ h \div N \in Int
  BY CoreAssumption, Division
<1>3. g - h = N * ((g \div N) - (h \div N))
  BY <1>1, <1>2, CoreAssumption DEF Slot
<1> SUFFICES ASSUME NEW d \in Int, g - h = N * d PROVE g = h
  BY <1>1, <1>2, <1>3
<1>4. d < 1 /\ d > -1  BY CoreAssumption
<1>5. d = 0 BY <1>4
<1> QED BY <1>5, CoreAssumption

-----------------------------------------------------------------------------
(* Creating and opening the database                                       *)

\* What core_create and core_mount have in common.
Fresh ==
    /\ generation = 0 /\ to_incorporate = 0 /\ retired = -1 /\ is_empty = TRUE
    /\ mt = FreshMemtables
    /\ cmt = [s \in Slots |-> -1]
    /\ branch = [g \in Gens |-> [tuples |-> Empty, refs |-> 0]]
    /\ trunk \in NatMaps /\ prepared \in NatMaps /\ latest = trunk
    /\ task = [g \in Gens |-> NoTask]
    /\ op = [t \in Threads |-> NoOp]
    /\ super \in [root : NatMaps, unmounted : {FALSE}]
    /\ open = "open" /\ clean = FALSE
    /\ inserts \in Nat /\ inserts <= MaxInserts

\* An empty tree has no key.
LEMMA EmptyMap == Empty \in NatMaps /\ \A k \in UserKeys : Empty[k] = 0
  BY DEF Empty, NatMaps

\* The record of a thread in no call.
LEMMA NoOpType ==
    NoOp \in OpRecords /\ NoOp.pc = "idle" /\ NoOp.hold = {}
<1>1. (CHOOSE k \in UserKeys : TRUE) \in UserKeys BY CoreAssumption
<1> QED BY <1>1, EmptyMap DEF NoOp, OpPcs, OpRecords

\* What memtable_init leaves in a slot.
LEMMA FreshSlots ==
    ASSUME Fresh, NEW s \in Slots
    PROVE  /\ mt[s].state = "READY" /\ mt[s].gen = s /\ mt[s].ref = 1
           /\ mt[s].tuples = Empty /\ mt[s].count = 0
  BY DEF Fresh, FreshMemtables

\* A database that was just created or opened satisfies the invariant.
LEMMA FreshHolds == Fresh => IInv
<1> SUFFICES ASSUME Fresh PROVE IInv
  OBVIOUS
<1>1. \A t \in Threads : op[t].pc = "idle" /\ op[t].hold = {}
  BY NoOpType DEF Fresh
<1>2. \A g \in Gens : g \in Nat /\ task[g].pc = "none" /\ task[g].gen = 0
  BY CoreAssumption DEF Fresh, NoTask, Gens
<1>3. TypesOK
  <2>1. mt \in [Slots -> MtRecords]
    BY EmptyMap, FirstSlots DEF Fresh, FreshMemtables, States, MtRecords
  <2>2. op \in [Threads -> OpRecords] BY NoOpType DEF Fresh
  <2>3. task \in [Gens -> TaskRecords]
    BY DEF Fresh, NoTask, TaskPcs, TaskRecords
  <2>4. branch \in [Gens -> BranchRecords]
    BY EmptyMap DEF Fresh, BranchRecords
  <2>5. Bounded
    <3>1. super \in [root : NatMaps, unmounted : BOOLEAN] BY DEF Fresh
    <3>2. generation = 0 /\ to_incorporate = 0 /\ retired = -1 BY DEF Fresh
    <3>3. is_empty \in BOOLEAN /\ clean \in BOOLEAN BY DEF Fresh
    <3>4. latest \in NatMaps /\ trunk \in NatMaps /\ prepared \in NatMaps
      BY DEF Fresh
    <3>5. open \in {"open", "closing", "closed"} BY DEF Fresh
    <3> QED BY <3>1, <3>2, <3>3, <3>4, <3>5 DEF Bounded
  <2>6. cmt \in [Slots -> Int] BY DEF Fresh
  <2> QED BY <2>1, <2>2, <2>3, <2>4, <2>5, <2>6 DEF TypesOK, Typed
<1>4. CountOK
  <2>1. Pending = {} BY <1>1 DEF Pending, InsertPcs
  <2> QED BY <2>1, FS_EmptySet DEF Fresh, CountOK
<1>5. LifeOK BY <1>1, <1>2 DEF LifeOK, Fresh, Shut
<1>6. WindowOK
  <2>1. 0 \in Slots BY CoreAssumption DEF Slots
  <2>2. Slot(0) = 0 BY <2>1, FirstSlots
  <2>3. \A s \in Slots : s \in Nat /\ Slot(s) = s /\ s <= -1 + N /\ 0 - N < s /\ 0 - N <= s
    BY FirstSlots, CoreAssumption DEF Slots
  <2>4. Mt(0).gen = 0 BY <2>1, <2>2, FreshSlots DEF Mt
  <2>5. \A g \in Gens : ~(g < 0) BY DEF Gens
  <2> QED BY <2>3, <2>4, <2>5, FreshSlots DEF WindowOK, Fresh
<1>7. StatesOK
  <2>1. ~Advancing BY <1>1 DEF Advancing
  <2>2. generation = 0 /\ retired = -1 /\ is_empty BY DEF Fresh
  <2>3. ASSUME NEW s \in Slots PROVE StateOK(s)
    <3>1. mt[s].gen \in Nat BY FreshSlots, FirstSlots
    <3> QED BY <2>1, <2>2, <3>1, FreshSlots DEF StateOK
  <2> QED BY <2>3 DEF StatesOK
<1>8. TasksOK
  BY <1>2 DEF TasksOK, TaskOK, Incorporates, BeforeCommit, AfterCommit, Fresh
<1>9. InsertersOK BY <1>1 DEF InsertersOK
<1>10. ContentOK BY <1>2, FreshSlots DEF ContentOK
<1>11. OrderOK
  <2>1. \A s \in Slots, k \in UserKeys : mt[s].tuples[k] = 0
    BY FreshSlots, EmptyMap
  <2>2. \A k \in UserKeys : latest[k] = trunk[k] /\ trunk[k] \in Nat
    BY DEF Fresh, NatMaps
  <2> QED BY <2>1, <2>2 DEF OrderOK
<1>12. HoldsOK BY <1>1 DEF HoldsOK
<1>13. RefsOK
  <2>1. \A g : Users(g) = {} /\ Packers(g) = {} BY <1>1 DEF Users, Packers
  <2>2. \A g \in Gens : ~BranchOwn(g)
    BY FreshSlots, <1>2, SlotType DEF BranchOwn, Packed, Mt
  <2>3. \A g \in Gens : ~RootOwn(g) BY <1>2 DEF RootOwn
  <2>4. \A g \in Gens : branch[g].refs = 0 BY DEF Fresh
  <2> QED BY <2>1, <2>2, <2>3, <2>4, FS_EmptySet, FreshSlots
     DEF RefsOK, MtRefOK, BranchRefOK
<1>14. ReadersOK BY <1>1 DEF ReadersOK, ReaderOK
<1> QED
  BY <1>3, <1>4, <1>5, <1>6, <1>7, <1>8, <1>9, <1>10, <1>11, <1>12, <1>13, <1>14
     DEF IInv

\* core_create establishes the invariant.
LEMMA InitHolds == Init => IInv
<1>1. Init => Fresh BY EmptyMap, CoreAssumption DEF Init, Fresh
<1> QED BY <1>1, FreshHolds

\* A database that was closed opens with everything, another one empty.
LEMMA MountKeeps ==
    ASSUME IInv, Mount
    PROVE  IInv'
<1>1. Fresh'
  <2>1. MountedRoot \in NatMaps /\ MountedRoot = IF clean THEN latest ELSE Empty
    BY EmptyMap DEF IInv, TypesOK, Bounded, LifeOK, MountedRoot
  <2>2. super' \in [root : NatMaps, unmounted : {FALSE}]
    BY <2>1 DEF Mount, SuperBlock
  <2>3. inserts' \in Nat /\ inserts' <= MaxInserts BY DEF IInv, CountOK, Mount
  <2> QED BY <2>1, <2>2, <2>3 DEF Mount, Fresh
<1>2. (Fresh => IInv)' BY FreshHolds, PTL
<1> QED BY <1>1, <1>2

-----------------------------------------------------------------------------
(* Steps of one thread that change only what it is doing                   *)

\* Threads can be counted.
LEMMA ThreadsFinite ==
    ASSUME NEW S \in SUBSET Threads
    PROVE  IsFiniteSet(S) /\ Cardinality(S) \in Nat
  BY CoreAssumption, FS_Subset, FS_CardinalityType

\* Thread t goes on; it may let references go, the others stay where they are.
OpMoves(t) ==
    /\ op' \in [Threads -> OpRecords]
    /\ \A u \in Threads : u # t => op'[u] = op[u]
    /\ op'[t].hold \subseteq op[t].hold
    /\ UNCHANGED <<generation, to_incorporate, retired, is_empty, mt, cmt, branch,
                   trunk, prepared, task, super, open, clean, latest>>

\* A thread outside the rotation and the insert takes no part in the locks.
Outside == OpPcs \ {"rotate", "lock", "advance", "insert", "end"}

\* A thread outside the insert lock disturbs no inserter.
LEMMA LeaveInsert ==
    ASSUME IInv, NEW t \in Threads, OpMoves(t), op'[t].pc \in Outside
    PROVE  InsertersOK'
<1>1. \A u \in Threads : u # t => op'[u] = op[u] BY DEF OpMoves
<1>2. generation' = generation /\ mt' = mt BY DEF OpMoves
<1>3. op'[t].pc \notin {"rotate", "lock", "advance", "insert", "end"}
  BY DEF Outside
<1>4. InsertersOK BY DEF IInv
<1> QED BY <1>1, <1>2, <1>3, <1>4 DEF InsertersOK, Mt

\* A step that neither begins nor finishes an insert keeps the count.
LEMMA SamePending ==
    ASSUME IInv, NEW t \in Threads, OpMoves(t), inserts' = inserts,
           op[t].pc \in InsertPcs <=> op'[t].pc \in InsertPcs
    PROVE  CountOK'
<1>1. Pending' = Pending BY DEF Pending, OpMoves
<1>2. generation' = generation /\ is_empty' = is_empty BY DEF OpMoves
<1> QED BY <1>1, <1>2 DEF IInv, CountOK

\* Letting go of references only lowers the counts.
LEMMA FewerHolders ==
    ASSUME NEW t \in Threads, OpMoves(t), NEW g
    PROVE  /\ Cardinality(Users(g)') <= Cardinality(Users(g))
           /\ Cardinality(Packers(g)') <= Cardinality(Packers(g))
           /\ Cardinality(Users(g)') \in Nat /\ Cardinality(Packers(g)') \in Nat
           /\ Cardinality(Users(g)) \in Nat /\ Cardinality(Packers(g)) \in Nat
<1>1. Users(g)' \subseteq Users(g) /\ Packers(g)' \subseteq Packers(g)
  BY DEF OpMoves, Users, Packers
<1>2. Users(g) \in SUBSET Threads /\ Packers(g) \in SUBSET Threads
  BY DEF Users, Packers
<1>3. Users(g)' \in SUBSET Threads /\ Packers(g)' \in SUBSET Threads
  BY <1>1, <1>2
<1> QED BY <1>1, <1>2, <1>3, ThreadsFinite, FS_Subset

\* A step that only moves one thread keeps the invariant, if it keeps the
\* parts about that thread.
LEMMA OpKeeps ==
    ASSUME IInv, NEW t \in Threads, OpMoves(t), ~Shut,
           op[t].pc # "advance", op'[t].pc # "advance",
           CountOK', InsertersOK', ReaderOK(t)'
    PROVE  IInv'
<1>1. UNCHANGED <<generation, to_incorporate, retired, is_empty, mt, cmt, branch,
                  trunk, prepared, task, super, open, clean, latest>>
  BY DEF OpMoves
<1>2. TypesOK' BY <1>1 DEF IInv, TypesOK, Bounded, Typed, OpMoves
<1>3. ~Shut' BY <1>1 DEF Shut
<1>4. LifeOK' BY <1>1, <1>3 DEF IInv, LifeOK, Shut
<1>5. WindowOK' BY <1>1, <1>3 DEF IInv, WindowOK, Mt
<1>6. StatesOK'
  <2>1. Advancing' <=> Advancing BY DEF Advancing, OpMoves
  <2> QED BY <1>1, <2>1 DEF IInv, StatesOK, StateOK
<1>7. TasksOK'
  <2>1. \A g : TaskOK(g)' <=> TaskOK(g) BY <1>1 DEF TaskOK, Mt
  <2>2. \A g : Incorporates(g)' <=> Incorporates(g) BY <1>1 DEF Incorporates
  <2> QED BY <1>1, <1>3, <2>1, <2>2 DEF IInv, TasksOK
<1>8. ContentOK' BY <1>1 DEF IInv, ContentOK, Mt
<1>9. OrderOK' BY <1>1 DEF IInv, OrderOK, Searched
<1>10. HoldsOK'
  <2>1. \A u \in Threads : op'[u].hold \subseteq op[u].hold BY DEF OpMoves
  <2> QED BY <1>1, <2>1 DEF IInv, HoldsOK, Mt
<1>11. RefsOK'
  <2>1. \A g : (Own(g)' <=> Own(g)) /\ (BranchOwn(g)' <=> BranchOwn(g))
               /\ (RootOwn(g)' <=> RootOwn(g))
    BY <1>1 DEF Own, BranchOwn, RootOwn, Packed, Mt
  <2>2. ASSUME NEW s \in Slots, NEW g, g = mt[s].gen
        PROVE  Cardinality(Users(g)') + (IF Own(g) THEN 1 ELSE 0) <= mt[s].ref
    <3>1. Cardinality(Users(g)) + (IF Own(g) THEN 1 ELSE 0) <= mt[s].ref
      BY <2>2 DEF IInv, RefsOK, MtRefOK
    <3>2. mt[s].ref \in Nat BY DEF IInv, TypesOK, Typed, MtRecords
    <3> QED BY <3>1, <3>2, FewerHolders
  <2>3. ASSUME NEW g \in Gens
        PROVE  Cardinality(Packers(g)') + (IF BranchOwn(g) THEN 1 ELSE 0)
                  + (IF RootOwn(g) THEN 1 ELSE 0) <= branch[g].refs
    <3>1. Cardinality(Packers(g)) + (IF BranchOwn(g) THEN 1 ELSE 0)
             + (IF RootOwn(g) THEN 1 ELSE 0) <= branch[g].refs
      BY DEF IInv, RefsOK, BranchRefOK
    <3>2. branch[g].refs \in Nat BY DEF IInv, TypesOK, Typed, BranchRecords
    <3> QED BY <3>1, <3>2, FewerHolders
  <2>4. \A s \in Slots : MtRefOK(s)' BY <1>1, <2>1, <2>2 DEF MtRefOK, Users
  <2>5. \A g \in Gens : BranchRefOK(g)' BY <1>1, <2>1, <2>3 DEF BranchRefOK
  <2> QED BY <2>4, <2>5 DEF RefsOK
<1>12. ReadersOK'
  <2>1. \A u \in Threads : u # t => op'[u] = op[u] BY DEF OpMoves
  <2>2. ASSUME NEW u \in Threads, u # t PROVE ReaderOK(u)'
    <3>1. ReaderOK(u) BY DEF IInv, ReadersOK
    <3>2. op'[u] = op[u] BY <2>1, <2>2
    <3> QED BY <1>1, <3>1, <3>2 DEF ReaderOK, Ahead, Held, Mt
  <2> QED BY <2>2 DEF ReadersOK
<1> QED
  BY <1>2, <1>4, <1>5, <1>6, <1>7, <1>8, <1>9, <1>10, <1>11, <1>12 DEF IInv

\* The record that such a step writes.
LEMMA OpSet ==
    ASSUME IInv, NEW t \in Threads, NEW o \in OpRecords,
           op' = [op EXCEPT ![t] = o], o.hold \subseteq op[t].hold,
           UNCHANGED <<ctxt, store, task, life, latest>>
    PROVE  OpMoves(t) /\ op'[t] = o
<1>1. op \in [Threads -> OpRecords] BY DEF IInv, TypesOK, Typed
<1> QED BY <1>1 DEF OpMoves, ctxt, store, life

\* A thread in a call keeps the database from being closed.
LEMMA NotShut ==
    ASSUME IInv, NEW t \in Threads, op[t].pc # "idle" \/ open = "open"
    PROVE  ~Shut
  BY DEF IInv, LifeOK, Shut

ReaderPcs == {"memtables", "trunk", "found", "collect", "iterate"}

\* Only lookups and iterators have something to find.
LEMMA NoReader ==
    ASSUME NEW t \in Threads, op'[t].pc \notin ReaderPcs
    PROVE  ReaderOK(t)'
  BY DEF ReaderOK, ReaderPcs

\* A thread that leaves the insert, or never was in it.
LEMMA QuietOp ==
    ASSUME IInv, NEW t \in Threads, OpMoves(t), inserts' = inserts,
           op[t].pc # "idle" \/ open = "open",
           op[t].pc \notin InsertPcs, op'[t].pc \in Outside \ {"begin"},
           ReaderOK(t)'
    PROVE  IInv'
<1>1. InsertersOK' BY LeaveInsert
<1>2. op'[t].pc \notin InsertPcs BY DEF InsertPcs, Outside
<1>3. op'[t].pc # "advance" /\ op[t].pc # "advance" BY DEF Outside, InsertPcs
<1> QED BY <1>1, <1>2, <1>3, NotShut, SamePending, OpKeeps

\* Generations do not run out.
LEMMA GenBound ==
    ASSUME IInv
    PROVE  /\ generation <= MaxInserts
           /\ ~is_empty \/ Pending # {} => generation + 1 <= MaxInserts
           /\ \A g \in Nat : g <= generation => g \in Gens
<1>1. IsFiniteSet(Pending) /\ Cardinality(Pending) \in Nat
  BY ThreadsFinite DEF Pending
<1>2. Pending # {} => Cardinality(Pending) > 0 BY <1>1, FS_EmptySet
<1>3. generation \in Nat /\ MaxInserts \in Nat
  BY CoreAssumption DEF IInv, TypesOK, Bounded
<1>4. /\ generation <= MaxInserts
      /\ ~is_empty \/ Pending # {} => generation + 1 <= MaxInserts
  BY <1>1, <1>2, <1>3 DEF IInv, CountOK
<1> QED BY <1>3, <1>4 DEF Gens

\* The generations that lookups search have their memtables, and what
\* core_memtable_root_addr_for_lookup names has the memtable's content.
LEMMA InWindow ==
    ASSUME IInv, ~Shut, NEW g \in Int, retired < g, g <= generation
    PROVE  /\ g \in Nat /\ g \in Gens /\ Slot(g) \in Slots
           /\ mt[Slot(g)].gen = g /\ Searched(Slot(g))
           /\ Tree(g, Packed(g)) = mt[Slot(g)].tuples
<1>1. g \in Nat BY DEF IInv, TypesOK, Bounded
<1>3. g \in Gens BY <1>1, GenBound
<1>4. Slot(g) \in Slots BY <1>1, SlotType
<1>5. mt[Slot(g)].gen = g
  <2>1. CASE g < generation BY <2>1, <1>3 DEF IInv, WindowOK, Mt
  <2>2. CASE g = generation BY <2>2 DEF IInv, WindowOK, Mt
  <2> QED BY <2>1, <2>2, <1>1 DEF IInv, TypesOK, Bounded
<1>6. Tree(g, Packed(g)) = mt[Slot(g)].tuples
  BY <1>4, <1>5 DEF IInv, ContentOK, Tree, Packed, Mt
<1> QED BY <1>1, <1>3, <1>4, <1>5, <1>6 DEF Searched

\* A search that begins has the latest inserts ahead.
LEMMA LatestAhead ==
    ASSUME IInv, NEW t \in Threads, NEW k \in UserKeys,
           UNCHANGED <<mt, trunk, retired, generation>>,
           op'[t].gen = generation, op'[t].floor = latest
    PROVE  Ahead(t, k)'
<1>1. trunk[k] \in Nat /\ latest[k] \in Nat /\ latest \in NatMaps
  BY DEF IInv, TypesOK, Bounded, NatMaps
<1>2. \A s \in Slots : mt[s].tuples[k] \in Nat
  BY DEF IInv, TypesOK, Typed, MtRecords, NatMaps
<1>3. CASE trunk[k] = latest[k] BY <1>1, <1>3 DEF Ahead
<1>4. CASE \E s \in Slots : Searched(s) /\ mt[s].tuples[k] = latest[k]
  BY <1>1, <1>2, <1>4 DEF Ahead, Searched
<1> QED BY <1>3, <1>4 DEF IInv, OrderOK

\* core_lookup begins: everything inserted so far is ahead of it.
LEMMA LookupBeginKeeps ==
    ASSUME IInv, NEW t \in Threads, NEW k \in UserKeys, LookupBegin(t, k)
    PROVE  IInv'
<1> DEFINE o == [op[t] EXCEPT !.pc = "memtables", !.key = k,
                   !.gen = generation, !.end = retired, !.floor = latest]
<1>1. op[t] \in OpRecords BY DEF IInv, TypesOK, Typed
<1>2. /\ o \in OpRecords /\ o.hold = op[t].hold /\ o.pc = "memtables"
      /\ o.gen = generation /\ o.end = retired /\ o.floor = latest /\ o.key = k
  <2>1. generation \in Int /\ retired \in Int /\ latest \in NatMaps
    BY DEF IInv, TypesOK, Bounded
  <2> QED BY <1>1, <2>1 DEF OpRecords, OpPcs
<1>3. OpMoves(t) /\ op'[t] = o
  <2>1. op' = [op EXCEPT ![t] = o] BY DEF LookupBegin
  <2> HIDE DEF o
  <2> QED BY <1>2, <2>1, OpSet DEF LookupBegin
<1> HIDE DEF o
<1>4. UNCHANGED <<mt, trunk, retired, generation>> BY <1>3 DEF OpMoves
<1>5. Ahead(t, k)' BY <1>2, <1>3, <1>4, LatestAhead
<1>6. ReaderOK(t)'
  <2>1. /\ op'[t].pc = "memtables" /\ op'[t].gen = generation
        /\ op'[t].end = retired /\ op'[t].key = k
    BY <1>2, <1>3
  <2> QED BY <1>4, <1>5, <2>1 DEF ReaderOK, IInv, TypesOK, Bounded
<1> QED
  BY <1>2, <1>3, <1>6, QuietOp DEF LookupBegin, At, InsertPcs, Outside, OpPcs

\* core_memtable_lookup: an answer is new enough, and without one nothing
\* was lost.
LEMMA LookupMemtableKeeps ==
    ASSUME IInv, NEW t \in Threads, LookupMemtable(t)
    PROVE  IInv'
<1> DEFINE g == op[t].gen
           k == op[t].key
           v == Tree(g, Packed(g))[k]
           o == IF v # 0 THEN [op[t] EXCEPT !.pc = "found", !.val = v]
                ELSE [op[t] EXCEPT !.gen = g - 1]
<1>1. op[t] \in OpRecords /\ k \in UserKeys /\ g \in Int
  BY DEF IInv, TypesOK, Typed, OpRecords
<1>2. op[t].pc = "memtables" /\ op[t].end = retired /\ g # retired
      /\ retired < g /\ g <= generation /\ Ahead(t, k) /\ ~Shut
  BY <1>1, NotShut DEF LookupMemtable, At, IInv, ReadersOK, ReaderOK, TypesOK, Bounded
<1>3. /\ Slot(g) \in Slots /\ mt[Slot(g)].gen = g /\ Searched(Slot(g))
      /\ v = mt[Slot(g)].tuples[k]
  BY <1>1, <1>2, InWindow
<1>4. v \in Nat BY <1>1, <1>3 DEF IInv, TypesOK, Typed, MtRecords, NatMaps
<1>5. op' = [op EXCEPT ![t] = o] BY DEF LookupMemtable
<1>6. UNCHANGED <<ctxt, store, task, life, latest, inserts>> BY DEF LookupMemtable
<1>7. op[t].floor[k] \in Nat /\ trunk[k] \in Nat
  BY <1>1 DEF OpRecords, NatMaps, IInv, TypesOK, Bounded
<1>8. \A s \in Slots : mt[s].gen \in Nat /\ mt[s].tuples[k] \in Nat
  BY <1>1 DEF IInv, TypesOK, Typed, MtRecords, NatMaps
<1>9. \A s \in Slots : mt[s].gen = g => s = Slot(g)
  BY DEF IInv, WindowOK
<1>10. CASE v # 0
  <2>1. v >= op[t].floor[k]
    <3>1. trunk[k] <= v BY <1>1, <1>3, <1>10 DEF IInv, OrderOK
    <3>2. ASSUME NEW s \in Slots, retired < mt[s].gen, mt[s].gen <= g
          PROVE  mt[s].tuples[k] <= v
      <4>1. CASE mt[s].gen = g BY <4>1, <1>3, <1>4, <1>9
      <4>2. CASE mt[s].gen < g
        <5>1. Searched(s)
          BY <3>2, <1>1, <1>2, <1>8 DEF Searched, IInv, TypesOK, Bounded
        <5> QED BY <5>1, <4>2, <1>1, <1>3, <1>10 DEF IInv, OrderOK
      <4> QED BY <4>1, <4>2, <3>2, <1>1, <1>8
    <3> QED BY <1>2, <3>1, <3>2, <1>4, <1>7, <1>8 DEF Ahead
  <2>2. /\ o \in OpRecords /\ o.hold = op[t].hold /\ o.pc = "found"
        /\ o.val = v /\ o.floor = op[t].floor /\ o.key = k
    BY <1>1, <1>4, <1>10 DEF OpRecords, OpPcs
  <2> HIDE DEF o, v, k, g
  <2>3. OpMoves(t) /\ op'[t] = o BY <2>2, <1>5, <1>6, OpSet
  <2>4. ReaderOK(t)' BY <2>1, <2>2, <2>3 DEF ReaderOK
  <2> QED
    BY <2>2, <2>3, <2>4, <1>2, <1>6, QuietOp DEF InsertPcs, Outside, OpPcs
<1>11. CASE v = 0
  <2>1. /\ o \in OpRecords /\ o.hold = op[t].hold /\ o.pc = "memtables"
        /\ o.gen = g - 1 /\ o.end = retired /\ o.floor = op[t].floor /\ o.key = k
    BY <1>1, <1>2, <1>11 DEF OpRecords, OpPcs
  <2>2. \/ trunk[k] >= op[t].floor[k]
        \/ \E s \in Slots : /\ retired < mt[s].gen /\ mt[s].gen <= g - 1
                            /\ mt[s].tuples[k] >= op[t].floor[k]
    <3>1. CASE trunk[k] >= op[t].floor[k] BY <3>1
    <3>2. CASE \E s \in Slots : /\ retired < mt[s].gen /\ mt[s].gen <= g
                                /\ mt[s].tuples[k] >= op[t].floor[k]
      <4>1. PICK s \in Slots : /\ retired < mt[s].gen /\ mt[s].gen <= g
                               /\ mt[s].tuples[k] >= op[t].floor[k]
        BY <3>2
      <4>2. CASE mt[s].gen = g
        <5>1. mt[s].tuples[k] = 0 BY <4>2, <1>3, <1>9, <1>11
        <5> QED BY <5>1, <4>1, <1>7
      <4>3. CASE mt[s].gen # g
        <5>1. mt[s].gen <= g - 1 BY <4>3, <4>1, <1>1, <1>8
        <5> QED BY <5>1, <4>1
      <4> QED BY <4>2, <4>3
    <3> QED BY <3>1, <3>2, <1>2 DEF Ahead
  <2> HIDE DEF o, v, k, g
  <2>3. OpMoves(t) /\ op'[t] = o BY <2>1, <1>5, <1>6, OpSet
  <2>4. UNCHANGED <<mt, trunk, retired, generation>> BY <2>3 DEF OpMoves
  <2>5. Ahead(t, k)' BY <2>1, <2>2, <2>3, <2>4 DEF Ahead, k
  <2>6. /\ op'[t].pc = "memtables" /\ op'[t].gen = g - 1
        /\ op'[t].end = retired /\ op'[t].key = k
    BY <2>1, <2>3
  <2>7. retired <= g - 1 /\ g - 1 <= generation
    BY <1>1, <1>2 DEF IInv, TypesOK, Bounded
  <2>8. ReaderOK(t)' BY <2>4, <2>5, <2>6, <2>7 DEF ReaderOK, k
  <2> QED
    BY <2>1, <2>3, <2>8, <1>2, <1>6, QuietOp DEF InsertPcs, Outside, OpPcs
<1> QED BY <1>10, <1>11

\* At the end of the memtables only the trunk is left.
LEMMA TrunkAhead ==
    ASSUME IInv, NEW t \in Threads, NEW k \in UserKeys, op[t].gen = retired,
           Ahead(t, k)
    PROVE  trunk[k] >= op[t].floor[k]
<1>1. \A s \in Slots : mt[s].gen \in Nat BY DEF IInv, TypesOK, Typed, MtRecords
<1> QED BY <1>1 DEF Ahead, IInv, TypesOK, Bounded

\* At the retired generation the trunk has what the memtables did not.
LEMMA LookupRootKeeps ==
    ASSUME IInv, NEW t \in Threads, LookupRoot(t)
    PROVE  IInv'
<1> DEFINE o == [op[t] EXCEPT !.pc = "trunk", !.root = trunk]
<1>1. op[t] \in OpRecords /\ op[t].key \in UserKeys /\ trunk \in NatMaps
  BY DEF IInv, TypesOK, Bounded, Typed, OpRecords
<1>2. op[t].pc = "memtables" /\ op[t].gen = retired /\ Ahead(t, op[t].key)
  BY DEF LookupRoot, At, IInv, ReadersOK, ReaderOK
<1>3. trunk[op[t].key] >= op[t].floor[op[t].key] BY <1>1, <1>2, TrunkAhead
<1>4. /\ o \in OpRecords /\ o.hold = op[t].hold /\ o.pc = "trunk"
      /\ o.root = trunk /\ o.floor = op[t].floor /\ o.key = op[t].key
  BY <1>1 DEF OpRecords, OpPcs
<1>5. op' = [op EXCEPT ![t] = o] BY DEF LookupRoot
<1> HIDE DEF o
<1>6. OpMoves(t) /\ op'[t] = o BY <1>4, <1>5, OpSet DEF LookupRoot
<1>7. ReaderOK(t)' BY <1>3, <1>4, <1>6 DEF ReaderOK
<1> QED
  BY <1>2, <1>4, <1>6, <1>7, QuietOp DEF LookupRoot, InsertPcs, Outside, OpPcs

\* trunk_merge_lookup answers from the snapshot.
LEMMA LookupTrunkKeeps ==
    ASSUME IInv, NEW t \in Threads, LookupTrunk(t)
    PROVE  IInv'
<1> DEFINE v == op[t].root[op[t].key]
           o == [op[t] EXCEPT !.pc = "found", !.val = v]
<1>1. op[t] \in OpRecords /\ v \in Nat
  BY DEF IInv, TypesOK, Typed, OpRecords, NatMaps
<1>2. op[t].pc = "trunk" /\ v >= op[t].floor[op[t].key]
  BY DEF LookupTrunk, At, IInv, ReadersOK, ReaderOK
<1>3. /\ o \in OpRecords /\ o.hold = op[t].hold /\ o.pc = "found"
      /\ o.val = v /\ o.floor = op[t].floor /\ o.key = op[t].key
  BY <1>1 DEF OpRecords, OpPcs
<1>4. op' = [op EXCEPT ![t] = o] BY DEF LookupTrunk
<1> HIDE DEF o, v
<1>5. OpMoves(t) /\ op'[t] = o BY <1>3, <1>4, OpSet DEF LookupTrunk
<1>6. ReaderOK(t)' BY <1>2, <1>3, <1>5 DEF ReaderOK
<1> QED
  BY <1>2, <1>3, <1>5, <1>6, QuietOp DEF LookupTrunk, InsertPcs, Outside, OpPcs

\* A lookup returns, or an iterator without references ends.
LEMMA ReturnKeeps ==
    ASSUME IInv, NEW t \in Threads, Return(t) \/ IterEnd(t)
    PROVE  IInv'
<1>1. op' = [op EXCEPT ![t] = NoOp] BY DEF Return, IterEnd
<1>2. NoOp.hold \subseteq op[t].hold BY NoOpType
<1>3. UNCHANGED <<ctxt, store, task, life, latest, inserts>> BY DEF Return, IterEnd
<1>4. OpMoves(t) /\ op'[t] = NoOp BY <1>1, <1>2, <1>3, NoOpType, OpSet
<1>5. ReaderOK(t)' BY <1>4, NoOpType, NoReader DEF ReaderPcs
<1>6. op[t].pc \in {"found", "release"} BY DEF Return, IterEnd, At
<1> QED
  BY <1>3, <1>4, <1>5, <1>6, NoOpType, QuietOp DEF InsertPcs, Outside, OpPcs

\* core_range_iterator_init begins.
LEMMA IterBeginKeeps ==
    ASSUME IInv, NEW t \in Threads, IterBegin(t)
    PROVE  IInv'
<1> DEFINE o == [op[t] EXCEPT !.pc = "collect", !.gen = generation,
                              !.end = retired, !.floor = latest]
<1>1. /\ op[t] \in OpRecords /\ generation \in Int /\ retired \in Int
      /\ latest \in NatMaps
  BY DEF IInv, TypesOK, Bounded, Typed
<1>2. /\ o \in OpRecords /\ o.hold = op[t].hold /\ o.pc = "collect"
      /\ o.gen = generation /\ o.end = retired /\ o.floor = latest
  BY <1>1 DEF OpRecords, OpPcs
<1>3. op' = [op EXCEPT ![t] = o] BY DEF IterBegin
<1> HIDE DEF o
<1>4. OpMoves(t) /\ op'[t] = o BY <1>2, <1>3, OpSet DEF IterBegin
<1>5. UNCHANGED <<mt, trunk, retired, generation>> BY <1>4 DEF OpMoves
<1>6. \A k \in UserKeys : Ahead(t, k)' BY <1>2, <1>4, <1>5, LatestAhead
<1>7. ReaderOK(t)'
  <2>1. /\ op'[t].pc = "collect" /\ op'[t].gen = generation
        /\ op'[t].end = retired
    BY <1>2, <1>4
  <2> QED BY <1>5, <1>6, <2>1 DEF ReaderOK, IInv, TypesOK, Bounded
<1> QED
  BY <1>2, <1>4, <1>7, QuietOp DEF IterBegin, At, InsertPcs, Outside, OpPcs

\* core_range_iterator_init takes the trunk's root.
LEMMA IterRootKeeps ==
    ASSUME IInv, NEW t \in Threads, IterRoot(t)
    PROVE  IInv'
<1> DEFINE o == [op[t] EXCEPT !.pc = "iterate", !.root = trunk]
<1>1. op[t] \in OpRecords /\ trunk \in NatMaps
  BY DEF IInv, TypesOK, Bounded, Typed
<1>2. op[t].pc = "collect" /\ op[t].gen = retired
  BY DEF IterRoot, At, IInv, ReadersOK, ReaderOK
<1>3. \A k \in UserKeys : trunk[k] >= op[t].floor[k] \/ Held(t, k)
  BY <1>2, TrunkAhead DEF IInv, ReadersOK, ReaderOK
<1>4. /\ o \in OpRecords /\ o.hold = op[t].hold /\ o.pc = "iterate"
      /\ o.root = trunk /\ o.floor = op[t].floor
  BY <1>1 DEF OpRecords, OpPcs
<1>5. op' = [op EXCEPT ![t] = o] BY DEF IterRoot
<1> HIDE DEF o
<1>6. OpMoves(t) /\ op'[t] = o BY <1>4, <1>5, OpSet DEF IterRoot
<1>7. \A k \in UserKeys : Held(t, k)' <=> Held(t, k)
  BY <1>4, <1>6 DEF Held, OpMoves, Mt
<1>8. ReaderOK(t)' BY <1>3, <1>4, <1>6, <1>7 DEF ReaderOK
<1> QED
  BY <1>2, <1>4, <1>6, <1>8, QuietOp DEF IterRoot, InsertPcs, Outside, OpPcs

\* Only the label changes.
LEMMA MoveSets ==
    ASSUME IInv, NEW t \in Threads, NEW l \in OpPcs, Move(t, l),
           UNCHANGED <<ctxt, store, task, life, latest>>
    PROVE  OpMoves(t) /\ op'[t].pc = l /\ op'[t].gen = op[t].gen
<1> DEFINE o == [op[t] EXCEPT !.pc = l]
<1>1. op[t] \in OpRecords /\ op \in [Threads -> OpRecords]
  BY DEF IInv, TypesOK, Typed
<1>2. o \in OpRecords /\ o.hold = op[t].hold /\ o.pc = l /\ o.gen = op[t].gen
  BY <1>1 DEF OpRecords
<1>3. op' = [op EXCEPT ![t] = o] BY <1>1 DEF Move
<1> HIDE DEF o
<1> QED BY <1>2, <1>3, OpSet

\* core_range_iterator_deinit begins.
LEMMA IterCloseKeeps ==
    ASSUME IInv, NEW t \in Threads, IterClose(t)
    PROVE  IInv'
<1>1. OpMoves(t) /\ op'[t].pc = "release"
  BY MoveSets DEF IterClose, OpPcs
<1>2. ReaderOK(t)' BY <1>1, NoReader DEF ReaderPcs
<1> QED
  BY <1>1, <1>2, QuietOp DEF IterClose, At, InsertPcs, Outside, OpPcs

\* memtable_end_insert.
LEMMA EndInsertKeeps ==
    ASSUME IInv, NEW t \in Threads, EndInsert(t)
    PROVE  IInv'
<1>1. OpMoves(t) /\ op'[t].pc = "idle" BY MoveSets DEF EndInsert, OpPcs
<1>2. ReaderOK(t)' BY <1>1, NoReader DEF ReaderPcs
<1> QED
  BY <1>1, <1>2, QuietOp DEF EndInsert, At, InsertPcs, Outside, OpPcs

\* core_insert is called: one more insert is pending.
LEMMA InsertCallKeeps ==
    ASSUME IInv, NEW t \in Threads, NEW k \in UserKeys, InsertCall(t, k)
    PROVE  IInv'
<1> DEFINE o == [op[t] EXCEPT !.pc = "begin", !.key = k]
<1>1. op[t] \in OpRecords /\ op \in [Threads -> OpRecords]
  BY DEF IInv, TypesOK, Typed
<1>2. o \in OpRecords /\ o.hold = op[t].hold /\ o.pc = "begin"
  BY <1>1 DEF OpRecords, OpPcs
<1>3. op' = [op EXCEPT ![t] = o] BY <1>1 DEF InsertCall
<1> HIDE DEF o
<1>4. OpMoves(t) /\ op'[t] = o BY <1>2, <1>3, OpSet DEF InsertCall
<1>5. ReaderOK(t)' BY <1>2, <1>4, NoReader DEF ReaderPcs
<1>6. InsertersOK' BY <1>2, <1>4, LeaveInsert DEF Outside, OpPcs
<1>7. CountOK'
  <2>1. t \notin Pending /\ Pending' = Pending \cup {t}
    BY <1>2, <1>4 DEF InsertCall, At, Pending, InsertPcs, OpMoves
  <2>2. IsFiniteSet(Pending) /\ Cardinality(Pending) \in Nat
    BY ThreadsFinite DEF Pending
  <2>3. Cardinality(Pending') = Cardinality(Pending) + 1
    BY <2>1, <2>2, FS_AddElement
  <2>4. inserts' = inserts + 1 /\ inserts < MaxInserts BY DEF InsertCall
  <2>5. generation' = generation /\ is_empty' = is_empty BY <1>4 DEF OpMoves
  <2>6. generation \in Nat BY DEF IInv, TypesOK, Bounded
  <2> QED
    BY <2>2, <2>3, <2>4, <2>5, <2>6, CoreAssumption DEF IInv, CountOK
<1>8. ~Shut BY NotShut DEF InsertCall
<1> QED BY <1>2, <1>4, <1>5, <1>6, <1>7, <1>8, OpKeeps DEF InsertCall, At

\* The memtable that follows the current one is the one of the next
\* generation when it is ready, and not one that is still to be recycled.
LEMMA ReadyNext ==
    ASSUME IInv, ~Shut, Mt(generation + 1).state = "READY"
    PROVE  Mt(generation + 1).gen = generation + 1
<1> DEFINE s == Slot(generation + 1)
           g == mt[s].gen
<1>1. generation \in Nat /\ retired \in Int /\ retired < generation
      /\ generation + 1 \in Nat
  BY DEF IInv, TypesOK, Bounded
<1>2. s \in Slots BY <1>1, SlotType
<1>3. g \in Nat BY <1>2 DEF IInv, TypesOK, Typed, MtRecords
<1>4. ~(g < generation)
  BY <1>2 DEF IInv, StatesOK, StateOK, Mt
<1>5. g <= retired + N /\ Slot(g) = s BY <1>2 DEF IInv, WindowOK
<1> HIDE DEF s
<1>6. Slot(g) = Slot(generation + 1) BY <1>5 DEF s
<1>7. g - (generation + 1) < N /\ (generation + 1) - g < N
  BY <1>1, <1>3, <1>4, <1>5, CoreAssumption
<1>8. g = generation + 1 BY <1>1, <1>3, <1>6, <1>7, NearSlots
<1> QED BY <1>8 DEF Mt, s

\* memtable_maybe_rotate_and_begin_insert takes the insert lock.
LEMMA InsertBeginKeeps ==
    ASSUME IInv, NEW t \in Threads, InsertBegin(t)
    PROVE  IInv'
<1> SUFFICES
      ASSUME NEW l \in {"insert", "rotate"},
             l = "rotate" => /\ Full(Mt(generation))
                             /\ Mt(generation + 1).state = "READY",
             op' = [op EXCEPT ![t].pc = l, ![t].gen = generation]
      PROVE  IInv'
  BY DEF InsertBegin
<1> DEFINE o == [op[t] EXCEPT !.pc = l, !.gen = generation]
<1>1. op[t] \in OpRecords /\ op \in [Threads -> OpRecords] /\ generation \in Int
  BY DEF IInv, TypesOK, Bounded, Typed
<1>2. o \in OpRecords /\ o.hold = op[t].hold /\ o.pc = l /\ o.gen = generation
  BY <1>1 DEF OpRecords, OpPcs
<1>3. op' = [op EXCEPT ![t] = o] BY <1>1
<1> HIDE DEF o
<1>4. OpMoves(t) /\ op'[t] = o BY <1>2, <1>3, OpSet DEF InsertBegin
<1>5. ReaderOK(t)' BY <1>2, <1>4, NoReader DEF ReaderPcs
<1>6. op[t].pc = "begin" /\ ~Shut /\ inserts' = inserts
  BY NotShut DEF InsertBegin, At
<1>7. CountOK' BY <1>2, <1>4, <1>6, SamePending DEF InsertPcs
<1>8. InsertersOK'
  <2>1. \A u \in Threads : u # t => op'[u] = op[u] BY <1>4 DEF OpMoves
  <2>2. generation' = generation /\ mt' = mt BY <1>4 DEF OpMoves
  <2>3. op'[t].pc = l /\ op'[t].gen = generation BY <1>2, <1>4
  <2>4. \A u \in Threads : op[u].pc # "advance"
    BY DEF InsertBegin, InsertWriters
  <2>5. l = "rotate" => /\ Mt(generation).count > 0
                        /\ Mt(generation + 1).gen = generation + 1
    <3>1. Mt(generation).count \in Nat
      BY SlotType DEF Mt, IInv, TypesOK, Bounded, Typed, MtRecords
    <3> QED BY <3>1, <1>6, ReadyNext, CoreAssumption DEF Full
  <2>6. InsertersOK BY DEF IInv
  <2> QED BY <2>1, <2>2, <2>3, <2>4, <2>5, <2>6 DEF InsertersOK, Mt
<1> QED BY <1>2, <1>4, <1>5, <1>6, <1>7, <1>8, OpKeeps

\* memtable_try_begin_insert_rotation: one thread has the claim.
LEMMA RotateClaimKeeps ==
    ASSUME IInv, NEW t \in Threads, RotateClaim(t)
    PROVE  IInv'
<1>1. PICK l \in {"lock", "begin"} :
        (l = "lock" => InsertClaimers = {}) /\ Move(t, l)
  BY DEF RotateClaim
<1>2. OpMoves(t) /\ op'[t].pc = l /\ op'[t].gen = op[t].gen
  BY <1>1, MoveSets DEF RotateClaim, OpPcs
<1>3. ReaderOK(t)' BY <1>2, NoReader DEF ReaderPcs
<1>4. op[t].pc = "rotate" /\ ~Shut /\ inserts' = inserts
  BY NotShut DEF RotateClaim, At
<1>5. CountOK' BY <1>2, <1>4, SamePending DEF InsertPcs
<1>6. InsertersOK'
  <2>1. \A u \in Threads : u # t => op'[u] = op[u] BY <1>2 DEF OpMoves
  <2>2. generation' = generation /\ mt' = mt BY <1>2 DEF OpMoves
  <2>3. l = "lock" => \A u \in Threads : op[u].pc \notin {"lock", "advance"}
    BY <1>1 DEF InsertClaimers
  <2>4. InsertersOK BY DEF IInv
  <2> QED BY <1>2, <1>4, <2>1, <2>2, <2>3, <2>4 DEF InsertersOK, Mt
<1> QED BY <1>2, <1>3, <1>4, <1>5, <1>6, OpKeeps

-----------------------------------------------------------------------------
(* Steps of flush tasks                                                    *)

FlushMoves ==
    UNCHANGED <<generation, is_empty, op, super, open, clean, latest, inserts>>

\* No memtable changes but in its state.
SameMemtables ==
    /\ mt' \in [Slots -> MtRecords]
    /\ \A s \in Slots : /\ mt'[s].gen = mt[s].gen /\ mt'[s].ref = mt[s].ref
                        /\ mt'[s].tuples = mt[s].tuples
                        /\ mt'[s].count = mt[s].count

\* The task of generation g goes to l, the others stay.
TaskMoves(g, l) ==
    /\ task' \in [Gens -> TaskRecords]
    /\ task'[g].pc = l
    /\ \A i \in Gens : i # g => task'[i] = task[i]

\* Generations are numbers and have a slot.
LEMMA GenType == \A g \in Gens : g \in Nat /\ Slot(g) \in Slots
  BY SlotType, CoreAssumption DEF Gens

\* memtable_transition changes the state and nothing else.
LEMMA StateSet ==
    ASSUME IInv, NEW q \in Slots, NEW st \in States,
           mt' = [mt EXCEPT ![q].state = st]
    PROVE  /\ SameMemtables /\ mt'[q].state = st
           /\ \A s \in Slots : s # q => mt'[s].state = mt[s].state
<1>1. mt \in [Slots -> MtRecords] BY DEF IInv, TypesOK, Typed
<1>2. \A s \in Slots : mt'[s] = IF s = q THEN [mt[s] EXCEPT !.state = st] ELSE mt[s]
  BY <1>1
<1>3. mt' \in [Slots -> MtRecords] BY <1>1 DEF MtRecords
<1> QED BY <1>1, <1>2, <1>3 DEF SameMemtables, MtRecords

\* ... whatever slot one looks at.
LEMMA SameMt ==
    ASSUME IInv, mt' = mt
    PROVE  SameMemtables
  BY DEF SameMemtables, IInv, TypesOK, Typed

\* A flush task goes on, the others stay where they are.
LEMMA GoSets ==
    ASSUME IInv, NEW g \in Gens, NEW l \in TaskPcs, Go(g, l)
    PROVE  TaskMoves(g, l) /\ task'[g].gen = task[g].gen
<1>1. task \in [Gens -> TaskRecords] BY DEF IInv, TypesOK, Typed
<1>2. \A i \in Gens : task'[i] = IF i = g THEN [task[i] EXCEPT !.pc = l] ELSE task[i]
  BY <1>1 DEF Go
<1>3. task' \in [Gens -> TaskRecords] BY <1>1 DEF TaskRecords, Go
<1> QED BY <1>1, <1>2, <1>3 DEF TaskMoves, TaskRecords

\* A flush task changes no count of inserts.
LEMMA FlushCount ==
    ASSUME IInv, FlushMoves
    PROVE  CountOK' /\ (Shut' <=> Shut)
<1>1. Pending' = Pending BY DEF Pending, FlushMoves
<1> QED BY <1>1 DEF IInv, CountOK, FlushMoves, Shut

\* A closed database has no task under way.
LEMMA FlushLife ==
    ASSUME IInv, FlushMoves, NEW g \in Gens, task[g].pc \notin {"none", "done"}
    PROVE  LifeOK' /\ ~clean
<1>1. ~clean BY DEF IInv, LifeOK
<1> QED BY <1>1 DEF IInv, LifeOK, FlushMoves, Shut

\* It leaves the inserters alone ...
LEMMA SameInserters ==
    ASSUME IInv, FlushMoves, SameMemtables
    PROVE  InsertersOK'
<1>1. Slot(generation) \in Slots /\ Slot(generation + 1) \in Slots
  BY SlotType DEF IInv, TypesOK, Bounded
<1>2. UNCHANGED <<op, generation>> BY DEF FlushMoves
<1>3. /\ mt'[Slot(generation)].count = mt[Slot(generation)].count
      /\ mt'[Slot(generation + 1)].gen = mt[Slot(generation + 1)].gen
  BY <1>1 DEF SameMemtables
<1> QED BY <1>2, <1>3 DEF IInv, InsertersOK, Mt

\* ... the generations of the memtables ...
LEMMA SameWindow ==
    ASSUME IInv, FlushMoves, SameMemtables, retired' = retired
    PROVE  WindowOK'
<1>1. Slot(generation) \in Slots BY SlotType DEF IInv, TypesOK, Bounded
<1>2. Shut' <=> Shut BY DEF FlushMoves, Shut
<1>3. generation' = generation BY DEF FlushMoves
<1>4. \A g \in Gens : mt'[Slot(g)].gen = mt[Slot(g)].gen
  BY GenType DEF SameMemtables
<1> QED BY <1>1, <1>2, <1>3, <1>4 DEF SameMemtables, IInv, WindowOK, Mt

\* ... their tuples ...
LEMMA SameOrder ==
    ASSUME IInv, FlushMoves, SameMemtables, retired' = retired, trunk' = trunk
    PROVE  OrderOK'
<1>1. \A s \in Slots : /\ Searched(s)' <=> Searched(s)
                       /\ mt'[s].gen = mt[s].gen /\ mt'[s].tuples = mt[s].tuples
  BY DEF SameMemtables, Searched, FlushMoves
<1>2. latest' = latest BY DEF FlushMoves
<1> QED BY <1>1, <1>2 DEF IInv, OrderOK

\* ... and the readers.
LEMMA SameReaders ==
    ASSUME IInv, FlushMoves, SameMemtables, retired' = retired, trunk' = trunk,
           \A g \in Gens : Packers(g) # {} => branch'[g].tuples = branch[g].tuples
    PROVE  ReadersOK'
<1>1. op' = op /\ generation' = generation BY DEF FlushMoves
<1>2. \A s \in Slots : mt'[s].gen = mt[s].gen /\ mt'[s].tuples = mt[s].tuples
  BY DEF SameMemtables
<1>3. ASSUME NEW t \in Threads PROVE ReaderOK(t)'
  <2>1. \A k : Ahead(t, k)' <=> Ahead(t, k) BY <1>1, <1>2 DEF Ahead
  <2>2. \A k : Held(t, k) => Held(t, k)'
    <3>1. ASSUME NEW h \in op[t].hold
          PROVE  /\ Mt(h.gen)'.tuples = Mt(h.gen).tuples
                 /\ h.packed => branch'[h.gen].tuples = branch[h.gen].tuples
      <4>1. h \in [gen : Gens, packed : BOOLEAN]
        BY DEF IInv, TypesOK, Typed, OpRecords
      <4>2. Mt(h.gen)'.tuples = Mt(h.gen).tuples
        BY <4>1, <1>2, GenType DEF Mt
      <4>3. h.packed => t \in Packers(h.gen)
        <5> HAVE h.packed
        <5>1. h = [gen |-> h.gen, packed |-> TRUE] BY <4>1
        <5> QED BY <5>1 DEF Packers
      <4> QED BY <4>1, <4>2, <4>3
    <3> QED BY <3>1, <1>1 DEF Held
  <2> QED BY <1>1, <2>1, <2>2 DEF IInv, ReadersOK, ReaderOK
<1> QED BY <1>3 DEF ReadersOK

\* A task that is under way is of an earlier generation, whose memtable is
\* there until it is retired.
LEMMA TaskGen ==
    ASSUME IInv, NEW g \in Gens, task[g].pc # "none"
    PROVE  /\ g \in Nat /\ g < generation /\ Slot(g) \in Slots
           /\ retired < g => mt[Slot(g)].gen = g
<1>1. g \in Nat /\ Slot(g) \in Slots BY GenType
<1>2. g < generation BY <1>1 DEF IInv, TasksOK, TaskOK, TypesOK, Bounded
<1> QED BY <1>1, <1>2 DEF IInv, WindowOK, Mt

\* A memtable of an earlier generation has a task.
LEMMA EarlierGen ==
    ASSUME IInv, NEW s \in Slots, mt[s].gen < generation
    PROVE  mt[s].gen \in Gens /\ mt[s].gen \in Nat
<1>1. mt[s].gen \in Nat BY DEF IInv, TypesOK, Typed, MtRecords
<1> QED BY <1>1, GenBound DEF IInv, TypesOK, Bounded

\* A step that takes no reference to a memtable keeps their counts, ...
LEMMA SameMtRefs ==
    ASSUME IInv, op' = op, SameMemtables, NEW s \in Slots,
           Own(mt[s].gen)' => Own(mt[s].gen)
    PROVE  MtRefOK(s)'
<1>1. mt'[s].gen = mt[s].gen /\ mt'[s].ref = mt[s].ref /\ mt[s].ref \in Nat
  BY DEF SameMemtables, IInv, TypesOK, Typed, MtRecords
<1>2. Users(mt[s].gen)' = Users(mt[s].gen) BY <1>1 DEF Users
<1>3. Cardinality(Users(mt[s].gen)) \in Nat BY ThreadsFinite DEF Users
<1>4. MtRefOK(s) BY DEF IInv, RefsOK
<1> QED BY <1>1, <1>2, <1>3, <1>4 DEF MtRefOK

\* ... and one that takes none to a branch that of the branch.
LEMMA SameBranchRef ==
    ASSUME IInv, op' = op, NEW g \in Gens, branch'[g].refs = branch[g].refs,
           BranchOwn(g)' => BranchOwn(g), RootOwn(g)' => RootOwn(g)
    PROVE  BranchRefOK(g)'
<1>1. Packers(g)' = Packers(g) BY DEF Packers
<1>2. Cardinality(Packers(g)) \in Nat BY ThreadsFinite DEF Packers
<1>3. branch[g].refs \in Nat BY DEF IInv, TypesOK, Typed, BranchRecords
<1>4. BranchRefOK(g) BY DEF IInv, RefsOK
<1> QED BY <1>1, <1>2, <1>3, <1>4 DEF BranchRefOK

\* The memtable in slot q and the task of its generation g go on together.
Together(g, l) ==
    /\ FlushMoves /\ SameMemtables /\ TaskMoves(g, l)
    /\ UNCHANGED <<retired, to_incorporate>>
    /\ mt[Slot(g)].gen = g
    /\ \A s \in Slots : s # Slot(g) => mt'[s].state = mt[s].state

\* When a task and its memtable move together, the other states stay true.
LEMMA TogetherStates ==
    ASSUME IInv, NEW g \in Gens, NEW l \in TaskPcs, Together(g, l),
           task[g].pc \in {"queued", "compact", "start"}, StateOK(Slot(g))'
    PROVE  StatesOK'
<1>1. ASSUME NEW s \in Slots, s # Slot(g) PROVE StateOK(s)'
  <2>1. StateOK(s) BY DEF IInv, StatesOK
  <2>2. /\ mt'[s].gen = mt[s].gen /\ mt'[s].tuples = mt[s].tuples
        /\ mt'[s].count = mt[s].count /\ mt'[s].state = mt[s].state
    BY <1>1 DEF Together, SameMemtables
  <2>3. UNCHANGED <<generation, retired, to_incorporate, is_empty>>
    BY DEF Together, FlushMoves
  <2>4. Advancing' <=> Advancing BY DEF Together, FlushMoves, Advancing
  <2>5. mt[s].gen < generation => task'[mt[s].gen] = task[mt[s].gen]
    <3> HAVE mt[s].gen < generation
    <3>1. mt[s].gen \in Gens BY EarlierGen
    <3>2. mt[s].gen # g BY <1>1 DEF IInv, WindowOK
    <3> QED BY <3>1, <3>2 DEF Together, TaskMoves
  <2>6. ASSUME NEW i \in Gens,
               task[i].pc \in {"prepare", "release", "block", "commit"}
        PROVE  task'[i].pc = task[i].pc
    BY <2>6 DEF Together, TaskMoves
  <2> QED BY <2>1, <2>2, <2>3, <2>4, <2>5, <2>6 DEF StateOK
<1> QED BY <1>1 DEF StatesOK

\* ... and so do the other tasks.
LEMMA TogetherTask ==
    ASSUME IInv, NEW g \in Gens, NEW l \in TaskPcs, Together(g, l),
           task[g].pc \in {"queued", "compact", "start"},
           mt[Slot(g)].state # "ASSIGNED", NEW i \in Gens, i # g
    PROVE  TaskOK(i)'
<1>1. TaskOK(i) BY DEF IInv, TasksOK
<1>2. task'[i] = task[i] BY DEF Together, TaskMoves
<1>3. UNCHANGED <<generation, retired, to_incorporate>>
  BY DEF Together, FlushMoves
<1>4. i \in Nat /\ Slot(i) \in Slots /\ Slot(g) \in Slots BY GenType
<1>5. task[i].pc # "none" /\ retired < i => mt'[Slot(i)].state = mt[Slot(i)].state
  <2> HAVE task[i].pc # "none" /\ retired < i
  <2>1. mt[Slot(i)].gen = i BY TaskGen
  <2>2. Slot(i) # Slot(g) BY <2>1 DEF Together
  <2> QED BY <2>2, <1>4 DEF Together
<1>6. to_incorporate \in Nat BY DEF IInv, TypesOK, Bounded
<1>7. mt[Slot(to_incorporate)].state = "ASSIGNED" =>
         mt'[Slot(to_incorporate)].state = "ASSIGNED"
  BY <1>6, SlotType DEF Together
<1>8. task[i].pc = "recycle" => mt'[Slot(retired)].gen = mt[Slot(retired)].gen
  <2> HAVE task[i].pc = "recycle"
  <2>1. retired \in Nat BY <1>1, <1>6 DEF TaskOK, AfterCommit
  <2> QED BY <2>1, SlotType DEF Together, SameMemtables
<1> QED
  BY <1>1, <1>2, <1>3, <1>5, <1>7, <1>8
     DEF TaskOK, Mt, BeforeCommit, AfterCommit

\* core_memtable_flush_internal takes its memtable to COMPACTING.
LEMMA CompactBeginStep ==
    ASSUME IInv, NEW g \in Gens, CompactBegin(g)
    PROVE  /\ task[g].pc = "queued" /\ retired < g /\ g < generation
           /\ Slot(g) \in Slots /\ mt[Slot(g)].state = "FINALIZED"
           /\ mt'[Slot(g)].state = "COMPACTING" /\ task'[g].gen = g
           /\ Together(g, "compact")
           /\ UNCHANGED <<cmt, branch, trunk, prepared>>
<1>1. task[g].pc = "queued" /\ mt[Slot(g)].gen = g
      /\ mt[Slot(g)].state = "FINALIZED"
  BY DEF CompactBegin, Mt
<1>2. retired < g /\ task[g].gen = g BY <1>1 DEF IInv, TasksOK, TaskOK
<1>3. Slot(g) \in Slots /\ g < generation BY <1>1, TaskGen
<1>4. /\ SameMemtables /\ mt'[Slot(g)].state = "COMPACTING"
      /\ \A s \in Slots : s # Slot(g) => mt'[s].state = mt[s].state
  BY <1>3, StateSet DEF CompactBegin, States
<1>5. TaskMoves(g, "compact") /\ task'[g].gen = g
  BY <1>2, GoSets DEF CompactBegin, TaskPcs
<1>6. FlushMoves /\ UNCHANGED <<retired, to_incorporate>>
  BY DEF CompactBegin, FlushMoves, ctxt, life
<1> QED BY <1>1, <1>2, <1>3, <1>4, <1>5, <1>6 DEF Together, CompactBegin

\* That keeps the invariant: the memtable is not packed yet.
LEMMA CompactBeginKeeps ==
    ASSUME IInv, NEW g \in Gens, CompactBegin(g)
    PROVE  IInv'
<1> DEFINE q == Slot(g)
<1>1. /\ task[g].pc = "queued" /\ retired < g /\ g < generation
      /\ q \in Slots /\ mt[q].state = "FINALIZED"
      /\ mt'[q].state = "COMPACTING" /\ task'[g].gen = g
      /\ Together(g, "compact")
      /\ UNCHANGED <<cmt, branch, trunk, prepared>>
  BY CompactBeginStep
<1> HIDE DEF q
<1>2. /\ FlushMoves /\ SameMemtables /\ TaskMoves(g, "compact")
      /\ UNCHANGED <<retired, to_incorporate>> /\ mt[q].gen = g
      /\ \A s \in Slots : s # q => mt'[s].state = mt[s].state
  BY <1>1 DEF Together, q
<1>3. UNCHANGED <<generation, op, is_empty>> BY <1>2 DEF FlushMoves
<1>4. TypesOK'
  BY <1>1, <1>2, <1>3 DEF IInv, TypesOK, Typed, Bounded, FlushMoves,
     SameMemtables, TaskMoves
<1>5. CountOK' /\ (Shut' <=> Shut) BY <1>2, FlushCount
<1>6. LifeOK' BY <1>1, <1>2, FlushLife
<1>7. WindowOK' /\ InsertersOK' /\ OrderOK'
  BY <1>1, <1>2, SameWindow, SameInserters, SameOrder
<1>8. ReadersOK' BY <1>1, <1>2, SameReaders
<1>9. StatesOK'
  <2>1. StateOK(q) BY <1>1 DEF IInv, StatesOK
  <2>2. /\ mt'[q].gen = g /\ mt'[q].tuples = mt[q].tuples
        /\ mt'[q].count = mt[q].count
    BY <1>1, <1>2 DEF SameMemtables
  <2>3. task'[g].pc = "compact" BY <1>2 DEF TaskMoves
  <2>4. g \in Nat /\ generation \in Nat /\ retired \in Int
    BY GenType DEF IInv, TypesOK, Bounded
  <2>5. StateOK(q)' BY <1>1, <1>2, <1>3, <2>1, <2>2, <2>3, <2>4 DEF StateOK
  <2> QED BY <1>1, <2>5, TogetherStates DEF q, TaskPcs
<1>10. TasksOK'
  <2>1. \A i \in Gens : i # g => TaskOK(i)' /\ (Incorporates(i)' <=> Incorporates(i))
    BY <1>1, <1>2, TogetherTask DEF q, TaskPcs, TaskMoves, Incorporates
  <2>2. TaskOK(g)'
    BY <1>1, <1>2, <1>3, GenType DEF TaskOK, TaskMoves, Mt, q, BeforeCommit,
       AfterCommit, IInv, TypesOK, Bounded
  <2>3. ~Incorporates(g) /\ ~Incorporates(g)'
    BY <1>1, <1>2 DEF Incorporates, TaskMoves, BeforeCommit, AfterCommit
  <2>4. \A i \in Gens : task[i].pc \in {"queued", "compact", "start"} =>
                        task'[i].pc \in {"queued", "compact", "start"}
    BY <1>1, <1>2 DEF TaskMoves
  <2>5. to_incorporate < generation => to_incorporate \in Gens
    BY GenBound DEF IInv, TypesOK, Bounded
  <2> QED BY <1>2, <1>3, <1>5, <2>1, <2>2, <2>3, <2>4, <2>5 DEF IInv, TasksOK
<1>11. \A s \in Slots : /\ mt'[s].gen = mt[s].gen
                         /\ mt'[s].tuples = mt[s].tuples
  BY <1>2 DEF SameMemtables
<1>12. ContentOK'
  <2>1. \A i \in Gens : task'[i].pc \in {"release", "block", "commit"} =>
                           task'[i].pc = task[i].pc
    BY <1>2 DEF TaskMoves
  <2>2. Slot(to_incorporate) \in Slots BY SlotType DEF IInv, TypesOK, Bounded
  <2>3. \A s \in Slots : mt'[s].state \in {"COMPACTED", "ASSIGNED"} =>
                           mt'[s].state = mt[s].state
    BY <1>1, <1>2
  <2> QED BY <1>1, <1>2, <1>11, <2>1, <2>2, <2>3 DEF IInv, ContentOK, Mt
<1>13. \A i \in Gens : /\ Mt(i)'.gen = Mt(i).gen
                       /\ Mt(i)'.state \in {"COMPACTED", "ASSIGNED"}
                            <=> Mt(i).state \in {"COMPACTED", "ASSIGNED"}
  BY <1>1, <1>2, <1>11, GenType DEF Mt
<1>14. HoldsOK'
  <2>1. \A t \in Threads : \A h \in op[t].hold : h.gen \in Gens
    BY DEF IInv, TypesOK, Typed, OpRecords
  <2> QED BY <1>2, <1>3, <1>13, <2>1 DEF IInv, HoldsOK
<1>15. RefsOK'
  <2>1. \A i \in Gens : BranchOwn(i)' <=> BranchOwn(i)
    BY <1>13 DEF BranchOwn, Packed
  <2>2. \A i \in Gens : task'[i].pc \in {"release", "recycle"} => task'[i] = task[i]
    BY <1>2 DEF TaskMoves
  <2>3. \A i : (Own(i)' => Own(i)) /\ (RootOwn(i)' => RootOwn(i))
    BY <1>2, <2>2 DEF Own, RootOwn
  <2>4. \A s \in Slots : MtRefOK(s)'
    <3> TAKE s \in Slots
    <3>1. Own(mt[s].gen)' => Own(mt[s].gen) BY <1>11, <2>3 DEF Own
    <3> QED BY <1>2, <1>3, <3>1, SameMtRefs
  <2>5. \A i \in Gens : BranchRefOK(i)'
    BY <1>1, <1>3, <2>1, <2>3, SameBranchRef
  <2> QED BY <2>4, <2>5 DEF RefsOK
<1> QED
  BY <1>4, <1>5, <1>6, <1>7, <1>8, <1>9, <1>10, <1>12, <1>14, <1>15 DEF IInv

\* core_memtable_compact takes its memtable to COMPACTED.
LEMMA CompactEndStep ==
    ASSUME IInv, NEW g \in Gens, CompactEnd(g)
    PROVE  /\ task[g].pc = "compact" /\ retired < g /\ g < generation
           /\ Slot(g) \in Slots /\ mt[Slot(g)].state = "COMPACTING"
           /\ mt'[Slot(g)].state = "COMPACTED" /\ task'[g].gen = g
           /\ Together(g, "start")
           /\ UNCHANGED <<trunk, prepared>>
<1>1. task[g].pc = "compact" /\ mt[Slot(g)].state = "COMPACTING"
  BY DEF CompactEnd, Mt
<1>2. retired < g /\ task[g].gen = g BY <1>1 DEF IInv, TasksOK, TaskOK
<1>3. Slot(g) \in Slots /\ g < generation /\ mt[Slot(g)].gen = g
  BY <1>1, <1>2, TaskGen
<1>4. /\ SameMemtables /\ mt'[Slot(g)].state = "COMPACTED"
      /\ \A s \in Slots : s # Slot(g) => mt'[s].state = mt[s].state
  BY <1>3, StateSet DEF CompactEnd, States
<1>5. TaskMoves(g, "start") /\ task'[g].gen = g
  BY <1>2, GoSets DEF CompactEnd, TaskPcs
<1>6. FlushMoves /\ UNCHANGED <<retired, to_incorporate>>
  BY DEF CompactEnd, FlushMoves, ctxt, life
<1> QED BY <1>1, <1>2, <1>3, <1>4, <1>5, <1>6 DEF Together, CompactEnd

\* The packed branch has the memtable's tuples and one reference.
LEMMA CompactEndKeeps ==
    ASSUME IInv, NEW g \in Gens, CompactEnd(g)
    PROVE  IInv'
<1> DEFINE q == Slot(g)
<1>1. /\ task[g].pc = "compact" /\ retired < g /\ g < generation
      /\ q \in Slots /\ mt[q].state = "COMPACTING"
      /\ mt'[q].state = "COMPACTED" /\ task'[g].gen = g
      /\ Together(g, "start")
      /\ UNCHANGED <<trunk, prepared>>
  BY CompactEndStep
<1>2. /\ branch' = [branch EXCEPT ![g] = [tuples |-> mt[q].tuples, refs |-> 1]]
      /\ cmt' = [cmt EXCEPT ![q] = g]
  BY DEF CompactEnd, Mt
<1> HIDE DEF q
<1>3. /\ FlushMoves /\ SameMemtables /\ TaskMoves(g, "start")
      /\ UNCHANGED <<retired, to_incorporate>> /\ mt[q].gen = g
      /\ \A s \in Slots : s # q => mt'[s].state = mt[s].state
  BY <1>1 DEF Together, q
<1>4. UNCHANGED <<generation, op, is_empty>> BY <1>3 DEF FlushMoves
<1>5. /\ branch' \in [Gens -> BranchRecords]
      /\ branch'[g].tuples = mt[q].tuples /\ branch'[g].refs = 1
      /\ \A i \in Gens : i # g => branch'[i] = branch[i]
  <2>1. branch \in [Gens -> BranchRecords] /\ mt[q].tuples \in NatMaps
    BY <1>1 DEF IInv, TypesOK, Typed, MtRecords
  <2> QED BY <1>2, <2>1 DEF BranchRecords
<1>6. cmt' \in [Slots -> Int] /\ cmt'[q] = g
      /\ \A s \in Slots : s # q => cmt'[s] = cmt[s]
  <2>1. cmt \in [Slots -> Int] /\ g \in Int
    BY GenType DEF IInv, TypesOK, Typed
  <2> QED BY <1>1, <1>2, <2>1
<1>7. TypesOK'
  BY <1>1, <1>3, <1>4, <1>5, <1>6 DEF IInv, TypesOK, Typed, Bounded, FlushMoves,
     SameMemtables, TaskMoves
<1>8. CountOK' /\ (Shut' <=> Shut) BY <1>3, FlushCount
<1>9. LifeOK' BY <1>1, <1>3, FlushLife
<1>10. WindowOK' /\ InsertersOK' /\ OrderOK'
  BY <1>1, <1>3, SameWindow, SameInserters, SameOrder
<1>11. Packers(g) = {}
  <2>1. SUFFICES ASSUME NEW t \in Threads,
                        [gen |-> g, packed |-> TRUE] \in op[t].hold
                 PROVE  FALSE
    BY DEF Packers
  <2> DEFINE h == [gen |-> g, packed |-> TRUE]
  <2>2. h.packed /\ h.gen = g /\ h \in op[t].hold BY <2>1
  <2> HIDE DEF h
  <2>3. g <= retired \/ mt[q].state \in {"COMPACTED", "ASSIGNED"}
    BY <2>2 DEF IInv, HoldsOK, Mt, q
  <2> QED BY <1>1, <2>3, GenType DEF IInv, TypesOK, Bounded
<1>12. ReadersOK' BY <1>1, <1>3, <1>5, <1>11, SameReaders
<1>13. StatesOK'
  <2>1. StateOK(q) BY <1>1 DEF IInv, StatesOK
  <2>2. /\ mt'[q].gen = g /\ mt'[q].tuples = mt[q].tuples
        /\ mt'[q].count = mt[q].count
    BY <1>1, <1>3 DEF SameMemtables
  <2>4. g \in Nat /\ generation \in Nat /\ retired \in Int
    BY GenType DEF IInv, TypesOK, Bounded
  <2>5. StateOK(q)' BY <1>1, <1>3, <1>4, <2>1, <2>2, <2>4 DEF StateOK
  <2> QED BY <1>1, <2>5, TogetherStates DEF q, TaskPcs
<1>14. TasksOK'
  <2>1. \A i \in Gens : i # g => TaskOK(i)' /\ (Incorporates(i)' <=> Incorporates(i))
    BY <1>1, <1>3, TogetherTask DEF q, TaskPcs, TaskMoves, Incorporates
  <2>2. TaskOK(g)'
    BY <1>1, <1>3, <1>4, GenType DEF TaskOK, TaskMoves, Mt, q, BeforeCommit,
       AfterCommit, IInv, TypesOK, Bounded
  <2>3. ~Incorporates(g) /\ ~Incorporates(g)'
    BY <1>1, <1>3 DEF Incorporates, TaskMoves, BeforeCommit, AfterCommit
  <2>4. \A i \in Gens : task[i].pc \in {"queued", "compact", "start"} =>
                        task'[i].pc \in {"queued", "compact", "start"}
    BY <1>1, <1>3 DEF TaskMoves
  <2>5. to_incorporate < generation => to_incorporate \in Gens
    BY GenBound DEF IInv, TypesOK, Bounded
  <2> QED BY <1>3, <1>4, <1>8, <2>1, <2>2, <2>3, <2>4, <2>5 DEF IInv, TasksOK
<1>15. \A s \in Slots : /\ mt'[s].gen = mt[s].gen
                         /\ mt'[s].tuples = mt[s].tuples
  BY <1>3 DEF SameMemtables
<1>16. ContentOK'
  <2>1. \A i \in Gens : task'[i].pc \in {"release", "block", "commit"} =>
                           task'[i].pc = task[i].pc
    BY <1>3 DEF TaskMoves
  <2>2. Slot(to_incorporate) \in Slots BY SlotType DEF IInv, TypesOK, Bounded
  <2>3. ASSUME NEW s \in Slots, s # q, mt[s].state \in {"COMPACTED", "ASSIGNED"}
        PROVE  mt[s].gen \in Gens /\ mt[s].gen # g
    <3>1. mt[s].gen < generation
      <4>1. mt[s].gen \in Nat /\ generation \in Nat
        BY DEF IInv, TypesOK, Bounded, Typed, MtRecords
      <4> QED BY <2>3, <4>1 DEF IInv, StatesOK, StateOK
    <3>2. mt[s].gen \in Gens BY <3>1, EarlierGen
    <3> QED BY <3>2, <2>3, <1>3, <1>1 DEF IInv, WindowOK
  <2>4. \A s \in Slots : mt'[s].state \in {"COMPACTED", "ASSIGNED"} =>
          cmt'[s] = mt'[s].gen /\ branch'[mt'[s].gen].tuples = mt'[s].tuples
    BY <1>1, <1>3, <1>15, <1>5, <1>6, <2>3 DEF IInv, ContentOK
  <2>5. Mt(to_incorporate)'.tuples = Mt(to_incorporate).tuples
    BY <1>3, <1>15, <2>2 DEF Mt
  <2> QED BY <1>1, <1>3, <2>1, <2>4, <2>5 DEF IInv, ContentOK
<1>17. \A i \in Gens : /\ Mt(i)'.gen = Mt(i).gen
                       /\ Mt(i).state \in {"COMPACTED", "ASSIGNED"}
                            => Mt(i)'.state \in {"COMPACTED", "ASSIGNED"}
                       /\ Slot(i) # q => Mt(i)'.state = Mt(i).state
  BY <1>1, <1>3, <1>15, GenType DEF Mt
<1>18. HoldsOK'
  <2>1. \A t \in Threads : \A h \in op[t].hold : h.gen \in Gens
    BY DEF IInv, TypesOK, Typed, OpRecords
  <2> QED BY <1>3, <1>4, <1>17, <2>1 DEF IInv, HoldsOK
<1>19. RefsOK'
  <2>1. ASSUME NEW i \in Gens, i # g PROVE BranchOwn(i)' => BranchOwn(i)
    <3> HAVE BranchOwn(i)'
    <3>1. Mt(i).gen = i BY <1>17 DEF BranchOwn
    <3>2. Slot(i) # q BY <3>1, <1>3, <2>1 DEF Mt
    <3> QED BY <3>2, <1>17 DEF BranchOwn, Packed
  <2>2. \A i \in Gens : task'[i].pc \in {"release", "recycle"} => task'[i] = task[i]
    BY <1>3 DEF TaskMoves
  <2>3. \A i : (Own(i)' => Own(i)) /\ (RootOwn(i)' => RootOwn(i))
    BY <1>3, <2>2 DEF Own, RootOwn
  <2>4. ~RootOwn(g)
    BY <1>1 DEF RootOwn, IInv, TasksOK, TaskOK, BeforeCommit, Mt, q
  <2>5. \A s \in Slots : MtRefOK(s)'
    <3> TAKE s \in Slots
    <3>1. Own(mt[s].gen)' => Own(mt[s].gen) BY <1>15, <2>3 DEF Own
    <3> QED BY <1>3, <1>4, <3>1, SameMtRefs
  <2>6. \A i \in Gens : i # g => BranchRefOK(i)'
    BY <1>5, <1>4, <2>1, <2>3, SameBranchRef
  <2>7. BranchRefOK(g)'
    <3>1. Packers(g)' = {} BY <1>11, <1>4 DEF Packers
    <3> QED BY <3>1, <2>3, <2>4, <1>5, FS_EmptySet DEF BranchRefOK
  <2> QED BY <2>5, <2>6, <2>7 DEF RefsOK
<1> QED
  BY <1>7, <1>8, <1>9, <1>10, <1>12, <1>13, <1>14, <1>16, <1>18, <1>19 DEF IInv

PackedStates == {"COMPACTED", "ASSIGNED"}

\* Steps that only pass the turn to incorporate.
LEMMA TurnKeeps ==
    ASSUME IInv, FlushMoves, SameMemtables, NEW g \in Gens,
           task[g].pc \notin {"none", "done"},
           UNCHANGED <<cmt, branch, trunk, prepared, retired>>,
           to_incorporate' \in Nat, task' \in [Gens -> TaskRecords],
           \A s \in Slots : mt'[s].state \in PackedStates <=> mt[s].state \in PackedStates,
           \A i \in Gens : task'[i].pc \in {"release", "block", "commit", "recycle"} =>
                              task'[i] = task[i] /\ to_incorporate' = to_incorporate,
           StatesOK', TasksOK'
    PROVE  IInv'
<1>1. UNCHANGED <<generation, op, is_empty>> BY DEF FlushMoves
<1>2. TypesOK'
  BY <1>1 DEF IInv, TypesOK, Typed, Bounded, FlushMoves, SameMemtables
<1>3. CountOK' /\ (Shut' <=> Shut) BY FlushCount
<1>4. LifeOK' BY FlushLife
<1>5. WindowOK' /\ InsertersOK' /\ OrderOK'
  BY SameWindow, SameInserters, SameOrder
<1>6. ReadersOK' BY SameReaders
<1>7. \A s \in Slots : mt'[s].gen = mt[s].gen /\ mt'[s].tuples = mt[s].tuples
  BY DEF SameMemtables
<1>8. ContentOK'
  <2>1. \A s \in Slots : mt'[s].state \in PackedStates =>
          cmt'[s] = mt'[s].gen /\ branch'[mt'[s].gen].tuples = mt'[s].tuples
    BY <1>7 DEF IInv, ContentOK, PackedStates
  <2>2. ASSUME NEW i \in Gens, task'[i].pc \in {"release", "block", "commit"}
        PROVE  prepared' = Over(Mt(to_incorporate)'.tuples, trunk')
    <3>1. task[i].pc \in {"release", "block", "commit"}
          /\ to_incorporate' = to_incorporate
      BY <2>2
    <3>2. Slot(to_incorporate) \in Slots BY SlotType DEF IInv, TypesOK, Bounded
    <3>3. Mt(to_incorporate)'.tuples = Mt(to_incorporate).tuples
      BY <3>1, <3>2, <1>7 DEF Mt
    <3> QED BY <3>1, <3>3 DEF IInv, ContentOK
  <2> QED BY <2>1, <2>2 DEF ContentOK, PackedStates
<1>9. \A i \in Gens : /\ Mt(i)'.gen = Mt(i).gen
                      /\ Mt(i)'.state \in PackedStates <=> Mt(i).state \in PackedStates
  BY <1>7, GenType DEF Mt
<1>10. HoldsOK'
  <2>1. \A t \in Threads : \A h \in op[t].hold : h.gen \in Gens
    BY DEF IInv, TypesOK, Typed, OpRecords
  <2> QED BY <1>1, <1>9, <2>1 DEF IInv, HoldsOK, PackedStates
<1>11. RefsOK'
  <2>1. \A i \in Gens : BranchOwn(i)' <=> BranchOwn(i)
    BY <1>9 DEF BranchOwn, Packed, PackedStates
  <2>2. \A i : (Own(i)' => Own(i)) /\ (RootOwn(i)' => RootOwn(i))
    BY DEF Own, RootOwn
  <2>3. \A s \in Slots : MtRefOK(s)'
    <3> TAKE s \in Slots
    <3>1. Own(mt[s].gen)' => Own(mt[s].gen) BY <1>7, <2>2 DEF Own
    <3> QED BY <1>1, <3>1, SameMtRefs
  <2>4. \A i \in Gens : BranchRefOK(i)' BY <1>1, <2>1, <2>2, SameBranchRef
  <2> QED BY <2>3, <2>4 DEF RefsOK
<1> QED BY <1>2, <1>3, <1>4, <1>5, <1>6, <1>8, <1>10, <1>11 DEF IInv

\* The task of the generation to incorporate takes its turn: nobody has it.
LEMMA TryStartMine ==
    ASSUME IInv, NEW g \in Gens, TryStart(g), Mt(g).gen = g,
           g = to_incorporate, Mt(g).state = "COMPACTED"
    PROVE  IInv'
<1> DEFINE q == Slot(g)
<1>1. task[g].pc = "start" /\ mt[q].gen = g /\ mt[q].state = "COMPACTED"
  BY DEF TryStart, Mt
<1>2. q \in Slots /\ g \in Nat /\ g < generation /\ generation \in Nat
      /\ retired \in Int
  BY <1>1, TaskGen DEF IInv, TypesOK, Bounded
<1>3. retired < g
  BY <1>1, <1>2 DEF IInv, StatesOK, StateOK
<1>4. /\ SameMemtables /\ mt'[q].state = "ASSIGNED"
      /\ \A s \in Slots : s # q => mt'[s].state = mt[s].state
  BY <1>1, <1>2, StateSet DEF TryStart, Assigned, Mt, States
<1>5. TaskMoves(g, "prepare") /\ task'[g].gen = g
  <2>1. task[g].gen = g BY <1>1 DEF IInv, TasksOK, TaskOK
  <2> QED BY <2>1, GoSets DEF TryStart, TaskPcs
<1>6. FlushMoves /\ UNCHANGED <<cmt, branch, trunk, prepared, retired, to_incorporate>>
  BY DEF TryStart, FlushMoves, ctxt, life
<1>7. Together(g, "prepare") BY <1>1, <1>4, <1>5, <1>6 DEF Together
<1>8. \A i \in Gens : ~Incorporates(i)
  <2> TAKE i \in Gens
  <2>1. TaskOK(i) BY DEF IInv, TasksOK
  <2>2. task[i].pc \notin BeforeCommit BY <1>1, <2>1 DEF TaskOK, Mt
  <2>3. task[i].pc \notin AfterCommit BY <1>2, <1>3, <2>1 DEF TaskOK
  <2> QED BY <2>2, <2>3 DEF Incorporates
<1>9. to_incorporate = retired + 1
  BY <1>2, <1>3, <1>8 DEF IInv, TasksOK
<1> HIDE DEF q
<1>10. generation' = generation /\ is_empty' = is_empty BY <1>6 DEF FlushMoves
<1>11. StatesOK'
  <2>1. StateOK(q) BY <1>2 DEF IInv, StatesOK
  <2>2. /\ mt'[q].gen = g /\ mt'[q].tuples = mt[q].tuples
        /\ mt'[q].count = mt[q].count
    BY <1>1, <1>2, <1>4 DEF SameMemtables
  <2>3. task'[g].pc = "prepare" BY <1>5 DEF TaskMoves
  <2>4. StateOK(q)'
    BY <1>1, <1>2, <1>3, <1>4, <1>6, <1>10, <2>1, <2>2, <2>3 DEF StateOK
  <2> QED BY <1>1, <1>7, <2>4, TogetherStates DEF q, TaskPcs
<1>12. TasksOK'
  <2>1. \A i \in Gens : i # g => TaskOK(i)' /\ ~Incorporates(i)'
    BY <1>1, <1>7, <1>5, <1>8, TogetherTask
       DEF q, TaskPcs, TaskMoves, Incorporates
  <2>2. task'[g].pc = "prepare" BY <1>5 DEF TaskMoves
  <2>3. TaskOK(g)'
    BY <1>2, <1>4, <1>5, <1>6, <1>9, <1>10, <2>2 DEF TaskOK, Mt, q, BeforeCommit,
       AfterCommit
  <2>4. Incorporates(g)' BY <2>2 DEF Incorporates, BeforeCommit
  <2> QED BY <2>1, <2>3, <2>4 DEF TasksOK
<1>13. \A s \in Slots : mt'[s].state \in PackedStates <=> mt[s].state \in PackedStates
  BY <1>1, <1>4 DEF PackedStates
<1>14. \A i \in Gens : task'[i].pc \in {"release", "block", "commit", "recycle"} =>
                         task'[i] = task[i] /\ to_incorporate' = to_incorporate
  BY <1>5, <1>6 DEF TaskMoves
<1>15. to_incorporate' \in Nat /\ task' \in [Gens -> TaskRecords]
  BY <1>2, <1>5, <1>6 DEF TaskMoves
<1> QED BY <1>1, <1>4, <1>6, <1>11, <1>12, <1>13, <1>14, <1>15, TurnKeeps

\* Otherwise it is not its turn yet, or another task has taken it.
LEMMA TryStartOther ==
    ASSUME IInv, NEW g \in Gens, TryStart(g),
           ~(Mt(g).gen = g /\ g = to_incorporate /\ Mt(g).state = "COMPACTED")
    PROVE  IInv'
<1>1. task[g].pc = "start" /\ mt' = mt BY DEF TryStart
<1>2. TaskMoves(g, "done") BY GoSets DEF TryStart, TaskPcs
<1>3. FlushMoves /\ UNCHANGED <<cmt, branch, trunk, prepared, retired, to_incorporate>>
  BY DEF TryStart, FlushMoves, ctxt, life
<1>4. SameMemtables BY <1>1, SameMt
<1>5. /\ task'[g].pc = "done" /\ task' \in [Gens -> TaskRecords]
      /\ \A i \in Gens : i # g => task'[i] = task[i]
  BY <1>2 DEF TaskMoves
<1>6. generation' = generation /\ is_empty' = is_empty BY <1>3 DEF FlushMoves
<1>7. StatesOK'
  <2>1. ASSUME NEW s \in Slots PROVE StateOK(s)'
    <3>1. StateOK(s) BY DEF IInv, StatesOK
    <3>2. Advancing' <=> Advancing BY <1>3 DEF FlushMoves, Advancing
    <3>3. mt[s].gen < generation /\ task[mt[s].gen].pc \in {"queued", "compact"} =>
            task'[mt[s].gen] = task[mt[s].gen]
      BY <1>1, <1>5, EarlierGen
    <3>4. \A i \in Gens : task[i].pc \in {"prepare", "release", "block", "commit"} =>
                            task'[i] = task[i]
      BY <1>1, <1>5
    <3> QED BY <1>1, <1>3, <1>6, <3>1, <3>2, <3>3, <3>4 DEF StateOK
  <2> QED BY <2>1 DEF StatesOK
<1>8. TasksOK'
  <2>1. \A i \in Gens : TaskOK(i)'
    <3> TAKE i \in Gens
    <3>1. TaskOK(i) BY DEF IInv, TasksOK
    <3>2. CASE i # g
      BY <1>1, <1>3, <1>5, <1>6, <3>1, <3>2 DEF TaskOK, Mt
    <3>3. CASE i = g
      BY <1>1, <1>3, <1>5, <1>6, <3>1, <3>3 DEF TaskOK, BeforeCommit, AfterCommit
    <3> QED BY <3>2, <3>3
  <2>2. \A i \in Gens : Incorporates(i)' <=> Incorporates(i)
    BY <1>1, <1>5 DEF Incorporates, BeforeCommit, AfterCommit
  <2>3. (\A i \in Gens : ~Incorporates(i)) =>
          \/ /\ to_incorporate = retired + 1
             /\ to_incorporate < generation =>
                   task'[to_incorporate].pc \in {"queued", "compact", "start"}
          \/ Shut /\ generation = retired + 1
    <3> HAVE \A i \in Gens : ~Incorporates(i)
    <3>1. to_incorporate < generation => to_incorporate \in Gens
      BY GenBound DEF IInv, TypesOK, Bounded
    <3>2. ~(to_incorporate = retired + 1 /\ to_incorporate = g)
      <4> SUFFICES ASSUME to_incorporate = retired + 1, to_incorporate = g
                   PROVE  FALSE
        OBVIOUS
      <4>1. retired < g /\ g < generation /\ Mt(g).gen = g /\ Slot(g) \in Slots
        BY <1>1, TaskGen DEF Mt, IInv, TypesOK, Bounded
      <4>2. Mt(g).state \in {"COMPACTED", "ASSIGNED"}
        BY <1>1, <4>1 DEF IInv, TasksOK, TaskOK
      <4>3. Mt(g).state = "ASSIGNED" BY <4>1, <4>2
      <4>4. \E i \in Gens : task[i].pc \in {"prepare", "release", "block", "commit"}
        BY <4>1, <4>3 DEF IInv, StatesOK, StateOK, Mt
      <4> QED BY <4>4 DEF Incorporates, BeforeCommit
    <3> QED BY <3>1, <3>2, <1>5 DEF IInv, TasksOK
  <2>4. Shut' <=> Shut BY <1>3, FlushCount
  <2>5. \A i, j \in Gens : Incorporates(i) /\ Incorporates(j) => i = j
    BY DEF IInv, TasksOK
  <2> QED BY <1>3, <1>6, <2>1, <2>2, <2>3, <2>4, <2>5 DEF TasksOK
<1>9. \A i \in Gens : task'[i].pc \in {"release", "block", "commit", "recycle"} =>
                        task'[i] = task[i] /\ to_incorporate' = to_incorporate
  BY <1>3, <1>5
<1>10. to_incorporate' \in Nat BY <1>3 DEF IInv, TypesOK, Bounded
<1> QED BY <1>1, <1>3, <1>4, <1>5, <1>7, <1>8, <1>9, <1>10, TurnKeeps

\* core_try_start_incorporate: the turn is taken by the task of the next
\* generation, or left to the task that will pass it on.
LEMMA TryStartKeeps ==
    ASSUME IInv, NEW g \in Gens, TryStart(g)
    PROVE  IInv'
  BY TryStartMine, TryStartOther

\* A task that has incorporated a generation is the only one that does.
LEMMA ContinueAlone ==
    ASSUME IInv, NEW g \in Gens, task[g].pc = "continue"
    PROVE  /\ task[g].gen = retired /\ to_incorporate = retired
           /\ retired \in Nat /\ retired + 1 \in Nat
           /\ Slot(retired + 1) \in Slots /\ retired + 1 <= generation
           /\ g < generation /\ generation \in Nat
           /\ \A i \in Gens : i # g => ~Incorporates(i)
           /\ \A s \in Slots : mt[s].state # "ASSIGNED"
<1>1. task[g].gen = to_incorporate /\ to_incorporate = retired
  BY DEF IInv, TasksOK, TaskOK, AfterCommit
<1>2. retired \in Nat /\ retired < generation /\ generation \in Nat
  BY <1>1 DEF IInv, TypesOK, Bounded
<1>3. \A i \in Gens : i # g => ~Incorporates(i)
  BY DEF IInv, TasksOK, Incorporates, AfterCommit
<1>4. \A s \in Slots : mt[s].state # "ASSIGNED"
  <2> SUFFICES ASSUME NEW s \in Slots, mt[s].state = "ASSIGNED" PROVE FALSE
    OBVIOUS
  <2>1. StateOK(s) BY DEF IInv, StatesOK
  <2>2. mt[s].gen \in Nat BY DEF IInv, TypesOK, Typed, MtRecords
  <2>3. \E i \in Gens : task[i].pc \in BeforeCommit
    BY <1>2, <2>1, <2>2 DEF StateOK, BeforeCommit
  <2> QED BY <1>3, <2>3 DEF Incorporates, BeforeCommit
<1> QED BY <1>1, <1>2, <1>3, <1>4, SlotType, TaskGen

\* It goes on with the next generation if that is packed, ...
LEMMA ContinueNext ==
    ASSUME IInv, NEW g \in Gens, TryContinue(g),
           Mt(retired + 1).gen = retired + 1, Mt(retired + 1).state = "COMPACTED"
    PROVE  IInv'
<1> DEFINE h == retired + 1
           q == Slot(h)
<1>1. task[g].pc = "continue" BY DEF TryContinue
<1>2. /\ task[g].gen = retired /\ to_incorporate = retired
      /\ retired \in Nat /\ h \in Nat /\ q \in Slots /\ h <= generation
      /\ g < generation /\ generation \in Nat
      /\ \A i \in Gens : i # g => ~Incorporates(i)
      /\ \A s \in Slots : mt[s].state # "ASSIGNED"
  BY <1>1, ContinueAlone
<1>3. mt[q].gen = h /\ mt[q].state = "COMPACTED" BY DEF Mt
<1>4. h < generation BY <1>2, <1>3 DEF IInv, StatesOK, StateOK
<1>5. /\ SameMemtables /\ mt'[q].state = "ASSIGNED"
      /\ \A s \in Slots : s # q => mt'[s].state = mt[s].state
  <2>1. mt' = [mt EXCEPT ![q].state = "ASSIGNED"]
    BY <1>2, <1>3 DEF TryContinue, Assigned, Mt
  <2> QED BY <1>2, <2>1, StateSet DEF States
<1>6. /\ task' \in [Gens -> TaskRecords]
      /\ task'[g].pc = "prepare" /\ task'[g].gen = h
      /\ \A i \in Gens : i # g => task'[i] = task[i]
  <2>1. task \in [Gens -> TaskRecords] BY DEF IInv, TypesOK, Typed
  <2>2. task' = [task EXCEPT ![g] = [pc |-> "prepare", gen |-> h]]
    BY <1>2, <1>3 DEF TryContinue, Mt
  <2> QED BY <1>2, <2>1, <2>2 DEF TaskRecords, TaskPcs
<1>7. FlushMoves /\ UNCHANGED <<cmt, branch, trunk, prepared, retired>>
      /\ to_incorporate' = h
  BY <1>2, <1>3 DEF TryContinue, FlushMoves, life, Mt
<1> HIDE DEF h, q
<1>8. generation' = generation /\ is_empty' = is_empty BY <1>7 DEF FlushMoves
<1>9. retired < h BY <1>2 DEF h
<1>10. \A s \in Slots : /\ mt'[s].gen = mt[s].gen /\ mt'[s].tuples = mt[s].tuples
                        /\ mt'[s].count = mt[s].count
  BY <1>5 DEF SameMemtables
<1>11. StatesOK'
  <2>1. ASSUME NEW s \in Slots PROVE StateOK(s)'
    <3>1. StateOK(s) BY DEF IInv, StatesOK
    <3>2. Advancing' <=> Advancing BY <1>7 DEF FlushMoves, Advancing
    <3>3. mt[s].gen \in Nat BY DEF IInv, TypesOK, Typed, MtRecords
    <3>4. CASE s = q
      BY <1>2, <1>3, <1>4, <1>5, <1>6, <1>7, <1>8, <1>9, <1>10, <3>1, <3>4
         DEF StateOK
    <3>5. CASE s # q
      <4>1. mt[s].gen < generation /\ task[mt[s].gen].pc \in {"queued", "compact"} =>
              task'[mt[s].gen] = task[mt[s].gen]
        BY <1>1, <1>6, EarlierGen
      <4> QED
        BY <1>2, <1>5, <1>7, <1>8, <1>10, <3>1, <3>2, <3>5, <4>1 DEF StateOK
    <3> QED BY <3>4, <3>5
  <2> QED BY <2>1 DEF StatesOK
<1>12. TasksOK'
  <2>1. ASSUME NEW i \in Gens, i # g PROVE TaskOK(i)' /\ ~Incorporates(i)'
    <3>1. TaskOK(i) /\ ~Incorporates(i) /\ task'[i] = task[i]
      BY <1>2, <1>6, <2>1 DEF IInv, TasksOK
    <3>2. ~Incorporates(i)' BY <3>1 DEF Incorporates
    <3>3. Slot(i) \in Slots BY GenType
    <3>4. /\ mt[Slot(i)].state = "FINALIZED" => mt'[Slot(i)].state = "FINALIZED"
          /\ mt[Slot(i)].state = "COMPACTING" => mt'[Slot(i)].state = "COMPACTING"
          /\ mt[Slot(i)].state \in PackedStates => mt'[Slot(i)].state \in PackedStates
      BY <1>3, <1>5, <3>3 DEF PackedStates
    <3>5. TaskOK(i)'
      BY <1>7, <1>8, <3>1, <3>4 DEF TaskOK, Mt, PackedStates, Incorporates,
         BeforeCommit, AfterCommit
    <3> QED BY <3>2, <3>5
  <2>2. TaskOK(g)'
    BY <1>1, <1>2, <1>4, <1>5, <1>6, <1>7, <1>8, GenType DEF TaskOK, Mt, h, q,
       BeforeCommit, AfterCommit
  <2>3. Incorporates(g)' BY <1>6 DEF Incorporates, BeforeCommit
  <2> QED BY <2>1, <2>2, <2>3 DEF TasksOK
<1>13. \A s \in Slots : mt'[s].state \in PackedStates <=> mt[s].state \in PackedStates
  BY <1>3, <1>5 DEF PackedStates
<1>14. \A i \in Gens : task'[i].pc \in {"release", "block", "commit", "recycle"} =>
                         task'[i] = task[i] /\ to_incorporate' = to_incorporate
  BY <1>2, <1>6 DEF Incorporates, BeforeCommit, AfterCommit
<1> QED
  BY <1>1, <1>2, <1>5, <1>6, <1>7, <1>11, <1>12, <1>13, <1>14, TurnKeeps

\* ... and leaves it to the task of that generation if it is not.
LEMMA ContinueDone ==
    ASSUME IInv, NEW g \in Gens, TryContinue(g),
           ~(Mt(retired + 1).gen = retired + 1
               /\ Mt(retired + 1).state = "COMPACTED")
    PROVE  IInv'
<1> DEFINE h == retired + 1
           q == Slot(h)
<1>1. task[g].pc = "continue" BY DEF TryContinue
<1>2. /\ task[g].gen = retired /\ to_incorporate = retired
      /\ retired \in Nat /\ h \in Nat /\ q \in Slots /\ h <= generation
      /\ g < generation /\ generation \in Nat
      /\ \A i \in Gens : i # g => ~Incorporates(i)
      /\ \A s \in Slots : mt[s].state # "ASSIGNED"
  BY <1>1, ContinueAlone
<1>3. ~(mt[q].gen = h /\ mt[q].state = "COMPACTED") BY DEF Mt
<1>4. mt' = mt /\ SameMemtables
  <2>1. mt' = mt BY <1>2, <1>3 DEF TryContinue, Assigned, Mt
  <2> QED BY <2>1, SameMt
<1>5. /\ task' \in [Gens -> TaskRecords] /\ task'[g].pc = "done"
      /\ \A i \in Gens : i # g => task'[i] = task[i]
  <2>1. task \in [Gens -> TaskRecords] BY DEF IInv, TypesOK, Typed
  <2>2. task' = [task EXCEPT ![g] = [pc |-> "done", gen |-> h]]
    BY <1>2, <1>3 DEF TryContinue, Mt
  <2> QED BY <1>2, <2>1, <2>2 DEF TaskRecords, TaskPcs
<1>6. FlushMoves /\ UNCHANGED <<cmt, branch, trunk, prepared, retired>>
      /\ to_incorporate' = IF mt[q].gen = h THEN h ELSE retired
  BY <1>2 DEF TryContinue, FlushMoves, life, Mt
<1> HIDE DEF q
<1>7. generation' = generation /\ is_empty' = is_empty BY <1>6 DEF FlushMoves
<1>8. StatesOK'
  <2>1. ASSUME NEW s \in Slots PROVE StateOK(s)'
    <3>1. StateOK(s) BY DEF IInv, StatesOK
    <3>2. Advancing' <=> Advancing BY <1>6 DEF FlushMoves, Advancing
    <3>3. mt[s].gen < generation /\ task[mt[s].gen].pc \in {"queued", "compact"} =>
            task'[mt[s].gen] = task[mt[s].gen]
      BY <1>1, <1>5, EarlierGen
    <3> QED BY <1>2, <1>4, <1>6, <1>7, <3>1, <3>2, <3>3 DEF StateOK
  <2> QED BY <2>1 DEF StatesOK
<1>9. TasksOK'
  <2>1. \A i \in Gens : TaskOK(i)' /\ ~Incorporates(i)'
    <3> TAKE i \in Gens
    <3>1. TaskOK(i) BY DEF IInv, TasksOK
    <3>2. CASE i # g
      BY <1>2, <1>4, <1>5, <1>6, <1>7, <3>1, <3>2 DEF TaskOK, Mt, Incorporates
    <3>3. CASE i = g
      BY <1>1, <1>4, <1>5, <1>6, <1>7, <3>1, <3>3 DEF TaskOK, Incorporates,
         BeforeCommit, AfterCommit
    <3> QED BY <3>2, <3>3
  <2>2. Shut' <=> Shut BY <1>6, FlushCount
  <2>3. h \in Gens BY <1>2, GenBound
  <2>4. CASE mt[q].gen = h
    <3>1. h < generation => task'[h].pc \in {"queued", "compact"}
      <4> HAVE h < generation
      <4>1. StateOK(q) BY <1>2 DEF IInv, StatesOK
      <4>2. mt[q].state \in States BY <1>2 DEF IInv, TypesOK, Typed, MtRecords
      <4>3. mt[q].state \in {"FINALIZED", "COMPACTING"}
        BY <1>2, <1>3, <2>4, <4>1, <4>2 DEF StateOK, States
      <4>4. task[h].pc \in {"queued", "compact"}
        BY <2>4, <4>1, <4>3 DEF StateOK
      <4> QED BY <1>1, <1>5, <2>3, <4>4
    <3> QED BY <1>6, <1>7, <2>1, <2>4, <3>1 DEF TasksOK
  <2>5. CASE mt[q].gen # h
    <3>1. ~(h < generation)
      BY <1>2, <2>3, <2>5 DEF IInv, WindowOK, Mt, q
    <3>2. h = generation BY <1>2, <3>1
    <3>3. Shut BY <2>5, <3>2 DEF IInv, WindowOK, Mt, q
    <3> QED BY <1>6, <1>7, <2>1, <2>2, <3>2, <3>3 DEF TasksOK
  <2> QED BY <2>4, <2>5
<1>10. \A i \in Gens : task'[i].pc \in {"release", "block", "commit", "recycle"} =>
                         task'[i] = task[i] /\ to_incorporate' = to_incorporate
  BY <1>2, <1>5 DEF Incorporates, BeforeCommit, AfterCommit
<1>11. to_incorporate' \in Nat BY <1>2, <1>6
<1> QED BY <1>1, <1>4, <1>5, <1>6, <1>8, <1>9, <1>10, <1>11, TurnKeeps

\* core_try_continue_incorporate: the turn goes to the next generation, for
\* this task or for the one still to come.
LEMMA TryContinueKeeps ==
    ASSUME IInv, NEW g \in Gens, TryContinue(g)
    PROVE  IInv'
  BY ContinueNext, ContinueDone

\* The task that has the turn to incorporate, before its commit.
LEMMA TurnAlone ==
    ASSUME IInv, NEW g \in Gens, task[g].pc \in BeforeCommit
    PROVE  LET h == to_incorporate IN
           /\ task[g].gen = h /\ h = retired + 1 /\ h < generation
           /\ h \in Nat /\ h \in Gens /\ Slot(h) \in Slots /\ g < generation
           /\ mt[Slot(h)].gen = h /\ mt[Slot(h)].state = "ASSIGNED"
           /\ cmt[Slot(h)] = h /\ branch[h].tuples = mt[Slot(h)].tuples
           /\ \A i \in Gens : i # g => ~Incorporates(i)
<1> DEFINE h == to_incorporate
<1>1. /\ task[g].gen = h /\ h = retired + 1 /\ h < generation
      /\ mt[Slot(h)].state = "ASSIGNED"
  BY DEF IInv, TasksOK, TaskOK, Mt
<1>2. h \in Nat /\ generation \in Nat /\ retired \in Int
  BY DEF IInv, TypesOK, Bounded
<1>3. h \in Gens /\ Slot(h) \in Slots BY <1>1, <1>2, GenBound, SlotType
<1>4. mt[Slot(h)].gen = h BY <1>1, <1>2, <1>3 DEF IInv, WindowOK, Mt
<1>5. cmt[Slot(h)] = h /\ branch[h].tuples = mt[Slot(h)].tuples
  BY <1>1, <1>3, <1>4 DEF IInv, ContentOK
<1>6. \A i \in Gens : i # g => ~Incorporates(i)
  BY DEF IInv, TasksOK, Incorporates
<1>7. g < generation BY TaskGen DEF BeforeCommit
<1> QED BY <1>1, <1>2, <1>3, <1>4, <1>5, <1>6, <1>7

\* Steps on the way to the commit.
LEMMA WayKeeps ==
    ASSUME IInv, FlushMoves, mt' = mt, NEW g \in Gens, NEW l \in BeforeCommit,
           task[g].pc \in BeforeCommit, TaskMoves(g, l),
           task'[g].gen = task[g].gen,
           UNCHANGED <<cmt, trunk, retired, to_incorporate>>,
           prepared' \in NatMaps, branch' \in [Gens -> BranchRecords],
           \A i \in Gens : branch'[i].tuples = branch[i].tuples,
           l = "prepare" \/ prepared' = Over(Mt(to_incorporate).tuples, trunk),
           \A i \in Gens : BranchRefOK(i)'
    PROVE  IInv'
<1>1. UNCHANGED <<generation, op, is_empty>> BY DEF FlushMoves
<1>2. SameMemtables BY SameMt
<1>3. /\ task' \in [Gens -> TaskRecords] /\ task'[g].pc = l
      /\ \A i \in Gens : i # g => task'[i] = task[i]
  BY DEF TaskMoves
<1>4. TypesOK'
  BY <1>1, <1>3 DEF IInv, TypesOK, Typed, Bounded, FlushMoves
<1>5. CountOK' /\ (Shut' <=> Shut) BY FlushCount
<1>6. LifeOK' BY FlushLife DEF BeforeCommit
<1>7. WindowOK' /\ InsertersOK' /\ OrderOK'
  BY <1>2, SameWindow, SameInserters, SameOrder
<1>8. ReadersOK' BY <1>2, SameReaders
<1>9. StatesOK'
  <2>1. ASSUME NEW s \in Slots PROVE StateOK(s)'
    <3>1. StateOK(s) BY DEF IInv, StatesOK
    <3>2. Advancing' <=> Advancing BY DEF FlushMoves, Advancing
    <3>3. mt[s].gen < generation /\ task[mt[s].gen].pc \in {"queued", "compact"} =>
            task'[mt[s].gen] = task[mt[s].gen]
      BY <1>3, EarlierGen DEF BeforeCommit
    <3>4. \E i \in Gens : task'[i].pc \in {"prepare", "release", "block", "commit"}
      BY <1>3 DEF BeforeCommit
    <3> QED BY <1>1, <3>1, <3>2, <3>3, <3>4 DEF StateOK
  <2> QED BY <2>1 DEF StatesOK
<1>10. TasksOK'
  <2>1. ASSUME NEW i \in Gens PROVE TaskOK(i)'
    <3>1. TaskOK(i) BY DEF IInv, TasksOK
    <3>2. CASE i # g BY <1>1, <1>3, <3>1, <3>2 DEF TaskOK, Mt
    <3>3. CASE i = g
      BY <1>1, <1>3, <3>1, <3>3 DEF TaskOK, Mt, BeforeCommit, AfterCommit
    <3> QED BY <3>2, <3>3
  <2>2. \A i \in Gens : Incorporates(i)' <=> Incorporates(i)
    BY <1>3 DEF Incorporates
  <2>3. Incorporates(g) BY DEF Incorporates
  <2>4. \A i, j \in Gens : Incorporates(i) /\ Incorporates(j) => i = j
    BY DEF IInv, TasksOK
  <2> QED BY <2>1, <2>2, <2>3, <2>4 DEF TasksOK
<1>11. ContentOK'
  <2>1. \A s \in Slots : mt[s].state \in {"COMPACTED", "ASSIGNED"} =>
                           mt[s].gen \in Gens
    <3> TAKE s \in Slots
    <3>1. mt[s].gen \in Nat /\ generation \in Nat
      BY DEF IInv, TypesOK, Bounded, Typed, MtRecords
    <3>2. StateOK(s) BY DEF IInv, StatesOK
    <3> QED BY <3>1, <3>2, EarlierGen DEF StateOK
  <2>2. \A s \in Slots : mt'[s].state \in {"COMPACTED", "ASSIGNED"} =>
          cmt'[s] = mt'[s].gen /\ branch'[mt'[s].gen].tuples = mt'[s].tuples
    BY <2>1 DEF IInv, ContentOK
  <2>3. \A i \in Gens : task'[i].pc \in {"release", "block", "commit"} =>
                          i = g /\ l # "prepare"
    BY <1>3, TurnAlone DEF Incorporates, BeforeCommit
  <2>4. Mt(to_incorporate)' = Mt(to_incorporate) BY DEF Mt
  <2> QED BY <2>2, <2>3, <2>4 DEF ContentOK
<1>12. HoldsOK' BY <1>1 DEF IInv, HoldsOK, Mt
<1>13. RefsOK'
  <2>1. ASSUME NEW s \in Slots PROVE MtRefOK(s)'
    <3>1. \A i \in Gens : task'[i].pc = "recycle" => task[i].pc = "recycle"
      BY <1>3 DEF BeforeCommit
    <3>2. Own(mt[s].gen)' => Own(mt[s].gen) BY <3>1 DEF Own
    <3> QED BY <1>1, <1>2, <3>2, SameMtRefs
  <2> QED BY <2>1 DEF RefsOK
<1> QED
  BY <1>4, <1>5, <1>6, <1>7, <1>8, <1>9, <1>10, <1>11, <1>12, <1>13 DEF IInv

\* The references to branch g, counted.
LEMMA BranchCount ==
    ASSUME IInv, NEW g \in Gens
    PROVE  /\ branch[g].refs \in Nat /\ Cardinality(Packers(g)) \in Nat
           /\ Cardinality(Packers(g)) + (IF BranchOwn(g) THEN 1 ELSE 0)
                + (IF RootOwn(g) THEN 1 ELSE 0) <= branch[g].refs
<1>1. branch[g].refs \in Nat BY DEF IInv, TypesOK, Typed, BranchRecords
<1>2. Cardinality(Packers(g)) \in Nat BY ThreadsFinite DEF Packers
<1>3. BranchRefOK(g) BY DEF IInv, RefsOK
<1> QED BY <1>1, <1>2, <1>3 DEF BranchRefOK

\* A change of one branch's count of references.
LEMMA RefsSet ==
    ASSUME IInv, NEW b \in Gens, NEW n \in Nat,
           branch' = [branch EXCEPT ![b].refs = n]
    PROVE  /\ branch' \in [Gens -> BranchRecords] /\ branch'[b].refs = n
           /\ \A i \in Gens : branch'[i].tuples = branch[i].tuples
           /\ \A i \in Gens : i # b => branch'[i].refs = branch[i].refs
<1>1. branch \in [Gens -> BranchRecords] BY DEF IInv, TypesOK, Typed
<1>2. \A i \in Gens : branch'[i] = IF i = b THEN [branch[i] EXCEPT !.refs = n]
                                   ELSE branch[i]
  BY <1>1
<1>3. branch' \in [Gens -> BranchRecords] BY <1>1 DEF BranchRecords
<1> QED BY <1>1, <1>2, <1>3 DEF BranchRecords

\* trunk_incorporate_prepare: the new root has a reference of its own.
LEMMA PrepareKeeps ==
    ASSUME IInv, NEW g \in Gens, Prepare(g)
    PROVE  IInv'
<1> DEFINE h == to_incorporate
<1>1. task[g].pc = "prepare" BY DEF Prepare
<1>2. task[g].pc \in BeforeCommit BY <1>1 DEF BeforeCommit
<1>3. /\ task[g].gen = h /\ h \in Gens /\ Slot(h) \in Slots
      /\ cmt[Slot(h)] = h /\ branch[h].tuples = mt[Slot(h)].tuples
      /\ \A i \in Gens : i # g => ~Incorporates(i)
  BY <1>2, TurnAlone
<1>4. prepared' = Over(Mt(h).tuples, trunk) BY <1>3 DEF Prepare, Mt
<1>5. branch' = [branch EXCEPT ![h].refs = branch[h].refs + 1]
  BY <1>3 DEF Prepare
<1>6. TaskMoves(g, "release") /\ task'[g].gen = task[g].gen
  BY GoSets DEF Prepare, TaskPcs
<1>7. FlushMoves /\ UNCHANGED <<mt, cmt, trunk, retired, to_incorporate>>
  BY DEF Prepare, FlushMoves, ctxt, life
<1> HIDE DEF h
<1>8. prepared' \in NatMaps
  <2>1. Mt(h).tuples \in NatMaps /\ trunk \in NatMaps
    BY <1>3 DEF Mt, IInv, TypesOK, Bounded, Typed, MtRecords
  <2> QED BY <1>4, <2>1 DEF Over, NatMaps
<1>9. branch[h].refs + 1 \in Nat BY <1>3, BranchCount
<1>10. /\ branch' \in [Gens -> BranchRecords]
       /\ branch'[h].refs = branch[h].refs + 1
       /\ \A i \in Gens : branch'[i].tuples = branch[i].tuples
       /\ \A i \in Gens : i # h => branch'[i].refs = branch[i].refs
  BY <1>3, <1>5, <1>9, RefsSet
<1>11. op' = op BY <1>7 DEF FlushMoves
<1>12. \A i \in Gens : BranchOwn(i)' <=> BranchOwn(i)
  BY <1>7 DEF BranchOwn, Packed, Mt
<1>13. \A i \in Gens : RootOwn(i)' => i = h
  BY <1>3, <1>6 DEF RootOwn, TaskMoves, Incorporates, BeforeCommit
<1>14. \A i \in Gens : BranchRefOK(i)'
  <2> TAKE i \in Gens
  <2>1. CASE i # h BY <1>10, <1>11, <1>12, <1>13, <2>1, SameBranchRef
  <2>2. CASE i = h
    <3>1. Packers(i)' = Packers(i) BY <1>11 DEF Packers
    <3>2. BranchOwn(i)' <=> BranchOwn(i) BY <1>12
    <3>3. branch'[i].refs = branch[i].refs + 1 BY <1>10, <2>2
    <3> QED BY <3>1, <3>2, <3>3, BranchCount DEF BranchRefOK
  <2> QED BY <2>1, <2>2
<1> QED
  BY <1>2, <1>4, <1>6, <1>7, <1>8, <1>10, <1>14, WayKeeps DEF BeforeCommit, h

\* The compacted memtable's reference is not the last one.
LEMMA ReleaseBranchKeeps ==
    ASSUME IInv, NEW g \in Gens, ReleaseBranch(g)
    PROVE  IInv'
<1> DEFINE h == to_incorporate
<1>1. task[g].pc = "release" BY DEF ReleaseBranch
<1>2. task[g].pc \in BeforeCommit BY <1>1 DEF BeforeCommit
<1>3. /\ task[g].gen = h /\ h \in Gens /\ Slot(h) \in Slots
      /\ cmt[Slot(h)] = h /\ branch[h].tuples = mt[Slot(h)].tuples
      /\ \A i \in Gens : i # g => ~Incorporates(i)
  BY <1>2, TurnAlone
<1>4. prepared = Over(Mt(h).tuples, trunk)
  BY <1>1 DEF IInv, ContentOK
<1>5. branch' = [branch EXCEPT ![h].refs = branch[h].refs - 1]
  BY <1>3 DEF ReleaseBranch
<1>6. TaskMoves(g, "block") /\ task'[g].gen = task[g].gen
  BY GoSets DEF ReleaseBranch, TaskPcs
<1>7. FlushMoves /\ UNCHANGED <<mt, cmt, trunk, prepared, retired, to_incorporate>>
  BY DEF ReleaseBranch, FlushMoves, ctxt, life
<1> HIDE DEF h
<1>8. prepared' \in NatMaps BY <1>7 DEF IInv, TypesOK, Bounded
<1>9. RootOwn(h) BY <1>1, <1>3 DEF RootOwn
<1>10. branch[h].refs - 1 \in Nat BY <1>3, <1>9, BranchCount
<1>11. /\ branch' \in [Gens -> BranchRecords]
       /\ branch'[h].refs = branch[h].refs - 1
       /\ \A i \in Gens : branch'[i].tuples = branch[i].tuples
       /\ \A i \in Gens : i # h => branch'[i].refs = branch[i].refs
  BY <1>3, <1>5, <1>10, RefsSet
<1>12. op' = op BY <1>7 DEF FlushMoves
<1>13. \A i \in Gens : BranchOwn(i)' <=> BranchOwn(i)
  BY <1>7 DEF BranchOwn, Packed, Mt
<1>14. \A i \in Gens : ~RootOwn(i)'
  BY <1>3, <1>6 DEF RootOwn, TaskMoves, Incorporates, BeforeCommit
<1>15. \A i \in Gens : BranchRefOK(i)'
  <2> TAKE i \in Gens
  <2>1. CASE i # h BY <1>11, <1>12, <1>13, <1>14, <2>1, SameBranchRef
  <2>2. CASE i = h
    <3>1. Packers(i)' = Packers(i) BY <1>12 DEF Packers
    <3>2. (BranchOwn(i)' <=> BranchOwn(i)) /\ ~RootOwn(i)' BY <1>13, <1>14
    <3>3. branch'[i].refs = branch[i].refs - 1 BY <1>11, <2>2
    <3> QED BY <1>9, <2>2, <3>1, <3>2, <3>3, BranchCount DEF BranchRefOK
  <2> QED BY <2>1, <2>2
<1> QED
  BY <1>2, <1>4, <1>6, <1>7, <1>8, <1>11, <1>15, WayKeeps DEF BeforeCommit, h

\* memtable_block_lookups.
LEMMA BlockLookupsKeeps ==
    ASSUME IInv, NEW g \in Gens, BlockLookups(g)
    PROVE  IInv'
<1>1. task[g].pc = "block" /\ task[g].pc \in BeforeCommit
  BY DEF BlockLookups, BeforeCommit
<1>2. prepared = Over(Mt(to_incorporate).tuples, trunk)
  BY <1>1 DEF IInv, ContentOK
<1>3. TaskMoves(g, "commit") /\ task'[g].gen = task[g].gen
  BY GoSets DEF BlockLookups, TaskPcs
<1>4. FlushMoves /\ UNCHANGED <<mt, cmt, branch, trunk, prepared, retired, to_incorporate>>
  BY DEF BlockLookups, FlushMoves, ctxt, store, life
<1>5. prepared' \in NatMaps /\ branch' \in [Gens -> BranchRecords]
  BY <1>4 DEF IInv, TypesOK, Bounded, Typed
<1>6. op' = op BY <1>4 DEF FlushMoves
<1>7. \A i \in Gens : (BranchOwn(i)' <=> BranchOwn(i)) /\ (RootOwn(i)' => RootOwn(i))
  BY <1>1, <1>3, <1>4 DEF BranchOwn, RootOwn, Packed, Mt, TaskMoves
<1>8. \A i \in Gens : BranchRefOK(i)' BY <1>4, <1>6, <1>7, SameBranchRef
<1> QED BY <1>1, <1>2, <1>3, <1>4, <1>5, <1>8, WayKeeps DEF BeforeCommit

\* What the commit changes: generation h = retired + 1 goes from its memtable
\* into the trunk, and no lookup is on its way.
LEMMA CommitStep ==
    ASSUME IInv, NEW g \in Gens, Commit(g)
    PROVE  LET h == to_incorporate IN
           /\ task[g].pc = "commit" /\ FlushMoves /\ SameMemtables
           /\ TaskMoves(g, "recycle") /\ task'[g].gen = h
           /\ mt'[Slot(h)].state = "INCORPORATED"
           /\ \A s \in Slots : s # Slot(h) => mt'[s].state = mt[s].state
           /\ retired' = h /\ trunk' = Over(mt[Slot(h)].tuples, trunk)
           /\ UNCHANGED <<to_incorporate, cmt, branch, prepared>>
           /\ \A t \in Threads : op[t].pc \notin {"memtables", "collect"}
<1> DEFINE h == to_incorporate
<1>1. task[g].pc = "commit" /\ task[g].pc \in BeforeCommit
  BY DEF Commit, BeforeCommit
<1>2. task[g].gen = h /\ h = retired + 1 /\ Slot(h) \in Slots
  BY <1>1, TurnAlone
<1>3. /\ SameMemtables /\ mt'[Slot(h)].state = "INCORPORATED"
      /\ \A s \in Slots : s # Slot(h) => mt'[s].state = mt[s].state
  BY <1>2, StateSet DEF Commit, States
<1>4. TaskMoves(g, "recycle") /\ task'[g].gen = h
  BY <1>2, GoSets DEF Commit, TaskPcs
<1>5. trunk' = Over(mt[Slot(h)].tuples, trunk)
  BY <1>1 DEF Commit, IInv, ContentOK, Mt
<1>6. FlushMoves BY DEF Commit, FlushMoves, life
<1>7. \A t \in Threads : op[t].pc \notin {"memtables", "collect"}
  BY DEF Commit, LookupReaders
<1> QED BY <1>1, <1>2, <1>3, <1>4, <1>5, <1>6, <1>7 DEF Commit

\* The content of the memtable goes below the newer ones, above the older.
LEMMA CommitOrder ==
    ASSUME IInv, NEW q \in Slots, SameMemtables, FlushMoves,
           mt[q].gen = retired + 1, mt[q].gen < generation,
           retired' = retired + 1, trunk' = Over(mt[q].tuples, trunk)
    PROVE  OrderOK'
<1>1. \A s \in Slots : mt'[s].gen = mt[s].gen /\ mt'[s].tuples = mt[s].tuples
  BY DEF SameMemtables
<1>2. latest' = latest /\ generation' = generation BY DEF FlushMoves
<1>3. \A s \in Slots : mt[s].gen \in Nat BY DEF IInv, TypesOK, Typed, MtRecords
<1>4. retired \in Int /\ generation \in Nat BY DEF IInv, TypesOK, Bounded
<1>5. \A s \in Slots : mt[s].gen = mt[q].gen => s = q BY DEF IInv, WindowOK
<1>6. \A s \in Slots : Searched(s)' <=> Searched(s) /\ s # q
  BY <1>1, <1>2, <1>3, <1>4, <1>5 DEF Searched
<1>7. Searched(q) /\ \A s \in Slots : Searched(s) /\ s # q => mt[q].gen < mt[s].gen
  BY <1>3, <1>4, <1>5 DEF Searched
<1> SUFFICES ASSUME NEW k \in UserKeys
    PROVE  /\ trunk'[k] <= latest[k]
           /\ \A s \in Slots : Searched(s) /\ s # q =>
                 /\ mt[s].tuples[k] <= latest[k]
                 /\ mt[s].tuples[k] # 0 => trunk'[k] <= mt[s].tuples[k]
                 /\ \A r \in Slots :
                       (Searched(r) /\ r # q) /\ mt[r].gen < mt[s].gen
                          /\ mt[s].tuples[k] # 0 =>
                          mt[r].tuples[k] <= mt[s].tuples[k]
           /\ \/ trunk'[k] = latest[k]
              \/ \E s \in Slots : Searched(s) /\ s # q /\ mt[s].tuples[k] = latest[k]
  BY <1>1, <1>2, <1>6 DEF OrderOK
<1>8. latest[k] \in Nat /\ trunk[k] \in Nat
  BY DEF IInv, TypesOK, Bounded, NatMaps
<1>9. \A s \in Slots : mt[s].tuples[k] \in Nat
  BY DEF IInv, TypesOK, Typed, MtRecords, NatMaps
<1>10. trunk'[k] = IF mt[q].tuples[k] # 0 THEN mt[q].tuples[k] ELSE trunk[k]
  BY DEF Over
<1>11. /\ trunk[k] <= latest[k]
       /\ \A s \in Slots : Searched(s) =>
             /\ mt[s].tuples[k] <= latest[k]
             /\ mt[s].tuples[k] # 0 => trunk[k] <= mt[s].tuples[k]
             /\ \A r \in Slots :
                   Searched(r) /\ mt[r].gen < mt[s].gen /\ mt[s].tuples[k] # 0 =>
                      mt[r].tuples[k] <= mt[s].tuples[k]
       /\ \/ trunk[k] = latest[k]
          \/ \E s \in Slots : Searched(s) /\ mt[s].tuples[k] = latest[k]
  BY DEF IInv, OrderOK
<1>12. trunk'[k] <= latest[k] BY <1>7, <1>10, <1>11
<1>13. ASSUME NEW s \in Slots, Searched(s), s # q, mt[s].tuples[k] # 0
       PROVE  trunk'[k] <= mt[s].tuples[k]
  BY <1>7, <1>10, <1>11, <1>13
<1>14. trunk'[k] = latest[k]
       \/ \E s \in Slots : Searched(s) /\ s # q /\ mt[s].tuples[k] = latest[k]
  <2>1. CASE trunk[k] = latest[k]
    <3>1. mt[q].tuples[k] # 0 => mt[q].tuples[k] = latest[k]
      BY <1>7, <1>8, <1>9, <1>11, <2>1
    <3> QED BY <1>10, <2>1, <3>1
  <2>2. CASE mt[q].tuples[k] = latest[k] BY <1>8, <1>10, <1>11, <2>2
  <2>3. CASE \E s \in Slots : Searched(s) /\ s # q /\ mt[s].tuples[k] = latest[k]
    BY <2>3
  <2> QED BY <1>11, <2>1, <2>2, <2>3
<1> QED BY <1>11, <1>12, <1>13, <1>14

\* core_memtable_incorporate retires the generation and installs the root,
\* with no lookup under way.
LEMMA CommitKeeps ==
    ASSUME IInv, NEW g \in Gens, Commit(g)
    PROVE  IInv'
<1> DEFINE h == to_incorporate
           q == Slot(h)
<1>1. /\ task[g].pc = "commit" /\ FlushMoves /\ SameMemtables
      /\ TaskMoves(g, "recycle") /\ task'[g].gen = h
      /\ mt'[q].state = "INCORPORATED"
      /\ \A s \in Slots : s # q => mt'[s].state = mt[s].state
      /\ retired' = h /\ trunk' = Over(mt[q].tuples, trunk)
      /\ UNCHANGED <<to_incorporate, cmt, branch, prepared>>
      /\ \A t \in Threads : op[t].pc \notin {"memtables", "collect"}
  BY CommitStep
<1>2. /\ h = retired + 1 /\ h < generation /\ h \in Nat /\ h \in Gens
      /\ q \in Slots /\ g < generation /\ mt[q].gen = h /\ mt[q].state = "ASSIGNED"
      /\ \A i \in Gens : i # g => ~Incorporates(i)
  BY <1>1, TurnAlone DEF BeforeCommit
<1> HIDE DEF h, q
<1>3. UNCHANGED <<generation, op, is_empty>> BY <1>1 DEF FlushMoves
<1>4. /\ task' \in [Gens -> TaskRecords] /\ task'[g].pc = "recycle"
      /\ \A i \in Gens : i # g => task'[i] = task[i]
  BY <1>1 DEF TaskMoves
<1>5. \A s \in Slots : /\ mt'[s].gen = mt[s].gen /\ mt'[s].tuples = mt[s].tuples
                       /\ mt'[s].count = mt[s].count
  BY <1>1 DEF SameMemtables
<1>6. retired \in Int /\ generation \in Nat /\ \A s \in Slots : mt[s].gen \in Nat
  BY DEF IInv, TypesOK, Bounded, Typed, MtRecords
<1>7. \A s \in Slots : s # q => mt[s].gen # h
  BY <1>2 DEF IInv, WindowOK
<1>8. TypesOK'
  <2>1. trunk' \in NatMaps
    <3>1. mt[q].tuples \in NatMaps /\ trunk \in NatMaps
      BY <1>2 DEF IInv, TypesOK, Bounded, Typed, MtRecords
    <3> QED BY <1>1, <3>1 DEF Over, NatMaps
  <2>2. Bounded'
    BY <1>1, <1>2, <1>3, <2>1 DEF IInv, TypesOK, Bounded, FlushMoves, h
  <2>3. Typed'
    BY <1>1, <1>3, <1>4 DEF IInv, TypesOK, Typed, SameMemtables
  <2> QED BY <2>2, <2>3 DEF TypesOK
<1>9. CountOK' /\ (Shut' <=> Shut) BY <1>1, FlushCount
<1>10. LifeOK' BY <1>1, FlushLife
<1>11. InsertersOK' BY <1>1, SameInserters
<1>12. WindowOK'
  <2>1. \A i \in Gens : Mt(i)'.gen = Mt(i).gen BY <1>5, GenType DEF Mt
  <2>2. Mt(generation)'.gen = Mt(generation).gen
    BY <1>3, <1>5, <1>6, SlotType DEF Mt
  <2>3. \A s \in Slots : mt[s].gen <= retired' + N
    BY <1>1, <1>2, <1>6, CoreAssumption DEF IInv, WindowOK
  <2>4. \A i \in Gens : retired' < i => retired < i
    BY <1>1, <1>2, <1>6, GenType
  <2> QED BY <1>3, <1>5, <1>9, <2>1, <2>2, <2>3, <2>4 DEF IInv, WindowOK
<1>13. OrderOK' BY <1>1, <1>2, CommitOrder DEF h
<1>14. StatesOK'
  <2>1. ASSUME NEW s \in Slots PROVE StateOK(s)'
    <3>1. StateOK(s) BY DEF IInv, StatesOK
    <3>2. Advancing' <=> Advancing BY <1>3 DEF Advancing
    <3>3. CASE s = q
      BY <1>1, <1>2, <1>3, <1>5, <1>6, <3>1, <3>3 DEF StateOK
    <3>4. CASE s # q
      <4>1. mt[s].gen < generation /\ task[mt[s].gen].pc \in {"queued", "compact"} =>
              task'[mt[s].gen] = task[mt[s].gen]
        BY <1>1, <1>4, EarlierGen
      <4>2. mt[s].state # "ASSIGNED" \/ mt[s].gen >= generation
        BY <1>6, <1>7, <3>1, <3>4 DEF StateOK, h
      <4>3. mt[s].gen <= retired' <=> mt[s].gen <= retired
        BY <1>1, <1>2, <1>6, <1>7, <3>4
      <4> QED
        BY <1>1, <1>3, <1>5, <1>6, <3>1, <3>2, <3>4, <4>1, <4>2, <4>3 DEF StateOK
    <3> QED BY <3>3, <3>4
  <2> QED BY <2>1 DEF StatesOK
<1>15. TasksOK'
  <2>1. ASSUME NEW i \in Gens, i # g PROVE TaskOK(i)' /\ ~Incorporates(i)'
    <3>1. TaskOK(i) /\ ~Incorporates(i) /\ task'[i] = task[i]
      BY <1>2, <1>4, <2>1 DEF IInv, TasksOK
    <3>2. ~Incorporates(i)' BY <3>1 DEF Incorporates
    <3>3. i \in Nat /\ Slot(i) \in Slots BY GenType
    <3>4. task[i].pc \in {"queued", "compact"} => h < i
      <4> HAVE task[i].pc \in {"queued", "compact"}
      <4>1. retired < i /\ mt[Slot(i)].state # "ASSIGNED"
        BY <3>1 DEF TaskOK, Mt
      <4>2. i # h BY <1>2, <4>1 DEF q
      <4> QED BY <1>2, <1>6, <3>3, <4>1, <4>2
    <3>5. task[i].pc # "none" /\ h < i => mt'[Slot(i)].state = mt[Slot(i)].state
      <4> HAVE task[i].pc # "none" /\ h < i
      <4>1. retired < i BY <1>2, <1>6, <3>3
      <4>2. mt[Slot(i)].gen = i BY <4>1, TaskGen
      <4>3. Slot(i) # q BY <1>2, <3>3, <4>2
      <4> QED BY <1>1, <3>3, <4>3
    <3>6. h < i => retired < i BY <1>2, <1>6, <3>3
    <3>7. TaskOK(i)'
      BY <1>1, <1>3, <3>1, <3>4, <3>5, <3>6 DEF TaskOK, Mt, Incorporates,
         BeforeCommit, AfterCommit
    <3> QED BY <3>2, <3>7
  <2>2. TaskOK(g)'
    BY <1>1, <1>2, <1>3, <1>4, <1>5, <1>6, GenType DEF TaskOK, Mt, h, q,
       BeforeCommit, AfterCommit
  <2>3. Incorporates(g)' BY <1>4 DEF Incorporates, AfterCommit
  <2> QED BY <2>1, <2>2, <2>3 DEF TasksOK
<1>16. ContentOK'
  <2>1. \A s \in Slots : mt'[s].state \in {"COMPACTED", "ASSIGNED"} =>
                           mt'[s].state = mt[s].state
    BY <1>1
  <2>2. \A i \in Gens : task'[i].pc \notin {"release", "block", "commit"}
    BY <1>2, <1>4 DEF Incorporates, BeforeCommit
  <2> QED BY <1>1, <1>5, <2>1, <2>2 DEF IInv, ContentOK
<1>17. HoldsOK'
  <2>1. ASSUME NEW t \in Threads, NEW o \in op[t].hold
        PROVE  IF o.packed
               THEN /\ o.gen < generation
                    /\ o.gen <= h \/ Mt(o.gen)'.state \in {"COMPACTED", "ASSIGNED"}
               ELSE Mt(o.gen)'.gen = o.gen
    <3>1. o.gen \in Gens BY DEF IInv, TypesOK, Typed, OpRecords
    <3>2. o.gen \in Nat /\ Slot(o.gen) \in Slots BY <3>1, GenType
    <3>3. IF o.packed
          THEN /\ o.gen < generation
               /\ o.gen <= retired \/ Mt(o.gen).state \in {"COMPACTED", "ASSIGNED"}
          ELSE Mt(o.gen).gen = o.gen
      BY DEF IInv, HoldsOK
    <3>4. CASE ~o.packed BY <1>5, <3>2, <3>3, <3>4 DEF Mt
    <3>5. CASE o.packed
      <4>1. CASE o.gen <= h BY <3>3, <3>5, <4>1
      <4>2. CASE ~(o.gen <= h)
        <5>1. retired < o.gen BY <1>2, <1>6, <3>2, <4>2
        <5>2. mt[Slot(o.gen)].gen = o.gen
          BY <3>1, <3>3, <3>5, <5>1 DEF IInv, WindowOK, Mt
        <5>3. Slot(o.gen) # q BY <1>2, <3>2, <4>2, <5>2
        <5>4. mt'[Slot(o.gen)].state = mt[Slot(o.gen)].state BY <1>1, <3>2, <5>3
        <5> QED BY <1>6, <3>2, <3>3, <3>5, <5>1, <5>4 DEF Mt
      <4> QED BY <4>1, <4>2
    <3> QED BY <3>4, <3>5
  <2> QED BY <1>1, <1>3, <2>1 DEF HoldsOK
<1>18. RefsOK'
  <2>1. \A i \in Gens : BranchOwn(i)' => BranchOwn(i)
    <3> TAKE i \in Gens
    <3> HAVE BranchOwn(i)'
    <3>1. Slot(i) \in Slots BY GenType
    <3>2. mt'[Slot(i)].state = mt[Slot(i)].state BY <1>1, <3>1 DEF BranchOwn, Packed, Mt
    <3> QED BY <1>5, <3>1, <3>2 DEF BranchOwn, Packed, Mt
  <2>2. \A i \in Gens : ~RootOwn(i)'
    BY <1>2, <1>4 DEF RootOwn, Incorporates, BeforeCommit
  <2>3. \A i \in Nat : Own(i)' => Own(i) BY <1>1, <1>2, <1>6 DEF Own
  <2>4. \A s \in Slots : MtRefOK(s)'
    <3> TAKE s \in Slots
    <3>1. Own(mt[s].gen)' => Own(mt[s].gen) BY <1>5, <1>6, <2>3 DEF Own
    <3> QED BY <1>1, <1>3, <3>1, SameMtRefs
  <2>5. \A i \in Gens : BranchRefOK(i)' BY <1>1, <1>3, <2>1, <2>2, SameBranchRef
  <2> QED BY <2>4, <2>5 DEF RefsOK
<1>19. ReadersOK'
  <2>1. ASSUME NEW t \in Threads PROVE ReaderOK(t)'
    <3>1. ReaderOK(t) BY DEF IInv, ReadersOK
    <3>2. op'[t] = op[t] /\ op[t].pc \notin {"memtables", "collect"} BY <1>1, <1>3
    <3>3. \A k : Held(t, k) => Held(t, k)'
      <4>1. \A o \in op[t].hold : Slot(o.gen) \in Slots
        BY GenType DEF IInv, TypesOK, Typed, OpRecords
      <4> QED BY <1>1, <1>5, <3>2, <4>1 DEF Held, Mt
    <3> QED BY <3>1, <3>2, <3>3 DEF ReaderOK
  <2> QED BY <2>1 DEF ReadersOK
<1> QED
  BY <1>8, <1>9, <1>10, <1>11, <1>12, <1>13, <1>14, <1>15, <1>16, <1>17, <1>18,
     <1>19 DEF IInv

-----------------------------------------------------------------------------
(* References to memtables and branches                                    *)

\* No memtable changes but in its references, and no branch.
OnlyRefs ==
    /\ mt' \in [Slots -> MtRecords]
    /\ \A s \in Slots : /\ mt'[s].gen = mt[s].gen /\ mt'[s].state = mt[s].state
                        /\ mt'[s].tuples = mt[s].tuples
                        /\ mt'[s].count = mt[s].count
    /\ branch' \in [Gens -> BranchRecords]
    /\ \A g \in Gens : branch'[g].tuples = branch[g].tuples

\* Those who take and drop references: iterators, and the task that gives
\* back the memtable's own.
RefMoves ==
    /\ op' \in [Threads -> OpRecords]
    /\ \A t \in Threads :
          op'[t] = op[t] \/ (op[t].pc \in {"collect", "release"}
                               /\ op'[t].pc = op[t].pc)
    /\ task' \in [Gens -> TaskRecords]
    /\ \A i \in Gens :
          task'[i] = task[i]
            \/ (task[i].pc = "recycle" /\ task'[i].pc = "continue"
                  /\ task'[i].gen = task[i].gen)
    /\ UNCHANGED <<generation, to_incorporate, retired, is_empty, cmt, trunk,
                   prepared, super, open, clean, latest, inserts>>

\* A change of counts leaves the life of the database alone.
LEMMA RefLife ==
    ASSUME IInv, RefMoves
    PROVE  CountOK' /\ LifeOK' /\ (Shut' <=> Shut) /\ (Advancing' <=> Advancing)
<1>1. \A t \in Threads : op'[t].pc = op[t].pc BY DEF RefMoves
<1>2. Pending' = Pending /\ (Advancing' <=> Advancing)
  BY <1>1 DEF Pending, Advancing
<1>3. UNCHANGED <<generation, is_empty, inserts, super, open, clean, latest>>
  BY DEF RefMoves
<1>4. CountOK' BY <1>2, <1>3 DEF IInv, CountOK
<1>5. Shut' <=> Shut BY <1>3 DEF Shut
<1>6. clean => \A g \in Gens : task'[g] = task[g]
  BY DEF RefMoves, IInv, LifeOK
<1>7. LifeOK' BY <1>1, <1>3, <1>5, <1>6 DEF IInv, LifeOK
<1> QED BY <1>2, <1>4, <1>5, <1>7

\* A task that gives back the reference still incorporates.
LEMMA RefTask ==
    ASSUME IInv, RefMoves
    PROVE  /\ \A i \in Gens : Incorporates(i)' <=> Incorporates(i)
           /\ \A i \in Gens : \A l \in TaskPcs \ {"recycle", "continue"} :
                 /\ task'[i].pc = l <=> task[i].pc = l
                 /\ task'[i].pc = l => task'[i] = task[i]
           /\ \A i \in Gens : /\ task'[i].pc = "recycle" => task'[i] = task[i]
                              /\ task'[i].gen = task[i].gen
                              /\ task'[i].pc \in AfterCommit <=> task[i].pc \in AfterCommit
<1>1. \A i \in Gens :
          task'[i] = task[i]
            \/ (task[i].pc = "recycle" /\ task'[i].pc = "continue"
                  /\ task'[i].gen = task[i].gen)
  BY DEF RefMoves
<1> QED BY <1>1 DEF Incorporates, BeforeCommit, AfterCommit

\* A step that changes only counts, and keeps them right, keeps the invariant.
LEMMA CountsKeep ==
    ASSUME IInv, OnlyRefs, RefMoves, HoldsOK', RefsOK', ReadersOK'
    PROVE  IInv'
<1>1. UNCHANGED <<generation, to_incorporate, retired, is_empty, cmt, trunk,
                  prepared, super, open, clean, latest, inserts>>
  BY DEF RefMoves
<1>2. \A s \in Slots : /\ mt'[s].gen = mt[s].gen /\ mt'[s].state = mt[s].state
                       /\ mt'[s].tuples = mt[s].tuples
                       /\ mt'[s].count = mt[s].count
  BY DEF OnlyRefs
<1>3. TypesOK'
  <2>1. Bounded' BY <1>1 DEF IInv, TypesOK, Bounded
  <2>2. Typed' BY <1>1 DEF IInv, TypesOK, Typed, OnlyRefs, RefMoves
  <2> QED BY <2>1, <2>2 DEF TypesOK
<1>4. CountOK' /\ LifeOK' /\ (Shut' <=> Shut) /\ (Advancing' <=> Advancing)
  BY RefLife
<1>5. Slot(generation) \in Slots /\ Slot(generation + 1) \in Slots
      /\ Slot(to_incorporate) \in Slots
  BY SlotType DEF IInv, TypesOK, Bounded
<1>6. \A i \in Gens : /\ Mt(i)'.gen = Mt(i).gen /\ Mt(i)'.state = Mt(i).state
                      /\ Mt(i)'.tuples = Mt(i).tuples
  BY <1>2, GenType DEF Mt
<1>7. Mt(generation)'.gen = Mt(generation).gen
      /\ Mt(generation)'.count = Mt(generation).count
      /\ Mt(generation + 1)'.gen = Mt(generation + 1).gen
  BY <1>1, <1>2, <1>5 DEF Mt
<1>8. Mt(to_incorporate)'.tuples = Mt(to_incorporate).tuples
      /\ Mt(to_incorporate)'.state = Mt(to_incorporate).state
  BY <1>1, <1>2, <1>5 DEF Mt
<1>9. WindowOK' BY <1>1, <1>2, <1>4, <1>6, <1>7 DEF IInv, WindowOK
<1>10. /\ \A i \in Gens : Incorporates(i)' <=> Incorporates(i)
       /\ \A i \in Gens : \A l \in TaskPcs \ {"recycle", "continue"} :
             /\ task'[i].pc = l <=> task[i].pc = l
             /\ task'[i].pc = l => task'[i] = task[i]
       /\ \A i \in Gens : /\ task'[i].pc = "recycle" => task'[i] = task[i]
                          /\ task'[i].gen = task[i].gen
                          /\ task'[i].pc \in AfterCommit <=> task[i].pc \in AfterCommit
  BY RefTask
<1>11. StatesOK'
  <2>1. ASSUME NEW s \in Slots PROVE StateOK(s)'
    <3>1. StateOK(s) BY DEF IInv, StatesOK
    <3>2. mt[s].gen < generation /\ task[mt[s].gen].pc \in {"queued", "compact"} =>
            task'[mt[s].gen] = task[mt[s].gen]
      BY <1>10, EarlierGen DEF TaskPcs
    <3>3. \A i \in Gens :
            task[i].pc \in {"prepare", "release", "block", "commit"} =>
            task'[i] = task[i]
      BY <1>10 DEF TaskPcs
    <3> QED BY <1>1, <1>2, <1>4, <3>1, <3>2, <3>3 DEF StateOK
  <2> QED BY <2>1 DEF StatesOK
<1>12. TasksOK'
  <2>1. ASSUME NEW i \in Gens PROVE TaskOK(i)'
    <3>1. TaskOK(i) BY DEF IInv, TasksOK
    <3>2. task[i].pc = "recycle" => Mt(retired)'.gen = Mt(retired).gen
      <4> HAVE task[i].pc = "recycle"
      <4>1. retired \in Nat
        BY DEF IInv, TasksOK, TaskOK, AfterCommit, TypesOK, Bounded
      <4> QED BY <4>1, <1>1, <1>2, SlotType DEF Mt
    <3>3. CASE task'[i] = task[i]
      BY <1>1, <1>6, <1>8, <3>1, <3>2, <3>3 DEF TaskOK
    <3>4. CASE task[i].pc = "recycle" /\ task'[i].pc = "continue"
      BY <1>1, <1>10, <3>1, <3>4 DEF TaskOK, BeforeCommit, AfterCommit
    <3> QED BY <3>3, <3>4 DEF RefMoves
  <2>2. to_incorporate < generation => to_incorporate \in Gens
    BY GenBound DEF IInv, TypesOK, Bounded
  <2>3. to_incorporate < generation =>
          (task[to_incorporate].pc \in {"queued", "compact", "start"} =>
           task'[to_incorporate] = task[to_incorporate])
    BY <1>10, <2>2 DEF TaskPcs
  <2> QED BY <1>1, <1>4, <1>10, <2>1, <2>3 DEF IInv, TasksOK
<1>13. InsertersOK'
  <2>1. \A t \in Threads : op'[t].pc = op[t].pc BY DEF RefMoves
  <2>2. \A t \in Threads : op[t].pc \in {"rotate", "lock", "advance", "insert"} =>
                              op'[t].gen = op[t].gen
    BY DEF RefMoves
  <2>3. InsertersOK BY DEF IInv
  <2> QED BY <1>1, <1>7, <2>1, <2>2, <2>3 DEF InsertersOK
<1>14. ContentOK'
  <2>1. \A s \in Slots : mt[s].state \in {"COMPACTED", "ASSIGNED"} =>
                           mt[s].gen \in Gens
    <3> TAKE s \in Slots
    <3>1. mt[s].gen \in Nat /\ generation \in Nat
      BY DEF IInv, TypesOK, Bounded, Typed, MtRecords
    <3>2. StateOK(s) BY DEF IInv, StatesOK
    <3> QED BY <3>1, <3>2, EarlierGen DEF StateOK
  <2>2. \A s \in Slots : mt'[s].state \in {"COMPACTED", "ASSIGNED"} =>
          cmt'[s] = mt'[s].gen /\ branch'[mt'[s].gen].tuples = mt'[s].tuples
    BY <1>1, <1>2, <2>1 DEF IInv, ContentOK, OnlyRefs
  <2>3. \A i \in Gens : task'[i].pc \in {"release", "block", "commit"} =>
                          task[i].pc \in {"release", "block", "commit"}
    BY <1>10 DEF TaskPcs
  <2> QED BY <1>1, <1>8, <2>2, <2>3 DEF IInv, ContentOK
<1>15. OrderOK'
  <2>1. \A s \in Slots : Searched(s)' <=> Searched(s)
    BY <1>1, <1>2 DEF Searched
  <2> QED BY <1>1, <1>2, <2>1 DEF IInv, OrderOK
<1> QED
  BY <1>3, <1>4, <1>9, <1>11, <1>12, <1>13, <1>14, <1>15 DEF IInv

\* A thread that neither takes nor drops a reference sees what it saw.
LEMMA SameReader ==
    ASSUME IInv, OnlyRefs, UNCHANGED <<trunk, retired, generation>>,
           NEW t \in Threads, op'[t] = op[t]
    PROVE  ReaderOK(t)'
<1>1. ReaderOK(t) BY DEF IInv, ReadersOK
<1>2. \A k : Ahead(t, k)' <=> Ahead(t, k) BY DEF Ahead, OnlyRefs
<1>3. \A k : Held(t, k)' <=> Held(t, k)
  <2>1. \A o \in op[t].hold : o.gen \in Gens /\ Slot(o.gen) \in Slots
    BY GenType DEF IInv, TypesOK, Typed, OpRecords
  <2> QED BY <2>1 DEF Held, Mt, OnlyRefs
<1> QED BY <1>1, <1>2, <1>3 DEF ReaderOK

\* The references to a memtable, counted.
LEMMA MtCount ==
    ASSUME IInv, NEW s \in Slots
    PROVE  /\ mt[s].ref \in Nat /\ mt[s].ref > 0 /\ mt[s].gen \in Nat
           /\ Cardinality(Users(mt[s].gen)) \in Nat
           /\ Cardinality(Users(mt[s].gen)) + (IF Own(mt[s].gen) THEN 1 ELSE 0)
                <= mt[s].ref
<1>1. mt[s].ref \in Nat /\ mt[s].ref > 0 /\ mt[s].gen \in Nat
  BY DEF IInv, TypesOK, Typed, MtRecords
<1>2. Cardinality(Users(mt[s].gen)) \in Nat BY ThreadsFinite DEF Users
<1>3. MtRefOK(s) BY DEF IInv, RefsOK
<1> QED BY <1>1, <1>2, <1>3 DEF MtRefOK

\* Where nobody takes a reference the holders are among those before.
LEMMA HoldersShrink ==
    ASSUME \A u \in Threads : op'[u].hold \subseteq op[u].hold, NEW g
    PROVE  /\ Users(g)' \subseteq Users(g) /\ Packers(g)' \subseteq Packers(g)
           /\ Cardinality(Users(g)') <= Cardinality(Users(g))
           /\ Cardinality(Packers(g)') <= Cardinality(Packers(g))
           /\ Cardinality(Users(g)') \in Nat /\ Cardinality(Packers(g)') \in Nat
           /\ Cardinality(Users(g)) \in Nat /\ Cardinality(Packers(g)) \in Nat
<1>1. Users(g)' \subseteq Users(g) /\ Packers(g)' \subseteq Packers(g)
  BY DEF Users, Packers
<1>2. Users(g) \in SUBSET Threads /\ Packers(g) \in SUBSET Threads
  BY DEF Users, Packers
<1>3. Users(g)' \in SUBSET Threads /\ Packers(g)' \in SUBSET Threads
  BY <1>1, <1>2
<1> QED BY <1>1, <1>2, <1>3, ThreadsFinite, FS_Subset

\* Letting go of references keeps the rest.
LEMMA HoldsShrink ==
    ASSUME IInv, OnlyRefs, RefMoves,
           \A u \in Threads : op'[u].hold \subseteq op[u].hold
    PROVE  HoldsOK'
<1>1. \A u \in Threads : \A o \in op[u].hold : Slot(o.gen) \in Slots
  BY GenType DEF IInv, TypesOK, Typed, OpRecords
<1>2. UNCHANGED <<generation, retired>> BY DEF RefMoves
<1> QED BY <1>1, <1>2 DEF IInv, HoldsOK, OnlyRefs, Mt

\* ... and who owns what.
LEMMA RefOwn ==
    ASSUME IInv, RefMoves,
           \A s \in Slots : mt'[s].gen = mt[s].gen /\ mt'[s].state = mt[s].state
    PROVE  /\ \A g \in Gens : BranchOwn(g)' <=> BranchOwn(g)
           /\ \A g : (Own(g)' => Own(g)) /\ (RootOwn(g)' => RootOwn(g))
<1>1. \A i \in Gens : /\ task'[i].pc = "recycle" => task[i].pc = "recycle"
                      /\ task'[i].pc = "release" => task'[i] = task[i]
  BY DEF RefMoves
<1>2. retired' = retired BY DEF RefMoves
<1>3. \A g \in Gens : BranchOwn(g)' <=> BranchOwn(g)
  BY GenType DEF BranchOwn, Packed, Mt
<1> QED BY <1>1, <1>2, <1>3 DEF Own, RootOwn

\* The trunk drops a branch that iterators may still hold.
LEMMA TrunkDropKeeps ==
    ASSUME IInv, NEW g \in Gens, TrunkDrop(g)
    PROVE  IInv'
<1> DEFINE n == branch[g].refs - 1
<1>1. /\ g <= retired /\ branch[g].refs > Cardinality(Packers(g))
      /\ branch' = [branch EXCEPT ![g].refs = n]
      /\ branch[g].refs > 0
  BY DEF TrunkDrop, Packers
<1>2. UNCHANGED <<ctxt, mt, cmt, trunk, prepared, task, op, life, latest, inserts>>
  BY DEF TrunkDrop
<1>3. n \in Nat /\ Cardinality(Packers(g)) <= n /\ Cardinality(Packers(g)) \in Nat
  BY <1>1, BranchCount
<1> HIDE DEF n
<1>4. /\ branch' \in [Gens -> BranchRecords] /\ branch'[g].refs = n
      /\ \A i \in Gens : branch'[i].tuples = branch[i].tuples
      /\ \A i \in Gens : i # g => branch'[i].refs = branch[i].refs
  BY <1>1, <1>3, RefsSet
<1>5. OnlyRefs BY <1>2, <1>4 DEF OnlyRefs, IInv, TypesOK, Typed
<1>6. RefMoves
  BY <1>2 DEF RefMoves, ctxt, life, IInv, TypesOK, Typed
<1>7. UNCHANGED <<op, mt, trunk, retired, generation>> BY <1>2 DEF ctxt
<1>8. HoldsOK' BY <1>5, <1>6, <1>7, HoldsShrink
<1>9. ReadersOK' BY <1>5, <1>7, SameReader DEF ReadersOK
<1>10. /\ \A i \in Gens : BranchOwn(i)' <=> BranchOwn(i)
       /\ \A i : (Own(i)' => Own(i)) /\ (RootOwn(i)' => RootOwn(i))
  BY <1>6, <1>7, RefOwn
<1>11. \A s \in Slots : MtRefOK(s)'
  <2> TAKE s \in Slots
  <2>1. Own(mt[s].gen)' => Own(mt[s].gen) BY <1>7, <1>10
  <2> QED BY <1>7, <2>1, SameMt, SameMtRefs
<1>12. \A i \in Gens : BranchRefOK(i)'
  <2> TAKE i \in Gens
  <2>1. CASE i # g BY <1>4, <1>7, <1>10, <2>1, SameBranchRef
  <2>2. CASE i = g
    <3>1. retired \in Int /\ g \in Nat /\ Slot(g) \in Slots
      BY GenType DEF IInv, TypesOK, Bounded
    <3>2. ~BranchOwn(g)
      BY <1>1, <3>1 DEF BranchOwn, Packed, Mt, IInv, StatesOK, StateOK
    <3>3. ~RootOwn(g)
      BY <1>1, <3>1 DEF RootOwn, IInv, TasksOK, TaskOK, BeforeCommit
    <3>4. Packers(g)' = Packers(g) BY <1>7 DEF Packers
    <3> QED BY <1>3, <1>4, <1>10, <2>2, <3>2, <3>3, <3>4 DEF BranchRefOK
  <2> QED BY <2>1, <2>2
<1> QED BY <1>5, <1>6, <1>8, <1>9, <1>11, <1>12, CountsKeep DEF RefsOK

\* The count of one memtable.
LEMMA RefSet ==
    ASSUME IInv, NEW q \in Slots, NEW n \in Nat \ {0},
           mt' = [mt EXCEPT ![q].ref = n]
    PROVE  /\ mt' \in [Slots -> MtRecords] /\ mt'[q].ref = n
           /\ \A s \in Slots : /\ mt'[s].gen = mt[s].gen
                               /\ mt'[s].state = mt[s].state
                               /\ mt'[s].tuples = mt[s].tuples
                               /\ mt'[s].count = mt[s].count
           /\ \A s \in Slots : s # q => mt'[s].ref = mt[s].ref
<1>1. mt \in [Slots -> MtRecords] BY DEF IInv, TypesOK, Typed
<1>2. \A s \in Slots : mt'[s] = IF s = q THEN [mt[s] EXCEPT !.ref = n] ELSE mt[s]
  BY <1>1
<1>3. mt' \in [Slots -> MtRecords] BY <1>1 DEF MtRecords
<1> QED BY <1>1, <1>2, <1>3 DEF MtRecords

\* An iterator lets one reference go.
LEMMA LetGo ==
    ASSUME IInv, NEW t \in Threads, At(t, "release"), NEW h \in op[t].hold,
           op' = [op EXCEPT ![t].hold = @ \ {h}]
    PROVE  /\ op' \in [Threads -> OpRecords] /\ op'[t].pc = "release"
           /\ op'[t].hold = op[t].hold \ {h}
           /\ \A u \in Threads : u # t => op'[u] = op[u]
           /\ \A u \in Threads : op'[u].hold \subseteq op[u].hold
           /\ h \in [gen : Gens, packed : BOOLEAN]
           /\ op[t].pc = "release" /\ ~Shut
<1> DEFINE o == [op[t] EXCEPT !.hold = op[t].hold \ {h}]
<1>1. op \in [Threads -> OpRecords] /\ op[t] \in OpRecords
  BY DEF IInv, TypesOK, Typed
<1>2. op[t].hold \in SUBSET [gen : Gens, packed : BOOLEAN] BY <1>1 DEF OpRecords
<1>3. o \in OpRecords /\ o.hold = op[t].hold \ {h} /\ o.pc = op[t].pc
  BY <1>1, <1>2 DEF OpRecords
<1>4. op' = [op EXCEPT ![t] = o] BY <1>1
<1> HIDE DEF o
<1>5. op' \in [Threads -> OpRecords] /\ op'[t] = o
      /\ \A u \in Threads : u # t => op'[u] = op[u]
  BY <1>1, <1>3, <1>4
<1>6. op[t].pc = "release" BY DEF At
<1>7. \A u \in Threads : op'[u].hold \subseteq op[u].hold BY <1>3, <1>5
<1> QED BY <1>2, <1>3, <1>5, <1>6, <1>7, NotShut

\* The readers find what they found.
LEMMA LetGoReaders ==
    ASSUME IInv, OnlyRefs, UNCHANGED <<trunk, retired, generation>>,
           NEW t \in Threads, op'[t].pc = "release",
           \A u \in Threads : u # t => op'[u] = op[u]
    PROVE  ReadersOK'
<1>1. ReaderOK(t)' BY NoReader DEF ReaderPcs
<1>2. \A u \in Threads : u # t => ReaderOK(u)' BY SameReader
<1> QED BY <1>1, <1>2 DEF ReadersOK

\* An iterator lets a branch go.
LEMMA ReleasePacked ==
    ASSUME IInv, NEW t \in Threads, At(t, "release"), NEW h \in op[t].hold,
           op' = [op EXCEPT ![t].hold = @ \ {h}], h.packed,
           branch' = [branch EXCEPT ![h.gen].refs = @ - 1],
           UNCHANGED <<ctxt, mt, cmt, trunk, prepared, task, life, latest, inserts>>
    PROVE  IInv'
<1> DEFINE b == h.gen
           n == branch[b].refs - 1
<1>1. /\ op' \in [Threads -> OpRecords] /\ op'[t].pc = "release"
      /\ op'[t].hold = op[t].hold \ {h}
      /\ \A u \in Threads : u # t => op'[u] = op[u]
      /\ \A u \in Threads : op'[u].hold \subseteq op[u].hold
      /\ h \in [gen : Gens, packed : BOOLEAN] /\ op[t].pc = "release"
  BY LetGo
<1>2. b \in Gens /\ h = [gen |-> b, packed |-> TRUE] BY <1>1
<1>3. /\ Cardinality(Packers(b)') = Cardinality(Packers(b)) - 1
      /\ Cardinality(Packers(b)) > 0 /\ Cardinality(Packers(b)) \in Nat
  <2>1. t \in Packers(b) /\ Packers(b)' = Packers(b) \ {t}
    <3> HIDE DEF b
    <3> QED BY <1>1, <1>2 DEF Packers
  <2>2. IsFiniteSet(Packers(b)) /\ Cardinality(Packers(b)) \in Nat
    BY ThreadsFinite DEF Packers
  <2>3. Cardinality(Packers(b)) # 0 BY <2>1, <2>2, FS_EmptySet
  <2>4. Cardinality(Packers(b) \ {t}) = Cardinality(Packers(b)) - 1
    BY <2>1, <2>2, FS_RemoveElement
  <2> QED BY <2>1, <2>2, <2>3, <2>4
<1>4. n \in Nat BY <1>2, <1>3, BranchCount
<1>5. branch' = [branch EXCEPT ![b].refs = n] OBVIOUS
<1>6. /\ branch' \in [Gens -> BranchRecords] /\ branch'[b].refs = n
      /\ \A i \in Gens : branch'[i].tuples = branch[i].tuples
      /\ \A i \in Gens : i # b => branch'[i].refs = branch[i].refs
  <2> HIDE DEF n, b
  <2> QED BY <1>2, <1>4, <1>5, RefsSet
<1>7. OnlyRefs BY <1>6 DEF OnlyRefs, IInv, TypesOK, Typed
<1>8. UNCHANGED <<mt, trunk, retired, generation>> BY DEF ctxt
<1>9. RefMoves
  BY <1>1 DEF RefMoves, ctxt, life, IInv, TypesOK, Typed
<1>10. HoldsOK' BY <1>1, <1>7, <1>9, HoldsShrink
<1>11. ReadersOK' BY <1>1, <1>7, <1>8, LetGoReaders
<1>12. /\ \A i \in Gens : BranchOwn(i)' <=> BranchOwn(i)
       /\ \A i : (Own(i)' => Own(i)) /\ (RootOwn(i)' => RootOwn(i))
  BY <1>8, <1>9, RefOwn
<1>13. ASSUME NEW s \in Slots, NEW e, e = mt[s].gen
       PROVE  Cardinality(Users(e)') + (IF Own(e)' THEN 1 ELSE 0) <= mt[s].ref
  <2>1. Own(e)' => Own(e) BY <1>12
  <2>2. Cardinality(Users(e)') <= Cardinality(Users(e))
        /\ Cardinality(Users(e)') \in Nat /\ Cardinality(Users(e)) \in Nat
    BY <1>1, HoldersShrink
  <2> QED BY <1>13, <2>1, <2>2, MtCount
<1>14. \A s \in Slots : MtRefOK(s)' BY <1>8, <1>13 DEF MtRefOK, Users, Own
<1>15. \A i \in Gens : BranchRefOK(i)'
  <2> TAKE i \in Gens
  <2>1. (BranchOwn(i)' <=> BranchOwn(i)) /\ (RootOwn(i)' => RootOwn(i)) BY <1>12
  <2>2. CASE i # b
    <3>1. branch'[i].refs = branch[i].refs BY <1>6, <2>2
    <3>2. Cardinality(Packers(i)') <= Cardinality(Packers(i))
          /\ Cardinality(Packers(i)') \in Nat
      BY <1>1, HoldersShrink
    <3> QED BY <2>1, <3>1, <3>2, BranchCount DEF BranchRefOK
  <2>3. CASE i = b BY <1>3, <1>6, <2>1, <2>3, BranchCount DEF BranchRefOK
  <2> QED BY <2>2, <2>3
<1> QED BY <1>7, <1>9, <1>10, <1>11, <1>14, <1>15, CountsKeep DEF RefsOK

\* A reference to a memtable that others refer to too.
LEMMA ReleaseShared ==
    ASSUME IInv, NEW t \in Threads, At(t, "release"), NEW h \in op[t].hold,
           op' = [op EXCEPT ![t].hold = @ \ {h}], ~h.packed,
           mt[Slot(h.gen)].ref > 1,
           mt' = [mt EXCEPT ![Slot(h.gen)].ref = @ - 1],
           UNCHANGED <<ctxt, branch, cmt, trunk, prepared, task, life, latest, inserts>>
    PROVE  IInv'
<1> DEFINE e == h.gen
           q == Slot(e)
           n == mt[q].ref - 1
<1>1. /\ op' \in [Threads -> OpRecords] /\ op'[t].pc = "release"
      /\ op'[t].hold = op[t].hold \ {h}
      /\ \A u \in Threads : u # t => op'[u] = op[u]
      /\ \A u \in Threads : op'[u].hold \subseteq op[u].hold
      /\ h \in [gen : Gens, packed : BOOLEAN] /\ op[t].pc = "release"
  BY LetGo
<1>2. e \in Gens /\ h = [gen |-> e, packed |-> FALSE] BY <1>1
<1>3. q \in Slots /\ mt[q].gen = e
  BY <1>2, GenType DEF IInv, HoldsOK, Mt
<1>4. /\ Cardinality(Users(e)') = Cardinality(Users(e)) - 1
      /\ Cardinality(Users(e)) > 0 /\ Cardinality(Users(e)) \in Nat
  <2>1. t \in Users(e) /\ Users(e)' = Users(e) \ {t}
    <3> HIDE DEF e
    <3> QED BY <1>1, <1>2 DEF Users
  <2>2. IsFiniteSet(Users(e)) /\ Cardinality(Users(e)) \in Nat
    BY ThreadsFinite DEF Users
  <2>3. Cardinality(Users(e)) # 0 BY <2>1, <2>2, FS_EmptySet
  <2>4. Cardinality(Users(e) \ {t}) = Cardinality(Users(e)) - 1
    BY <2>1, <2>2, FS_RemoveElement
  <2> QED BY <2>1, <2>2, <2>3, <2>4
<1>5. n \in Nat \ {0} BY <1>3, MtCount
<1>6. mt' = [mt EXCEPT ![q].ref = n] OBVIOUS
<1>7. /\ mt' \in [Slots -> MtRecords] /\ mt'[q].ref = n
      /\ \A s \in Slots : /\ mt'[s].gen = mt[s].gen /\ mt'[s].state = mt[s].state
                          /\ mt'[s].tuples = mt[s].tuples
                          /\ mt'[s].count = mt[s].count
      /\ \A s \in Slots : s # q => mt'[s].ref = mt[s].ref
  <2> HIDE DEF n, q, e
  <2> QED BY <1>3, <1>5, <1>6, RefSet
<1>8. OnlyRefs BY <1>7 DEF OnlyRefs, IInv, TypesOK, Typed
<1>9. UNCHANGED <<trunk, retired, generation>> BY DEF ctxt
<1>10. RefMoves
  BY <1>1 DEF RefMoves, ctxt, life, IInv, TypesOK, Typed
<1>11. HoldsOK' BY <1>1, <1>8, <1>10, HoldsShrink
<1>12. ReadersOK' BY <1>1, <1>8, <1>9, LetGoReaders
<1>13. /\ \A i \in Gens : BranchOwn(i)' <=> BranchOwn(i)
       /\ \A i : (Own(i)' => Own(i)) /\ (RootOwn(i)' => RootOwn(i))
  BY <1>7, <1>10, RefOwn
<1>14. ASSUME NEW s \in Slots, NEW d, d = mt[s].gen
       PROVE  Cardinality(Users(d)') + (IF Own(d)' THEN 1 ELSE 0) <= mt'[s].ref
  <2>1. Own(d)' => Own(d) BY <1>13
  <2>2. CASE s # q
    <3>1. Cardinality(Users(d)') <= Cardinality(Users(d))
          /\ Cardinality(Users(d)') \in Nat /\ Cardinality(Users(d)) \in Nat
      BY <1>1, HoldersShrink
    <3> QED BY <1>7, <1>14, <2>1, <2>2, <3>1, MtCount
  <2>3. CASE s = q
    <3>1. d = e BY <1>3, <1>14, <2>3
    <3>2. Cardinality(Users(d)') = Cardinality(Users(d)) - 1
      BY <1>4, <3>1
    <3>3. Cardinality(Users(d)) \in Nat BY <1>4, <3>1
    <3>4. mt'[s].ref = mt[s].ref - 1 BY <1>7, <2>3
    <3> QED BY <1>14, <2>1, <3>2, <3>3, <3>4, MtCount
  <2> QED BY <2>2, <2>3
<1>15. \A s \in Slots : MtRefOK(s)' BY <1>7, <1>14 DEF MtRefOK, Users, Own
<1>16. \A i \in Gens : BranchRefOK(i)'
  <2> TAKE i \in Gens
  <2>1. (BranchOwn(i)' <=> BranchOwn(i)) /\ (RootOwn(i)' => RootOwn(i)) BY <1>13
  <2>2. Cardinality(Packers(i)') <= Cardinality(Packers(i))
        /\ Cardinality(Packers(i)') \in Nat
    BY <1>1, HoldersShrink
  <2> QED BY <2>1, <2>2, BranchCount DEF BranchRefOK
<1> QED BY <1>8, <1>10, <1>11, <1>12, <1>15, <1>16, CountsKeep DEF RefsOK

\* The last reference: the memtable becomes the one of generation e + N.
LEMMA RecycledKeeps ==
    ASSUME IInv, RefMoves, NEW q \in Slots, NEW e, e = mt[q].gen, e <= retired,
           mt' = [mt EXCEPT ![q] = [state |-> "READY", gen |-> e + N, ref |-> 1,
                                    tuples |-> Empty, count |-> 0]],
           branch' = branch, Users(e)' = {}, ~Own(e)',
           \A u \in Threads : op'[u].hold \subseteq op[u].hold,
           \A u \in Threads : op'[u] = op[u] \/ op'[u].pc = "release"
    PROVE  IInv'
<1> DEFINE f == e + N
<1>1. UNCHANGED <<generation, to_incorporate, retired, is_empty, cmt, trunk,
                  prepared, super, open, clean, latest, inserts>>
  BY DEF RefMoves
<1>2. /\ e \in Nat /\ f \in Nat /\ generation \in Nat /\ retired \in Int
      /\ retired < generation /\ N \in Nat
  BY CoreAssumption DEF IInv, TypesOK, Bounded, Typed, MtRecords
<1>3. mt \in [Slots -> MtRecords] BY DEF IInv, TypesOK, Typed
<1>4. /\ mt'[q].state = "READY" /\ mt'[q].gen = f /\ mt'[q].ref = 1
      /\ mt'[q].tuples = Empty /\ mt'[q].count = 0
      /\ \A s \in Slots : s # q => mt'[s] = mt[s]
  BY <1>3
<1>5. Slot(f) = q /\ Slot(e) = q
  <2>1. Slot(e) = q BY DEF IInv, WindowOK
  <2> HIDE DEF f
  <2>2. f = e + N BY DEF f
  <2> QED BY <1>2, <2>1, <2>2, NextSlot
<1>6. generation <= f /\ (~Shut => generation < f) /\ f <= retired + N
  BY <1>2 DEF IInv, WindowOK
<1>7. TypesOK'
  <2>1. Bounded' BY <1>1 DEF IInv, TypesOK, Bounded
  <2>2. mt' \in [Slots -> MtRecords]
    BY <1>2, <1>3, EmptyMap DEF MtRecords, States
  <2>3. Typed' BY <1>1, <2>2 DEF IInv, TypesOK, Typed, RefMoves
  <2> QED BY <2>1, <2>3 DEF TypesOK
<1> HIDE DEF f
<1>8. CountOK' /\ LifeOK' /\ (Shut' <=> Shut) /\ (Advancing' <=> Advancing)
  BY RefLife
\* slots of generations that are not retired
<1>9. \A g \in Nat : mt[Slot(g)].gen = g /\ retired < g =>
                       Slot(g) # q /\ mt'[Slot(g)] = mt[Slot(g)]
  BY <1>2, <1>4, SlotType
<1>10. mt[q].state = "INCORPORATED" BY DEF IInv, StatesOK, StateOK
<1>11. /\ \A i \in Gens : Incorporates(i)' <=> Incorporates(i)
       /\ \A i \in Gens : \A l \in TaskPcs \ {"recycle", "continue"} :
             /\ task'[i].pc = l <=> task[i].pc = l
             /\ task'[i].pc = l => task'[i] = task[i]
       /\ \A i \in Gens : /\ task'[i].pc = "recycle" => task'[i] = task[i]
                          /\ task'[i].gen = task[i].gen
                          /\ task'[i].pc \in AfterCommit <=> task[i].pc \in AfterCommit
  BY RefTask
<1>12. WindowOK'
  <2>1. \A s \in Slots :
          /\ Slot(mt'[s].gen) = s /\ mt'[s].gen <= retired + N
          /\ generation - N <= mt'[s].gen
          /\ ~Shut => generation - N < mt'[s].gen
    <3> TAKE s \in Slots
    <3>1. CASE s = q
      <4>1. generation - N <= f /\ (~Shut => generation - N < f)
        BY <1>2, <1>6, CoreAssumption
      <4> QED BY <1>4, <1>5, <1>6, <3>1, <4>1
    <3>2. CASE s # q BY <1>4, <3>2 DEF IInv, WindowOK
    <3> QED BY <3>1, <3>2
  <2>2. \A g \in Gens : retired < g /\ g < generation => Mt(g)'.gen = g
    BY <1>9, GenType DEF IInv, WindowOK, Mt
  <2>3. ~Shut => Mt(generation)'.gen = generation
    BY <1>1, <1>2, <1>9 DEF IInv, WindowOK, Mt
  <2> QED BY <1>1, <1>8, <2>1, <2>2, <2>3 DEF WindowOK
<1>13. StatesOK'
  <2>1. ASSUME NEW s \in Slots PROVE StateOK(s)'
    <3>1. CASE s = q
      <4>1. f = generation => is_empty /\ ~Advancing
        BY <1>2, <1>6 DEF IInv, LifeOK, Advancing
      <4> QED BY <1>1, <1>2, <1>4, <1>6, <1>8, <3>1, <4>1 DEF StateOK
    <3>2. CASE s # q
      <4>1. StateOK(s) BY DEF IInv, StatesOK
      <4>2. mt[s].gen < generation /\ task[mt[s].gen].pc \in {"queued", "compact"} =>
              task'[mt[s].gen] = task[mt[s].gen]
        BY <1>11, EarlierGen DEF TaskPcs
      <4>3. \A i \in Gens :
              task[i].pc \in {"prepare", "release", "block", "commit"} =>
              task'[i] = task[i]
        BY <1>11 DEF TaskPcs
      <4> QED BY <1>1, <1>4, <1>8, <3>2, <4>1, <4>2, <4>3 DEF StateOK
    <3> QED BY <3>1, <3>2
  <2> QED BY <2>1 DEF StatesOK
<1>14. \A i \in Gens : task[i].pc \in BeforeCommit =>
          mt'[Slot(to_incorporate)] = mt[Slot(to_incorporate)]
  <2> SUFFICES ASSUME NEW i \in Gens, task[i].pc \in BeforeCommit
               PROVE  mt'[Slot(to_incorporate)] = mt[Slot(to_incorporate)]
    OBVIOUS
  <2>1. mt[Slot(to_incorporate)].state = "ASSIGNED" /\ Slot(to_incorporate) \in Slots
    BY TurnAlone
  <2> QED BY <1>4, <1>10, <2>1
<1>15. TasksOK'
  <2>1. ASSUME NEW i \in Gens PROVE TaskOK(i)'
    <3>1. TaskOK(i) BY DEF IInv, TasksOK
    <3>2. task[i].pc # "none" /\ retired < i => mt'[Slot(i)] = mt[Slot(i)]
      BY <1>9, TaskGen
    <3>3. task'[i].pc = "recycle" => Mt(retired)'.gen = retired
      <4> HAVE task'[i].pc = "recycle"
      <4>1. mt[Slot(retired)].gen = retired BY <1>11, <3>1 DEF TaskOK, Mt
      <4>2. retired \in Nat
        BY <1>11, <3>1 DEF TaskOK, AfterCommit, IInv, TypesOK, Bounded
      <4>3. e # retired BY <1>1, <1>2 DEF Own
      <4>4. Slot(retired) # q BY <4>1, <4>3
      <4> QED BY <1>1, <1>4, <4>1, <4>2, <4>4, SlotType DEF Mt
    <3>4. CASE task'[i] = task[i]
      BY <1>1, <1>14, <3>1, <3>2, <3>3, <3>4 DEF TaskOK, Mt
    <3>5. CASE task[i].pc = "recycle" /\ task'[i].pc = "continue"
      BY <1>1, <1>11, <3>1, <3>5 DEF TaskOK, BeforeCommit, AfterCommit
    <3> QED BY <3>4, <3>5 DEF RefMoves
  <2>2. to_incorporate < generation => to_incorporate \in Gens
    BY GenBound DEF IInv, TypesOK, Bounded
  <2>3. to_incorporate < generation =>
          (task[to_incorporate].pc \in {"queued", "compact", "start"} =>
           task'[to_incorporate] = task[to_incorporate])
    BY <1>11, <2>2 DEF TaskPcs
  <2> QED BY <1>1, <1>8, <1>11, <2>1, <2>3 DEF IInv, TasksOK
<1>16. InsertersOK'
  <2>1. \A t \in Threads : op'[t].pc = op[t].pc BY DEF RefMoves
  <2>2. \A t \in Threads : op[t].pc \in {"rotate", "lock", "advance", "insert"} =>
                              op'[t].gen = op[t].gen
    BY DEF RefMoves
  <2>3. ASSUME NEW t \in Threads, op[t].pc \in {"rotate", "lock", "advance"}
        PROVE  /\ Mt(generation)'.count > 0
               /\ Mt(generation + 1)'.gen = generation + 1
    <3>1. mt[Slot(generation)].gen = generation
      BY <2>3, NotShut DEF IInv, WindowOK, Mt
    <3>2. /\ mt[Slot(generation)].count > 0
          /\ mt[Slot(generation + 1)].gen = generation + 1
      BY <2>3 DEF IInv, InsertersOK, Mt
    <3>3. retired < generation + 1 /\ generation + 1 \in Nat BY <1>2
    <3> QED BY <1>1, <1>2, <1>9, <3>1, <3>2, <3>3 DEF Mt
  <2>4. InsertersOK BY DEF IInv
  <2> QED BY <1>1, <2>1, <2>2, <2>3, <2>4 DEF InsertersOK
<1>17. ContentOK'
  <2>1. \A s \in Slots : mt'[s].state \in {"COMPACTED", "ASSIGNED"} =>
          cmt'[s] = mt'[s].gen /\ branch'[mt'[s].gen].tuples = mt'[s].tuples
    BY <1>1, <1>4 DEF IInv, ContentOK
  <2>2. \A i \in Gens : task'[i].pc \in {"release", "block", "commit"} =>
                          task[i].pc \in {"release", "block", "commit"}
    BY <1>11 DEF TaskPcs
  <2> QED BY <1>1, <1>14, <2>1, <2>2 DEF IInv, ContentOK, Mt, BeforeCommit
<1>18. OrderOK'
  <2>1. \A s \in Slots : Searched(s) => s # q BY <1>2 DEF Searched
  <2>2. \A s \in Slots : s # q => (Searched(s)' <=> Searched(s))
    BY <1>1, <1>4 DEF Searched
  <2>3. \A k \in UserKeys : mt'[q].tuples[k] = 0 BY <1>4, EmptyMap
  <2>4. \A s \in Slots : Searched(s) => mt[s].gen <= generation /\ mt[s].gen \in Nat
    BY DEF Searched, IInv, TypesOK, Typed, MtRecords
  <2>5. \A s \in Slots : Searched(s) => ~(f < mt[s].gen)
    BY <1>2, <1>6, <2>4
  <2>6. \A k \in UserKeys : latest[k] \in Nat
    BY DEF IInv, TypesOK, Bounded, NatMaps
  <2>7. \A k \in UserKeys : 0 <= latest[k] BY <2>6
  <2> QED BY <1>1, <1>4, <2>1, <2>2, <2>3, <2>5, <2>7 DEF IInv, OrderOK
\* memtables that are held stay
<1>19. ASSUME NEW t \in Threads, NEW o \in op'[t].hold
       PROVE  /\ o \in op[t].hold /\ o.gen \in Nat
              /\ ~o.packed => mt[Slot(o.gen)].gen = o.gen
                              /\ mt'[Slot(o.gen)] = mt[Slot(o.gen)]
  <2>1. o \in op[t].hold BY <1>19
  <2>2. o \in [gen : Gens, packed : BOOLEAN] BY <2>1 DEF IInv, TypesOK, Typed, OpRecords
  <2>3. o.gen \in Nat /\ Slot(o.gen) \in Slots BY <2>2, GenType
  <2>4. ASSUME ~o.packed
        PROVE  mt[Slot(o.gen)].gen = o.gen /\ mt'[Slot(o.gen)] = mt[Slot(o.gen)]
    <3>1. mt[Slot(o.gen)].gen = o.gen BY <2>1, <2>4 DEF IInv, HoldsOK, Mt
    <3>2. o.gen # e
      <4> SUFFICES ASSUME o.gen = e PROVE FALSE OBVIOUS
      <4>1. o = [gen |-> e, packed |-> FALSE] BY <2>2, <2>4
      <4> QED BY <1>19, <4>1 DEF Users
    <3> QED BY <1>4, <2>3, <3>1, <3>2
  <2> QED BY <2>1, <2>3, <2>4
<1>20. HoldsOK'
  <2>1. ASSUME NEW t \in Threads, NEW o \in op'[t].hold, o.packed
        PROVE  /\ o.gen < generation
               /\ o.gen <= retired \/ Mt(o.gen)'.state \in {"COMPACTED", "ASSIGNED"}
    <3>1. /\ o.gen < generation
          /\ o.gen <= retired \/ Mt(o.gen).state \in {"COMPACTED", "ASSIGNED"}
      BY <1>19, <2>1 DEF IInv, HoldsOK
    <3>2. Slot(o.gen) \in Slots BY <1>19, SlotType
    <3> QED BY <1>4, <1>10, <3>1, <3>2 DEF Mt
  <2> QED BY <1>1, <1>19, <2>1 DEF HoldsOK, Mt
<1>21. RefsOK'
  <2>1. \A i \in Gens : BranchOwn(i)' => BranchOwn(i)
    BY <1>4, GenType DEF BranchOwn, Packed, Mt
  <2>2. \A i : (Own(i)' => Own(i)) /\ (RootOwn(i)' => RootOwn(i))
    <3>1. \A i \in Gens : task'[i].pc \in {"release", "recycle"} => task'[i] = task[i]
      BY <1>11 DEF TaskPcs
    <3> QED BY <1>1, <3>1 DEF Own, RootOwn
  <2>3. Cardinality(Users(f)') = 0
    <3>1. Users(f)' = {}
      <4> SUFFICES ASSUME NEW u \in Threads,
                          [gen |-> f, packed |-> FALSE] \in op'[u].hold
                   PROVE  FALSE
        BY DEF Users
      <4> DEFINE o == [gen |-> f, packed |-> FALSE]
      <4>1. o.gen = f /\ ~o.packed /\ o \in op'[u].hold OBVIOUS
      <4> HIDE DEF o
      <4>2. mt[Slot(f)].gen = f BY <1>19, <4>1
      <4> QED BY <1>2, <1>5, <4>2, CoreAssumption DEF f
    <3> QED BY <3>1, FS_EmptySet
  <2>4. ASSUME NEW s \in Slots, NEW d, d = mt'[s].gen
        PROVE  Cardinality(Users(d)') + (IF Own(d)' THEN 1 ELSE 0) <= mt'[s].ref
    <3>1. CASE s = q
      <4>1. d = f BY <1>4, <2>4, <3>1
      <4> QED BY <1>4, <2>3, <3>1, <4>1
    <3>2. CASE s # q
      <4>1. d = mt[s].gen /\ mt'[s].ref = mt[s].ref BY <1>4, <2>4, <3>2
      <4>2. Own(d)' => Own(d) BY <2>2
      <4>3. Cardinality(Users(d)') <= Cardinality(Users(d))
            /\ Cardinality(Users(d)') \in Nat /\ Cardinality(Users(d)) \in Nat
        BY HoldersShrink
      <4> QED BY <4>1, <4>2, <4>3, MtCount
    <3> QED BY <3>1, <3>2
  <2>5. \A s \in Slots : MtRefOK(s)' BY <2>4 DEF MtRefOK, Users, Own
  <2>6. \A i \in Gens : BranchRefOK(i)'
    <3> TAKE i \in Gens
    <3>1. (BranchOwn(i)' => BranchOwn(i)) /\ (RootOwn(i)' => RootOwn(i)) BY <2>1, <2>2
    <3>2. Cardinality(Packers(i)') <= Cardinality(Packers(i))
          /\ Cardinality(Packers(i)') \in Nat
      BY HoldersShrink
    <3> QED BY <3>1, <3>2, BranchCount DEF BranchRefOK
  <2> QED BY <2>5, <2>6 DEF RefsOK
<1>22. ReadersOK'
  <2>1. ASSUME NEW t \in Threads, op'[t] = op[t] PROVE ReaderOK(t)'
    <3>1. ReaderOK(t) BY DEF IInv, ReadersOK
    <3>2. \A k : Ahead(t, k) => Ahead(t, k)'
      <4>1. \A s \in Slots : retired < mt[s].gen => mt'[s] = mt[s] BY <1>2, <1>4
      <4> QED BY <1>1, <2>1, <4>1 DEF Ahead
    <3>3. \A k : Held(t, k) => Held(t, k)' BY <1>19, <2>1 DEF Held, Mt
    <3> QED BY <1>1, <2>1, <3>1, <3>2, <3>3 DEF ReaderOK
  <2>2. ASSUME NEW t \in Threads, op'[t].pc = "release" PROVE ReaderOK(t)'
    BY <2>2, NoReader DEF ReaderPcs
  <2> QED BY <2>1, <2>2 DEF ReadersOK
<1> QED
  BY <1>7, <1>8, <1>12, <1>13, <1>15, <1>16, <1>17, <1>18, <1>20, <1>21, <1>22
     DEF IInv

\* The last reference to a memtable: it is not the memtable's own.
LEMMA ReleaseLast ==
    ASSUME IInv, NEW t \in Threads, At(t, "release"), NEW h \in op[t].hold,
           op' = [op EXCEPT ![t].hold = @ \ {h}], ~h.packed,
           ~(mt[Slot(h.gen)].ref > 1),
           mt' = [mt EXCEPT ![Slot(h.gen)] = DecRef(@)],
           UNCHANGED <<ctxt, branch, cmt, trunk, prepared, task, life, latest, inserts>>
    PROVE  IInv'
<1> DEFINE e == h.gen
           q == Slot(e)
<1>1. /\ op' \in [Threads -> OpRecords] /\ op'[t].pc = "release"
      /\ op'[t].hold = op[t].hold \ {h}
      /\ \A u \in Threads : u # t => op'[u] = op[u]
      /\ \A u \in Threads : op'[u].hold \subseteq op[u].hold
      /\ h \in [gen : Gens, packed : BOOLEAN] /\ op[t].pc = "release"
  BY LetGo
<1>2. e \in Gens /\ h = [gen |-> e, packed |-> FALSE] BY <1>1
<1>3. q \in Slots /\ mt[q].gen = e /\ e \in Nat
  BY <1>2, GenType DEF IInv, HoldsOK, Mt
<1>4. t \in Users(e) /\ Users(e)' = Users(e) \ {t}
  <2> HIDE DEF e
  <2> QED BY <1>1, <1>2 DEF Users
<1>5. IsFiniteSet(Users(e)) /\ Cardinality(Users(e)) \in Nat
  BY ThreadsFinite DEF Users
<1>6. Cardinality(Users(e)) # 0 BY <1>4, <1>5, FS_EmptySet
<1>7. Cardinality(Users(e)) + (IF Own(e) THEN 1 ELSE 0) <= mt[q].ref
      /\ mt[q].ref \in Nat
  BY <1>3, MtCount
<1>8. ~Own(e) /\ Cardinality(Users(e)) = 1 BY <1>5, <1>6, <1>7
<1>9. Users(e)' = {}
  <2>1. Cardinality(Users(e) \ {t}) = 0 /\ IsFiniteSet(Users(e) \ {t})
    BY <1>4, <1>5, <1>8, FS_RemoveElement
  <2> QED BY <1>4, <2>1, FS_EmptySet
<1>10. e <= retired BY <1>3, <1>8 DEF Own, IInv, TypesOK, Bounded
<1>11. ~Own(e)' BY <1>8 DEF Own, ctxt
<1>12. mt' = [mt EXCEPT ![q] = [state |-> "READY", gen |-> e + N, ref |-> 1,
                                tuples |-> Empty, count |-> 0]]
  <2>1. DecRef(mt[q]) = [state |-> "READY", gen |-> e + N, ref |-> 1,
                         tuples |-> Empty, count |-> 0]
    BY <1>3 DEF DecRef
  <2>2. mt' = [mt EXCEPT ![q] = DecRef(mt[q])] OBVIOUS
  <2> QED BY <2>1, <2>2
<1>13. RefMoves BY <1>1 DEF RefMoves, ctxt, life, IInv, TypesOK, Typed
<1>14. \A u \in Threads : op'[u] = op[u] \/ op'[u].pc = "release" BY <1>1
<1> HIDE DEF e, q
<1> QED
  BY <1>1, <1>3, <1>9, <1>10, <1>11, <1>12, <1>13, <1>14, RecycledKeeps

\* core_range_iterator_deinit drops one reference.
LEMMA IterReleaseKeeps ==
    ASSUME IInv, NEW t \in Threads, IterRelease(t)
    PROVE  IInv'
<1>1. PICK h \in op[t].hold :
        /\ At(t, "release")
        /\ op' = [op EXCEPT ![t].hold = @ \ {h}]
        /\ IF h.packed
           THEN branch' = [branch EXCEPT ![h.gen].refs = @ - 1] /\ UNCHANGED mt
           ELSE mt' = [mt EXCEPT ![Slot(h.gen)] = DecRef(@)] /\ UNCHANGED branch
        /\ UNCHANGED <<ctxt, cmt, trunk, prepared, task, life, latest, inserts>>
  BY DEF IterRelease
<1>2. CASE h.packed BY <1>1, <1>2, ReleasePacked
<1>3. CASE ~h.packed /\ mt[Slot(h.gen)].ref > 1
  <2>1. mt' = [mt EXCEPT ![Slot(h.gen)].ref = @ - 1]
    BY <1>1, <1>3 DEF DecRef
  <2> QED BY <1>1, <1>3, <2>1, ReleaseShared
<1>4. CASE ~h.packed /\ ~(mt[Slot(h.gen)].ref > 1)
  <2>1. mt' = [mt EXCEPT ![Slot(h.gen)] = DecRef(@)] /\ branch' = branch
    BY <1>1, <1>4
  <2> QED BY <1>1, <1>4, <2>1, ReleaseLast
<1> QED BY <1>2, <1>3, <1>4

\* The incorporation gives back the memtable's own reference.
LEMMA RecycleStep ==
    ASSUME IInv, NEW g \in Gens, Recycle(g)
    PROVE  /\ task[g].pc = "recycle" /\ retired \in Nat
           /\ Slot(retired) \in Slots /\ mt[Slot(retired)].gen = retired
           /\ mt' = [mt EXCEPT ![Slot(retired)] = DecRef(@)]
           /\ RefMoves /\ op' = op /\ branch' = branch
           /\ Own(retired) /\ ~Own(retired)'
<1>1. task[g].pc = "recycle" BY DEF Recycle
<1>2. task[g].gen = retired /\ to_incorporate = retired
      /\ mt[Slot(retired)].gen = retired
  BY <1>1 DEF IInv, TasksOK, TaskOK, AfterCommit, Mt
<1>3. retired \in Nat /\ Slot(retired) \in Slots
  BY <1>2, SlotType DEF IInv, TypesOK, Bounded
<1>4. TaskMoves(g, "continue") /\ task'[g].gen = task[g].gen
  BY GoSets DEF Recycle, TaskPcs
<1>5. RefMoves
  BY <1>1, <1>4 DEF Recycle, RefMoves, TaskMoves, ctxt, life, IInv, TypesOK, Typed
<1>6. \A i \in Gens : i # g => ~Incorporates(i)
  BY <1>1 DEF IInv, TasksOK, Incorporates, AfterCommit
<1>7. \A i \in Gens : task'[i].pc # "recycle"
  BY <1>4, <1>6 DEF TaskMoves, Incorporates, AfterCommit
<1>8. Own(retired) BY <1>1 DEF Own
<1>9. retired' = retired BY DEF Recycle, ctxt
<1>10. ~Own(retired)' BY <1>3, <1>7, <1>9 DEF Own
<1> QED BY <1>1, <1>2, <1>3, <1>5, <1>8, <1>10 DEF Recycle

\* An iterator still has the memtable: it is not recycled yet.
LEMMA RecycleShared ==
    ASSUME IInv, NEW g \in Gens, Recycle(g), mt[Slot(retired)].ref > 1
    PROVE  IInv'
<1> DEFINE q == Slot(retired)
           n == mt[q].ref - 1
<1>1. /\ task[g].pc = "recycle" /\ retired \in Nat
      /\ q \in Slots /\ mt[q].gen = retired
      /\ mt' = [mt EXCEPT ![q] = DecRef(@)]
      /\ RefMoves /\ op' = op /\ branch' = branch
      /\ Own(retired) /\ ~Own(retired)'
  BY RecycleStep
<1>2. n \in Nat \ {0} BY <1>1, MtCount
<1>3. mt' = [mt EXCEPT ![q].ref = n]
  <2>1. DecRef(mt[q]) = [mt[q] EXCEPT !.ref = n] BY DEF DecRef
  <2> QED BY <1>1, <2>1
<1> HIDE DEF n, q
<1>4. /\ mt' \in [Slots -> MtRecords] /\ mt'[q].ref = n
      /\ \A s \in Slots : /\ mt'[s].gen = mt[s].gen /\ mt'[s].state = mt[s].state
                          /\ mt'[s].tuples = mt[s].tuples
                          /\ mt'[s].count = mt[s].count
      /\ \A s \in Slots : s # q => mt'[s].ref = mt[s].ref
  BY <1>1, <1>2, <1>3, RefSet
<1>5. OnlyRefs BY <1>1, <1>4 DEF OnlyRefs, IInv, TypesOK, Typed
<1>6. HoldsOK' BY <1>1, <1>5, HoldsShrink
<1>7. UNCHANGED <<trunk, retired, generation>> BY <1>1 DEF RefMoves
<1>8. ReadersOK' BY <1>1, <1>5, <1>7, SameReader DEF ReadersOK
<1>9. /\ \A i \in Gens : BranchOwn(i)' <=> BranchOwn(i)
      /\ \A i : (Own(i)' => Own(i)) /\ (RootOwn(i)' => RootOwn(i))
  BY <1>1, <1>4, RefOwn
<1>10. ASSUME NEW s \in Slots, NEW d, d = mt[s].gen
       PROVE  Cardinality(Users(d)') + (IF Own(d)' THEN 1 ELSE 0) <= mt'[s].ref
  <2>1. Own(d)' => Own(d) BY <1>9
  <2>2. Users(d)' = Users(d) BY <1>1 DEF Users
  <2>3. Cardinality(Users(d)) + (IF Own(d) THEN 1 ELSE 0) <= mt[s].ref
        /\ Cardinality(Users(d)) \in Nat /\ mt[s].ref \in Nat
    BY <1>10, MtCount
  <2>4. CASE s # q BY <1>4, <2>1, <2>2, <2>3, <2>4
  <2>5. CASE s = q
    <3>1. d = retired BY <1>1, <1>10, <2>5
    <3>2. Own(d) /\ ~Own(d)' BY <1>1, <1>7, <3>1 DEF Own
    <3>3. mt'[s].ref = mt[s].ref - 1 BY <1>4, <2>5 DEF n
    <3> QED BY <2>2, <2>3, <3>2, <3>3
  <2> QED BY <2>4, <2>5
<1>11. \A s \in Slots : MtRefOK(s)' BY <1>4, <1>10 DEF MtRefOK, Users, Own
<1>12. \A i \in Gens : BranchRefOK(i)' BY <1>1, <1>9, SameBranchRef
<1> QED BY <1>1, <1>5, <1>6, <1>8, <1>11, <1>12, CountsKeep DEF RefsOK

\* memtable_dec_ref_maybe_recycle by the task that incorporated it.
LEMMA RecycleKeeps ==
    ASSUME IInv, NEW g \in Gens, Recycle(g)
    PROVE  IInv'
<1> DEFINE q == Slot(retired)
<1>1. /\ task[g].pc = "recycle" /\ retired \in Nat
      /\ q \in Slots /\ mt[q].gen = retired
      /\ mt' = [mt EXCEPT ![q] = DecRef(@)]
      /\ RefMoves /\ op' = op /\ branch' = branch
      /\ Own(retired) /\ ~Own(retired)'
  BY RecycleStep
<1>2. CASE mt[q].ref > 1 BY <1>2, RecycleShared
<1>3. CASE ~(mt[q].ref > 1)
  <2>1. SUFFICES ASSUME NEW e, e = retired PROVE IInv'
    OBVIOUS
  <2>2. Cardinality(Users(e)) = 0
    BY <1>1, <1>3, <2>1, MtCount
  <2>3. Users(e)' = {}
    <3>1. IsFiniteSet(Users(e)) BY ThreadsFinite DEF Users
    <3>2. Users(e) = {} BY <2>2, <3>1, FS_EmptySet
    <3> QED BY <1>1, <3>2 DEF Users
  <2>4. ~Own(e)' BY <1>1, <2>1 DEF Own, RefMoves
  <2>5. mt' = [mt EXCEPT ![q] = [state |-> "READY", gen |-> e + N, ref |-> 1,
                                 tuples |-> Empty, count |-> 0]]
    <3>1. DecRef(mt[q]) = [state |-> "READY", gen |-> e + N, ref |-> 1,
                           tuples |-> Empty, count |-> 0]
      BY <1>1, <1>3, <2>1 DEF DecRef
    <3> QED BY <1>1, <3>1
  <2>6. e = mt[q].gen /\ e <= retired BY <1>1, <2>1
  <2> HIDE DEF q
  <2> QED BY <1>1, <2>3, <2>4, <2>5, <2>6, RecycledKeeps
<1> QED BY <1>2, <1>3

\* With the reference the iterator holds what it had ahead in the memtable.
LEMMA TakeReader ==
    ASSUME IInv, OnlyRefs, UNCHANGED <<trunk, retired, generation>>,
           NEW t \in Threads, op[t].pc = "collect", op'[t].pc = "collect",
           NEW g \in Gens, g = op[t].gen, g \in Nat, NEW p \in BOOLEAN,
           op'[t].hold = op[t].hold \cup {[gen |-> g, packed |-> p]},
           op'[t].gen = g - 1, op'[t].end = retired, op'[t].floor = op[t].floor,
           retired < g, g <= generation, Slot(g) \in Slots, mt[Slot(g)].gen = g,
           p => branch[g].tuples = mt[Slot(g)].tuples
    PROVE  ReaderOK(t)'
<1> DEFINE h == [gen |-> g, packed |-> p]
<1>1. h \in op'[t].hold /\ h.gen = g /\ h.packed = p OBVIOUS
<1>2. \A o \in op[t].hold : o.gen \in Gens /\ Slot(o.gen) \in Slots
  <2>1. op[t] \in OpRecords BY DEF IInv, TypesOK, Typed
  <2>2. op[t].hold \subseteq [gen : Gens, packed : BOOLEAN] BY <2>1 DEF OpRecords
  <2> QED BY <2>2, GenType
<1>3. retired \in Int /\ generation \in Nat BY DEF IInv, TypesOK, Bounded
<1> HIDE DEF h
<1>4. ASSUME NEW k \in UserKeys PROVE Ahead(t, k)' \/ Held(t, k)'
  <2>1. CASE Held(t, k)
    <3>1. PICK o \in op[t].hold :
            IF o.packed THEN branch[o.gen].tuples[k] >= op[t].floor[k]
            ELSE Mt(o.gen).tuples[k] >= op[t].floor[k]
      BY <2>1 DEF Held
    <3>2. o \in op'[t].hold OBVIOUS
    <3> QED BY <1>2, <3>1, <3>2 DEF Held, Mt, OnlyRefs
  <2>2. CASE Ahead(t, k)
    <3>1. CASE trunk[k] >= op[t].floor[k] BY <3>1 DEF Ahead
    <3>2. CASE \E s \in Slots : /\ retired < mt[s].gen /\ mt[s].gen <= op[t].gen
                                /\ mt[s].tuples[k] >= op[t].floor[k]
      <4>1. PICK s \in Slots : /\ retired < mt[s].gen /\ mt[s].gen <= g
                               /\ mt[s].tuples[k] >= op[t].floor[k]
        BY <3>2
      <4>2. CASE mt[s].gen = g
        <5>1. s = Slot(g) BY <4>2 DEF IInv, WindowOK
        <5>2. mt'[Slot(g)].tuples = mt[Slot(g)].tuples BY DEF OnlyRefs
        <5>3. branch'[g].tuples = branch[g].tuples BY DEF OnlyRefs
        <5> QED BY <1>1, <4>1, <5>1, <5>2, <5>3 DEF Held, Mt
      <4>3. CASE mt[s].gen # g
        <5>1. mt[s].gen \in Nat BY DEF IInv, TypesOK, Typed, MtRecords
        <5>2. mt[s].gen <= g - 1 BY <4>1, <4>3, <5>1
        <5>3. mt'[s].tuples = mt[s].tuples /\ mt'[s].gen = mt[s].gen BY DEF OnlyRefs
        <5> QED BY <4>1, <5>2, <5>3 DEF Ahead
      <4> QED BY <4>2, <4>3
    <3> QED BY <2>2, <3>1, <3>2 DEF Ahead
  <2> QED BY <2>1, <2>2 DEF IInv, ReadersOK, ReaderOK
<1>5. retired <= g - 1 /\ g - 1 <= generation BY <1>3
<1> QED BY <1>4, <1>5 DEF ReaderOK

\* A set and one more element.
LEMMA OneMore ==
    ASSUME NEW S, NEW x, IsFiniteSet(S), Cardinality(S) \in Nat
    PROVE  /\ IsFiniteSet(S \cup {x}) /\ Cardinality(S \cup {x}) \in Nat
           /\ Cardinality(S \cup {x}) <= Cardinality(S) + 1
<1>1. /\ IsFiniteSet(S \cup {x})
      /\ Cardinality(S \cup {x}) = IF x \in S THEN Cardinality(S)
                                   ELSE Cardinality(S) + 1
  BY FS_AddElement
<1> QED BY <1>1

\* An iterator takes a reference to the memtable of generation g, or to its
\* branch when it is packed.
LEMMA CollectKeeps ==
    ASSUME IInv, NEW t \in Threads, NEW g, g = op[t].gen, NEW p \in BOOLEAN,
           p <=> Packed(g), At(t, "collect"), g # op[t].end,
           op' = [op EXCEPT ![t] = [op[t] EXCEPT !.gen = g - 1,
                    !.hold = op[t].hold \cup {[gen |-> g, packed |-> p]}]],
           p => branch' = [branch EXCEPT ![cmt[Slot(g)]].refs = @ + 1] /\ mt' = mt,
           ~p => mt' = [mt EXCEPT ![Slot(g)].ref = @ + 1] /\ branch' = branch,
           UNCHANGED <<ctxt, cmt, trunk, prepared, task, life, latest, inserts>>
    PROVE  IInv'
<1>1. op[t].pc = "collect" BY DEF At
<1>2. /\ op' \in [Threads -> OpRecords] /\ op'[t].pc = "collect"
      /\ op'[t].hold = op[t].hold \cup {[gen |-> g, packed |-> p]}
      /\ op'[t].gen = g - 1 /\ op'[t].end = retired /\ op'[t].floor = op[t].floor
      /\ \A u \in Threads : u # t => op'[u] = op[u]
      /\ g \in Gens /\ g \in Nat /\ retired < g /\ g <= generation
      /\ Slot(g) \in Slots /\ mt[Slot(g)].gen = g
      /\ p => /\ g < generation /\ cmt[Slot(g)] = g
              /\ mt[Slot(g)].state \in {"COMPACTED", "ASSIGNED"}
              /\ branch[g].tuples = mt[Slot(g)].tuples
  <2> DEFINE h == [gen |-> g, packed |-> p]
             o == [op[t] EXCEPT !.gen = g - 1, !.hold = op[t].hold \cup {h}]
  <2>1. op \in [Threads -> OpRecords] /\ op[t] \in OpRecords /\ g \in Int
        /\ retired \in Int /\ generation \in Nat
    BY DEF IInv, TypesOK, Bounded, Typed, OpRecords
  <2>2. op[t].pc = "collect" /\ ~Shut BY NotShut DEF At
  <2>3. op[t].end = retired /\ retired <= g /\ g <= generation
    BY <2>2 DEF IInv, ReadersOK, ReaderOK
  <2>4. retired < g BY <2>1, <2>3
  <2>5. g \in Nat /\ g \in Gens /\ Slot(g) \in Slots /\ mt[Slot(g)].gen = g
    BY <2>1, <2>2, <2>3, <2>4, InWindow
  <2>6. h \in [gen : Gens, packed : BOOLEAN] BY <2>5
  <2> HIDE DEF h
  <2>7. /\ o \in OpRecords /\ o.pc = "collect" /\ o.gen = g - 1 /\ o.end = retired
        /\ o.floor = op[t].floor /\ o.hold = op[t].hold \cup {h}
    <3>1. op[t].hold \cup {h} \in SUBSET [gen : Gens, packed : BOOLEAN]
      BY <2>1, <2>6 DEF OpRecords
    <3>2. g - 1 \in Int BY <2>1
    <3> QED BY <2>1, <2>2, <2>3, <3>1, <3>2 DEF OpRecords
  <2>8. op' = [op EXCEPT ![t] = o] BY DEF h
  <2> HIDE DEF o
  <2>9. op' \in [Threads -> OpRecords] /\ op'[t] = o
        /\ \A u \in Threads : u # t => op'[u] = op[u]
    BY <2>1, <2>7, <2>8
  <2>10. p => /\ g < generation /\ cmt[Slot(g)] = g
              /\ mt[Slot(g)].state \in {"COMPACTED", "ASSIGNED"}
              /\ branch[g].tuples = mt[Slot(g)].tuples
    <3> HAVE p
    <3>1. mt[Slot(g)].state \in {"COMPACTED", "ASSIGNED"} BY DEF Packed, Mt
    <3>2. g # generation BY <2>5, <3>1 DEF IInv, StatesOK, StateOK
    <3> QED BY <2>1, <2>3, <2>5, <3>1, <3>2 DEF IInv, ContentOK
  <2> QED BY <2>3, <2>4, <2>5, <2>7, <2>9, <2>10 DEF h
<1> DEFINE h == [gen |-> g, packed |-> p]
           q == Slot(g)
<1>3. UNCHANGED <<ctxt, cmt, trunk, prepared, task, life, latest, inserts>>
  OBVIOUS
<1>4. RefMoves
  BY <1>1, <1>2, <1>3 DEF RefMoves, ctxt, life, IInv, TypesOK, Typed
<1>5. UNCHANGED <<trunk, retired, generation>> BY <1>3 DEF ctxt
<1>6. /\ p => branch' = [branch EXCEPT ![g].refs = branch[g].refs + 1] /\ mt' = mt
      /\ ~p => mt' = [mt EXCEPT ![q].ref = mt[q].ref + 1] /\ branch' = branch
  BY <1>2
<1>7. /\ \A i \in Gens : branch[i].refs \in Nat
      /\ \A s \in Slots : mt[s].ref \in Nat
  BY BranchCount, MtCount
<1>8. /\ OnlyRefs
      /\ branch'[g].refs = branch[g].refs + (IF p THEN 1 ELSE 0)
      /\ \A i \in Gens : i # g => branch'[i].refs = branch[i].refs
      /\ mt'[q].ref = mt[q].ref + (IF p THEN 0 ELSE 1)
      /\ \A s \in Slots : s # q => mt'[s].ref = mt[s].ref
  <2>0. q \in Slots BY <1>2
  <2> HIDE DEF q
  <2>1. CASE p
    <3>1. branch[g].refs + 1 \in Nat BY <1>2, <1>7
    <3>2. /\ branch' \in [Gens -> BranchRecords]
          /\ branch'[g].refs = branch[g].refs + 1
          /\ \A i \in Gens : branch'[i].tuples = branch[i].tuples
          /\ \A i \in Gens : i # g => branch'[i].refs = branch[i].refs
      BY <1>2, <1>6, <2>1, <3>1, RefsSet
    <3>3. mt' = mt /\ mt[q].ref \in Nat BY <2>0, <1>6, <1>7, <2>1
    <3> QED BY <2>1, <3>2, <3>3 DEF OnlyRefs, IInv, TypesOK, Typed
  <2>2. CASE ~p
    <3>1. mt[q].ref + 1 \in Nat \ {0} BY <2>0, <1>7
    <3>2. /\ mt' \in [Slots -> MtRecords] /\ mt'[q].ref = mt[q].ref + 1
          /\ \A s \in Slots : /\ mt'[s].gen = mt[s].gen /\ mt'[s].state = mt[s].state
                              /\ mt'[s].tuples = mt[s].tuples
                              /\ mt'[s].count = mt[s].count
          /\ \A s \in Slots : s # q => mt'[s].ref = mt[s].ref
      BY <2>0, <1>6, <2>2, <3>1, RefSet
    <3>3. branch' = branch /\ branch[g].refs \in Nat BY <1>2, <1>6, <1>7, <2>2
    <3> QED BY <2>2, <3>2, <3>3 DEF OnlyRefs, IInv, TypesOK, Typed
  <2> QED BY <2>1, <2>2
<1>9. ReadersOK'
  <2>1. ReaderOK(t)' BY <1>1, <1>2, <1>5, <1>8, TakeReader
  <2>2. \A u \in Threads : u # t => ReaderOK(u)' BY <1>2, <1>5, <1>8, SameReader
  <2> QED BY <2>1, <2>2 DEF ReadersOK
<1>10. HoldsOK'
  <2>1. ASSUME NEW u \in Threads, NEW o \in op'[u].hold, o \in op[u].hold
        PROVE  IF o.packed
               THEN /\ o.gen < generation
                    /\ o.gen <= retired \/ Mt(o.gen)'.state \in {"COMPACTED", "ASSIGNED"}
               ELSE Mt(o.gen)'.gen = o.gen
    <3>1. Slot(o.gen) \in Slots
      BY <2>1, GenType DEF IInv, TypesOK, Typed, OpRecords
    <3> QED BY <1>8, <2>1, <3>1 DEF IInv, HoldsOK, OnlyRefs, Mt
  <2>2. h.gen = g /\ h.packed = p OBVIOUS
  <2>3. /\ mt'[q].state = mt[q].state /\ mt'[q].gen = mt[q].gen
    BY <1>2, <1>8 DEF OnlyRefs
  <2>4. IF h.packed
        THEN /\ h.gen < generation
             /\ h.gen <= retired \/ Mt(h.gen)'.state \in {"COMPACTED", "ASSIGNED"}
        ELSE Mt(h.gen)'.gen = h.gen
    <3> HIDE DEF h
    <3> QED BY <1>2, <2>2, <2>3 DEF Mt
  <2>5. \A u \in Threads : \A o \in op'[u].hold : o \in op[u].hold \/ o = h
    BY <1>2
  <2> HIDE DEF h, q
  <2> QED BY <1>5, <2>1, <2>4, <2>5 DEF HoldsOK
<1>11. /\ \A i \in Gens : BranchOwn(i)' <=> BranchOwn(i)
       /\ \A i : (Own(i)' => Own(i)) /\ (RootOwn(i)' => RootOwn(i))
  BY <1>4, <1>8, RefOwn DEF OnlyRefs
<1>12. ASSUME NEW d
       PROVE  /\ Cardinality(Users(d)) \in Nat /\ Cardinality(Users(d)') \in Nat
              /\ Cardinality(Users(d)') <=
                   Cardinality(Users(d)) + (IF ~p /\ d = g THEN 1 ELSE 0)
              /\ Cardinality(Packers(d)) \in Nat /\ Cardinality(Packers(d)') \in Nat
              /\ Cardinality(Packers(d)') <=
                   Cardinality(Packers(d)) + (IF p /\ d = g THEN 1 ELSE 0)
  <2>1. /\ Users(d) \in SUBSET Threads /\ Users(d)' \in SUBSET Threads
        /\ Packers(d) \in SUBSET Threads /\ Packers(d)' \in SUBSET Threads
    BY DEF Users, Packers
  <2>2. /\ IsFiniteSet(Users(d)) /\ IsFiniteSet(Packers(d))
        /\ Cardinality(Users(d)) \in Nat /\ Cardinality(Users(d)') \in Nat
        /\ Cardinality(Packers(d)) \in Nat /\ Cardinality(Packers(d)') \in Nat
    BY <2>1, ThreadsFinite
  <2>3. Users(d)' \subseteq IF ~p /\ d = g THEN Users(d) \cup {t} ELSE Users(d)
    BY <1>2 DEF Users
  <2>4. Packers(d)' \subseteq IF p /\ d = g THEN Packers(d) \cup {t} ELSE Packers(d)
    BY <1>2 DEF Packers
  <2>5. /\ IsFiniteSet(Users(d) \cup {t}) /\ IsFiniteSet(Packers(d) \cup {t})
        /\ Cardinality(Users(d) \cup {t}) <= Cardinality(Users(d)) + 1
        /\ Cardinality(Packers(d) \cup {t}) <= Cardinality(Packers(d)) + 1
        /\ Cardinality(Users(d) \cup {t}) \in Nat
        /\ Cardinality(Packers(d) \cup {t}) \in Nat
    BY <2>2, OneMore
  <2>6. Cardinality(Users(d)') <=
          Cardinality(Users(d)) + (IF ~p /\ d = g THEN 1 ELSE 0)
    <3>1. CASE ~p /\ d = g
      <4>1. Users(d)' \subseteq Users(d) \cup {t} BY <2>3, <3>1
      <4>2. Cardinality(Users(d)') <= Cardinality(Users(d) \cup {t})
        BY <2>5, <4>1, FS_Subset
      <4> QED BY <2>2, <2>5, <3>1, <4>2
    <3>2. CASE ~(~p /\ d = g)
      <4>1. Users(d)' \subseteq Users(d) BY <2>3, <3>2
      <4>2. Cardinality(Users(d)') <= Cardinality(Users(d)) BY <2>2, <4>1, FS_Subset
      <4> QED BY <2>2, <3>2, <4>2
    <3> QED BY <3>1, <3>2
  <2>7. Cardinality(Packers(d)') <=
          Cardinality(Packers(d)) + (IF p /\ d = g THEN 1 ELSE 0)
    <3>1. CASE p /\ d = g
      <4>1. Packers(d)' \subseteq Packers(d) \cup {t} BY <2>4, <3>1
      <4>2. Cardinality(Packers(d)') <= Cardinality(Packers(d) \cup {t})
        BY <2>5, <4>1, FS_Subset
      <4> QED BY <2>2, <2>5, <3>1, <4>2
    <3>2. CASE ~(p /\ d = g)
      <4>1. Packers(d)' \subseteq Packers(d) BY <2>4, <3>2
      <4>2. Cardinality(Packers(d)') <= Cardinality(Packers(d))
        BY <2>2, <4>1, FS_Subset
      <4> QED BY <2>2, <3>2, <4>2
    <3> QED BY <3>1, <3>2
  <2> QED BY <2>2, <2>6, <2>7
<1>13. ASSUME NEW s \in Slots, NEW d, d = mt[s].gen
       PROVE  Cardinality(Users(d)') + (IF Own(d)' THEN 1 ELSE 0) <= mt'[s].ref
  <2>1. Own(d)' => Own(d) BY <1>11
  <2>2. Cardinality(Users(d)) + (IF Own(d) THEN 1 ELSE 0) <= mt[s].ref
        /\ mt[s].ref \in Nat
    BY <1>13, MtCount
  <2>3. d = g => s = q BY <1>13 DEF IInv, WindowOK
  <2>4. mt'[s].ref = mt[s].ref + (IF ~p /\ s = q THEN 1 ELSE 0)
    BY <1>8, <2>2
  <2>5. s = q => d = g BY <1>2, <1>13
  <2> HIDE DEF q
  <2> QED BY <1>12, <2>1, <2>2, <2>3, <2>4, <2>5
<1>14. \A s \in Slots : MtRefOK(s)'
  <2>1. \A s \in Slots : mt'[s].gen = mt[s].gen BY <1>8 DEF OnlyRefs
  <2> QED BY <1>13, <2>1 DEF MtRefOK, Users, Own
<1>15. \A i \in Gens : BranchRefOK(i)'
  <2> TAKE i \in Gens
  <2>1. (BranchOwn(i)' <=> BranchOwn(i)) /\ (RootOwn(i)' => RootOwn(i)) BY <1>11
  <2>2. branch'[i].refs = branch[i].refs + (IF p /\ i = g THEN 1 ELSE 0)
    BY <1>7, <1>8
  <2> QED BY <1>12, <2>1, <2>2, BranchCount DEF BranchRefOK
<1> QED BY <1>4, <1>8, <1>9, <1>10, <1>14, <1>15, CountsKeep DEF RefsOK

\* core_range_iterator_init takes a reference to one generation.
LEMMA IterCollectKeeps ==
    ASSUME IInv, NEW t \in Threads, IterCollect(t)
    PROVE  IInv'
<1> DEFINE g == op[t].gen
           next(p) == [op EXCEPT ![t] = [op[t] EXCEPT !.gen = g - 1,
                         !.hold = op[t].hold \cup {[gen |-> g, packed |-> p]}]]
<1>1. /\ At(t, "collect") /\ g # op[t].end
      /\ UNCHANGED <<ctxt, cmt, trunk, prepared, task, life, latest, inserts>>
  BY DEF IterCollect
<1>4. op' = next(Packed(g)) BY DEF IterCollect
<1>2. CASE Packed(g)
  <2>1. Packed(g) = TRUE BY <1>2
  <2>2. op' = next(TRUE) BY <1>4, <2>1, Zenon
  <2>3. branch' = [branch EXCEPT ![cmt[Slot(g)]].refs = @ + 1] /\ mt' = mt
    BY <1>2 DEF IterCollect
  <2> QED BY <1>1, <1>2, <2>2, <2>3, CollectKeeps
<1>3. CASE ~Packed(g)
  <2>1. Packed(g) = FALSE BY <1>3 DEF Packed
  <2>2. op' = next(FALSE) BY <1>4, <2>1, Zenon
  <2>3. mt' = [mt EXCEPT ![Slot(g)].ref = @ + 1] /\ branch' = branch
    BY <1>3 DEF IterCollect
  <2> QED BY <1>1, <1>3, <2>2, <2>3, CollectKeeps
<1> QED BY <1>2, <1>3

-----------------------------------------------------------------------------
(* Rotation and insert                                                     *)

\* A thread that inserts goes on, the others stay where they are.
InsertMoves(t, l) ==
    /\ op' \in [Threads -> OpRecords] /\ op'[t].pc = l
    /\ op'[t].gen = op[t].gen /\ op'[t].hold = op[t].hold
    /\ \A u \in Threads : u # t => op'[u] = op[u]
    /\ \A u \in Threads : op'[u].hold = op[u].hold

\* The record that a step of an insert writes.
LEMMA MoveOp ==
    ASSUME IInv, NEW t \in Threads, NEW l \in OpPcs, Move(t, l)
    PROVE  InsertMoves(t, l)
<1> DEFINE o == [op[t] EXCEPT !.pc = l]
<1>1. op[t] \in OpRecords /\ op \in [Threads -> OpRecords]
  BY DEF IInv, TypesOK, Typed
<1>2. o \in OpRecords /\ o.hold = op[t].hold /\ o.pc = l /\ o.gen = op[t].gen
  BY <1>1 DEF OpRecords
<1>3. op' = [op EXCEPT ![t] = o] BY <1>1 DEF Move
<1> HIDE DEF o
<1>4. op' \in [Threads -> OpRecords] /\ op'[t] = o
      /\ \A u \in Threads : u # t => op'[u] = op[u]
  BY <1>1, <1>2, <1>3
<1> QED BY <1>2, <1>4 DEF InsertMoves

\* The thread holds what it held: references do not change.
LEMMA SameHolders ==
    ASSUME NEW t \in Threads, NEW l, InsertMoves(t, l), NEW g
    PROVE  Users(g)' = Users(g) /\ Packers(g)' = Packers(g)
  BY DEF InsertMoves, Users, Packers

\* The current memtable, for a thread that has the insert lock.
LEMMA CurrentMemtable ==
    ASSUME IInv, NEW t \in Threads, op[t].pc \in {"rotate", "lock", "advance", "insert"}
    PROVE  /\ op[t].gen = generation /\ generation \in Nat /\ ~Shut
           /\ Slot(generation) \in Slots /\ mt[Slot(generation)].gen = generation
           /\ retired \in Int /\ retired < generation /\ generation \in Gens
           /\ generation + 1 \in Gens /\ generation + 1 \in Nat
           /\ \A s \in Slots : s # Slot(generation) => mt[s].gen # generation
<1>1. op[t].gen = generation BY DEF IInv, InsertersOK
<1>2. generation \in Nat /\ retired \in Int /\ retired < generation
  BY DEF IInv, TypesOK, Bounded
<1>3. ~Shut BY NotShut
<1>4. Slot(generation) \in Slots BY <1>2, SlotType
<1>5. mt[Slot(generation)].gen = generation BY <1>3 DEF IInv, WindowOK, Mt
<1>6. t \in Pending BY DEF Pending, InsertPcs
<1>7. generation + 1 <= MaxInserts BY <1>6, GenBound
<1>8. generation \in Gens /\ generation + 1 \in Gens
  BY <1>2, <1>7, CoreAssumption DEF Gens
<1> QED BY <1>1, <1>2, <1>3, <1>4, <1>5, <1>8 DEF IInv, WindowOK

\* memtable_maybe_rotate_and_begin_insert finalizes the full memtable.
LEMMA RotateFinalizeKeeps ==
    ASSUME IInv, NEW t \in Threads, RotateFinalize(t)
    PROVE  IInv'
<1> DEFINE q == Slot(generation)
<1>1. op[t].pc = "lock" /\ \A u \in Threads : op[u].pc \notin {"rotate", "insert", "end"}
  BY DEF RotateFinalize, At, InsertReaders
<1>2. /\ op[t].gen = generation /\ generation \in Nat /\ ~Shut
      /\ q \in Slots /\ mt[q].gen = generation
      /\ retired \in Int /\ retired < generation
      /\ \A s \in Slots : s # q => mt[s].gen # generation
  BY <1>1, CurrentMemtable
<1>3. mt[q].state = "READY" BY <1>2 DEF RotateFinalize, Mt
<1>4. /\ SameMemtables /\ mt'[q].state = "FINALIZED"
      /\ \A s \in Slots : s # q => mt'[s].state = mt[s].state
  BY <1>2, StateSet DEF RotateFinalize, States
<1>5. InsertMoves(t, "advance") BY MoveOp DEF RotateFinalize, OpPcs
<1>6. UNCHANGED <<generation, to_incorporate, retired, is_empty, cmt, branch, trunk,
                  prepared, task, super, open, clean, latest, inserts>>
  BY DEF RotateFinalize, ctxt, life
<1> HIDE DEF q
<1>7. /\ op' \in [Threads -> OpRecords] /\ op'[t].pc = "advance"
      /\ op'[t].gen = op[t].gen
      /\ \A u \in Threads : u # t => op'[u] = op[u]
      /\ \A u \in Threads : op'[u].hold = op[u].hold
  BY <1>5 DEF InsertMoves
<1>8. \A s \in Slots : /\ mt'[s].gen = mt[s].gen /\ mt'[s].tuples = mt[s].tuples
                       /\ mt'[s].count = mt[s].count /\ mt'[s].ref = mt[s].ref
  BY <1>4 DEF SameMemtables
<1>9. TypesOK'
  <2>1. Bounded' BY <1>6 DEF IInv, TypesOK, Bounded
  <2>2. Typed' BY <1>4, <1>6, <1>7 DEF IInv, TypesOK, Typed, SameMemtables
  <2> QED BY <2>1, <2>2 DEF TypesOK
<1>10. CountOK'
  <2>1. Pending' = Pending BY <1>1, <1>7 DEF Pending, InsertPcs
  <2> QED BY <1>6, <2>1 DEF IInv, CountOK
<1>11. ~Shut' BY <1>2, <1>6 DEF Shut
<1>12. LifeOK' BY <1>2, <1>6, <1>11 DEF IInv, LifeOK, Shut
<1>13. \A i \in Gens : /\ Mt(i)'.gen = Mt(i).gen
                       /\ Mt(i).state # "READY" => Mt(i)'.state = Mt(i).state
                       /\ Mt(i)'.state \in PackedStates <=> Mt(i).state \in PackedStates
  BY <1>3, <1>4, <1>8, GenType DEF Mt, PackedStates
<1>14. WindowOK'
  <2>1. Mt(generation)'.gen = generation BY <1>2, <1>6, <1>8 DEF Mt, q
  <2> QED BY <1>2, <1>6, <1>8, <1>11, <1>13, <2>1 DEF IInv, WindowOK
<1>15. StatesOK'
  <2>1. Advancing' BY <1>7 DEF Advancing
  <2>2. ASSUME NEW s \in Slots PROVE StateOK(s)'
    <3>1. StateOK(s) BY DEF IInv, StatesOK
    <3>2. CASE s = q
      BY <1>2, <1>3, <1>4, <1>6, <1>8, <2>1, <3>1, <3>2 DEF StateOK
    <3>3. CASE s # q BY <1>2, <1>4, <1>6, <1>8, <3>1, <3>3 DEF StateOK
    <3> QED BY <3>2, <3>3
  <2> QED BY <2>2 DEF StatesOK
<1>16. TasksOK'
  <2>1. Slot(to_incorporate) \in Slots /\ to_incorporate \in Nat
    BY SlotType DEF IInv, TypesOK, Bounded
  <2>2. mt[Slot(to_incorporate)].state = "ASSIGNED" =>
           mt'[Slot(to_incorporate)].state = "ASSIGNED"
    BY <1>3, <1>4, <2>1
  <2>3. ASSUME NEW i \in Gens PROVE TaskOK(i)'
    <3>1. TaskOK(i) BY DEF IInv, TasksOK
    <3>2. task[i].pc = "recycle" => Mt(retired)'.gen = Mt(retired).gen
      <4> HAVE task[i].pc = "recycle"
      <4>1. retired \in Nat BY <2>1, <3>1 DEF TaskOK, AfterCommit
      <4> QED BY <1>6, <1>8, <4>1, SlotType DEF Mt
    <3> QED
      BY <1>6, <1>13, <2>2, <3>1, <3>2 DEF TaskOK, Mt, PackedStates
  <2>4. \A i : Incorporates(i)' <=> Incorporates(i) BY <1>6 DEF Incorporates
  <2>5. (\A i \in Gens : ~Incorporates(i)) =>
          \/ /\ to_incorporate = retired + 1
             /\ to_incorporate < generation =>
                   task[to_incorporate].pc \in {"queued", "compact", "start"}
          \/ Shut /\ generation = retired + 1
    BY DEF IInv, TasksOK
  <2>6. \A i, j \in Gens : Incorporates(i) /\ Incorporates(j) => i = j
    BY DEF IInv, TasksOK
  <2> QED BY <1>2, <1>6, <2>3, <2>4, <2>5, <2>6 DEF TasksOK
<1>17. InsertersOK'
  <2>1. Slot(generation + 1) \in Slots BY <1>2, SlotType
  <2>2. /\ Mt(generation)'.count = Mt(generation).count
        /\ Mt(generation + 1)'.gen = Mt(generation + 1).gen
    BY <1>2, <1>6, <1>8, <2>1 DEF Mt, q
  <2>3. InsertersOK BY DEF IInv
  <2> QED BY <1>1, <1>6, <1>7, <2>2, <2>3 DEF InsertersOK
<1>18. ContentOK'
  <2>1. Slot(to_incorporate) \in Slots BY SlotType DEF IInv, TypesOK, Bounded
  <2>2. \A s \in Slots : mt'[s].state \in {"COMPACTED", "ASSIGNED"} =>
                           mt'[s].state = mt[s].state
    BY <1>4
  <2> QED BY <1>6, <1>8, <2>1, <2>2 DEF IInv, ContentOK, Mt
<1>19. OrderOK'
  <2>1. \A s \in Slots : Searched(s)' <=> Searched(s) BY <1>6, <1>8 DEF Searched
  <2> QED BY <1>6, <1>8, <2>1 DEF IInv, OrderOK
<1>20. HoldsOK'
  <2>1. \A u \in Threads : \A o \in op[u].hold : o.gen \in Gens
    BY DEF IInv, TypesOK, Typed, OpRecords
  <2> QED BY <1>6, <1>7, <1>13, <2>1 DEF IInv, HoldsOK, PackedStates
<1>21. RefsOK'
  <2>1. \A g : Users(g)' = Users(g) /\ Packers(g)' = Packers(g)
    BY <1>5, SameHolders
  <2>2. \A g : (Own(g)' <=> Own(g)) /\ (RootOwn(g)' <=> RootOwn(g))
    BY <1>6 DEF Own, RootOwn
  <2>3. \A g \in Gens : BranchOwn(g)' <=> BranchOwn(g)
    BY <1>13 DEF BranchOwn, Packed, PackedStates
  <2>4. ASSUME NEW s \in Slots, NEW d, d = mt[s].gen
        PROVE  Cardinality(Users(d)') + (IF Own(d)' THEN 1 ELSE 0) <= mt'[s].ref
    BY <1>8, <2>1, <2>2, <2>4, MtCount
  <2>5. \A s \in Slots : MtRefOK(s)' BY <1>8, <2>4 DEF MtRefOK, Users, Own
  <2>6. \A i \in Gens : BranchRefOK(i)'
    BY <1>6, <2>1, <2>2, <2>3 DEF IInv, RefsOK, BranchRefOK
  <2> QED BY <2>5, <2>6 DEF RefsOK
<1>22. ReadersOK'
  <2>1. ReaderOK(t)' BY <1>7, NoReader DEF ReaderPcs
  <2>2. ASSUME NEW u \in Threads, u # t PROVE ReaderOK(u)'
    <3>1. ReaderOK(u) /\ op'[u] = op[u] BY <1>7, <2>2 DEF IInv, ReadersOK
    <3>2. \A k : Ahead(u, k)' <=> Ahead(u, k) BY <1>6, <1>8, <3>1 DEF Ahead
    <3>3. \A k : Held(u, k)' <=> Held(u, k)
      <4>1. \A o \in op[u].hold : Slot(o.gen) \in Slots
        BY GenType DEF IInv, TypesOK, Typed, OpRecords
      <4> QED BY <1>6, <1>8, <3>1, <4>1 DEF Held, Mt
    <3> QED BY <1>6, <3>1, <3>2, <3>3 DEF ReaderOK
  <2> QED BY <2>1, <2>2 DEF ReadersOK
<1> QED
  BY <1>9, <1>10, <1>12, <1>14, <1>15, <1>16, <1>17, <1>18, <1>19, <1>20, <1>21,
     <1>22 DEF IInv

\* What finalizing the current generation and moving on changes, when a
\* thread rotates and when the database is closed: the task of generation c
\* is queued, and c + 1 is current.
Advances(c) ==
    /\ c = generation /\ generation' = c + 1 /\ is_empty' = TRUE
    /\ task' = [task EXCEPT ![c] = [pc |-> "queued", gen |-> c]]
    /\ UNCHANGED <<to_incorporate, retired, cmt, branch, trunk, prepared, super,
                   clean, latest, inserts>>

\* What it changes of the tasks.
LEMMA AdvanceTask ==
    ASSUME IInv, NEW c \in Gens, Advances(c)
    PROVE  /\ task' \in [Gens -> TaskRecords]
           /\ task'[c].pc = "queued" /\ task'[c].gen = c /\ task[c].pc = "none"
           /\ \A i \in Gens : i # c => task'[i] = task[i]
           /\ \A i \in Gens : Incorporates(i)' <=> Incorporates(i)
           /\ \A i \in Gens : task'[i].pc \notin {"none", "queued"} =>
                                task'[i] = task[i]
           /\ \A i \in Gens : task[i].pc # "none" => task'[i] = task[i]
           /\ c \in Nat
<1>1. c \in Nat /\ c = generation BY GenType DEF Advances
<1>2. task[c].pc = "none" BY <1>1 DEF IInv, TasksOK, TaskOK
<1>3. task \in [Gens -> TaskRecords] BY DEF IInv, TypesOK, Typed
<1>4. task' \in [Gens -> TaskRecords]
  BY <1>1, <1>3 DEF Advances, TaskRecords, TaskPcs
<1>5. task'[c].pc = "queued" /\ task'[c].gen = c
      /\ \A i \in Gens : i # c => task'[i] = task[i]
  BY <1>3 DEF Advances
<1>6. \A i \in Gens : Incorporates(i)' <=> Incorporates(i)
  BY <1>2, <1>5 DEF Incorporates, BeforeCommit, AfterCommit
<1> QED BY <1>1, <1>2, <1>4, <1>5, <1>6

\* The new task is the last in line.
LEMMA AdvanceTasks ==
    ASSUME IInv, NEW c \in Gens, Advances(c), Slot(c) \in Slots,
           retired < c, ~Shut,
           mt'[Slot(c)].state = "FINALIZED", mt[Slot(c)].gen = c,
           \A s \in Slots : /\ mt'[s].gen = mt[s].gen
                            /\ s # Slot(c) => mt'[s] = mt[s],
           mt[Slot(c)].state \in {"READY", "FINALIZED"}
    PROVE  TasksOK'
<1>1. /\ task'[c].pc = "queued" /\ task'[c].gen = c /\ task[c].pc = "none"
      /\ \A i \in Gens : i # c => task'[i] = task[i]
      /\ \A i \in Gens : Incorporates(i)' <=> Incorporates(i)
      /\ c \in Nat
  BY AdvanceTask
<1>2. generation = c /\ generation' = c + 1 /\ UNCHANGED <<to_incorporate, retired>>
  BY DEF Advances
<1>3. to_incorporate \in Nat /\ retired \in Int /\ Slot(to_incorporate) \in Slots
  BY SlotType DEF IInv, TypesOK, Bounded
<1>4. TaskOK(c)'
  BY <1>1, <1>2, <1>3 DEF TaskOK, Mt, BeforeCommit, AfterCommit
<1>5. ASSUME NEW i \in Gens, i # c PROVE TaskOK(i)'
  <2>1. TaskOK(i) /\ task'[i] = task[i] BY <1>1, <1>5 DEF IInv, TasksOK
  <2>2. i \in Nat /\ Slot(i) \in Slots BY GenType
  <2>3. i >= generation' <=> i >= generation BY <1>2, <1>1, <1>5, <2>2
  <2>4. task[i].pc # "none" /\ retired < i => mt'[Slot(i)] = mt[Slot(i)]
    <3> HAVE task[i].pc # "none" /\ retired < i
    <3>1. mt[Slot(i)].gen = i BY TaskGen
    <3> QED BY <1>5, <2>2, <3>1
  <2>5. mt[Slot(to_incorporate)].state = "ASSIGNED" =>
           mt'[Slot(to_incorporate)] = mt[Slot(to_incorporate)]
    BY <1>3
  <2>6. task[i].pc = "recycle" => Mt(retired)'.gen = Mt(retired).gen
    <3> HAVE task[i].pc = "recycle"
    <3>1. retired \in Nat BY <1>3, <2>1 DEF TaskOK, AfterCommit
    <3> QED BY <1>2, <3>1, SlotType DEF Mt
  <2>7. to_incorporate < generation => to_incorporate < generation'
    BY <1>1, <1>2, <1>3
  <2> QED BY <1>2, <2>1, <2>3, <2>4, <2>5, <2>6, <2>7 DEF TaskOK, Mt
<1>6. (\A i \in Gens : ~Incorporates(i)) =>
        /\ to_incorporate = retired + 1
        /\ to_incorporate < c + 1 =>
              task'[to_incorporate].pc \in {"queued", "compact", "start"}
  <2> HAVE \A i \in Gens : ~Incorporates(i)
  <2>1. /\ to_incorporate = retired + 1
        /\ to_incorporate < generation =>
              task[to_incorporate].pc \in {"queued", "compact", "start"}
    BY DEF IInv, TasksOK
  <2>2. to_incorporate < generation => to_incorporate \in Gens
    BY GenBound, <1>1, <1>2, <1>3
  <2> QED BY <1>1, <1>2, <1>3, <2>1, <2>2
<1>7. \A i, j \in Gens : Incorporates(i) /\ Incorporates(j) => i = j
  BY DEF IInv, TasksOK
<1> QED BY <1>1, <1>2, <1>4, <1>5, <1>6, <1>7 DEF TasksOK

\* The new current memtable is empty.
LEMMA AdvanceOrder ==
    ASSUME IInv, NEW c \in Gens, Advances(c),
           \A s \in Slots : mt'[s].gen = mt[s].gen /\ mt'[s].tuples = mt[s].tuples
    PROVE  OrderOK'
<1>1. /\ c \in Nat /\ generation = c /\ generation' = c + 1
      /\ UNCHANGED <<retired, trunk, latest>>
  BY GenType DEF Advances
<1>2. \A s \in Slots : mt[s].gen \in Nat BY DEF IInv, TypesOK, Typed, MtRecords
<1>3. retired \in Int /\ retired < c BY <1>1 DEF IInv, TypesOK, Bounded
<1>4. \A s \in Slots : Searched(s)' <=> Searched(s) \/ mt[s].gen = c + 1
  BY <1>1, <1>2, <1>3 DEF Searched
<1>5. \A s \in Slots : mt[s].gen = c + 1 => mt[s].tuples = Empty
  BY <1>1 DEF IInv, StatesOK, StateOK
<1>6. \A s \in Slots : Searched(s) => ~(c + 1 < mt[s].gen)
  BY <1>1, <1>2 DEF Searched
<1>7. \A k \in UserKeys : latest[k] \in Nat
  BY DEF IInv, TypesOK, Bounded, NatMaps
<1>8. \A k \in UserKeys : \A s \in Slots :
        mt[s].gen = c + 1 => mt[s].tuples[k] = 0 /\ 0 <= latest[k]
  BY <1>5, <1>7, EmptyMap
<1>9. \A s, r \in Slots : mt[s].gen = c + 1 /\ mt[r].gen = c + 1 =>
                            ~(mt[r].gen < mt[s].gen)
  BY <1>1
<1> SUFFICES ASSUME NEW k \in UserKeys
    PROVE  /\ trunk[k] <= latest[k]
           /\ \A s \in Slots : Searched(s)' =>
                 /\ mt[s].tuples[k] <= latest[k]
                 /\ mt[s].tuples[k] # 0 => trunk[k] <= mt[s].tuples[k]
                 /\ \A r \in Slots :
                       Searched(r)' /\ mt[r].gen < mt[s].gen /\ mt[s].tuples[k] # 0 =>
                          mt[r].tuples[k] <= mt[s].tuples[k]
           /\ \/ trunk[k] = latest[k]
              \/ \E s \in Slots : Searched(s)' /\ mt[s].tuples[k] = latest[k]
  BY <1>1 DEF OrderOK
<1>10. /\ trunk[k] <= latest[k]
       /\ \A s \in Slots : Searched(s) =>
             /\ mt[s].tuples[k] <= latest[k]
             /\ mt[s].tuples[k] # 0 => trunk[k] <= mt[s].tuples[k]
             /\ \A r \in Slots :
                   Searched(r) /\ mt[r].gen < mt[s].gen /\ mt[s].tuples[k] # 0 =>
                      mt[r].tuples[k] <= mt[s].tuples[k]
       /\ \/ trunk[k] = latest[k]
          \/ \E s \in Slots : Searched(s) /\ mt[s].tuples[k] = latest[k]
  BY DEF IInv, OrderOK
<1>11. ASSUME NEW s \in Slots, Searched(s)'
       PROVE  /\ mt[s].tuples[k] <= latest[k]
              /\ mt[s].tuples[k] # 0 => trunk[k] <= mt[s].tuples[k]
              /\ \A r \in Slots :
                    Searched(r)' /\ mt[r].gen < mt[s].gen /\ mt[s].tuples[k] # 0 =>
                       mt[r].tuples[k] <= mt[s].tuples[k]
  <2>1. CASE mt[s].gen = c + 1 BY <1>8, <2>1
  <2>2. CASE Searched(s)
    <3>1. ASSUME NEW r \in Slots, Searched(r)', mt[r].gen < mt[s].gen,
                 mt[s].tuples[k] # 0
          PROVE  mt[r].tuples[k] <= mt[s].tuples[k]
      <4>1. mt[r].gen # c + 1 BY <1>6, <2>2, <3>1
      <4>2. Searched(r) BY <1>4, <3>1, <4>1
      <4> QED BY <1>10, <2>2, <3>1, <4>2
    <3> QED BY <1>10, <2>2, <3>1
  <2> QED BY <1>4, <1>11, <2>1, <2>2
<1> QED BY <1>4, <1>10, <1>11

\* Moving on keeps the invariant: a rotation found the next memtable ready,
\* and after a close nobody inserts into it.
LEMMA AdvanceKeeps ==
    ASSUME IInv, NEW c \in Gens, Advances(c), ~Shut, ~is_empty,
           mt[Slot(c)].gen = c, mt[Slot(c)].state \in {"READY", "FINALIZED"},
           mt' \in [Slots -> MtRecords], mt'[Slot(c)].state = "FINALIZED",
           \A s \in Slots : /\ mt'[s].gen = mt[s].gen /\ mt'[s].ref = mt[s].ref
                            /\ mt'[s].tuples = mt[s].tuples
                            /\ mt'[s].count = mt[s].count
                            /\ s # Slot(c) => mt'[s] = mt[s],
           op' \in [Threads -> OpRecords],
           \A u \in Threads : op'[u] = op[u] \/ (op[u].pc = "advance" /\ op'[u].pc = "begin"),
           \A u \in Threads : op'[u].hold = op[u].hold,
           \A u \in Threads : op'[u].pc \notin {"rotate", "lock", "advance", "insert"},
           open' \in {"open", "closing", "closed"},
           mt[Slot(c + 1)].gen = c + 1 \/ Shut',
           Shut' => \A u \in Threads : op'[u].pc = "idle"
    PROVE  IInv'
<1> DEFINE q == Slot(c)
<1>1. /\ c = generation /\ generation' = c + 1 /\ is_empty' = TRUE
      /\ UNCHANGED <<to_incorporate, retired, cmt, branch, trunk, prepared, super,
                     clean, latest, inserts>>
  BY DEF Advances
<1>2. /\ task' \in [Gens -> TaskRecords]
      /\ task'[c].pc = "queued" /\ task'[c].gen = c /\ task[c].pc = "none"
      /\ \A i \in Gens : i # c => task'[i] = task[i]
      /\ \A i \in Gens : Incorporates(i)' <=> Incorporates(i)
      /\ \A i \in Gens : task'[i].pc \notin {"none", "queued"} => task'[i] = task[i]
      /\ \A i \in Gens : task[i].pc # "none" => task'[i] = task[i]
      /\ c \in Nat
  BY AdvanceTask
<1>3. /\ q \in Slots /\ retired \in Int /\ retired < c /\ -1 <= retired
      /\ generation \in Nat /\ N \in Nat /\ N > 0
  BY <1>1, <1>2, SlotType, CoreAssumption DEF IInv, TypesOK, Bounded
<1>4. \A s \in Slots : mt[s].gen \in Nat BY DEF IInv, TypesOK, Typed, MtRecords
<1>5. \A s \in Slots : mt[s].gen = c => s = q BY DEF IInv, WindowOK
<1>6. mt[q].tuples # Empty
  BY <1>1, <1>3 DEF IInv, StatesOK, StateOK
<1> HIDE DEF q
<1>7. TypesOK'
  <2>1. Bounded' BY <1>1, <1>2, <1>3 DEF IInv, TypesOK, Bounded
  <2>2. Typed' BY <1>1, <1>2 DEF IInv, TypesOK, Typed
  <2> QED BY <2>1, <2>2 DEF TypesOK
<1>8. CountOK'
  <2>1. Pending' = Pending BY DEF Pending, InsertPcs
  <2>2. Cardinality(Pending) \in Nat BY ThreadsFinite DEF Pending
  <2>3. inserts \in Nat /\ inserts <= MaxInserts
        /\ generation + 1 + Cardinality(Pending) <= inserts
    BY DEF IInv, CountOK
  <2> QED BY <1>1, <1>2, <2>1, <2>2, <2>3 DEF CountOK
<1>9. LifeOK' BY <1>1 DEF IInv, LifeOK, Shut
<1>10. WindowOK'
  <2>1. ASSUME NEW s \in Slots
        PROVE  /\ Slot(mt'[s].gen) = s
               /\ mt'[s].gen <= retired' + N
               /\ generation' - N <= mt'[s].gen
               /\ ~Shut' => generation' - N < mt'[s].gen
    <3>1. /\ Slot(mt[s].gen) = s /\ mt[s].gen <= retired + N
          /\ c - N < mt[s].gen /\ mt'[s].gen = mt[s].gen
      BY <1>1 DEF IInv, WindowOK
    <3>2. (c + 1) - N <= mt[s].gen BY <1>2, <1>3, <1>4, <3>1
    <3>3. ~Shut' => (c + 1) - N # mt[s].gen
      <4> SUFFICES ASSUME mt[Slot(c + 1)].gen = c + 1, (c + 1) - N = mt[s].gen
                   PROVE  FALSE
        OBVIOUS
      <4>1. c + 1 \in Nat /\ c + 1 = mt[s].gen + N BY <1>2, <1>3, <1>4
      <4>2. Slot(c + 1) = s BY <1>4, <3>1, <4>1, NextSlot
      <4> QED BY <1>3, <1>4, <4>1, <4>2
    <3>4. ASSUME NEW x \in Int, NEW y \in Int, x <= y, x # y PROVE x < y
      BY <3>4
    <3>5. (c + 1) - N \in Int /\ mt[s].gen \in Int BY <1>2, <1>3, <1>4
    <3>6. ~Shut' => (c + 1) - N < mt[s].gen BY <3>2, <3>3, <3>4, <3>5
    <3>7. generation' - N = (c + 1) - N /\ retired' + N = retired + N
      <4>1. generation' = c + 1 /\ retired' = retired BY <1>1
      <4> QED BY <4>1
    <3>8. Slot(mt'[s].gen) = s /\ mt'[s].gen <= retired' + N BY <3>1, <3>7
    <3>9. generation' - N <= mt'[s].gen BY <3>1, <3>2, <3>7
    <3>10. ~Shut' => generation' - N < mt'[s].gen BY <3>1, <3>6, <3>7
    <3> QED BY <3>8, <3>9, <3>10
  <2>2. ASSUME NEW i \in Gens, retired' < i, i < generation'
        PROVE  Mt(i)'.gen = i
    <3>1. i \in Nat /\ Slot(i) \in Slots BY GenType
    <3>2. i < generation => mt[Slot(i)].gen = i BY <1>1, <2>2 DEF IInv, WindowOK, Mt
    <3>3. i = c => mt[Slot(i)].gen = i OBVIOUS
    <3> QED BY <1>1, <1>2, <2>2, <3>1, <3>2, <3>3 DEF Mt
  <2>3. ~Shut' => Mt(generation)'.gen = generation'
    <3> HAVE ~Shut'
    <3>1. Slot(c + 1) \in Slots BY <1>2, SlotType
    <3> QED BY <1>1, <3>1 DEF Mt
  <2> QED BY <2>1, <2>2, <2>3 DEF WindowOK
<1>11. StatesOK'
  <2>1. ~Advancing' BY DEF Advancing
  <2>2. ASSUME NEW s \in Slots PROVE StateOK(s)'
    <3>1. StateOK(s) BY DEF IInv, StatesOK
    <3>2. CASE s = q
      <4>1. mt'[s].gen = c /\ mt'[s].state = "FINALIZED" /\ mt'[s].tuples # Empty
        BY <1>3, <1>6, <3>2 DEF q
      <4> QED BY <1>1, <1>2, <1>3, <4>1 DEF StateOK
    <3>3. CASE s # q
      <4>1. mt'[s] = mt[s] /\ mt[s].gen # c BY <1>5, <3>3 DEF q
      <4>2. CASE mt[s].gen < c
        <5>1. mt[s].gen \in Gens BY <1>1, <4>2, EarlierGen
        <5>2. task'[mt[s].gen] = task[mt[s].gen] BY <1>2, <4>1, <5>1
        <5>3. \A i \in Gens :
                task[i].pc \in {"prepare", "release", "block", "commit"} =>
                task'[i] = task[i]
          BY <1>2
        <5>4. ~(mt[s].gen > c + 1) /\ mt[s].gen # c + 1 /\ mt[s].gen < c + 1
          BY <1>2, <1>4, <4>2
        <5> QED BY <1>1, <3>1, <4>1, <4>2, <5>2, <5>3, <5>4 DEF StateOK
      <4>3. CASE mt[s].gen > c
        <5>1. ~(mt[s].gen < c + 1) /\ ~(mt[s].gen <= retired)
          BY <1>2, <1>3, <1>4, <4>3
        <5> QED BY <1>1, <2>1, <3>1, <4>1, <4>3, <5>1 DEF StateOK
      <4> QED BY <1>2, <1>4, <4>1, <4>2, <4>3
    <3> QED BY <3>2, <3>3
  <2> QED BY <2>2 DEF StatesOK
<1>12. TasksOK' BY <1>3, AdvanceTasks DEF q
<1>13. InsertersOK' BY DEF InsertersOK
<1>14. ContentOK'
  <2>1. \A s \in Slots : mt'[s].state \in {"COMPACTED", "ASSIGNED"} => mt'[s] = mt[s]
    BY DEF q
  <2>2. \A i \in Gens : task'[i].pc \in {"release", "block", "commit"} =>
                          task'[i] = task[i]
    BY <1>2
  <2>3. Slot(to_incorporate) \in Slots BY SlotType DEF IInv, TypesOK, Bounded
  <2>4. Mt(to_incorporate)'.tuples = Mt(to_incorporate).tuples
    BY <1>1, <2>3 DEF Mt
  <2> QED BY <1>1, <2>1, <2>2, <2>4 DEF IInv, ContentOK
<1>15. OrderOK' BY AdvanceOrder
<1>16. \A i \in Gens : /\ Mt(i)'.gen = Mt(i).gen
                       /\ Mt(i)'.tuples = Mt(i).tuples
                       /\ Mt(i)'.state \in PackedStates <=> Mt(i).state \in PackedStates
  BY GenType DEF Mt, PackedStates
<1>17. HoldsOK'
  <2>1. ASSUME NEW u \in Threads, NEW o \in op'[u].hold
        PROVE  IF o.packed
               THEN /\ o.gen < c + 1
                    /\ o.gen <= retired \/ Mt(o.gen)'.state \in PackedStates
               ELSE Mt(o.gen)'.gen = o.gen
    <3>1. o \in op[u].hold OBVIOUS
    <3>2. o.gen \in Gens BY <3>1 DEF IInv, TypesOK, Typed, OpRecords
    <3>3. IF o.packed
          THEN /\ o.gen < generation
               /\ o.gen <= retired \/ Mt(o.gen).state \in PackedStates
          ELSE Mt(o.gen).gen = o.gen
      BY <3>1 DEF IInv, HoldsOK, PackedStates
    <3>4. ASSUME o.gen < generation PROVE o.gen < c + 1
      <4>1. o.gen \in Nat BY <3>2, GenType
      <4>2. o.gen < c BY <1>1, <3>4
      <4> HIDE <3>4
      <4> QED BY <1>2, <4>1, <4>2
    <3> QED BY <1>16, <3>2, <3>3, <3>4
  <2> QED BY <1>1, <2>1 DEF HoldsOK, PackedStates
<1>18. RefsOK'
  <2>1. \A g : Users(g)' = Users(g) /\ Packers(g)' = Packers(g)
    BY DEF Users, Packers
  <2>2. \A g : (Own(g)' => Own(g)) /\ (RootOwn(g)' => RootOwn(g))
    BY <1>1, <1>2 DEF Own, RootOwn
  <2>3. \A g \in Gens : BranchOwn(g)' <=> BranchOwn(g)
    BY <1>16 DEF BranchOwn, Packed, PackedStates
  <2>4. ASSUME NEW s \in Slots, NEW d, d = mt[s].gen
        PROVE  Cardinality(Users(d)') + (IF Own(d)' THEN 1 ELSE 0) <= mt'[s].ref
    <3>1. Own(d)' => Own(d) BY <2>2
    <3>2. Users(d)' = Users(d) BY <2>1
    <3> QED BY <2>4, <3>1, <3>2, MtCount
  <2>5. \A s \in Slots : MtRefOK(s)' BY <2>4 DEF MtRefOK, Users, Own
  <2>6. \A i \in Gens : BranchRefOK(i)'
    <3> TAKE i \in Gens
    <3>1. (BranchOwn(i)' <=> BranchOwn(i)) /\ (RootOwn(i)' => RootOwn(i))
          /\ Packers(i)' = Packers(i) /\ branch'[i].refs = branch[i].refs
      BY <1>1, <2>1, <2>2, <2>3
    <3> QED BY <3>1, BranchCount DEF BranchRefOK
  <2> QED BY <2>5, <2>6 DEF RefsOK
<1>19. ReadersOK'
  <2>1. ASSUME NEW u \in Threads, op'[u].pc = "begin" PROVE ReaderOK(u)'
    BY <2>1, NoReader DEF ReaderPcs
  <2>2. ASSUME NEW u \in Threads, op'[u] = op[u] PROVE ReaderOK(u)'
    <3>1. ReaderOK(u) BY DEF IInv, ReadersOK
    <3>2. \A k : Ahead(u, k)' <=> Ahead(u, k) BY <1>1, <2>2 DEF Ahead
    <3>3. \A k : Held(u, k)' <=> Held(u, k)
      <4>1. \A o \in op[u].hold : o.gen \in Gens
        BY DEF IInv, TypesOK, Typed, OpRecords
      <4> QED BY <1>1, <1>16, <2>2, <4>1 DEF Held
    <3>4. op[u].gen \in Int BY DEF IInv, TypesOK, Typed, OpRecords
    <3>5. op[u].gen <= generation => op[u].gen <= generation'
      BY <1>1, <1>2, <3>4
    <3> QED BY <1>1, <2>2, <3>1, <3>2, <3>3, <3>5 DEF ReaderOK
  <2> QED BY <2>1, <2>2 DEF ReadersOK
<1> QED
  BY <1>7, <1>8, <1>9, <1>10, <1>11, <1>12, <1>13, <1>14, <1>15, <1>17, <1>18,
     <1>19 DEF IInv

\* A rotation moves on to the next generation.
LEMMA RotateAdvanceKeeps ==
    ASSUME IInv, NEW t \in Threads, RotateAdvance(t)
    PROVE  IInv'
<1> DEFINE q == Slot(generation)
<1>1. op[t].pc = "advance" BY DEF RotateAdvance, At
<1>2. /\ op[t].gen = generation /\ ~Shut /\ q \in Slots /\ mt[q].gen = generation
      /\ generation \in Gens
  BY <1>1, CurrentMemtable
<1>3. /\ Mt(generation).count > 0 /\ Mt(generation + 1).gen = generation + 1
      /\ \A u \in Threads : u # t => op[u].pc \notin {"rotate", "lock", "advance", "insert"}
  BY <1>1 DEF IInv, InsertersOK
<1>4. StateOK(q) /\ Advancing BY <1>1, <1>2 DEF IInv, StatesOK, Advancing
<1>5. mt[q].state = "FINALIZED" /\ mt[q].tuples # Empty
  BY <1>2, <1>3, <1>4 DEF StateOK, Mt
<1>6. ~is_empty BY <1>2, <1>4, <1>5 DEF StateOK
<1>7. InsertMoves(t, "begin") BY MoveOp DEF RotateAdvance, OpPcs
<1>8. Advances(generation) /\ UNCHANGED <<mt, open>>
  BY <1>2 DEF RotateAdvance, Advances, Flush, store, life
<1>9. mt \in [Slots -> MtRecords] /\ open \in {"open", "closing", "closed"}
  BY DEF IInv, TypesOK, Typed, Bounded
<1>10. /\ op' \in [Threads -> OpRecords]
       /\ \A u \in Threads : op'[u] = op[u] \/ (op[u].pc = "advance" /\ op'[u].pc = "begin")
       /\ \A u \in Threads : op'[u].hold = op[u].hold
       /\ \A u \in Threads : op'[u].pc \notin {"rotate", "lock", "advance", "insert"}
  BY <1>1, <1>3, <1>7 DEF InsertMoves
<1>11. ~Shut' BY <1>2, <1>8 DEF Shut, Advances
<1>12. PICK c \in Gens : c = generation BY <1>2
<1>13. mt[Slot(c + 1)].gen = c + 1 BY <1>3, <1>12 DEF Mt
<1>14. Advances(c) /\ mt[Slot(c)].gen = c /\ mt[Slot(c)].state = "FINALIZED"
  BY <1>2, <1>5, <1>8, <1>12
<1> QED
  BY <1>2, <1>6, <1>8, <1>9, <1>10, <1>11, <1>13, <1>14, AdvanceKeeps

\* What memtable_insert changes: the tuple of key k in slot q is v now.
Inserted(q, k, v) ==
    /\ mt' \in [Slots -> MtRecords]
    /\ \A s \in Slots : /\ mt'[s].gen = mt[s].gen /\ mt'[s].ref = mt[s].ref
                        /\ mt'[s].state = mt[s].state
                        /\ s # q => mt'[s] = mt[s]
    /\ mt'[q].count > 0 /\ mt'[q].tuples # Empty
    /\ mt'[q].tuples[k] = v
    /\ \A j \in UserKeys : j # k => mt'[q].tuples[j] = mt[q].tuples[j]

\* The assignment does that.
LEMMA InsertedBy ==
    ASSUME IInv, NEW q \in Slots, NEW k \in UserKeys, NEW v \in Nat \ {0},
           mt' = [mt EXCEPT ![q].tuples[k] = v, ![q].count = @ + 1]
    PROVE  Inserted(q, k, v)
<1> DEFINE f == [mt[q].tuples EXCEPT ![k] = v]
           m == [mt[q] EXCEPT !.tuples = f, !.count = mt[q].count + 1]
<1>1. mt \in [Slots -> MtRecords] /\ mt[q] \in MtRecords
  BY DEF IInv, TypesOK, Typed
<1>2. mt[q].tuples \in NatMaps /\ mt[q].count \in Nat BY <1>1 DEF MtRecords
<1>3. f \in NatMaps /\ f[k] = v /\ \A j \in UserKeys : j # k => f[j] = mt[q].tuples[j]
  BY <1>2 DEF NatMaps
<1>4. f # Empty BY <1>3, EmptyMap
<1>5. mt' = [mt EXCEPT ![q] = m] BY <1>1 DEF MtRecords
<1> HIDE DEF f
<1>6. /\ m \in MtRecords /\ m.gen = mt[q].gen /\ m.ref = mt[q].ref
      /\ m.state = mt[q].state /\ m.tuples = f /\ m.count = mt[q].count + 1
  BY <1>1, <1>2, <1>3 DEF MtRecords
<1>7. m.count > 0 BY <1>2, <1>6
<1> HIDE DEF m
<1>8. mt' \in [Slots -> MtRecords] /\ mt'[q] = m
      /\ \A s \in Slots : s # q => mt'[s] = mt[s]
  BY <1>1, <1>5, <1>6
<1> QED BY <1>3, <1>4, <1>6, <1>7, <1>8 DEF Inserted

\* The new value is the newest of its key.
LEMMA InsertedOrder ==
    ASSUME IInv, NEW q \in Slots, NEW k \in UserKeys, NEW v \in Nat, v = latest[k] + 1,
           Inserted(q, k, v), mt[q].gen = generation, ~Shut,
           latest' = [latest EXCEPT ![k] = v],
           UNCHANGED <<generation, retired, trunk>>,
           \A s \in Slots : s # q => mt[s].gen # generation
    PROVE  /\ OrderOK'
           /\ \A s \in Slots : \A j \in UserKeys :
                 Searched(s) \/ s # q => mt'[s].tuples[j] >= mt[s].tuples[j]
<1>1. /\ \A s \in Slots : mt'[s].gen = mt[s].gen /\ (s # q => mt'[s] = mt[s])
      /\ mt'[q].tuples[k] = v
      /\ \A j \in UserKeys : j # k => mt'[q].tuples[j] = mt[q].tuples[j]
  BY DEF Inserted
<1>2. /\ generation \in Nat /\ retired \in Int /\ retired < generation
      /\ latest \in NatMaps /\ trunk \in NatMaps
  BY DEF IInv, TypesOK, Bounded
<1>3. \A s \in Slots : mt[s].gen \in Nat /\ mt[s].tuples \in NatMaps
  BY DEF IInv, TypesOK, Typed, MtRecords
<1>4. \A j \in UserKeys : latest[j] \in Nat /\ trunk[j] \in Nat
        /\ \A s \in Slots : mt[s].tuples[j] \in Nat
  BY <1>2, <1>3 DEF NatMaps
<1>5. latest'[k] = v /\ \A j \in UserKeys : j # k => latest'[j] = latest[j]
  BY <1>2 DEF NatMaps
<1>6. \A s \in Slots : Searched(s)' <=> Searched(s) BY <1>1 DEF Searched
<1>7. Searched(q) BY <1>2, <1>3 DEF Searched
<1>8. \A s \in Slots : Searched(s) => ~(mt[q].gen < mt[s].gen)
  BY <1>2, <1>3 DEF Searched
<1>9. ASSUME NEW j \in UserKeys
      PROVE  /\ trunk[j] <= latest[j]
             /\ \A s \in Slots : Searched(s) =>
                   /\ mt[s].tuples[j] <= latest[j]
                   /\ mt[s].tuples[j] # 0 => trunk[j] <= mt[s].tuples[j]
                   /\ \A r \in Slots :
                         Searched(r) /\ mt[r].gen < mt[s].gen /\ mt[s].tuples[j] # 0 =>
                            mt[r].tuples[j] <= mt[s].tuples[j]
             /\ \/ trunk[j] = latest[j]
                \/ \E s \in Slots : Searched(s) /\ mt[s].tuples[j] = latest[j]
  BY DEF IInv, OrderOK
<1>10. ASSUME NEW j \in UserKeys, NEW s \in Slots, Searched(s) \/ s # q
       PROVE  mt'[s].tuples[j] >= mt[s].tuples[j]
  <2>1. CASE s # q BY <1>1, <1>4, <2>1
  <2>2. CASE j # k BY <1>1, <1>4, <2>1, <2>2
  <2>3. CASE s = q /\ j = k
    <3>1. mt[q].tuples[k] <= latest[k] BY <1>7, <1>9
    <3> QED BY <1>1, <1>4, <2>3, <3>1
  <2> QED BY <2>1, <2>2, <2>3
<1>11. ASSUME NEW j \in UserKeys
       PROVE  /\ trunk[j] <= latest'[j]
              /\ \A s \in Slots : Searched(s) =>
                    /\ mt'[s].tuples[j] <= latest'[j]
                    /\ mt'[s].tuples[j] # 0 => trunk[j] <= mt'[s].tuples[j]
                    /\ \A r \in Slots :
                          Searched(r) /\ mt[r].gen < mt[s].gen /\ mt'[s].tuples[j] # 0 =>
                             mt'[r].tuples[j] <= mt'[s].tuples[j]
              /\ \/ trunk[j] = latest'[j]
                 \/ \E s \in Slots : Searched(s) /\ mt'[s].tuples[j] = latest'[j]
  <2>1. CASE j # k
    <3>1. \A s \in Slots : mt'[s].tuples[j] = mt[s].tuples[j] BY <1>1, <2>1
    <3> QED BY <1>5, <1>9, <2>1, <3>1
  <2>2. CASE j = k
    <3>1. \A x \in Nat : x <= latest[k] => x <= v BY <1>4
    <3>2. trunk[k] <= v BY <1>4, <1>9, <3>1
    <3>3. \A s \in Slots : Searched(s) => mt'[s].tuples[k] <= v
      <4> TAKE s \in Slots
      <4>1. CASE s = q BY <1>1, <4>1
      <4>2. CASE s # q BY <1>1, <1>4, <1>9, <3>1, <4>2
      <4> QED BY <4>1, <4>2
    <3>4. ASSUME NEW s \in Slots, Searched(s), mt'[s].tuples[k] # 0
          PROVE  /\ trunk[k] <= mt'[s].tuples[k]
                 /\ \A r \in Slots : Searched(r) /\ mt[r].gen < mt[s].gen =>
                       mt'[r].tuples[k] <= mt'[s].tuples[k]
      <4>1. CASE s = q BY <1>1, <3>2, <3>3, <4>1
      <4>2. CASE s # q
        <5>1. mt'[s] = mt[s] BY <1>1, <4>2
        <5>2. trunk[k] <= mt'[s].tuples[k] BY <1>9, <3>4, <5>1
        <5>3. ASSUME NEW r \in Slots, Searched(r), mt[r].gen < mt[s].gen
              PROVE  mt'[r].tuples[k] <= mt'[s].tuples[k]
          <6>1. r # q BY <1>8, <3>4, <5>3
          <6> QED BY <1>1, <1>9, <3>4, <5>1, <5>3, <6>1
        <5> QED BY <5>2, <5>3
      <4> QED BY <4>1, <4>2
    <3> QED BY <1>1, <1>5, <1>7, <2>2, <3>2, <3>3, <3>4
  <2> QED BY <2>1, <2>2
<1>12. OrderOK' BY <1>1, <1>6, <1>11 DEF OrderOK
<1> QED BY <1>10, <1>12

\* memtable_insert: the memtable of the current generation gets the tuple.
LEMMA MemtableInsertKeeps ==
    ASSUME IInv, NEW t \in Threads, MemtableInsert(t)
    PROVE  IInv'
<1> DEFINE q == Slot(generation)
           k == op[t].key
           v == latest[k] + 1
<1>1. op[t].pc = "insert" BY DEF MemtableInsert, At
<1>2. /\ op[t].gen = generation /\ generation \in Nat /\ ~Shut
      /\ q \in Slots /\ mt[q].gen = generation
      /\ retired \in Int /\ retired < generation
      /\ \A s \in Slots : s # q => mt[s].gen # generation
  BY <1>1, CurrentMemtable
<1>3. k \in UserKeys /\ latest \in NatMaps
  BY DEF IInv, TypesOK, Bounded, Typed, OpRecords
<1>4. v \in Nat \ {0} /\ latest[k] \in Nat BY <1>3 DEF NatMaps
<1>5. /\ mt' = [mt EXCEPT ![q].tuples[k] = v, ![q].count = @ + 1]
      /\ is_empty' = FALSE /\ latest' = [latest EXCEPT ![k] = v]
  BY <1>2 DEF MemtableInsert
<1>6. UNCHANGED <<generation, to_incorporate, retired, cmt, branch, trunk, prepared,
                  task, super, open, clean, inserts>>
  BY DEF MemtableInsert, life
<1>7. InsertMoves(t, "end") BY MoveOp DEF MemtableInsert, OpPcs
<1>8. /\ op' \in [Threads -> OpRecords] /\ op'[t].pc = "end"
      /\ \A u \in Threads : u # t => op'[u] = op[u]
      /\ \A u \in Threads : op'[u].hold = op[u].hold
  BY <1>7 DEF InsertMoves
<1>9. ~Advancing /\ ~Advancing'
  BY <1>1, <1>8 DEF IInv, InsertersOK, Advancing
<1>10. mt[q].state = "READY" BY <1>2, <1>9 DEF IInv, StatesOK, StateOK
<1> HIDE DEF q, v, k
<1>11. Inserted(q, k, v) BY <1>2, <1>3, <1>4, <1>5, InsertedBy
<1>12. /\ mt' \in [Slots -> MtRecords]
       /\ \A s \in Slots : /\ mt'[s].gen = mt[s].gen /\ mt'[s].ref = mt[s].ref
                           /\ mt'[s].state = mt[s].state
                           /\ s # q => mt'[s] = mt[s]
       /\ mt'[q].count > 0 /\ mt'[q].tuples # Empty
  BY <1>11 DEF Inserted
<1>13. TypesOK'
  <2>1. latest' \in NatMaps BY <1>3, <1>4, <1>5 DEF NatMaps
  <2>2. Bounded' BY <1>5, <1>6, <2>1 DEF IInv, TypesOK, Bounded
  <2>3. Typed' BY <1>6, <1>8, <1>12 DEF IInv, TypesOK, Typed
  <2> QED BY <2>2, <2>3 DEF TypesOK
<1>14. CountOK'
  <2>1. Pending' = Pending \ {t} /\ t \in Pending
    BY <1>1, <1>8 DEF Pending, InsertPcs
  <2>2. IsFiniteSet(Pending) /\ Cardinality(Pending) \in Nat
    BY ThreadsFinite DEF Pending
  <2>3. Cardinality(Pending \ {t}) = Cardinality(Pending) - 1
    BY <2>1, <2>2, FS_RemoveElement
  <2>4. inserts \in Nat /\ inserts <= MaxInserts
        /\ generation + (IF is_empty THEN 0 ELSE 1) + Cardinality(Pending) <= inserts
    BY DEF IInv, CountOK
  <2>5. generation + 1 + (Cardinality(Pending) - 1) <= inserts
    BY <1>2, <2>2, <2>4
  <2> QED BY <1>5, <1>6, <2>1, <2>3, <2>4, <2>5 DEF CountOK
<1>15. ~Shut' BY <1>2, <1>6 DEF Shut
<1>16. LifeOK' BY <1>2, <1>6, <1>15 DEF IInv, LifeOK, Shut
<1>17. \A i \in Gens : Mt(i)'.gen = Mt(i).gen /\ Mt(i)'.state = Mt(i).state
  BY <1>12, GenType DEF Mt
<1>18. WindowOK'
  <2>1. Mt(generation)'.gen = generation BY <1>2, <1>6, <1>12 DEF Mt, q
  <2> QED BY <1>2, <1>6, <1>12, <1>15, <1>17, <2>1 DEF IInv, WindowOK
<1>19. StatesOK'
  <2>1. ASSUME NEW s \in Slots PROVE StateOK(s)'
    <3>1. StateOK(s) BY DEF IInv, StatesOK
    <3>2. CASE s = q
      <4>1. ~(generation <= retired) BY <1>2
      <4> QED BY <1>2, <1>5, <1>6, <1>9, <1>10, <1>12, <3>2, <4>1 DEF StateOK
    <3>3. CASE s # q
      BY <1>2, <1>6, <1>12, <3>1, <3>3 DEF StateOK
    <3> QED BY <3>2, <3>3
  <2> QED BY <2>1 DEF StatesOK
<1>20. TasksOK'
  <2>1. Slot(to_incorporate) \in Slots /\ to_incorporate \in Nat
    BY SlotType DEF IInv, TypesOK, Bounded
  <2>2. mt'[Slot(to_incorporate)].state = mt[Slot(to_incorporate)].state
    BY <1>12, <2>1
  <2>3. ASSUME NEW i \in Gens PROVE TaskOK(i)'
    <3>1. TaskOK(i) BY DEF IInv, TasksOK
    <3>2. task[i].pc = "recycle" => Mt(retired)'.gen = Mt(retired).gen
      <4> HAVE task[i].pc = "recycle"
      <4>1. retired \in Nat BY <2>1, <3>1 DEF TaskOK, AfterCommit
      <4> QED BY <1>6, <1>12, <4>1, SlotType DEF Mt
    <3> QED BY <1>6, <1>17, <2>2, <3>1, <3>2 DEF TaskOK, Mt
  <2>4. \A i : Incorporates(i)' <=> Incorporates(i) BY <1>6 DEF Incorporates
  <2>5. (\A i \in Gens : ~Incorporates(i)) =>
          \/ /\ to_incorporate = retired + 1
             /\ to_incorporate < generation =>
                   task[to_incorporate].pc \in {"queued", "compact", "start"}
          \/ Shut /\ generation = retired + 1
    BY DEF IInv, TasksOK
  <2>6. \A i, j \in Gens : Incorporates(i) /\ Incorporates(j) => i = j
    BY DEF IInv, TasksOK
  <2> QED BY <1>2, <1>6, <2>3, <2>4, <2>5, <2>6 DEF TasksOK
<1>21. InsertersOK'
  <2>1. Slot(generation + 1) \in Slots BY <1>2, SlotType
  <2>2. /\ Mt(generation)'.count > 0
        /\ Mt(generation + 1)'.gen = Mt(generation + 1).gen
    BY <1>2, <1>6, <1>12, <2>1 DEF Mt, q
  <2>3. InsertersOK BY DEF IInv
  <2>4. \A u \in Threads : op'[u].pc # "advance" BY <1>9 DEF Advancing
  <2> QED BY <1>1, <1>6, <1>8, <2>2, <2>3, <2>4 DEF InsertersOK
<1>22. ContentOK'
  <2>1. Slot(to_incorporate) \in Slots BY SlotType DEF IInv, TypesOK, Bounded
  <2>2. \A s \in Slots : mt'[s].state \in {"COMPACTED", "ASSIGNED"} => mt'[s] = mt[s]
    BY <1>10, <1>12
  <2>3. ASSUME NEW i \in Gens, task[i].pc \in {"release", "block", "commit"}
        PROVE  Mt(to_incorporate)' = Mt(to_incorporate)
    <3>1. Mt(to_incorporate).state = "ASSIGNED"
      BY <2>3 DEF IInv, TasksOK, TaskOK, BeforeCommit
    <3> QED BY <1>6, <1>10, <1>12, <2>1, <3>1 DEF Mt
  <2> QED BY <1>6, <2>2, <2>3 DEF IInv, ContentOK
<1>23. /\ OrderOK'
       /\ \A s \in Slots : \A j \in UserKeys :
             Searched(s) \/ s # q => mt'[s].tuples[j] >= mt[s].tuples[j]
  BY <1>2, <1>3, <1>4, <1>5, <1>6, <1>11, InsertedOrder DEF v
<1>24. HoldsOK'
  <2>1. \A u \in Threads : \A o \in op[u].hold : o.gen \in Gens
    BY DEF IInv, TypesOK, Typed, OpRecords
  <2> QED BY <1>6, <1>8, <1>17, <2>1 DEF IInv, HoldsOK
<1>25. RefsOK'
  <2>1. \A g : Users(g)' = Users(g) /\ Packers(g)' = Packers(g)
    BY <1>7, SameHolders
  <2>2. \A g : (Own(g)' <=> Own(g)) /\ (RootOwn(g)' <=> RootOwn(g))
    BY <1>6 DEF Own, RootOwn
  <2>3. \A g \in Gens : BranchOwn(g)' <=> BranchOwn(g)
    BY <1>17 DEF BranchOwn, Packed
  <2>4. ASSUME NEW s \in Slots, NEW d, d = mt[s].gen
        PROVE  Cardinality(Users(d)') + (IF Own(d)' THEN 1 ELSE 0) <= mt'[s].ref
    BY <1>12, <2>1, <2>2, <2>4, MtCount
  <2>5. \A s \in Slots : MtRefOK(s)' BY <1>12, <2>4 DEF MtRefOK, Users, Own
  <2>6. \A i \in Gens : BranchRefOK(i)'
    BY <1>6, <2>1, <2>2, <2>3 DEF IInv, RefsOK, BranchRefOK
  <2> QED BY <2>5, <2>6 DEF RefsOK
<1>26. ReadersOK'
  <2>1. ReaderOK(t)' BY <1>8, NoReader DEF ReaderPcs
  <2>2. Searched(q) BY <1>2 DEF Searched
  <2>3. \A s \in Slots : \A j \in UserKeys : mt'[s].tuples[j] >= mt[s].tuples[j]
    BY <1>23, <2>2
  <2>4. \A s \in Slots : \A j \in UserKeys :
          mt[s].tuples[j] \in Nat /\ mt'[s].tuples[j] \in Nat
    BY <1>12 DEF IInv, TypesOK, Typed, MtRecords, NatMaps
  <2>5. ASSUME NEW u \in Threads, u # t PROVE ReaderOK(u)'
    <3>1. ReaderOK(u) /\ op'[u] = op[u] BY <1>8, <2>5 DEF IInv, ReadersOK
    <3>2. \A j \in UserKeys : op[u].floor[j] \in Nat
      BY DEF IInv, TypesOK, Typed, OpRecords, NatMaps
    <3>3. \A s \in Slots : \A j \in UserKeys :
            mt[s].tuples[j] >= op[u].floor[j] => mt'[s].tuples[j] >= op[u].floor[j]
      BY <2>3, <2>4, <3>2
    <3>4. \A j \in UserKeys : Ahead(u, j) => Ahead(u, j)'
      BY <1>6, <1>12, <3>1, <3>3 DEF Ahead
    <3>5. \A j \in UserKeys : Held(u, j) => Held(u, j)'
      <4>1. \A o \in op[u].hold : Slot(o.gen) \in Slots
        BY GenType DEF IInv, TypesOK, Typed, OpRecords
      <4> QED BY <1>6, <3>1, <3>3, <4>1 DEF Held, Mt
    <3>6. op[u].key \in UserKeys BY DEF IInv, TypesOK, Typed, OpRecords
    <3> QED BY <1>6, <3>1, <3>4, <3>5, <3>6 DEF ReaderOK
  <2> QED BY <2>1, <2>5 DEF ReadersOK
<1> QED
  BY <1>13, <1>14, <1>16, <1>18, <1>19, <1>20, <1>21, <1>22, <1>23, <1>24, <1>25,
     <1>26 DEF IInv

-----------------------------------------------------------------------------
(* Closing and opening                                                     *)

\* A step that only opens or closes the database.
LEMMA LifeKeeps ==
    ASSUME IInv, LifeOK', Shut => Shut',
           UNCHANGED <<ctxt, store, task, op, latest, inserts>>,
           open' \in {"open", "closing", "closed"}, clean' \in BOOLEAN,
           super' \in [root : NatMaps, unmounted : BOOLEAN]
    PROVE  IInv'
<1>1. UNCHANGED <<generation, to_incorporate, retired, is_empty, mt, cmt, branch,
                  trunk, prepared, task, op, latest, inserts>>
  BY DEF ctxt, store
<1>2. TypesOK' BY <1>1 DEF IInv, TypesOK, Bounded, Typed
<1>3. CountOK' BY <1>1 DEF IInv, CountOK, Pending
<1>4. WindowOK'
  <2>1. \A s \in Slots : /\ Slot(mt'[s].gen) = s
                         /\ mt'[s].gen <= retired' + N
                         /\ generation' - N <= mt'[s].gen
                         /\ ~Shut' => generation' - N < mt'[s].gen
    BY <1>1 DEF IInv, WindowOK
  <2>2. \A i \in Gens : retired' < i /\ i < generation' => Mt(i)'.gen = i
    BY <1>1 DEF IInv, WindowOK, Mt
  <2>3. ~Shut' => Mt(generation)'.gen = generation'
    BY <1>1 DEF IInv, WindowOK, Mt
  <2> QED BY <2>1, <2>2, <2>3 DEF WindowOK
<1>5. StatesOK'
  <2>1. Advancing' <=> Advancing BY <1>1 DEF Advancing
  <2>2. ASSUME NEW s \in Slots PROVE StateOK(s)'
    <3>1. StateOK(s) BY DEF IInv, StatesOK
    <3> QED BY <1>1, <2>1, <3>1 DEF StateOK
  <2> QED BY <2>2 DEF StatesOK
<1>6. TasksOK'
  <2>1. \A i : Incorporates(i)' <=> Incorporates(i) BY <1>1 DEF Incorporates
  <2>2. ASSUME NEW i \in Gens PROVE TaskOK(i)'
    <3>1. TaskOK(i) BY DEF IInv, TasksOK
    <3> QED BY <1>1, <3>1 DEF TaskOK, Mt
  <2>3. /\ \A i, j \in Gens : Incorporates(i) /\ Incorporates(j) => i = j
        /\ (\A i \in Gens : ~Incorporates(i)) =>
             \/ /\ to_incorporate = retired + 1
                /\ to_incorporate < generation =>
                      task[to_incorporate].pc \in {"queued", "compact", "start"}
             \/ Shut /\ generation = retired + 1
    BY DEF IInv, TasksOK
  <2> QED BY <1>1, <2>1, <2>2, <2>3 DEF TasksOK
<1>7. InsertersOK' BY <1>1 DEF IInv, InsertersOK, Mt
<1>8. ContentOK' BY <1>1 DEF IInv, ContentOK, Mt
<1>9. OrderOK' BY <1>1 DEF IInv, OrderOK, Searched
<1>10. HoldsOK' BY <1>1 DEF IInv, HoldsOK, Mt
<1>11. RefsOK'
  <2>1. \A s \in Slots : MtRefOK(s)'
    BY <1>1 DEF IInv, RefsOK, MtRefOK, Users, Own
  <2>2. \A i \in Gens : BranchRefOK(i)'
    BY <1>1 DEF IInv, RefsOK, BranchRefOK, Packers, BranchOwn, RootOwn, Packed, Mt
  <2> QED BY <2>1, <2>2 DEF RefsOK
<1>12. ReadersOK'
  BY <1>1 DEF IInv, ReadersOK, ReaderOK, Ahead, Held, Mt
<1> QED
  BY <1>2, <1>3, <1>4, <1>5, <1>6, <1>7, <1>8, <1>9, <1>10, <1>11, <1>12 DEF IInv

\* The process ends: the super block does not say unmounted.
LEMMA CrashKeeps == ASSUME IInv, Crash PROVE IInv'
<1>1. ~clean /\ ~Shut /\ ~super.unmounted BY DEF Crash, IInv, LifeOK, Shut
<1>2. ~Shut' BY DEF Crash, Shut
<1>3. LifeOK' BY <1>1, <1>2 DEF Crash, LifeOK
<1>4. super \in [root : NatMaps, unmounted : BOOLEAN] BY DEF IInv, TypesOK, Bounded
<1> QED BY <1>1, <1>3, <1>4, LifeKeeps DEF Crash

\* Nothing happens.
LEMMA StutterKeeps == ASSUME IInv, UNCHANGED vars PROVE IInv'
<1>1. Shut => Shut' BY DEF Shut, vars, life
<1>2. UNCHANGED <<task, op, super, open, clean, is_empty, latest>>
  BY DEF vars, ctxt, life
<1>3. LifeOK' BY <1>2 DEF IInv, LifeOK, Shut
<1>4. /\ super \in [root : NatMaps, unmounted : BOOLEAN] /\ clean \in BOOLEAN
      /\ open \in {"open", "closing", "closed"}
  BY DEF IInv, TypesOK, Bounded
<1> QED BY <1>1, <1>2, <1>3, <1>4, LifeKeeps DEF vars

\* When the tasks of a database that is being closed are done, all its
\* memtables are in the trunk.
LEMMA AllIncorporated ==
    ASSUME IInv, Shut, Quiescent
    PROVE  trunk = latest
<1>1. /\ generation \in Nat /\ to_incorporate \in Nat /\ retired \in Int
      /\ retired < generation /\ trunk \in NatMaps /\ latest \in NatMaps
  BY DEF IInv, TypesOK, Bounded
<1>2. \A i \in Gens : ~Incorporates(i)
  BY DEF Quiescent, Incorporates, BeforeCommit, AfterCommit
<1>3. generation = retired + 1
  <2>1. CASE to_incorporate = retired + 1 /\ to_incorporate < generation
    <3>1. to_incorporate \in Gens BY <1>1, <2>1, GenBound
    <3> QED BY <1>2, <2>1, <3>1 DEF IInv, TasksOK, Quiescent
  <2>2. CASE to_incorporate = retired + 1 /\ ~(to_incorporate < generation)
    BY <1>1, <2>2
  <2>3. to_incorporate = retired + 1 \/ generation = retired + 1
    BY <1>2 DEF IInv, TasksOK
  <2> QED BY <2>1, <2>2, <2>3
<1>4. is_empty BY DEF IInv, LifeOK
<1>5. \A s \in Slots : Searched(s) => mt[s].tuples = Empty
  <2> SUFFICES ASSUME NEW s \in Slots, Searched(s) PROVE mt[s].tuples = Empty
    OBVIOUS
  <2>1. mt[s].gen \in Nat BY DEF IInv, TypesOK, Typed, MtRecords
  <2>2. mt[s].gen = generation BY <1>1, <1>3, <2>1 DEF Searched
  <2> QED BY <1>4, <2>2 DEF IInv, StatesOK, StateOK
<1>6. ASSUME NEW k \in UserKeys PROVE trunk[k] = latest[k]
  <2>1. trunk[k] \in Nat /\ latest[k] \in Nat BY <1>1 DEF NatMaps
  <2>2. trunk[k] <= latest[k] BY DEF IInv, OrderOK
  <2>3. \/ trunk[k] = latest[k]
        \/ \E s \in Slots : Searched(s) /\ mt[s].tuples[k] = latest[k]
    BY DEF IInv, OrderOK
  <2>4. trunk[k] = latest[k] \/ latest[k] = 0 BY <1>5, <2>3, EmptyMap
  <2> QED BY <2>1, <2>2, <2>4
<1> QED BY <1>1, <1>6 DEF NatMaps

\* core_unmount writes a super block that has everything.
LEMMA UnmountKeeps == ASSUME IInv, Unmount PROVE IInv'
<1>1. Shut /\ Shut' BY DEF Unmount, Shut
<1>2. trunk = latest BY <1>1, AllIncorporated DEF Unmount
<1>3. /\ UNCHANGED <<task, op, is_empty, latest, trunk>>
      /\ open' = "closed" /\ clean' = TRUE
      /\ super' = [root |-> trunk, unmounted |-> TRUE]
  BY DEF Unmount, SuperBlock, ctxt, store
<1>4. trunk \in NatMaps BY DEF IInv, TypesOK, Bounded
<1>5. is_empty /\ \A u \in Threads : op[u].pc = "idle" BY <1>1 DEF IInv, LifeOK
<1>6. super'.root = trunk /\ super'.unmounted
      /\ super' \in [root : NatMaps, unmounted : BOOLEAN]
  BY <1>3, <1>4
<1>7. \A g \in Gens : task[g].pc \in {"none", "done"} BY DEF Unmount, Quiescent
<1>8. UNCHANGED <<ctxt, store, task, op, latest, inserts>> BY DEF Unmount
<1>9. LifeOK' BY <1>2, <1>3, <1>5, <1>6, <1>7 DEF LifeOK
<1>10. clean' \in BOOLEAN /\ open' \in {"open", "closing", "closed"} BY <1>3
<1> QED BY <1>1, <1>6, <1>8, <1>9, <1>10, LifeKeeps

\* core_prepare_for_shutdown, with and without a memtable to flush.
LEMMA PrepareForShutdownKeeps == ASSUME IInv, PrepareForShutdown PROVE IInv'
<1>1. /\ open = "open" /\ open' = "closing" /\ Shut'
      /\ \A u \in Threads : op[u].pc = "idle"
      /\ UNCHANGED <<cmt, branch, trunk, prepared, op, super, latest, inserts, clean>>
  BY DEF PrepareForShutdown, Shut, Idle, At
<1>2. ~Shut /\ ~clean BY <1>1 DEF IInv, LifeOK, Shut
<1>3. /\ generation \in Nat /\ super \in [root : NatMaps, unmounted : BOOLEAN]
      /\ clean \in BOOLEAN
  BY DEF IInv, TypesOK, Bounded
<1>4. CASE is_empty /\ UNCHANGED <<ctxt, mt, task>>
  <2>1. LifeOK' BY <1>1, <1>2, <1>4 DEF IInv, LifeOK, ctxt
  <2> QED BY <1>1, <1>2, <1>3, <1>4, <2>1, LifeKeeps DEF store
<1>5. CASE ~is_empty /\ ForceFinalize /\ Flush(generation)
  <2>1. PICK c \in Gens : c = generation BY <1>3, GenBound
  <2>2. Advances(c) BY <1>1, <1>5, <2>1 DEF Advances, ForceFinalize, Flush
  <2>3. Slot(c) \in Slots BY <2>1, <1>3, SlotType
  <2>4. mt[Slot(c)].gen = c BY <1>2, <2>1 DEF IInv, WindowOK, Mt
  <2>5. mt[Slot(c)].state = "READY" BY <1>5, <2>1 DEF ForceFinalize, Mt
  <2>6. mt' = [mt EXCEPT ![Slot(c)].state = "FINALIZED"]
    BY <1>5, <2>1 DEF ForceFinalize
  <2>7. /\ SameMemtables /\ mt'[Slot(c)].state = "FINALIZED"
        /\ \A s \in Slots : s # Slot(c) => mt'[s].state = mt[s].state
    BY <2>3, <2>6, StateSet DEF States
  <2>8. \A s \in Slots : s # Slot(c) => mt'[s] = mt[s] BY <2>6 DEF IInv, TypesOK, Typed
  <2>9. /\ mt' \in [Slots -> MtRecords]
        /\ \A s \in Slots : /\ mt'[s].gen = mt[s].gen /\ mt'[s].ref = mt[s].ref
                            /\ mt'[s].tuples = mt[s].tuples
                            /\ mt'[s].count = mt[s].count
                            /\ s # Slot(c) => mt'[s] = mt[s]
    BY <2>7, <2>8 DEF SameMemtables
  <2>10. /\ op' \in [Threads -> OpRecords]
         /\ \A u \in Threads : op'[u] = op[u] /\ op'[u].pc = "idle"
    BY <1>1 DEF IInv, TypesOK, Typed
  <2> QED
    BY <1>1, <1>2, <1>5, <2>2, <2>4, <2>5, <2>7, <2>9, <2>10, AdvanceKeeps
<1> QED BY <1>4, <1>5 DEF PrepareForShutdown

-----------------------------------------------------------------------------
(* Every step keeps the invariant                                          *)

\* The steps of flush tasks and of the trunk.
LEMMA FlushKeeps ==
    ASSUME IInv, NEW g \in Gens, FlushStep(g) \/ TrunkDrop(g)
    PROVE  IInv'
<1>1. CASE CompactBegin(g) BY <1>1, CompactBeginKeeps
<1>2. CASE CompactEnd(g) BY <1>2, CompactEndKeeps
<1>3. CASE TryStart(g) BY <1>3, TryStartKeeps
<1>4. CASE Prepare(g) BY <1>4, PrepareKeeps
<1>5. CASE ReleaseBranch(g) BY <1>5, ReleaseBranchKeeps
<1>6. CASE BlockLookups(g) BY <1>6, BlockLookupsKeeps
<1>7. CASE Commit(g) BY <1>7, CommitKeeps
<1>8. CASE Recycle(g) BY <1>8, RecycleKeeps
<1>9. CASE TryContinue(g) BY <1>9, TryContinueKeeps
<1>10. CASE TrunkDrop(g) BY <1>10, TrunkDropKeeps
<1> QED
  BY <1>1, <1>2, <1>3, <1>4, <1>5, <1>6, <1>7, <1>8, <1>9, <1>10 DEF FlushStep

\* The steps of inserts.
LEMMA InsertKeeps ==
    ASSUME IInv, NEW t \in Threads,
           \/ InsertBegin(t) \/ RotateClaim(t) \/ RotateFinalize(t)
           \/ RotateAdvance(t) \/ MemtableInsert(t) \/ EndInsert(t)
    PROVE  IInv'
<1>1. CASE InsertBegin(t) BY <1>1, InsertBeginKeeps
<1>2. CASE RotateClaim(t) BY <1>2, RotateClaimKeeps
<1>3. CASE RotateFinalize(t) BY <1>3, RotateFinalizeKeeps
<1>4. CASE RotateAdvance(t) BY <1>4, RotateAdvanceKeeps
<1>5. CASE MemtableInsert(t) BY <1>5, MemtableInsertKeeps
<1>6. CASE EndInsert(t) BY <1>6, EndInsertKeeps
<1> QED BY <1>1, <1>2, <1>3, <1>4, <1>5, <1>6

\* The steps of lookups and iterators.
LEMMA ReadKeeps ==
    ASSUME IInv, NEW t \in Threads,
           \/ LookupStep(t) \/ Return(t) \/ IterBegin(t) \/ IterCollect(t)
           \/ IterRoot(t) \/ IterClose(t) \/ IterRelease(t) \/ IterEnd(t)
    PROVE  IInv'
<1>1. CASE LookupStep(t)
  BY <1>1, LookupMemtableKeeps, LookupRootKeeps, LookupTrunkKeeps DEF LookupStep
<1>2. CASE Return(t) \/ IterEnd(t) BY <1>2, ReturnKeeps
<1>3. CASE IterBegin(t) BY <1>3, IterBeginKeeps
<1>4. CASE IterCollect(t) BY <1>4, IterCollectKeeps
<1>5. CASE IterRoot(t) BY <1>5, IterRootKeeps
<1>6. CASE IterClose(t) BY <1>6, IterCloseKeeps
<1>7. CASE IterRelease(t) BY <1>7, IterReleaseKeeps
<1> QED BY <1>1, <1>2, <1>3, <1>4, <1>5, <1>6, <1>7

\* All steps.
LEMMA NextKeeps == ASSUME IInv, [Next]_vars PROVE IInv'
<1>1. CASE UNCHANGED vars BY <1>1, StutterKeeps
<1>2. ASSUME NEW t \in Threads, NEW k \in UserKeys, InsertCall(t, k) \/ LookupBegin(t, k)
      PROVE  IInv'
  BY <1>2, InsertCallKeeps, LookupBeginKeeps
<1>3. ASSUME NEW t \in Threads,
             \/ InsertBegin(t) \/ RotateClaim(t) \/ RotateFinalize(t)
             \/ RotateAdvance(t) \/ MemtableInsert(t) \/ EndInsert(t)
      PROVE  IInv'
  BY <1>3, InsertKeeps
<1>4. ASSUME NEW t \in Threads,
             \/ LookupStep(t) \/ Return(t) \/ IterBegin(t) \/ IterCollect(t)
             \/ IterRoot(t) \/ IterClose(t) \/ IterRelease(t) \/ IterEnd(t)
      PROVE  IInv'
  BY <1>4, ReadKeeps
<1>5. ASSUME NEW g \in Gens, FlushStep(g) \/ TrunkDrop(g) PROVE IInv'
  BY <1>5, FlushKeeps
<1>6. CASE PrepareForShutdown BY <1>6, PrepareForShutdownKeeps
<1>7. CASE Unmount BY <1>7, UnmountKeeps
<1>8. CASE Crash BY <1>8, CrashKeeps
<1>9. CASE Mount BY <1>9, MountKeeps
<1>10. CASE Stopped BY <1>10, StutterKeeps DEF Stopped
<1> QED
  BY <1>1, <1>2, <1>3, <1>4, <1>5, <1>6, <1>7, <1>8, <1>9, <1>10 DEF Next

-----------------------------------------------------------------------------
(* What the invariant says of lookups and iterators                        *)

\* A set of natural numbers has a least one.
LEMMA LeastNatural ==
    ASSUME NEW T \in SUBSET Nat, T # {}
    PROVE  \E x \in T : \A y \in T : x <= y
<1> DEFINE R == OpToRel(<, Nat)
<1>1. IsWellFoundedOn(R, Nat) BY NatLessThanWellFounded
<1>2. \A x, y \in Nat : <<y, x>> \in R <=> y < x BY DEF OpToRel
<1> HIDE DEF R
<1>3. \E x \in T : \A y \in T : ~(<<y, x>> \in R) BY <1>1, WFMin
<1>4. PICK x \in T : \A y \in T : ~(<<y, x>> \in R) BY <1>3
<1>5. \A y \in T : x <= y
  <2> TAKE y \in T
  <2>1. ~(y < x) BY <1>2, <1>4
  <2>2. x \in Nat /\ y \in Nat OBVIOUS
  <2> QED BY <2>1, <2>2
<1> QED BY <1>5

\* A set of numbers with an upper bound has a greatest one.
LEMMA Greatest ==
    ASSUME NEW S \in SUBSET Int, S # {}, NEW b \in Int, \A x \in S : x <= b
    PROVE  \E m \in S : \A x \in S : x <= m
<1> DEFINE T == {b - x : x \in S}
<1>1. T \in SUBSET Nat
  <2> SUFFICES ASSUME NEW x \in S PROVE b - x \in Nat OBVIOUS
  <2>1. x \in Int /\ x <= b OBVIOUS
  <2> QED BY <2>1
<1>2. PICK a \in S : TRUE OBVIOUS
<1>3. b - a \in T OBVIOUS
<1>4. T # {} BY <1>3
<1> HIDE DEF T
<1>5. PICK d \in T : \A y \in T : d <= y BY <1>1, <1>4, LeastNatural
<1>6. PICK m \in S : d = b - m BY DEF T
<1>7. \A x \in S : b - m <= b - x BY <1>5, <1>6 DEF T
<1>8. \A x \in S : x <= m
  <2> TAKE x \in S
  <2>1. x \in Int /\ m \in Int /\ b - m <= b - x BY <1>7
  <2> QED BY <2>1
<1> QED BY <1>8

\* A lookup finds the last insert of every key.
LEMMA SearchFinds ==
    ASSUME IInv, ~Shut, NEW k \in UserKeys
    PROVE  Search(k) = latest[k]
<1> DEFINE W == retired + 1 .. generation
           found(g) == Tree(g, Packed(g))[k]
           hits == {g \in W : found(g) # 0}
           newest == CHOOSE g \in hits : \A o \in hits : o <= g
<1>1. /\ generation \in Nat /\ retired \in Int
      /\ trunk[k] \in Nat /\ latest[k] \in Nat
  BY DEF IInv, TypesOK, Bounded, NatMaps
<1>2. \A s \in Slots : mt[s].gen \in Nat /\ mt[s].tuples[k] \in Nat
  BY DEF IInv, TypesOK, Typed, MtRecords, NatMaps
<1>3. /\ trunk[k] <= latest[k]
      /\ \A s \in Slots : Searched(s) =>
            /\ mt[s].tuples[k] <= latest[k]
            /\ mt[s].tuples[k] # 0 => trunk[k] <= mt[s].tuples[k]
            /\ \A r \in Slots :
                  Searched(r) /\ mt[r].gen < mt[s].gen /\ mt[s].tuples[k] # 0 =>
                     mt[r].tuples[k] <= mt[s].tuples[k]
      /\ \/ trunk[k] = latest[k]
         \/ \E s \in Slots : Searched(s) /\ mt[s].tuples[k] = latest[k]
  BY DEF IInv, OrderOK
<1>4. ASSUME NEW g \in W
      PROVE  /\ g \in Int /\ Slot(g) \in Slots /\ mt[Slot(g)].gen = g
             /\ Searched(Slot(g)) /\ found(g) = mt[Slot(g)].tuples[k]
  <2>1. g \in Int /\ retired < g /\ g <= generation BY <1>1
  <2> QED BY <2>1, InWindow
<1>5. ASSUME NEW s \in Slots, Searched(s)
      PROVE  /\ mt[s].gen \in W /\ Slot(mt[s].gen) = s
             /\ found(mt[s].gen) = mt[s].tuples[k]
  <2>1. mt[s].gen \in W BY <1>1, <1>2, <1>5 DEF Searched
  <2>2. Slot(mt[s].gen) = s BY DEF IInv, WindowOK
  <2> QED BY <1>4, <2>1, <2>2
<1>6. Search(k) = IF hits = {} THEN trunk[k] ELSE found(newest)
  BY DEF Search
<1> HIDE DEF found
<1>7. CASE hits = {}
  <2>1. \A s \in Slots : Searched(s) => mt[s].tuples[k] = 0 BY <1>5, <1>7
  <2>2. trunk[k] = latest[k] BY <1>1, <1>3, <2>1
  <2> QED BY <1>6, <1>7, <2>2
<1>8. CASE hits # {}
  <2>1. hits \in SUBSET Int /\ \A g \in hits : g <= generation BY <1>1
  <2>2. \E m \in hits : \A o \in hits : o <= m
    <3> HIDE DEF hits
    <3>1. /\ generation \in Int /\ hits \in SUBSET Int /\ hits # {}
          /\ \A g \in hits : g <= generation
      BY <1>1, <1>8, <2>1
    <3> QED BY <3>1, Greatest
  <2>3. newest \in hits /\ \A o \in hits : o <= newest
    <3> HIDE DEF hits
    <3> QED BY <2>2
  <2> HIDE DEF newest
  <2> DEFINE s == Slot(newest)
  <2>4. /\ s \in Slots /\ Searched(s) /\ mt[s].gen = newest
        /\ found(newest) = mt[s].tuples[k] /\ mt[s].tuples[k] # 0
    BY <1>4, <2>3
  <2> HIDE DEF s
  <2>5. mt[s].tuples[k] <= latest[k] /\ trunk[k] <= mt[s].tuples[k] BY <1>3, <2>4
  <2>6. ASSUME NEW r \in Slots, Searched(r), mt[r].tuples[k] = latest[k]
        PROVE  latest[k] <= mt[s].tuples[k]
    <3>1. CASE latest[k] = 0 BY <1>2, <2>4, <3>1
    <3>2. CASE mt[r].gen = newest
      <4>1. r = s BY <1>5, <2>6, <3>2 DEF s
      <4> QED BY <1>1, <2>6, <4>1
    <3>3. CASE latest[k] # 0 /\ mt[r].gen # newest
      <4>1. mt[r].gen \in hits BY <1>5, <2>6, <3>3
      <4>2. mt[r].gen <= newest BY <2>3, <4>1
      <4>3. mt[r].gen < mt[s].gen BY <1>2, <2>4, <3>3, <4>2
      <4> QED BY <1>3, <2>4, <2>6, <4>3
    <3> QED BY <3>1, <3>2, <3>3
  <2>7. latest[k] <= mt[s].tuples[k] BY <1>3, <2>5, <2>6
  <2>8. mt[s].tuples[k] = latest[k] BY <1>1, <1>2, <2>4, <2>5, <2>7
  <2> QED BY <1>6, <1>8, <2>4, <2>8
<1> QED BY <1>7, <1>8

\* An iterator's branches are referenced, and its memtables not recycled.
LEMMA HeldLives ==
    ASSUME IInv, NEW t \in Threads, NEW h \in op[t].hold
    PROVE  IF h.packed THEN branch[h.gen].refs > 0 ELSE Mt(h.gen).gen = h.gen
<1>1. h \in [gen : Gens, packed : BOOLEAN]
  BY DEF IInv, TypesOK, Typed, OpRecords
<1>2. CASE ~h.packed BY <1>2 DEF IInv, HoldsOK
<1>3. CASE h.packed
  <2> DEFINE g == h.gen
  <2>1. g \in Gens /\ h = [gen |-> g, packed |-> TRUE] BY <1>1, <1>3
  <2>2. t \in Packers(g) BY <2>1 DEF Packers
  <2>3. IsFiniteSet(Packers(g)) /\ Cardinality(Packers(g)) \in Nat
    BY ThreadsFinite DEF Packers
  <2>4. Cardinality(Packers(g)) # 0 BY <2>2, <2>3, FS_EmptySet
  <2>5. /\ branch[g].refs \in Nat
        /\ Cardinality(Packers(g)) + (IF BranchOwn(g) THEN 1 ELSE 0)
             + (IF RootOwn(g) THEN 1 ELSE 0) <= branch[g].refs
    BY <2>1, BranchCount
  <2> HIDE DEF g
  <2>6. branch[g].refs > 0 BY <2>3, <2>4, <2>5
  <2> QED BY <1>3, <2>6 DEF g
<1> QED BY <1>2, <1>3

\* What core_get_memtable, memtable_ok_to_lookup and the search of a
\* compacted memtable assert.
LEMMA ReaderAsserts ==
    ASSUME IInv, NEW t \in Threads, op[t].pc \in {"memtables", "collect"}
    PROVE  /\ op[t].gen - op[t].end <= N
           /\ op[t].gen # op[t].end =>
                 /\ Mt(op[t].gen).gen = op[t].gen
                 /\ Mt(op[t].gen).state # "INCORPORATED"
                 /\ Packed(op[t].gen) => branch[cmt[Slot(op[t].gen)]].refs > 0
<1> DEFINE g == op[t].gen
<1>1. /\ generation \in Nat /\ retired \in Int /\ N \in Nat /\ retired < generation
      /\ Slot(generation) \in Slots
  BY CoreAssumption, SlotType DEF IInv, TypesOK, Bounded
<1>2. g \in Int BY DEF IInv, TypesOK, Typed, OpRecords
<1>3. op[t].end = retired /\ retired <= g /\ g <= generation
  BY DEF IInv, ReadersOK, ReaderOK
<1>4. ~Shut BY NotShut
<1>5. generation <= retired + N
  <2>1. mt[Slot(generation)].gen = generation BY <1>4 DEF IInv, WindowOK, Mt
  <2>2. mt[Slot(generation)].gen <= retired + N BY <1>1 DEF IInv, WindowOK
  <2> QED BY <2>1, <2>2
<1> HIDE DEF g
<1>6. g - op[t].end <= N BY <1>1, <1>2, <1>3, <1>5
<1>7. ASSUME g # op[t].end
      PROVE  /\ Mt(g).gen = g /\ Mt(g).state # "INCORPORATED"
             /\ Packed(g) => branch[cmt[Slot(g)]].refs > 0
  <2>1. retired < g BY <1>1, <1>2, <1>3, <1>7
  <2>2. g \in Gens /\ Slot(g) \in Slots /\ mt[Slot(g)].gen = g
    BY <1>2, <1>3, <1>4, <2>1, InWindow
  <2>3. ~(g <= retired) BY <1>1, <1>2, <2>1
  <2>4. mt[Slot(g)].state # "INCORPORATED"
    BY <2>2, <2>3 DEF IInv, StatesOK, StateOK
  <2>5. ASSUME Packed(g) PROVE branch[cmt[Slot(g)]].refs > 0
    <3>1. cmt[Slot(g)] = g BY <2>2, <2>5 DEF IInv, ContentOK, Packed, Mt
    <3>2. BranchOwn(g) BY <2>2, <2>5 DEF BranchOwn, Mt
    <3>3. /\ branch[g].refs \in Nat /\ Cardinality(Packers(g)) \in Nat
          /\ Cardinality(Packers(g)) + 1 + (IF RootOwn(g) THEN 1 ELSE 0)
               <= branch[g].refs
      BY <2>2, <3>2, BranchCount
    <3>4. branch[g].refs > 0 BY <3>3
    <3> QED BY <3>1, <3>4
  <2> QED BY <2>2, <2>4, <2>5 DEF Mt
<1> QED BY <1>6, <1>7 DEF g

\* What memtable_transition asserts of a rotation, and of an insert.
LEMMA InsertAsserts ==
    ASSUME IInv, NEW t \in Threads
    PROVE  /\ op[t].pc = "lock" => Mt(op[t].gen).state = "READY"
           /\ op[t].pc = "insert" => Mt(op[t].gen).gen = op[t].gen
<1>1. ASSUME op[t].pc \in {"lock", "insert"}
      PROVE  /\ op[t].gen = generation /\ Slot(generation) \in Slots
             /\ mt[Slot(generation)].gen = generation
  BY <1>1, CurrentMemtable
<1>2. ASSUME op[t].pc = "lock" PROVE Mt(op[t].gen).state = "READY"
  <2>1. ~Advancing BY <1>2 DEF IInv, InsertersOK, Advancing
  <2> QED BY <1>1, <1>2, <2>1 DEF IInv, StatesOK, StateOK, Mt
<1> QED BY <1>1, <1>2 DEF Mt

\* What the flush task of generation g asserts on its way.
LEMMA TaskAsserts ==
    ASSUME IInv, NEW g \in Gens, NEW h, h = task[g].gen
    PROVE  /\ task[g].pc = "queued" => Mt(g).gen = g /\ Mt(g).state = "FINALIZED"
           /\ task[g].pc = "compact" => Mt(g).tuples # Empty
           /\ task[g].pc \in BeforeCommit =>
                 /\ Mt(h).gen = h /\ Mt(h).state = "ASSIGNED"
                 /\ retired + 1 = h /\ h = to_incorporate
           /\ task[g].pc = "recycle" => Mt(h).state = "INCORPORATED"
<1>1. TaskOK(g) BY DEF IInv, TasksOK
<1>2. generation \in Nat /\ retired \in Int /\ to_incorporate \in Nat
  BY DEF IInv, TypesOK, Bounded
<1>3. ASSUME task[g].pc \in {"queued", "compact"}
      PROVE  g < generation /\ Slot(g) \in Slots /\ mt[Slot(g)].gen = g
  BY <1>1, <1>3, TaskGen DEF TaskOK
<1>4. task[g].pc = "queued" => Mt(g).gen = g /\ Mt(g).state = "FINALIZED"
  BY <1>1, <1>3 DEF TaskOK, Mt
<1>5. task[g].pc = "compact" => Mt(g).tuples # Empty
  BY <1>3 DEF IInv, StatesOK, StateOK, Mt
<1>6. ASSUME task[g].pc \in BeforeCommit
      PROVE  /\ Mt(h).gen = h /\ Mt(h).state = "ASSIGNED"
             /\ retired + 1 = h /\ h = to_incorporate
  <2>1. /\ h = to_incorporate /\ h = retired + 1 /\ h < generation
        /\ Mt(h).state = "ASSIGNED"
    BY <1>1, <1>6 DEF TaskOK
  <2>2. h \in Gens /\ retired < h BY <1>2, <2>1, GenBound
  <2>3. Mt(h).gen = h BY <2>1, <2>2 DEF IInv, WindowOK
  <2> QED BY <2>1, <2>3
<1>7. ASSUME task[g].pc = "recycle" PROVE Mt(h).state = "INCORPORATED"
  <2>1. h = retired /\ h \in Nat /\ Mt(h).gen = h
    BY <1>1, <1>2, <1>7 DEF TaskOK, AfterCommit
  <2>2. Slot(h) \in Slots BY <2>1, SlotType
  <2> QED BY <2>1, <2>2 DEF IInv, StatesOK, StateOK, Mt
<1> QED BY <1>4, <1>5, <1>6, <1>7

-----------------------------------------------------------------------------
(* Theorems                                                                *)

\* The memtable context, the flush tasks and the readers keep the invariant
\* through inserts, rotations, compactions, incorporations, recycling,
\* lookups, iterators, closing, opening and the end of the process
\* (memtable.c, core.c).
THEOREM IInvHolds == Spec => []IInv
<1>1. Init => IInv BY InitHolds
<1>2. IInv /\ [Next]_vars => IInv' BY NextKeeps
<1> QED BY <1>1, <1>2, PTL DEF Spec

\* While the database is open, core_lookup would find the last insert of
\* every key, whichever memtables are being rotated, packed, incorporated or
\* recycled; after core_unmount and core_mount it still would.
THEOREM ViewIsLatestHolds == Spec => []ViewIsLatest
<1>1. IInv => ViewIsLatest
  <2> SUFFICES ASSUME IInv, open = "open", NEW k \in UserKeys
               PROVE  Search(k) = latest[k]
    BY DEF ViewIsLatest
  <2>1. ~Shut BY DEF IInv, LifeOK, Shut
  <2> QED BY <2>1, SearchFinds
<1> QED BY <1>1, IInvHolds, PTL

\* core_lookup and core_lookup_async, which walk the memtables one at a time
\* and then a snapshot of the trunk, never answer with something older than
\* the last insert before the call.
THEOREM LookupFreshHolds == Spec => []LookupFresh
<1>1. IInv => LookupFresh
  BY DEF IInv, ReadersOK, ReaderOK, LookupFresh, At
<1> QED BY <1>1, IInvHolds, PTL

\* What core_range_iterator_init takes references to is neither recycled by
\* memtable_dec_ref_maybe_recycle nor freed by the trunk while the iterator
\* is open, and shows every insert before the iterator's.
THEOREM IterStableHolds == Spec => []IterStable
<1>1. IInv => IterStable
  <2> SUFFICES ASSUME IInv, NEW t \in Threads
      PROVE  /\ \A h \in op[t].hold :
                   IF h.packed THEN branch[h.gen].refs > 0
                   ELSE Mt(h.gen).gen = h.gen
             /\ At(t, "iterate") => \A k \in UserKeys :
                   op[t].root[k] >= op[t].floor[k] \/ Held(t, k)
    BY DEF IterStable, Held
  <2>1. \A h \in op[t].hold :
           IF h.packed THEN branch[h.gen].refs > 0 ELSE Mt(h.gen).gen = h.gen
    BY HeldLives
  <2>2. At(t, "iterate") => \A k \in UserKeys :
           op[t].root[k] >= op[t].floor[k] \/ Held(t, k)
    BY DEF IInv, ReadersOK, ReaderOK, At
  <2> QED BY <2>1, <2>2
<1> QED BY <1>1, IInvHolds, PTL

\* No assertion of memtable.c and core.c on generations and memtable states
\* that the model evaluates fails, for any number of memtables and threads.
THEOREM AssertionsHoldHolds == Spec => []AssertionsHold
<1>1. IInv => AssertionsHold
  <2> SUFFICES ASSUME IInv PROVE AssertionsHold OBVIOUS
  <2>1. ASSUME NEW t \in Threads
        PROVE  /\ At(t, "memtables") \/ At(t, "collect") =>
                     /\ op[t].gen - op[t].end <= N
                     /\ op[t].gen # op[t].end =>
                           /\ Mt(op[t].gen).gen = op[t].gen
                           /\ Mt(op[t].gen).state # "INCORPORATED"
                           /\ Packed(op[t].gen) =>
                                 branch[cmt[Slot(op[t].gen)]].refs > 0
               /\ At(t, "lock") => Mt(op[t].gen).state = "READY"
               /\ At(t, "insert") => Mt(op[t].gen).gen = op[t].gen
    BY ReaderAsserts, InsertAsserts DEF At
  <2>2. ASSUME NEW g \in Gens
        PROVE  LET h == task[g].gen IN
               /\ task[g].pc = "queued" =>
                     Mt(g).gen = g /\ Mt(g).state = "FINALIZED"
               /\ task[g].pc = "compact" => Mt(g).tuples # Empty
               /\ task[g].pc \in {"prepare", "release", "block", "commit"} =>
                     /\ Mt(h).gen = h /\ Mt(h).state = "ASSIGNED"
                     /\ retired + 1 = h /\ h = to_incorporate
               /\ task[g].pc = "recycle" => Mt(h).state = "INCORPORATED"
    BY TaskAsserts DEF BeforeCommit
  <2> QED BY <2>1, <2>2 DEF AssertionsHold
<1> QED BY <1>1, IInvHolds, PTL
=============================================================================
