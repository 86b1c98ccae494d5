-------------------------- MODULE ShmemHeapProofs --------------------------
(* Proof that memory of the shared segment never belongs to two, for every  *)
(* number of threads, size of the segment and of the array of large         *)
(* fragments, and every set of request sizes.                               *)
(*                                                                          *)
(* FragmentsDisjoint is not inductive: it sees the pieces, not who has them *)
(* (two owners of one piece are one piece), and not that the latest         *)
(* allocation is the last.  IInv adds that every piece has one owner, how   *)
(* the array of large fragments relates to the owners while a fragment is   *)
(* being noted or given back, and what lies below shm_last_alloc.           *)
EXTENDS ShmemHeap, WellFoundedInduction, TLAPS

-----------------------------------------------------------------------------
(* The inductive invariant                                                  *)

\* A piece of the segment, as its owner knows it.
Frag == [addr : Nat, size : Sizes]

\* The calls between two steps: looking for memory, noting a large fragment
\* in the array, and giving a fragment back.
Requests == [pc : {"find", "bump"}, size : Sizes, old : Frag \cup {None}]
Notes    == [pc : {"track"}, addr : Nat, size : {s \in Sizes : Large(s)},
             old : Frag \cup {None}]
Returns  == [pc : {"free", "untrack"}, frag : Frag]

TypeOK ==
    /\ shm_next \in Nat
    /\ shm_last_alloc \in Nat \cup {None}
    /\ frags \in [Slots -> [addr : Nat \cup {None}, size : Nat, free : BOOLEAN]]
    /\ hip \in Nat \cup {None}
    /\ held \in [HeapThreads -> SUBSET Frag]
    /\ call \in [HeapThreads -> {Idle} \cup Requests \cup Notes \cup Returns]

\* The pieces that only the call of t knows.
InCall(t) ==
    IF call[t].pc = "track"
    THEN {[addr |-> call[t].addr, size |-> call[t].size]}
    ELSE IF call[t].pc \in {"free", "untrack"} THEN {call[t].frag} ELSE {}

Apart(f, g) == f.addr + f.size <= g.addr \/ g.addr + g.size <= f.addr

\* A large request is satisfied before the fragment it had is given up.
OldIsHeld ==
    \A t \in HeapThreads :
        call[t].pc \in {"find", "bump", "track"} /\ call[t].old # None =>
            call[t].old \in held[t]

\* Every piece has one owner, who knows it from one place, and no two overlap.
OwnersApart ==
    /\ \A t, u \in HeapThreads : \A f \in held[t], g \in held[u] :
          t # u \/ f # g => Apart(f, g)
    /\ \A t, u \in HeapThreads : \A f \in InCall(t), g \in held[u] : Apart(f, g)
    /\ \A t, u \in HeapThreads : \A f \in InCall(t), g \in InCall(u) :
          t # u => Apart(f, g)

Tracked(i) == frags[i].addr # None

\* The array has large fragments, each once.
SlotsApart ==
    /\ \A i \in Slots : Tracked(i) => frags[i].size \in Sizes /\ Large(frags[i].size)
    /\ \A i, j \in Slots : Tracked(i) /\ Tracked(j) /\ i # j =>
          Apart(frags[i], frags[j])

\* f is the fragment of the array, or the front of it that was asked for.
FrontOf(f, s) == f.addr = s.addr /\ f.size <= s.size

\* A fragment that is in use as the array says may have an owner; a free one
\* and one that the array does not know yet have none in common.
SlotsAndOwners ==
    \A t \in HeapThreads, i \in Slots : Tracked(i) =>
        /\ \A f \in held[t] :
              Apart(f, frags[i]) \/ (~frags[i].free /\ FrontOf(f, frags[i]))
        /\ \A f \in InCall(t) :
              \/ Apart(f, frags[i])
              \/ ~frags[i].free /\ FrontOf(f, frags[i]) /\ call[t].pc # "track"

\* All that was given out is below shm_next ...
Below ==
    /\ \A t \in HeapThreads : \A f \in held[t] \cup InCall(t) :
          f.addr + f.size <= shm_next
    /\ \A i \in Slots : Tracked(i) => frags[i].addr + frags[i].size <= shm_next

\* ... and below the latest allocation, except for that one.  If it is large
\* it reaches up to shm_next.
LatestIsLast ==
    shm_last_alloc # None =>
        /\ \A t \in HeapThreads : \A f \in held[t] \cup InCall(t) :
              f.addr + f.size <= shm_last_alloc \/ f.addr = shm_last_alloc
        /\ \A t \in HeapThreads : call[t].pc = "track" =>
              \/ call[t].addr + call[t].size <= shm_last_alloc
              \/ /\ call[t].addr = shm_last_alloc
                 /\ call[t].addr + call[t].size = shm_next
        /\ \A i \in Slots : Tracked(i) =>
              \/ frags[i].addr + frags[i].size <= shm_last_alloc
              \/ /\ frags[i].addr = shm_last_alloc
                 /\ frags[i].addr + frags[i].size = shm_next

Accounts == /\ ~asserted
            /\ shm_next <= SegmentSize
            /\ used_bytes = shm_next

IInv == /\ TypeOK /\ OldIsHeld /\ OwnersApart /\ SlotsApart /\ SlotsAndOwners
        /\ Below /\ LatestIsLast /\ Accounts

-----------------------------------------------------------------------------
(* Lemmas                                                                   *)

\* A set of slots that is not empty has a first one.
LEMMA FirstIsIn ==
    ASSUME HeapAssumption, NEW S \in SUBSET Slots, S # {}
    PROVE  First(S) \in S
<1> DEFINE R == OpToRel(<, Nat)
<1>1. IsWellFoundedOn(R, Nat) BY NatLessThanWellFounded
<1>2. \A x, y \in Nat : <<y, x>> \in R <=> y < x BY DEF OpToRel
<1> HIDE DEF R
<1>3. S \subseteq Nat BY DEF Slots, HeapAssumption
<1>4. PICK x \in S : \A y \in S : ~(<<y, x>> \in R) BY <1>1, <1>3, WFMin
<1>5. \A y \in S : x <= y
  <2> TAKE y \in S
  <2>1. ~(y < x) BY <1>2, <1>3, <1>4
  <2>2. x \in Nat /\ y \in Nat BY <1>3
  <2> QED BY <2>1, <2>2
<1> QED BY <1>5 DEF First

\* The control point of a call tells its kind.
LEMMA Kinds ==
    ASSUME TypeOK, NEW t \in HeapThreads
    PROVE  /\ call[t].pc \in {"find", "bump"} => call[t] \in Requests
           /\ call[t].pc = "track" => call[t] \in Notes
           /\ call[t].pc \in {"free", "untrack"} => call[t] \in Returns
           /\ call[t] = Idle \/ call[t] \in Requests => InCall(t) = {}
           /\ call[t].pc \in {"idle", "find", "bump", "track", "free", "untrack"}
           /\ InCall(t) \subseteq Frag
<1>1. CASE call[t] = Idle BY <1>1 DEF Idle, InCall
<1>2. CASE call[t] \in Requests BY <1>2 DEF Requests, InCall
<1>3. CASE call[t] \in Notes BY <1>3 DEF Notes, InCall, Idle, Frag, Requests
<1>4. CASE call[t] \in Returns BY <1>4 DEF Returns, InCall, Idle, Requests
<1> QED BY <1>1, <1>2, <1>3, <1>4 DEF TypeOK

\* The sizes and addresses of pieces are numbers, and no piece is empty.
LEMMA FragTyped ==
    ASSUME HeapAssumption, NEW f \in Frag
    PROVE  f.addr \in Nat /\ f.size \in Nat /\ f.size > 0 /\ f.size \in Sizes
<1>1. f.addr \in Nat /\ f.size \in Sizes BY DEF Frag
<1>2. f.size \in Nat /\ f.size # 0 BY <1>1 DEF HeapAssumption
<1>3. f.size > 0 BY <1>2
<1> QED BY <1>1, <1>2, <1>3

\* A call returns with the piece new, that nobody has: it is t's now, and
\* everything else is whose it was.
LEMMA ReturnGives ==
    ASSUME HeapAssumption, TypeOK, OldIsHeld, OwnersApart,
           NEW t \in HeapThreads, NEW addr \in Nat, Return(t, addr),
           call[t].pc \in {"find", "bump", "track"},
           NEW new, new = [addr |-> addr, size |-> call[t].size],
           \A u \in HeapThreads : \A g \in held[u] : Apart(new, g),
           \A u \in HeapThreads \ {t} : \A g \in InCall(u) : Apart(new, g)
    PROVE  /\ held' \in [HeapThreads -> SUBSET Frag]
           /\ call' \in [HeapThreads -> {Idle} \cup Requests \cup Notes \cup Returns]
           /\ OldIsHeld' /\ OwnersApart'
           /\ new \in Frag
           /\ \A u \in HeapThreads : \A f \in held[u]' :
                 f \in held[u] \/ (u = t /\ f = new)
           /\ \A u \in HeapThreads : \A f \in InCall(u)' :
                 (u = t /\ f \in held[u]) \/ (u # t /\ f \in InCall(u))
           /\ call[t]'.pc # "track"
           /\ \A u \in HeapThreads \ {t} : call[u]' = call[u]
<1> DEFINE old == call[t].old
<1>1. /\ call[t].size \in Sizes
      /\ old \in Frag \cup {None}
      /\ old # None => old \in held[t]
  <2>1. call[t] \in Requests \/ call[t] \in Notes BY Kinds
  <2> QED BY <2>1 DEF Requests, Notes, OldIsHeld
<1>2. new \in Frag BY <1>1 DEF Frag
<1>3. new.addr \in Nat /\ new.size \in Nat /\ new.size > 0 BY <1>2, FragTyped
<1>4. new \notin held[t]
  <2> SUFFICES ASSUME new \in held[t] PROVE FALSE OBVIOUS
  <2>1. Apart(new, new) OBVIOUS
  <2> QED BY <2>1, <1>3 DEF Apart
<1>5. /\ held' = [held EXCEPT ![t] = (@ \cup {new}) \ {old}]
      /\ \/ old = None /\ call' = [call EXCEPT ![t] = Idle]
         \/ /\ old # None
            /\ call' = [call EXCEPT ![t] = [pc |-> "free", frag |-> old]]
  BY DEF Return, Set, BeginFree
<1>6. held' \in [HeapThreads -> SUBSET Frag] BY <1>2, <1>5 DEF TypeOK
<1>7. call' \in [HeapThreads -> {Idle} \cup Requests \cup Notes \cup Returns]
  <2>1. CASE old = None BY <2>1, <1>5 DEF TypeOK
  <2>2. CASE old # None
    <3>1. [pc |-> "free", frag |-> old] \in Returns BY <2>2, <1>1 DEF Returns
    <3> QED BY <2>2, <3>1, <1>5 DEF TypeOK
  <2> QED BY <2>1, <2>2
<1>8. \A u \in HeapThreads \ {t} :
         call[u]' = call[u] /\ held[u]' = held[u] /\ InCall(u)' = InCall(u)
  BY <1>5 DEF TypeOK, InCall
<1>9. call[t]'.pc \in {"idle", "free"} BY <1>5 DEF TypeOK, Idle
<1>10. held[t]' = (held[t] \cup {new}) \ {old} BY <1>5 DEF TypeOK
<1>11. \A f \in InCall(t)' : f = old /\ old # None
  <2>1. CASE old = None
    <3>1. call[t]'.pc = "idle" BY <2>1, <1>5 DEF TypeOK, Idle
    <3> QED BY <3>1 DEF InCall
  <2>2. CASE old # None
    <3>1. call[t]' = [pc |-> "free", frag |-> old] BY <2>2, <1>5 DEF TypeOK
    <3>2. call[t]'.pc = "free" /\ call[t]'.frag = old BY <3>1
    <3> QED BY <2>2, <3>2 DEF InCall
  <2> QED BY <2>1, <2>2
<1>12. OldIsHeld' BY <1>8, <1>9 DEF OldIsHeld
<1>13. OwnersApart'
  <2>1. ASSUME NEW u \in HeapThreads, NEW w \in HeapThreads, NEW f \in held[u]',
               NEW g \in held[w]', u # w \/ f # g
        PROVE  Apart(f, g)
    <3>1. f \in held[u] \/ (u = t /\ f = new) BY <1>8, <1>10
    <3>2. g \in held[w] \/ (w = t /\ g = new) BY <1>8, <1>10
    <3>3. CASE f \in held[u] /\ g \in held[w] BY <3>3, <2>1 DEF OwnersApart
    <3>4. CASE f \in held[u] /\ g = new BY <3>4 DEF Apart
    <3>5. CASE f = new /\ g \in held[w] BY <3>5
    <3> QED BY <2>1, <3>1, <3>2, <3>3, <3>4, <3>5
  <2>2. ASSUME NEW u \in HeapThreads, NEW w \in HeapThreads, NEW f \in InCall(u)',
               NEW g \in held[w]'
        PROVE  Apart(f, g)
    <3>1. g \in held[w] \/ (w = t /\ g = new) BY <1>8, <1>10
    <3>2. CASE u # t
      <4>1. f \in InCall(u) BY <3>2, <1>8
      <4>2. CASE g \in held[w] BY <4>1, <4>2 DEF OwnersApart
      <4>3. CASE g = new BY <4>1, <4>3, <3>2 DEF Apart
      <4> QED BY <3>1, <4>2, <4>3
    <3>3. CASE u = t
      <4>1. f = old /\ f \in held[t] BY <3>3, <1>11, <1>1
      <4>2. CASE g \in held[w] /\ w = t
        <5>1. g # f BY <4>1, <4>2, <1>10
        <5> QED BY <4>1, <4>2, <5>1 DEF OwnersApart
      <4>3. CASE g \in held[w] /\ w # t BY <4>1, <4>3 DEF OwnersApart
      <4>4. CASE g = new BY <4>1, <4>4 DEF Apart
      <4> QED BY <3>1, <4>2, <4>3, <4>4
    <3> QED BY <3>2, <3>3
  <2>3. ASSUME NEW u \in HeapThreads, NEW w \in HeapThreads, NEW f \in InCall(u)',
               NEW g \in InCall(w)', u # w
        PROVE  Apart(f, g)
    <3>1. CASE u # t /\ w # t BY <3>1, <2>3, <1>8 DEF OwnersApart
    <3>2. CASE u = t
      <4>1. f \in held[t] BY <3>2, <1>11, <1>1
      <4>2. g \in InCall(w) BY <3>2, <2>3, <1>8
      <4>3. Apart(g, f) BY <4>1, <4>2 DEF OwnersApart
      <4> QED BY <4>3 DEF Apart
    <3>3. CASE w = t
      <4>1. g \in held[t] BY <3>3, <1>11, <1>1
      <4>2. f \in InCall(u) BY <3>3, <2>3, <1>8
      <4> QED BY <4>1, <4>2 DEF OwnersApart
    <3> QED BY <3>1, <3>2, <3>3
  <2> QED BY <2>1, <2>2, <2>3 DEF OwnersApart, Apart
<1>14. \A u \in HeapThreads : \A f \in held[u]' :
          f \in held[u] \/ (u = t /\ f = new)
  BY <1>8, <1>10
<1>15. \A u \in HeapThreads : \A f \in InCall(u)' :
          (u = t /\ f \in held[u]) \/ (u # t /\ f \in InCall(u))
  BY <1>1, <1>8, <1>11
<1> QED BY <1>2, <1>6, <1>7, <1>8, <1>9, <1>12, <1>13, <1>14, <1>15

\* The fragments of the array are pieces, too.
LEMMA SlotTyped ==
    ASSUME HeapAssumption, TypeOK, SlotsApart, NEW i \in Slots, Tracked(i)
    PROVE  /\ frags[i].addr \in Nat /\ frags[i].size \in Nat
           /\ frags[i].size > 0 /\ frags[i].size \in Sizes
           /\ frags[i].size >= SHM_LARGE_FRAG_SIZE
<1>1. frags[i] \in [addr : Nat \cup {None}, size : Nat, free : BOOLEAN]
  BY DEF TypeOK
<1>2. frags[i].addr \in Nat BY <1>1 DEF Tracked
<1>3. frags[i].size \in Sizes /\ Large(frags[i].size) BY DEF SlotsApart
<1>4. frags[i].size \in Nat /\ frags[i].size # 0
  BY <1>3 DEF HeapAssumption
<1>5. frags[i].size > 0 BY <1>4
<1> QED BY <1>2, <1>3, <1>4, <1>5 DEF Large

-----------------------------------------------------------------------------
(* One lemma per step                                                       *)

\* The segment as platform_shmcreate leaves it.
LEMMA InitOK == ASSUME HeapAssumption, Init PROVE IInv
<1>1. TypeOK
  <2>1. NoFrag \in [addr : Nat \cup {None}, size : Nat, free : BOOLEAN]
    BY DEF NoFrag
  <2> QED BY <2>1 DEF Init, TypeOK
<1>2. \A t \in HeapThreads : call[t].pc = "idle" /\ InCall(t) = {} /\ held[t] = {}
  BY DEF Init, Idle, InCall
<1>3. \A i \in Slots : ~Tracked(i) BY DEF Init, Tracked, NoFrag
<1>4. OldIsHeld BY <1>2 DEF OldIsHeld
<1>5. OwnersApart BY <1>2 DEF OwnersApart
<1>6. SlotsApart /\ SlotsAndOwners BY <1>3 DEF SlotsApart, SlotsAndOwners
<1>7. Below /\ LatestIsLast BY <1>2, <1>3 DEF Below, LatestIsLast, Init
<1>8. Accounts BY DEF Accounts, Init, HeapAssumption
<1> QED BY <1>1, <1>4, <1>5, <1>6, <1>7, <1>8 DEF IInv

\* A step that only begins a request, goes on with one, or ends a call: at
\* most a piece loses its owner.
LEMMA CallMoves ==
    ASSUME HeapAssumption, IInv, NEW t \in HeapThreads,
           NEW c \in {Idle} \cup Requests, call' = [call EXCEPT ![t] = c],
           c \in Requests /\ c.old # None => c.old \in held[t],
           UNCHANGED <<shm_next, shm_last_alloc, frags, hip, used_bytes, held,
                       asserted>>
    PROVE  IInv'
<1> USE DEF IInv
<1>1. TypeOK' BY DEF TypeOK
<1>2. call[t]' = c BY DEF TypeOK
<1>3. InCall(t)' = {} /\ c.pc \in {"idle", "find", "bump"}
  <2>1. CASE c = Idle BY <2>1, <1>2 DEF Idle, InCall
  <2>2. CASE c \in Requests BY <2>2, <1>2 DEF Requests, InCall
  <2> QED BY <2>1, <2>2
<1>4. \A u \in HeapThreads \ {t} : call[u]' = call[u] /\ InCall(u)' = InCall(u)
  BY DEF TypeOK, InCall
<1>5. \A u \in HeapThreads : InCall(u)' \subseteq InCall(u) BY <1>3, <1>4
<1>6. c.pc = "idle" \/ c \in Requests BY DEF Idle
<1>7. OldIsHeld' BY <1>2, <1>4, <1>6 DEF OldIsHeld
<1>8. OwnersApart' BY <1>5 DEF OwnersApart, Apart
<1>9. SlotsApart' BY DEF SlotsApart, Tracked
<1>10. SlotsAndOwners'
  BY <1>3, <1>4 DEF SlotsAndOwners, Tracked, Apart, FrontOf
<1>11. Below' BY <1>5 DEF Below, Tracked
<1>12. LatestIsLast'
  BY <1>2, <1>3, <1>4 DEF LatestIsLast, Tracked
<1>13. Accounts' BY DEF Accounts
<1> QED BY <1>1, <1>7, <1>8, <1>9, <1>10, <1>11, <1>12, <1>13

\* platform_shm_alloc begins, with nothing in hand ...
LEMMA AllocKeeps ==
    ASSUME HeapAssumption, IInv, NEW t \in HeapThreads, NEW size \in Sizes,
           Alloc(t, size)
    PROVE  IInv'
<1> DEFINE c == [pc |-> IF Large(size) THEN "find" ELSE "bump",
                 size |-> size, old |-> None]
<1>1. c \in Requests BY DEF Requests
<1>2. c.old = None OBVIOUS
<1>3. call' = [call EXCEPT ![t] = c] BY DEF Alloc, BeginAlloc, Set
<1> HIDE DEF c
<1> QED BY <1>1, <1>2, <1>3, CallMoves DEF Alloc

\* ... and platform_shm_realloc, with the old piece still held.
LEMMA ReallocKeeps ==
    ASSUME HeapAssumption, IInv, NEW t \in HeapThreads, NEW f \in held[t],
           NEW size \in Sizes, Realloc(t, f, size)
    PROVE  IInv'
<1> DEFINE c == [pc |-> IF Large(size) THEN "find" ELSE "bump",
                 size |-> size, old |-> f]
<1>0. f \in Frag BY DEF IInv, TypeOK
<1>1. c \in Requests BY <1>0 DEF Requests
<1>2. c.old = f OBVIOUS
<1>3. call' = [call EXCEPT ![t] = c] BY DEF Realloc, BeginAlloc, Set
<1> HIDE DEF c
<1> QED BY <1>1, <1>2, <1>3, CallMoves DEF Realloc

\* A fragment of the array that is free overlaps nothing that has an owner.
LEMMA FindLargeKeeps ==
    ASSUME HeapAssumption, IInv, NEW t \in HeapThreads, FindLarge(t)
    PROVE  IInv'
<1> DEFINE fits == {i \in Slots : /\ frags[i].addr # None
                                  /\ frags[i].size >= call[t].size
                                  /\ frags[i].free}
<1>0. /\ TypeOK /\ OldIsHeld /\ OwnersApart /\ SlotsApart /\ SlotsAndOwners
      /\ Below /\ LatestIsLast /\ Accounts
  BY DEF IInv
<1>1. call[t] \in Requests /\ call[t].pc = "find" BY <1>0, Kinds DEF FindLarge
<1>2. CASE fits = {}
  <2> DEFINE c == [call[t] EXCEPT !.pc = "bump"]
  <2>1. c \in Requests /\ c.old = call[t].old BY <1>1 DEF Requests
  <2>2. call' = [call EXCEPT ![t] = c] BY <1>2 DEF FindLarge, Set
  <2>3. c.old # None => c.old \in held[t] BY <2>1, <1>0, <1>1 DEF OldIsHeld
  <2>4. UNCHANGED <<shm_next, shm_last_alloc, frags, hip, used_bytes, held,
                    asserted>>
    BY <1>2 DEF FindLarge
  <2> HIDE DEF c
  <2> QED BY <2>1, <2>2, <2>3, <2>4, CallMoves
<1>3. CASE fits # {}
  <2>1. PICK i \in fits : i = First(fits) BY <1>3, FirstIsIn
  <2>2. /\ frags' = [frags EXCEPT ![i].free = FALSE]
        /\ Return(t, frags[i].addr)
        /\ UNCHANGED <<shm_next, shm_last_alloc, hip, used_bytes, asserted>>
    BY <1>3, <2>1 DEF FindLarge
  <2>3. /\ i \in Slots /\ Tracked(i) /\ frags[i].size >= call[t].size
        /\ frags[i].free
    BY DEF Tracked
  <2>4. frags[i].addr \in Nat /\ frags[i].size \in Nat
    BY <2>3, <1>0, SlotTyped
  <2>5. call[t].size \in Nat /\ call[t].size \in Sizes
    BY <1>1 DEF Requests, HeapAssumption
  <2>6. PICK new : new = [addr |-> frags[i].addr, size |-> call[t].size]
    OBVIOUS
  <2>7. \A u \in HeapThreads : \A g \in held[u] \cup InCall(u) :
           Apart(g, frags[i]) /\ Apart(new, g)
    <3> SUFFICES ASSUME NEW u \in HeapThreads, NEW g \in held[u] \cup InCall(u)
                 PROVE  Apart(g, frags[i]) /\ Apart(new, g)
      OBVIOUS
    <3>1. g \in Frag BY <1>0, Kinds DEF TypeOK
    <3>2. g.addr \in Nat /\ g.size \in Nat BY <3>1, FragTyped
    <3>3. Apart(g, frags[i]) BY <1>0, <2>3 DEF SlotsAndOwners
    <3> QED BY <3>2, <3>3, <2>3, <2>4, <2>5, <2>6 DEF Apart
  <2>8. new.addr = frags[i].addr /\ new.size = call[t].size BY <2>6
  <2>9. /\ held' \in [HeapThreads -> SUBSET Frag]
        /\ call' \in [HeapThreads -> {Idle} \cup Requests \cup Notes \cup Returns]
        /\ OldIsHeld' /\ OwnersApart'
        /\ new \in Frag
        /\ \A u \in HeapThreads : \A f \in held[u]' :
              f \in held[u] \/ (u = t /\ f = new)
        /\ \A u \in HeapThreads : \A f \in InCall(u)' :
              (u = t /\ f \in held[u]) \/ (u # t /\ f \in InCall(u))
        /\ call[t]'.pc # "track"
        /\ \A u \in HeapThreads \ {t} : call[u]' = call[u]
    <3>1. call[t].pc \in {"find", "bump", "track"} BY <1>1
    <3> QED BY <1>0, <2>2, <2>4, <2>7, <2>6, <3>1, ReturnGives
  <2>10. /\ \A j \in Slots : /\ frags[j]'.addr = frags[j].addr
                             /\ frags[j]'.size = frags[j].size
                             /\ j # i => frags[j]'.free = frags[j].free
                             /\ Tracked(j)' <=> Tracked(j)
         /\ frags[i]'.free = FALSE
    <3>1. \A j \in Slots :
             frags[j] \in [addr : Nat \cup {None}, size : Nat, free : BOOLEAN]
      BY <1>0 DEF TypeOK
    <3>2. frags[i]' = [frags[i] EXCEPT !.free = FALSE]
      BY <2>2, <2>3, <1>0 DEF TypeOK
    <3>3. /\ frags[i]'.addr = frags[i].addr /\ frags[i]'.size = frags[i].size
          /\ frags[i]'.free = FALSE
      BY <3>1, <3>2, <2>3
    <3>4. \A j \in Slots \ {i} : frags[j]' = frags[j]
      BY <2>2, <2>3, <1>0 DEF TypeOK
    <3> QED BY <3>3, <3>4 DEF Tracked
  <2>11. TypeOK' BY <2>2, <2>3, <2>9, <1>0 DEF TypeOK
  <2>12. SlotsApart' BY <2>10, <1>0 DEF SlotsApart, Apart, Large
  <2>13. SlotsAndOwners'
    <3> SUFFICES ASSUME NEW u \in HeapThreads, NEW j \in Slots, Tracked(j)'
                 PROVE
        /\ \A f \in held[u]' :
              \/ Apart(f, frags[j]')
              \/ ~frags[j]'.free /\ FrontOf(f, frags[j]')
        /\ \A f \in InCall(u)' :
              \/ Apart(f, frags[j]')
              \/ /\ ~frags[j]'.free /\ FrontOf(f, frags[j]')
                 /\ call[u]'.pc # "track"
      BY DEF SlotsAndOwners, Apart, FrontOf
    <3>1. Tracked(j) BY <2>10
    <3>2. Apart(new, frags[j]) \/ (j = i /\ FrontOf(new, frags[j]))
      <4>1. CASE j = i BY <4>1, <2>3, <2>8 DEF FrontOf
      <4>2. CASE j # i
        <5>1. Apart(frags[i], frags[j])
          BY <4>2, <3>1, <2>3, <1>0 DEF SlotsApart
        <5>2. frags[j].addr \in Nat /\ frags[j].size \in Nat
          BY <3>1, <1>0, SlotTyped
        <5> QED BY <5>1, <5>2, <2>3, <2>4, <2>5, <2>8 DEF Apart
      <4> QED BY <4>1, <4>2
    <3>3. \A f \in held[u] \cup InCall(u) :
             Apart(f, frags[j]) \/ (j # i /\ ~frags[j].free /\ FrontOf(f, frags[j]))
      BY <3>1, <1>0, <2>7 DEF SlotsAndOwners
    <3>4. \A f \in InCall(u) : Apart(f, frags[j]) \/ call[u].pc # "track"
      BY <3>1, <1>0 DEF SlotsAndOwners
    <3>5. ASSUME NEW f \in held[u]'
          PROVE  \/ Apart(f, frags[j]')
                 \/ ~frags[j]'.free /\ FrontOf(f, frags[j]')
      <4>1. CASE f \in held[u] BY <4>1, <2>10, <3>3 DEF Apart, FrontOf
      <4>2. CASE f = new BY <4>2, <2>10, <3>2 DEF Apart, FrontOf
      <4> QED BY <4>1, <4>2, <2>9
    <3>6. ASSUME NEW f \in InCall(u)'
          PROVE  \/ Apart(f, frags[j]')
                 \/ /\ ~frags[j]'.free /\ FrontOf(f, frags[j]')
                    /\ call[u]'.pc # "track"
      BY <2>9, <2>10, <3>3, <3>4 DEF Apart, FrontOf
    <3> QED BY <3>5, <3>6
  <2>14. Below'
    <3>1. new.addr + new.size <= shm_next
      BY <1>0, <2>3, <2>4, <2>5, <2>8 DEF Below, TypeOK
    <3> QED BY <3>1, <2>2, <2>9, <2>10, <1>0 DEF Below
  <2>15. LatestIsLast'
    <3> SUFFICES ASSUME shm_last_alloc # None PROVE LatestIsLast'
      BY <2>2 DEF LatestIsLast
    <3>1. shm_last_alloc \in Nat BY <1>0 DEF TypeOK
    <3>2. new.addr + new.size <= shm_last_alloc \/ new.addr = shm_last_alloc
      BY <3>1, <1>0, <2>3, <2>4, <2>5, <2>8 DEF LatestIsLast
    <3>3. \A u \in HeapThreads : \A f \in held[u]' \cup InCall(u)' :
             f.addr + f.size <= shm_last_alloc \/ f.addr = shm_last_alloc
      BY <3>2, <2>9, <1>0 DEF LatestIsLast
    <3>4. \A u \in HeapThreads : call[u]'.pc = "track" =>
             \/ call[u]'.addr + call[u]'.size <= shm_last_alloc
             \/ /\ call[u]'.addr = shm_last_alloc
                /\ call[u]'.addr + call[u]'.size = shm_next
      BY <2>9, <1>0 DEF LatestIsLast
    <3>5. \A j \in Slots : Tracked(j)' =>
             \/ frags[j]'.addr + frags[j]'.size <= shm_last_alloc
             \/ /\ frags[j]'.addr = shm_last_alloc
                /\ frags[j]'.addr + frags[j]'.size = shm_next
      BY <2>10, <1>0 DEF LatestIsLast
    <3> QED BY <3>3, <3>4, <3>5, <2>2 DEF LatestIsLast
  <2>16. Accounts' BY <2>2, <1>0 DEF Accounts
  <2> QED BY <2>9, <2>11, <2>12, <2>13, <2>14, <2>15, <2>16 DEF IInv
<1> QED BY <1>2, <1>3

\* What is taken from the rest of the segment lies above everything.
LEMMA BumpKeeps ==
    ASSUME HeapAssumption, IInv, NEW t \in HeapThreads, Bump(t)
    PROVE  IInv'
<1>0. /\ TypeOK /\ OldIsHeld /\ OwnersApart /\ SlotsApart /\ SlotsAndOwners
      /\ Below /\ LatestIsLast /\ Accounts
  BY DEF IInv
<1>1. call[t] \in Requests /\ call[t].pc = "bump" BY <1>0, Kinds DEF Bump
<1>2. call[t].size \in Sizes /\ call[t].size \in Nat /\ call[t].size > 0
  <2>1. call[t].size \in Sizes BY <1>1 DEF Requests
  <2>2. call[t].size \in Nat /\ call[t].size # 0 BY <2>1 DEF HeapAssumption
  <2>3. call[t].size > 0 BY <2>2
  <2> QED BY <2>1, <2>2, <2>3
<1>3. CASE shm_next + call[t].size > SegmentSize
  <2>1. /\ call' = [call EXCEPT ![t] = Idle]
        /\ UNCHANGED <<shm_next, shm_last_alloc, frags, hip, used_bytes, held,
                       asserted>>
    BY <1>3 DEF Bump, Set
  <2>2. Idle \notin Requests \/ Idle.old = None \/ Idle.old \in held[t]
    BY DEF Idle, Requests
  <2> QED BY <2>1, <2>2, CallMoves
<1>4. CASE ~(shm_next + call[t].size > SegmentSize)
  <2>1. /\ shm_next' = shm_next + call[t].size
        /\ shm_last_alloc' = shm_next
        /\ used_bytes' = used_bytes + call[t].size
        /\ UNCHANGED <<frags, hip, asserted>>
    BY <1>4 DEF Bump
  <2>2. shm_next \in Nat BY <1>0 DEF TypeOK
  <2>3. PICK new : new = [addr |-> shm_next, size |-> call[t].size] OBVIOUS
  <2>4. new.addr = shm_next /\ new.size = call[t].size BY <2>3
  <2>5. \A u \in HeapThreads : \A g \in held[u] \cup InCall(u) :
           /\ g.addr \in Nat /\ g.size \in Nat
           /\ g.addr + g.size <= shm_next
           /\ Apart(new, g) /\ Apart(g, new)
    <3> SUFFICES ASSUME NEW u \in HeapThreads, NEW g \in held[u] \cup InCall(u)
                 PROVE  /\ g.addr \in Nat /\ g.size \in Nat
                        /\ g.addr + g.size <= shm_next
                        /\ Apart(new, g) /\ Apart(g, new)
      OBVIOUS
    <3>1. g \in Frag BY <1>0, Kinds DEF TypeOK
    <3>2. g.addr \in Nat /\ g.size \in Nat BY <3>1, FragTyped
    <3>3. g.addr + g.size <= shm_next BY <1>0 DEF Below
    <3> QED BY <3>2, <3>3, <2>4 DEF Apart
  <2>6. \A i \in Slots : Tracked(i) =>
           /\ frags[i].addr \in Nat /\ frags[i].size \in Nat
           /\ frags[i].addr + frags[i].size <= shm_next
           /\ Apart(new, frags[i])
    <3> SUFFICES ASSUME NEW i \in Slots, Tracked(i)
                 PROVE  /\ frags[i].addr \in Nat /\ frags[i].size \in Nat
                        /\ frags[i].addr + frags[i].size <= shm_next
                        /\ Apart(new, frags[i])
      OBVIOUS
    <3>1. frags[i].addr \in Nat /\ frags[i].size \in Nat BY <1>0, SlotTyped
    <3>2. frags[i].addr + frags[i].size <= shm_next BY <1>0 DEF Below
    <3> QED BY <3>1, <3>2, <2>4 DEF Apart
  <2>7. SlotsApart' BY <2>1, <1>0 DEF SlotsApart, Tracked
  <2>8. Accounts' BY <2>1, <2>2, <1>0, <1>2, <1>4 DEF Accounts, HeapAssumption
  <2>9. new \in Frag BY <2>2, <2>3, <1>2 DEF Frag
  <2>10. ASSUME /\ held' \in [HeapThreads -> SUBSET Frag]
                /\ call' \in [HeapThreads -> {Idle} \cup Requests \cup Notes \cup Returns],
                OldIsHeld', OwnersApart',
                \A u \in HeapThreads : \A f \in held[u]' :
                   f \in held[u] \/ f = new,
                \A u \in HeapThreads : \A f \in InCall(u)' :
                   \/ f \in held[u] /\ call[u]'.pc # "track"
                   \/ f \in InCall(u) /\ call[u]' = call[u]
                   \/ f = new,
                \A u \in HeapThreads : call[u]'.pc = "track" =>
                   [addr |-> call[u]'.addr, size |-> call[u]'.size] \in InCall(u)'
         PROVE  IInv'
    <3>1. TypeOK' BY <2>10, <2>1, <2>2, <1>0, <1>2 DEF TypeOK
    <3>2. SlotsAndOwners'
      <4> SUFFICES ASSUME NEW u \in HeapThreads, NEW i \in Slots, Tracked(i)
                   PROVE
          /\ \A f \in held[u]' :
                Apart(f, frags[i]) \/ (~frags[i].free /\ FrontOf(f, frags[i]))
          /\ \A f \in InCall(u)' :
                \/ Apart(f, frags[i])
                \/ /\ ~frags[i].free /\ FrontOf(f, frags[i])
                   /\ call[u]'.pc # "track"
        BY <2>1 DEF SlotsAndOwners, Tracked, Apart, FrontOf
      <4>1. \A f \in held[u] :
               Apart(f, frags[i]) \/ (~frags[i].free /\ FrontOf(f, frags[i]))
        BY <1>0 DEF SlotsAndOwners
      <4>2. \A f \in InCall(u) :
               \/ Apart(f, frags[i])
               \/ /\ ~frags[i].free /\ FrontOf(f, frags[i])
                  /\ call[u].pc # "track"
        BY <1>0 DEF SlotsAndOwners
      <4> QED BY <4>1, <4>2, <2>6, <2>10
    <3>3. \A u \in HeapThreads : \A f \in held[u]' \cup InCall(u)' :
             f.addr + f.size <= shm_next \/ f = new
      BY <2>5, <2>10
    <3>4. Below'
      <4>1. \A u \in HeapThreads : \A f \in held[u]' \cup InCall(u)' :
               f.addr + f.size <= shm_next + call[t].size
        <5> SUFFICES ASSUME NEW u \in HeapThreads,
                            NEW f \in held[u]' \cup InCall(u)'
                     PROVE  f.addr + f.size <= shm_next + call[t].size
          OBVIOUS
        <5>1. CASE f = new BY <5>1, <2>2, <2>4, <1>2
        <5>2. CASE f # new
          <6>1. f \in held[u] \cup InCall(u) BY <5>2, <2>10
          <6> QED BY <6>1, <2>2, <2>5, <1>2
        <5> QED BY <5>1, <5>2
      <4>2. \A i \in Slots : Tracked(i) =>
               frags[i].addr + frags[i].size <= shm_next + call[t].size
        BY <2>2, <2>6, <1>2
      <4> QED BY <4>1, <4>2, <2>1 DEF Below, Tracked
    <3>5. LatestIsLast'
      <4>1. \A u \in HeapThreads : \A f \in held[u]' \cup InCall(u)' :
               f.addr + f.size <= shm_next \/ f.addr = shm_next
        BY <3>3, <2>4
      <4>2. ASSUME NEW u \in HeapThreads, call[u]'.pc = "track"
            PROVE  \/ call[u]'.addr + call[u]'.size <= shm_next
                   \/ /\ call[u]'.addr = shm_next
                      /\ call[u]'.addr + call[u]'.size = shm_next'
        <5>1. PICK f \in InCall(u)' :
                 f.addr = call[u]'.addr /\ f.size = call[u]'.size
          BY <4>2, <2>10
        <5>2. f.addr + f.size <= shm_next \/ f = new BY <3>3
        <5> QED BY <5>1, <5>2, <2>1, <2>4
      <4> QED BY <4>1, <4>2, <2>1, <2>6 DEF LatestIsLast, Tracked
    <3> QED BY <3>1, <3>2, <3>4, <3>5, <2>7, <2>8, <2>10 DEF IInv
  <2>11. CASE ~Large(call[t].size)
    <3>1. Return(t, shm_next) BY <2>11, <1>4 DEF Bump
    <3>2. call[t].pc \in {"find", "bump", "track"} BY <1>1
    <3>3. /\ held' \in [HeapThreads -> SUBSET Frag]
          /\ call' \in [HeapThreads -> {Idle} \cup Requests \cup Notes \cup Returns]
          /\ OldIsHeld' /\ OwnersApart'
          /\ \A u \in HeapThreads : \A f \in held[u]' :
                f \in held[u] \/ (u = t /\ f = new)
          /\ \A u \in HeapThreads : \A f \in InCall(u)' :
                (u = t /\ f \in held[u]) \/ (u # t /\ f \in InCall(u))
          /\ call[t]'.pc # "track"
          /\ \A u \in HeapThreads \ {t} : call[u]' = call[u]
      BY <1>0, <2>2, <2>3, <2>5, <3>1, <3>2, ReturnGives
    <3>4. \A u \in HeapThreads : call[u]'.pc = "track" =>
             [addr |-> call[u]'.addr, size |-> call[u]'.size] \in InCall(u)'
      BY DEF InCall
    <3> QED BY <3>3, <3>4, <2>10
  <2>12. CASE Large(call[t].size)
    <3> DEFINE c == [pc |-> "track", addr |-> shm_next, size |-> call[t].size,
                     old |-> call[t].old]
    <3>1. call' = [call EXCEPT ![t] = c] /\ held' = held
      BY <2>12, <1>4 DEF Bump, Set
    <3>2. /\ c \in Notes /\ c.pc = "track" /\ c.addr = shm_next
          /\ c.size = call[t].size /\ c.old = call[t].old
      BY <2>12, <2>2, <1>1, <1>2 DEF Notes, Requests
    <3> HIDE DEF c
    <3>3. call[t]' = c /\ \A u \in HeapThreads \ {t} : call[u]' = call[u]
      BY <3>1, <1>0 DEF TypeOK
    <3>4. InCall(t)' = {new} BY <3>2, <3>3, <2>3 DEF InCall
    <3>5. \A u \in HeapThreads \ {t} : InCall(u)' = InCall(u) BY <3>3 DEF InCall
    <3>6. call' \in [HeapThreads -> {Idle} \cup Requests \cup Notes \cup Returns]
      BY <3>1, <3>2, <1>0 DEF TypeOK
    <3>7. OldIsHeld' BY <3>1, <3>2, <3>3, <1>0, <1>1 DEF OldIsHeld
    <3>8. OwnersApart'
      <4>1. \A u, w \in HeapThreads : \A f \in InCall(u)', g \in held[w] : Apart(f, g)
        BY <3>4, <3>5, <2>5, <1>0 DEF OwnersApart
      <4>2. \A u, w \in HeapThreads : \A f \in InCall(u)', g \in InCall(w)' :
               u # w => Apart(f, g)
        BY <3>4, <3>5, <2>5, <1>0 DEF OwnersApart
      <4> QED BY <4>1, <4>2, <3>1, <1>0 DEF OwnersApart, Apart
    <3>9. \A u \in HeapThreads : call[u]'.pc = "track" =>
             [addr |-> call[u]'.addr, size |-> call[u]'.size] \in InCall(u)'
      BY DEF InCall
    <3>10. held' \in [HeapThreads -> SUBSET Frag] BY <3>1, <1>0 DEF TypeOK
    <3>11. \A u \in HeapThreads : \A f \in held[u]' : f \in held[u] \/ f = new
      BY <3>1
    <3>12. \A u \in HeapThreads : \A f \in InCall(u)' :
              \/ f \in held[u] /\ call[u]'.pc # "track"
              \/ f \in InCall(u) /\ call[u]' = call[u]
              \/ f = new
      BY <3>3, <3>4, <3>5
    <3> QED BY <3>6, <3>7, <3>8, <3>9, <3>10, <3>11, <3>12, <2>10
  <2> QED BY <2>11, <2>12
<1> QED BY <1>3, <1>4

\* A large fragment is noted once: until then no slot has a part of it.
LEMMA TrackAllocKeeps ==
    ASSUME HeapAssumption, IInv, NEW t \in HeapThreads, TrackAlloc(t)
    PROVE  IInv'
<1> DEFINE empty == {i \in Slots : frags[i].addr = None}
           seen  == {i \in Slots : \A j \in empty : i < j}
<1>0. /\ TypeOK /\ OldIsHeld /\ OwnersApart /\ SlotsApart /\ SlotsAndOwners
      /\ Below /\ LatestIsLast /\ Accounts
  BY DEF IInv
<1>1. call[t] \in Notes /\ call[t].pc = "track" BY <1>0, Kinds DEF TrackAlloc
<1>2. PICK new : new = [addr |-> call[t].addr, size |-> call[t].size] OBVIOUS
<1>3. new.addr = call[t].addr /\ new.size = call[t].size BY <1>2
<1>4. new \in Frag /\ Large(new.size) BY <1>1, <1>2, <1>3 DEF Notes, Frag
<1>5. new.addr \in Nat /\ new.size \in Nat /\ new.size > 0 /\ new.size \in Sizes
  BY <1>4, FragTyped
<1>6. InCall(t) = {new} BY <1>1, <1>2 DEF InCall
<1>7. \A i \in Slots : Tracked(i) => Apart(new, frags[i]) /\ frags[i].addr # new.addr
  <2> SUFFICES ASSUME NEW i \in Slots, Tracked(i)
               PROVE  Apart(new, frags[i]) /\ frags[i].addr # new.addr
    OBVIOUS
  <2>1. Apart(new, frags[i]) BY <1>0, <1>1, <1>6 DEF SlotsAndOwners
  <2>2. frags[i].addr \in Nat /\ frags[i].size \in Nat /\ frags[i].size > 0
    BY <1>0, SlotTyped
  <2> QED BY <2>1, <2>2, <1>5 DEF Apart
<1>8. ~asserted'
  <2>1. \A i \in seen : frags[i].addr # call[t].addr
    BY <1>3, <1>5, <1>7 DEF Tracked, HeapAssumption
  <2>2. asserted' = (asserted \/ \E i \in seen : frags[i].addr = call[t].addr)
    BY DEF TrackAlloc
  <2> QED BY <2>1, <2>2, <1>0 DEF Accounts
<1>9. /\ Return(t, new.addr)
      /\ UNCHANGED <<shm_next, shm_last_alloc, used_bytes>>
  BY <1>3 DEF TrackAlloc
<1>10. /\ held' \in [HeapThreads -> SUBSET Frag]
       /\ call' \in [HeapThreads -> {Idle} \cup Requests \cup Notes \cup Returns]
       /\ OldIsHeld' /\ OwnersApart'
       /\ \A u \in HeapThreads : \A f \in held[u]' :
             f \in held[u] \/ (u = t /\ f = new)
       /\ \A u \in HeapThreads : \A f \in InCall(u)' :
             (u = t /\ f \in held[u]) \/ (u # t /\ f \in InCall(u))
       /\ call[t]'.pc # "track"
       /\ \A u \in HeapThreads \ {t} : call[u]' = call[u]
  <2>1. call[t].pc \in {"find", "bump", "track"} BY <1>1
  <2>2. \A u \in HeapThreads : \A g \in held[u] : Apart(new, g)
    BY <1>0, <1>6 DEF OwnersApart
  <2>3. \A u \in HeapThreads \ {t} : \A g \in InCall(u) : Apart(new, g)
    BY <1>0, <1>6 DEF OwnersApart
  <2>4. new = [addr |-> new.addr, size |-> call[t].size] BY <1>2, <1>3
  <2> QED BY <1>0, <1>5, <1>9, <2>1, <2>2, <2>3, <2>4, ReturnGives
<1>11. \A u \in HeapThreads : \A f \in held[u]' \cup InCall(u)' :
          f \in held[u] \cup InCall(u)
  BY <1>6, <1>10
<1>12. /\ frags' \in [Slots -> [addr : Nat \cup {None}, size : Nat, free : BOOLEAN]]
       /\ hip' \in Nat \cup {None}
       /\ \A i \in Slots :
             \/ frags[i]' = frags[i]
             \/ /\ ~Tracked(i)
                /\ frags[i]' = [addr |-> new.addr, size |-> new.size, free |-> FALSE]
                /\ \A j \in Slots \ {i} : frags[j]' = frags[j]
  <2>1. CASE empty = {}
    <3>1. UNCHANGED <<frags, hip>> BY <2>1 DEF TrackAlloc
    <3> QED BY <3>1, <1>0 DEF TypeOK
  <2>2. CASE empty # {}
    <3>1. PICK i \in empty : i = First(empty) BY <2>2, FirstIsIn
    <3>2. /\ frags' = [frags EXCEPT ![i] = [addr |-> new.addr, size |-> new.size,
                                            free |-> FALSE]]
          /\ hip' = IF hip = None \/ hip < new.addr THEN new.addr ELSE hip
      BY <2>2, <3>1, <1>3 DEF TrackAlloc
    <3>3. ~Tracked(i) BY DEF Tracked
    <3> QED BY <3>2, <3>3, <1>0, <1>5 DEF TypeOK
  <2> QED BY <2>1, <2>2
<1>13. \A i \in Slots : Tracked(i)' =>
          \/ Tracked(i) /\ frags[i]' = frags[i]
          \/ /\ frags[i]'.addr = new.addr /\ frags[i]'.size = new.size
             /\ frags[i]'.free = FALSE
             /\ \A j \in Slots \ {i} : frags[j]' = frags[j]
  BY <1>12 DEF Tracked
<1>14. TypeOK' BY <1>9, <1>10, <1>12, <1>0 DEF TypeOK
<1>15. SlotsApart'
  <2>1. \A i \in Slots : Tracked(i)' =>
           frags[i]'.size \in Sizes /\ Large(frags[i]'.size)
    BY <1>4, <1>5, <1>13, <1>0 DEF SlotsApart
  <2>2. ASSUME NEW i \in Slots, NEW j \in Slots, Tracked(i)', Tracked(j)', i # j
        PROVE  Apart(frags[i]', frags[j]')
    <3>1. CASE /\ Tracked(i) /\ frags[i]' = frags[i]
               /\ Tracked(j) /\ frags[j]' = frags[j]
      BY <3>1, <2>2, <1>0 DEF SlotsApart
    <3>2. CASE ~(Tracked(i) /\ frags[i]' = frags[i])
      <4>1. frags[i]'.addr = new.addr /\ frags[i]'.size = new.size
        BY <3>2, <2>2, <1>13
      <4>2. frags[j]' = frags[j] BY <3>2, <2>2, <1>13
      <4>3. Tracked(j) BY <4>2, <2>2 DEF Tracked
      <4> QED BY <4>1, <4>2, <4>3, <1>7 DEF Apart
    <3>3. CASE ~(Tracked(j) /\ frags[j]' = frags[j])
      <4>1. frags[j]'.addr = new.addr /\ frags[j]'.size = new.size
        BY <3>3, <2>2, <1>13
      <4>2. frags[i]' = frags[i] BY <3>3, <2>2, <1>13
      <4>3. Tracked(i) BY <4>2, <2>2 DEF Tracked
      <4> QED BY <4>1, <4>2, <4>3, <1>7 DEF Apart
    <3> QED BY <3>1, <3>2, <3>3
  <2> QED BY <2>1, <2>2 DEF SlotsApart, Apart, Large
<1>16. SlotsAndOwners'
  <2> SUFFICES ASSUME NEW u \in HeapThreads, NEW i \in Slots, Tracked(i)'
               PROVE
      /\ \A f \in held[u]' :
            Apart(f, frags[i]') \/ (~frags[i]'.free /\ FrontOf(f, frags[i]'))
      /\ \A f \in InCall(u)' :
            \/ Apart(f, frags[i]')
            \/ ~frags[i]'.free /\ FrontOf(f, frags[i]') /\ call[u]'.pc # "track"
    BY DEF SlotsAndOwners, Apart, FrontOf
  <2>1. CASE Tracked(i) /\ frags[i]' = frags[i]
    <3>1. \A f \in held[u] :
             Apart(f, frags[i]) \/ (~frags[i].free /\ FrontOf(f, frags[i]))
      BY <2>1, <1>0 DEF SlotsAndOwners
    <3>2. \A f \in InCall(u) :
             \/ Apart(f, frags[i])
             \/ /\ ~frags[i].free /\ FrontOf(f, frags[i])
                /\ call[u].pc # "track"
      BY <2>1, <1>0 DEF SlotsAndOwners
    <3>3. Apart(new, frags[i]) BY <2>1, <1>7
    <3> QED BY <2>1, <3>1, <3>2, <3>3, <1>10
  <2>2. CASE ~(Tracked(i) /\ frags[i]' = frags[i])
    <3>1. /\ frags[i]'.addr = new.addr /\ frags[i]'.size = new.size
          /\ frags[i]'.free = FALSE
      BY <2>2, <1>13
    <3>2. FrontOf(new, frags[i]') BY <3>1, <1>5 DEF FrontOf
    <3>3. \A f \in held[u] : Apart(f, new) BY <1>0, <1>6 DEF OwnersApart, Apart
    <3>4. u # t => \A f \in InCall(u) : Apart(f, new)
      BY <1>0, <1>6 DEF OwnersApart
    <3>5. \A f : Apart(f, new) => Apart(f, frags[i]') BY <3>1 DEF Apart
    <3>6. \A f \in held[u]' : Apart(f, new) \/ f = new BY <1>10, <3>3
    <3>7. \A f \in InCall(u)' : Apart(f, new) BY <1>10, <3>3, <3>4
    <3> QED BY <3>1, <3>2, <3>5, <3>6, <3>7
  <2> QED BY <2>1, <2>2
<1>17. Below'
  <2>1. new.addr + new.size <= shm_next BY <1>0, <1>6 DEF Below
  <2>2. \A u \in HeapThreads : \A f \in held[u]' \cup InCall(u)' :
           f.addr + f.size <= shm_next
    BY <1>0, <1>11 DEF Below
  <2>3. \A i \in Slots : Tracked(i)' =>
           frags[i]'.addr + frags[i]'.size <= shm_next
    BY <1>0, <1>13, <2>1 DEF Below
  <2> QED BY <2>2, <2>3, <1>9 DEF Below
<1>18. LatestIsLast'
  <2> SUFFICES ASSUME shm_last_alloc # None PROVE LatestIsLast'
    BY <1>9 DEF LatestIsLast
  <2>1. \/ new.addr + new.size <= shm_last_alloc
        \/ new.addr = shm_last_alloc /\ new.addr + new.size = shm_next
    BY <1>0, <1>1, <1>3 DEF LatestIsLast
  <2>2. \A u \in HeapThreads : \A f \in held[u]' \cup InCall(u)' :
           f.addr + f.size <= shm_last_alloc \/ f.addr = shm_last_alloc
    BY <1>0, <1>11 DEF LatestIsLast
  <2>3. \A u \in HeapThreads : call[u]'.pc = "track" =>
           \/ call[u]'.addr + call[u]'.size <= shm_last_alloc
           \/ /\ call[u]'.addr = shm_last_alloc
              /\ call[u]'.addr + call[u]'.size = shm_next
    BY <1>0, <1>10 DEF LatestIsLast
  <2>4. \A i \in Slots : Tracked(i)' =>
           \/ frags[i]'.addr + frags[i]'.size <= shm_last_alloc
           \/ /\ frags[i]'.addr = shm_last_alloc
              /\ frags[i]'.addr + frags[i]'.size = shm_next
    BY <1>0, <1>13, <2>1 DEF LatestIsLast
  <2> QED BY <2>2, <2>3, <2>4, <1>9 DEF LatestIsLast
<1>19. Accounts' BY <1>8, <1>9, <1>0 DEF Accounts
<1> QED BY <1>10, <1>14, <1>15, <1>16, <1>17, <1>18, <1>19 DEF IInv

\* What is given back belongs to the call until it is done.
LEMMA FreeKeeps ==
    ASSUME HeapAssumption, IInv, NEW t \in HeapThreads, NEW f \in held[t], Free(t, f)
    PROVE  IInv'
<1>0. /\ TypeOK /\ OldIsHeld /\ OwnersApart /\ SlotsApart /\ SlotsAndOwners
      /\ Below /\ LatestIsLast /\ Accounts
  BY DEF IInv
<1> DEFINE c == [pc |-> "free", frag |-> f]
<1>1. /\ call' = [call EXCEPT ![t] = c]
      /\ held' = [held EXCEPT ![t] = @ \ {f}]
      /\ UNCHANGED <<shm_next, shm_last_alloc, frags, hip, used_bytes, asserted>>
  BY DEF Free, BeginFree, Set
<1>2. f \in Frag BY <1>0 DEF TypeOK
<1>3. c \in Returns /\ c.pc = "free" /\ c.frag = f BY <1>2 DEF Returns
<1> HIDE DEF c
<1>4. TypeOK' BY <1>1, <1>3, <1>0 DEF TypeOK
<1>5. /\ call[t]' = c /\ held[t]' = held[t] \ {f}
      /\ \A u \in HeapThreads \ {t} : call[u]' = call[u] /\ held[u]' = held[u]
  BY <1>1, <1>0 DEF TypeOK
<1>6. InCall(t)' = {f} BY <1>3, <1>5 DEF InCall
<1>7. \A u \in HeapThreads \ {t} : InCall(u)' = InCall(u) BY <1>5 DEF InCall
<1>8. \A u \in HeapThreads : held[u]' \subseteq held[u] BY <1>5
<1>9. \A u \in HeapThreads : \A g \in InCall(u)' :
         \/ u = t /\ g = f
         \/ u # t /\ g \in InCall(u)
  BY <1>6, <1>7
<1>10. OldIsHeld' BY <1>3, <1>5, <1>0 DEF OldIsHeld
<1>11. OwnersApart'
  <2>1. \A u, w \in HeapThreads : \A g \in held[u]', h \in held[w]' :
           u # w \/ g # h => Apart(g, h)
    BY <1>8, <1>0 DEF OwnersApart
  <2>2. ASSUME NEW u \in HeapThreads, NEW w \in HeapThreads, NEW g \in InCall(u)',
               NEW h \in held[w]'
        PROVE  Apart(g, h)
    <3>1. CASE u = t
      <4>1. g = f BY <3>1, <1>6
      <4>2. h \in held[w] /\ (w # t \/ h # f) BY <1>5
      <4> QED BY <4>1, <4>2, <1>0 DEF OwnersApart
    <3>2. CASE u # t BY <3>2, <1>7, <1>8, <1>0 DEF OwnersApart
    <3> QED BY <3>1, <3>2
  <2>3. ASSUME NEW u \in HeapThreads, NEW w \in HeapThreads, NEW g \in InCall(u)',
               NEW h \in InCall(w)', u # w
        PROVE  Apart(g, h)
    <3>1. CASE u # t /\ w # t BY <3>1, <2>3, <1>7, <1>0 DEF OwnersApart
    <3>2. CASE u = t
      <4>1. g = f /\ h \in InCall(w) BY <3>2, <2>3, <1>6, <1>7
      <4>2. Apart(h, g) BY <4>1, <1>0 DEF OwnersApart
      <4> QED BY <4>2 DEF Apart
    <3>3. CASE w = t
      <4>1. h = f /\ g \in InCall(u) BY <3>3, <2>3, <1>6, <1>7
      <4> QED BY <4>1, <1>0 DEF OwnersApart
    <3> QED BY <3>1, <3>2, <3>3
  <2> QED BY <2>1, <2>2, <2>3 DEF OwnersApart, Apart
<1>12. SlotsApart' BY <1>1, <1>0 DEF SlotsApart, Tracked
<1>13. SlotsAndOwners'
  <2> SUFFICES ASSUME NEW u \in HeapThreads, NEW i \in Slots, Tracked(i)
               PROVE
      /\ \A g \in held[u]' :
            Apart(g, frags[i]) \/ (~frags[i].free /\ FrontOf(g, frags[i]))
      /\ \A g \in InCall(u)' :
            \/ Apart(g, frags[i])
            \/ ~frags[i].free /\ FrontOf(g, frags[i]) /\ call[u]'.pc # "track"
    BY <1>1 DEF SlotsAndOwners, Tracked, Apart, FrontOf
  <2>1. \A g \in held[u] :
           Apart(g, frags[i]) \/ (~frags[i].free /\ FrontOf(g, frags[i]))
    BY <1>0 DEF SlotsAndOwners
  <2>2. \A g \in InCall(u) :
           \/ Apart(g, frags[i])
           \/ ~frags[i].free /\ FrontOf(g, frags[i]) /\ call[u].pc # "track"
    BY <1>0 DEF SlotsAndOwners
  <2> QED BY <2>1, <2>2, <1>3, <1>5, <1>8, <1>9
<1>14. \A u \in HeapThreads : \A g \in held[u]' \cup InCall(u)' :
          g \in held[u] \cup InCall(u)
  BY <1>8, <1>9
<1>15. Below' BY <1>1, <1>14, <1>0 DEF Below, Tracked
<1>16. LatestIsLast'
  BY <1>1, <1>3, <1>5, <1>14, <1>0 DEF LatestIsLast, Tracked
<1>17. Accounts' BY <1>1, <1>0 DEF Accounts
<1> QED BY <1>4, <1>10, <1>11, <1>12, <1>13, <1>15, <1>16, <1>17 DEF IInv

\* Only the latest allocation goes back to the rest of the segment, and only
\* if it is small: everything else is below it then.
LEMMA FreeLastKeeps ==
    ASSUME HeapAssumption, IInv, NEW t \in HeapThreads, FreeLast(t)
    PROVE  IInv'
<1>0. /\ TypeOK /\ OldIsHeld /\ OwnersApart /\ SlotsApart /\ SlotsAndOwners
      /\ Below /\ LatestIsLast /\ Accounts
  BY DEF IInv
<1>1. call[t] \in Returns /\ call[t].pc = "free" BY <1>0, Kinds DEF FreeLast
<1>2. PICK f \in Frag : f = call[t].frag BY <1>1 DEF Returns
<1>3. f.addr \in Nat /\ f.size \in Nat /\ f.size > 0 BY FragTyped
<1>4. InCall(t) = {f} BY <1>1, <1>2 DEF InCall
<1>5. CASE IsLastSmall(f.addr)
  <2>1. /\ shm_next' = f.addr
        /\ shm_last_alloc' = None
        /\ used_bytes' = used_bytes - (shm_next - f.addr)
        /\ call' = [call EXCEPT ![t] = Idle]
        /\ UNCHANGED <<frags, hip, held, asserted>>
    BY <1>2, <1>5 DEF FreeLast, Set
  <2>2. /\ shm_last_alloc = f.addr
        /\ shm_next - f.addr < SHM_LARGE_FRAG_SIZE
        /\ shm_next \in Nat /\ f.addr + f.size <= shm_next
    BY <1>0, <1>4, <1>5 DEF IsLastSmall, TypeOK, Below
  <2>3. shm_last_alloc # None BY <2>2, <1>3 DEF HeapAssumption
  <2>4. /\ call[t]' = Idle
        /\ \A u \in HeapThreads \ {t} : call[u]' = call[u]
    BY <2>1, <1>0 DEF TypeOK
  <2>5. InCall(t)' = {} /\ call[t]'.pc = "idle" BY <2>4 DEF Idle, InCall
  <2>6. \A u \in HeapThreads \ {t} : InCall(u)' = InCall(u) BY <2>4 DEF InCall
  <2>7. TypeOK' BY <2>1, <1>0, <1>3 DEF TypeOK
  <2>8. OldIsHeld' BY <2>1, <2>4, <2>5, <1>0 DEF OldIsHeld
  <2>9. OwnersApart' BY <2>1, <2>5, <2>6, <1>0 DEF OwnersApart, Apart
  <2>10. SlotsApart' BY <2>1, <1>0 DEF SlotsApart, Tracked
  <2>11. SlotsAndOwners'
    BY <2>1, <2>4, <2>5, <2>6, <1>0 DEF SlotsAndOwners, Tracked, Apart, FrontOf
  <2>12. Below'
    <3>1. ASSUME NEW u \in HeapThreads, NEW g \in held[u] \cup InCall(u),
                 g \in held[u] \/ u # t
          PROVE  g.addr + g.size <= f.addr
      <4>1. g \in Frag BY <1>0, Kinds DEF TypeOK
      <4>2. g.addr \in Nat /\ g.size \in Nat /\ g.size > 0 BY <4>1, FragTyped
      <4>3. Apart(f, g) BY <3>1, <1>0, <1>4 DEF OwnersApart
      <4>4. g.addr + g.size <= f.addr \/ g.addr = f.addr
        BY <1>0, <2>2, <2>3 DEF LatestIsLast
      <4> QED BY <4>2, <4>3, <4>4, <1>3 DEF Apart
    <3>2. ASSUME NEW i \in Slots, Tracked(i)
          PROVE  frags[i].addr + frags[i].size <= f.addr
      <4>1. /\ frags[i].addr \in Nat /\ frags[i].size \in Nat
            /\ frags[i].size >= SHM_LARGE_FRAG_SIZE
        BY <1>0, <3>2, SlotTyped
      <4>2. \/ frags[i].addr + frags[i].size <= f.addr
            \/ frags[i].addr = f.addr /\ frags[i].addr + frags[i].size = shm_next
        BY <1>0, <2>2, <2>3, <3>2 DEF LatestIsLast
      <4> QED BY <4>1, <4>2, <2>2, <1>3 DEF HeapAssumption
    <3>3. \A u \in HeapThreads : \A g \in held[u]' \cup InCall(u)' :
             g.addr + g.size <= f.addr
      BY <2>1, <2>5, <2>6, <3>1
    <3> QED BY <2>1, <3>2, <3>3 DEF Below, Tracked
  <2>13. LatestIsLast' BY <2>1 DEF LatestIsLast
  <2>14. Accounts'
    BY <2>1, <2>2, <1>0, <1>3 DEF Accounts, HeapAssumption
  <2> QED
    BY <2>7, <2>8, <2>9, <2>10, <2>11, <2>12, <2>13, <2>14 DEF IInv
<1>6. CASE ~IsLastSmall(f.addr)
  <2> DEFINE c == [call[t] EXCEPT !.pc = "untrack"]
  <2>1. /\ call' = [call EXCEPT ![t] = c]
        /\ UNCHANGED <<shm_next, shm_last_alloc, frags, hip, used_bytes, held,
                       asserted>>
    BY <1>2, <1>6 DEF FreeLast, Set
  <2>2. c \in Returns /\ c.pc = "untrack" /\ c.frag = f
    BY <1>1, <1>2 DEF Returns
  <2> HIDE DEF c
  <2>3. /\ call[t]' = c
        /\ \A u \in HeapThreads \ {t} : call[u]' = call[u]
    BY <2>1, <1>0 DEF TypeOK
  <2>4. InCall(t)' = {f} BY <2>2, <2>3 DEF InCall
  <2>5. \A u \in HeapThreads : InCall(u)' = InCall(u)
    BY <2>3, <2>4, <1>4 DEF InCall
  <2>6. \A u \in HeapThreads : call[u]'.pc # call[u].pc =>
           u = t /\ call[u]'.pc = "untrack"
    BY <2>2, <2>3
  <2>7. TypeOK' BY <2>1, <2>2, <1>0 DEF TypeOK
  <2>8. OldIsHeld' BY <2>1, <2>2, <2>3, <1>0 DEF OldIsHeld
  <2>9. OwnersApart' BY <2>1, <2>5, <1>0 DEF OwnersApart, Apart
  <2>10. SlotsApart' BY <2>1, <1>0 DEF SlotsApart, Tracked
  <2>11. SlotsAndOwners'
    BY <2>1, <2>5, <2>6, <1>0 DEF SlotsAndOwners, Tracked, Apart, FrontOf
  <2>12. Below' BY <2>1, <2>5, <1>0 DEF Below, Tracked
  <2>13. LatestIsLast'
    BY <2>1, <2>2, <2>3, <2>5, <1>0 DEF LatestIsLast, Tracked
  <2>14. Accounts' BY <2>1, <1>0 DEF Accounts
  <2> QED
    BY <2>7, <2>8, <2>9, <2>10, <2>11, <2>12, <2>13, <2>14 DEF IInv
<1> QED BY <1>5, <1>6

\* A fragment of the array becomes free when its only owner gives it up.
LEMMA TrackFreeKeeps ==
    ASSUME HeapAssumption, IInv, NEW t \in HeapThreads, TrackFree(t)
    PROVE  IInv'
<1>0. /\ TypeOK /\ OldIsHeld /\ OwnersApart /\ SlotsApart /\ SlotsAndOwners
      /\ Below /\ LatestIsLast /\ Accounts
  BY DEF IInv
<1>1. call[t] \in Returns /\ call[t].pc = "untrack" BY <1>0, Kinds DEF TrackFree
<1>2. PICK f \in Frag : f = call[t].frag BY <1>1 DEF Returns
<1>3. f.addr \in Nat /\ f.size \in Nat /\ f.size > 0 BY FragTyped
<1>4. InCall(t) = {f} BY <1>1, <1>2 DEF InCall
<1> DEFINE at == {i \in Slots : frags[i].addr = f.addr}
<1>5. /\ call' = [call EXCEPT ![t] = Idle]
      /\ UNCHANGED <<shm_next, shm_last_alloc, hip, used_bytes, held, asserted>>
  BY DEF TrackFree, Set
<1>6. CASE frags' = frags
  <2>1. Idle \notin Requests BY DEF Idle, Requests
  <2> QED BY <1>5, <1>6, <2>1, CallMoves
<1>7. CASE frags' # frags
  <2>1. at # {} /\ frags' = [frags EXCEPT ![First(at)].free = TRUE]
    BY <1>2, <1>7 DEF TrackFree
  <2>2. PICK i \in at : i = First(at) BY <2>1, FirstIsIn
  <2>3. frags' = [frags EXCEPT ![i].free = TRUE] BY <2>1, <2>2
  <2>4. i \in Slots /\ frags[i].addr = f.addr /\ Tracked(i)
    BY <1>3 DEF Tracked, HeapAssumption
  <2>5. frags[i].addr \in Nat /\ frags[i].size \in Nat /\ frags[i].size > 0
    BY <1>0, <2>4, SlotTyped
  <2>6. FrontOf(f, frags[i])
    <3>1. Apart(f, frags[i]) \/ FrontOf(f, frags[i])
      BY <1>0, <1>4, <2>4 DEF SlotsAndOwners
    <3> QED BY <3>1, <2>4, <2>5, <1>3 DEF Apart
  <2>7. /\ \A j \in Slots : /\ frags[j]'.addr = frags[j].addr
                            /\ frags[j]'.size = frags[j].size
                            /\ j # i => frags[j]'.free = frags[j].free
                            /\ Tracked(j)' <=> Tracked(j)
        /\ frags[i]'.free = TRUE
    <3>1. \A j \in Slots :
             frags[j] \in [addr : Nat \cup {None}, size : Nat, free : BOOLEAN]
      BY <1>0 DEF TypeOK
    <3>2. frags[i]' = [frags[i] EXCEPT !.free = TRUE]
      BY <2>3, <2>4, <1>0 DEF TypeOK
    <3>3. /\ frags[i]'.addr = frags[i].addr /\ frags[i]'.size = frags[i].size
          /\ frags[i]'.free = TRUE
      BY <3>1, <3>2, <2>4
    <3>4. \A j \in Slots \ {i} : frags[j]' = frags[j]
      BY <2>3, <2>4, <1>0 DEF TypeOK
    <3> QED BY <3>3, <3>4 DEF Tracked
  <2>8. /\ call[t]' = Idle
        /\ \A u \in HeapThreads \ {t} : call[u]' = call[u]
    BY <1>5, <1>0 DEF TypeOK
  <2>9. InCall(t)' = {} /\ call[t]'.pc = "idle" BY <2>8 DEF Idle, InCall
  <2>10. \A u \in HeapThreads \ {t} : InCall(u)' = InCall(u) BY <2>8 DEF InCall
  <2>11. \A u \in HeapThreads : \A g \in held[u] \cup InCall(u) :
            g \in held[u] \/ u # t => Apart(g, frags[i])
    <3> SUFFICES ASSUME NEW u \in HeapThreads, NEW g \in held[u] \cup InCall(u),
                        g \in held[u] \/ u # t
                 PROVE  Apart(g, frags[i])
      OBVIOUS
    <3>1. g \in Frag BY <1>0, Kinds DEF TypeOK
    <3>2. g.addr \in Nat /\ g.size \in Nat /\ g.size > 0 BY <3>1, FragTyped
    <3>3. Apart(f, g) BY <1>0, <1>4 DEF OwnersApart
    <3>4. Apart(g, frags[i]) \/ FrontOf(g, frags[i])
      BY <1>0, <2>4 DEF SlotsAndOwners
    <3> QED BY <3>2, <3>3, <3>4, <2>4, <1>3 DEF Apart, FrontOf
  <2>12. TypeOK' BY <1>5, <2>3, <2>4, <1>0 DEF TypeOK
  <2>13. OldIsHeld' BY <1>5, <2>8, <2>9, <1>0 DEF OldIsHeld
  <2>14. OwnersApart' BY <1>5, <2>9, <2>10, <1>0 DEF OwnersApart, Apart
  <2>15. SlotsApart' BY <2>7, <1>0 DEF SlotsApart, Apart, Large
  <2>16. SlotsAndOwners'
    <3> SUFFICES ASSUME NEW u \in HeapThreads, NEW j \in Slots, Tracked(j)
                 PROVE
        /\ \A g \in held[u] :
              Apart(g, frags[j]) \/ (~frags[j]'.free /\ FrontOf(g, frags[j]))
        /\ \A g \in InCall(u)' :
              \/ Apart(g, frags[j])
              \/ /\ ~frags[j]'.free /\ FrontOf(g, frags[j])
                 /\ call[u]'.pc # "track"
      BY <1>5, <2>7 DEF SlotsAndOwners, Apart, FrontOf
    <3>1. CASE j = i BY <3>1, <2>9, <2>10, <2>11
    <3>2. CASE j # i
      BY <3>2, <2>7, <2>8, <2>9, <2>10, <1>0 DEF SlotsAndOwners
    <3> QED BY <3>1, <3>2
  <2>17. Below' BY <1>5, <2>7, <2>9, <2>10, <1>0 DEF Below
  <2>18. LatestIsLast'
    BY <1>5, <2>7, <2>8, <2>9, <2>10, <1>0 DEF LatestIsLast
  <2>19. Accounts' BY <1>5, <1>0 DEF Accounts
  <2> QED
    BY <2>12, <2>13, <2>14, <2>15, <2>16, <2>17, <2>18, <2>19 DEF IInv
<1> QED BY <1>6, <1>7

\* The invariant speaks of the variables of the heap only.
LEMMA StutterKeeps == ASSUME IInv, UNCHANGED vars PROVE IInv'
<1> USE DEF vars
<1>1. \A t \in HeapThreads : InCall(t)' = InCall(t) BY DEF InCall
<1>2. TypeOK' BY DEF IInv, TypeOK
<1>3. OldIsHeld' BY DEF IInv, OldIsHeld
<1>4. OwnersApart' BY <1>1 DEF IInv, OwnersApart, Apart
<1>5. SlotsApart' BY DEF IInv, SlotsApart, Tracked
<1>6. SlotsAndOwners' BY <1>1 DEF IInv, SlotsAndOwners, Tracked, Apart, FrontOf
<1>7. Below' BY <1>1 DEF IInv, Below, Tracked
<1>8. LatestIsLast' BY <1>1 DEF IInv, LatestIsLast, Tracked
<1>9. Accounts' BY DEF IInv, Accounts
<1> QED BY <1>2, <1>3, <1>4, <1>5, <1>6, <1>7, <1>8, <1>9 DEF IInv

\* IInv is inductive.
LEMMA NextKeeps == ASSUME HeapAssumption, IInv, [Next]_vars PROVE IInv'
<1>1. CASE UNCHANGED vars BY <1>1, StutterKeeps
<1>2. CASE Next
  <2>1. PICK t \in HeapThreads :
           \/ \E size \in Sizes : Alloc(t, size)
           \/ \E f \in held[t] : \/ Free(t, f)
                                 \/ \E size \in Sizes : Realloc(t, f, size)
           \/ FindLarge(t) \/ Bump(t) \/ TrackAlloc(t)
           \/ FreeLast(t) \/ TrackFree(t)
    BY <1>2 DEF Next
  <2>2. CASE \E size \in Sizes : Alloc(t, size) BY <2>2, AllocKeeps
  <2>3. CASE \E f \in held[t] : Free(t, f) BY <2>3, FreeKeeps
  <2>4. CASE \E f \in held[t] : \E size \in Sizes : Realloc(t, f, size)
    BY <2>4, ReallocKeeps
  <2>5. CASE FindLarge(t) BY <2>5, FindLargeKeeps
  <2>6. CASE Bump(t) BY <2>6, BumpKeeps
  <2>7. CASE TrackAlloc(t) BY <2>7, TrackAllocKeeps
  <2>8. CASE FreeLast(t) BY <2>8, FreeLastKeeps
  <2>9. CASE TrackFree(t) BY <2>9, TrackFreeKeeps
  <2> QED
    BY <2>1, <2>2, <2>3, <2>4, <2>5, <2>6, <2>7, <2>8, <2>9
<1> QED BY <1>1, <1>2

-----------------------------------------------------------------------------
(* What follows                                                             *)

\* The invariant speaks of owners, FragmentsDisjoint of the pieces they have.
LEMMA IInvApart == ASSUME HeapAssumption, IInv PROVE FragmentsDisjoint
<1>0. /\ TypeOK /\ OwnersApart /\ SlotsApart /\ SlotsAndOwners /\ Below /\ Accounts
  BY DEF IInv
<1>1. \A f \in Owned : \E t \in HeapThreads : f \in held[t] \/ f \in InCall(t)
  <2> SUFFICES ASSUME NEW f \in Owned
               PROVE  \E t \in HeapThreads : f \in held[t] \/ f \in InCall(t)
    OBVIOUS
  <2>1. CASE f \in UNION {held[t] : t \in HeapThreads} BY <2>1
  <2>2. CASE f \in {[addr |-> call[t].addr, size |-> call[t].size] :
                      t \in {u \in HeapThreads : call[u].pc = "track"}}
    BY <2>2 DEF InCall
  <2>3. CASE f \in {call[t].frag : t \in {u \in HeapThreads :
                                            call[u].pc \in {"free", "untrack"}}}
    <3>1. PICK t \in HeapThreads : /\ call[t].pc \in {"free", "untrack"}
                               /\ f = call[t].frag
      BY <2>3
    <3>2. call[t].pc # "track" BY <3>1
    <3>3. f \in InCall(t) BY <3>1, <3>2 DEF InCall
    <3> QED BY <3>3
  <2>4. \/ f \in UNION {held[t] : t \in HeapThreads}
        \/ f \in {[addr |-> call[t].addr, size |-> call[t].size] :
                     t \in {u \in HeapThreads : call[u].pc = "track"}}
        \/ f \in {call[t].frag : t \in {u \in HeapThreads :
                                           call[u].pc \in {"free", "untrack"}}}
    BY DEF Owned
  <2> QED BY <2>1, <2>2, <2>3, <2>4
<1>2. \A f \in Spare : \E i \in Slots :
         /\ Tracked(i) /\ frags[i].free
         /\ f.addr = frags[i].addr /\ f.size = frags[i].size
  BY DEF Spare, Tracked
<1>3. \A f \in Owned \cup Spare : f.addr + f.size <= shm_next
  BY <1>0, <1>1, <1>2 DEF Below
<1>4. \A f \in Owned : \A g \in Owned : f # g => Apart(f, g)
  <2> SUFFICES ASSUME NEW f \in Owned, NEW g \in Owned, f # g PROVE Apart(f, g)
    OBVIOUS
  <2>1. PICK t \in HeapThreads : f \in held[t] \/ f \in InCall(t) BY <1>1
  <2>2. PICK u \in HeapThreads : g \in held[u] \/ g \in InCall(u) BY <1>1
  <2>3. CASE f \in InCall(t) /\ g \in InCall(u)
    <3>1. t # u
      <4> SUFFICES ASSUME t = u PROVE FALSE OBVIOUS
      <4> QED BY <2>3 DEF InCall
    <3> QED BY <2>3, <3>1, <1>0 DEF OwnersApart
  <2>4. CASE f \in held[t] /\ g \in InCall(u)
    <3>1. Apart(g, f) BY <2>4, <1>0 DEF OwnersApart
    <3> QED BY <3>1 DEF Apart
  <2>5. CASE g \in held[u] BY <2>1, <2>5, <1>0 DEF OwnersApart
  <2> QED BY <2>1, <2>2, <2>3, <2>4, <2>5
<1>5. \A f \in Owned, g \in Spare : Apart(f, g) /\ Apart(g, f)
  <2> SUFFICES ASSUME NEW f \in Owned, NEW g \in Spare
               PROVE  Apart(f, g) /\ Apart(g, f)
    OBVIOUS
  <2>1. PICK t \in HeapThreads : f \in held[t] \/ f \in InCall(t) BY <1>1
  <2>2. PICK i \in Slots : /\ Tracked(i) /\ frags[i].free
                           /\ g.addr = frags[i].addr /\ g.size = frags[i].size
    BY <1>2
  <2>3. Apart(f, frags[i]) BY <2>1, <2>2, <1>0 DEF SlotsAndOwners
  <2> QED BY <2>2, <2>3 DEF Apart
<1>6. \A f \in Spare, g \in Spare : f # g => Apart(f, g)
  <2> SUFFICES ASSUME NEW f \in Spare, NEW g \in Spare, f # g PROVE Apart(f, g)
    OBVIOUS
  <2>1. PICK i \in Slots : /\ Tracked(i)
                           /\ f = [addr |-> frags[i].addr, size |-> frags[i].size]
    BY DEF Spare, Tracked
  <2>2. PICK j \in Slots : /\ Tracked(j)
                           /\ g = [addr |-> frags[j].addr, size |-> frags[j].size]
    BY DEF Spare, Tracked
  <2>3. i # j BY <2>1, <2>2
  <2>4. Apart(frags[i], frags[j]) BY <2>1, <2>2, <2>3, <1>0 DEF SlotsApart
  <2> QED BY <2>1, <2>2, <2>4 DEF Apart
<1>7. \A f \in Owned \cup Spare, g \in Owned \cup Spare : f # g => Apart(f, g)
  BY <1>4, <1>5, <1>6
<1> QED BY <1>0, <1>3, <1>7 DEF FragmentsDisjoint, Accounts, Apart

(* However many threads allocate, reallocate and free in the segment, of    *)
(* whatever size it, the requests and the array of large fragments are: no  *)
(* byte of it belongs to two of them, nor to one and to the fragments kept  *)
(* for the next large request, and the assertion of                         *)
(* platform_shm_track_large_alloc holds.                                    *)
THEOREM FragmentsDisjointHolds ==
    Spec => []FragmentsDisjoint
<1>1. Init => IInv BY ConstantsAssumption, InitOK
<1>2. IInv /\ [Next]_vars => IInv' BY ConstantsAssumption, NextKeeps
<1>3. IInv => FragmentsDisjoint BY ConstantsAssumption, IInvApart
<1> QED BY <1>1, <1>2, <1>3, PTL DEF Spec
=============================================================================
