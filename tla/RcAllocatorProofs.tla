------------------------- MODULE RcAllocatorProofs -------------------------
(* The extent allocator for any number of threads and extents.              *)
(*                                                                          *)
(* That an allocation fails only when the device was full is about a hand   *)
(* which the threads share: the extents a call has passed over were drawn   *)
(* by others.  The invariant ScanCovers says what a call may rely on: the   *)
(* extents between the place where its scan began and the hand are not free *)
(* any more, or somebody has drawn them and has yet to look at them.        *)
EXTENDS RcAllocator, FiniteSetTheorems, TLAPS

\* The type of the variables the proofs are about.
RcTypeOK ==
    /\ ref_count \in [Extents -> Nat]
    /\ hand \in Extents
    /\ disk_count \in [Extents -> Nat]
    /\ mounted \in BOOLEAN
    /\ alloc_pc \in [AllocThreads -> {"idle", "draw", "test"}]
    /\ first_hand \in [AllocThreads -> Extents]
    /\ drawn \in [AllocThreads -> Extents]
    /\ owned \in [Extents -> Nat]
    /\ free_since \in [AllocThreads -> SUBSET Extents]

\* Mounted or not, the counts are right where they are kept.
AllCounted ==
    IF mounted THEN \A e \in Extents : Counted(ref_count, e)
    ELSE /\ \A e \in Extents : Counted(disk_count, e)
         /\ \A t \in AllocThreads : alloc_pc[t] = "idle"

\* What a call found free, and has followed since, is free; who is in no call
\* follows nothing.
StillFree ==
    \A t \in AllocThreads :
        /\ \A e \in free_since[t] : ref_count[e] = 0
        /\ alloc_pc[t] = "idle" => free_since[t] = {}

\* Somebody has yet to look at e.
Pending(e) == \E u \in AllocThreads : alloc_pc[u] = "test" /\ drawn[u] = e

\* The extents from f up to h, around the end of the device.
Between(f, h) == {e \in Extents : IF f <= h THEN f <= e /\ e < h
                                  ELSE f <= e \/ e < h}

\* What a scan has passed, and the extent it looks at, lies behind it.
ScanCovers ==
    \A t \in AllocThreads : alloc_pc[t] # "idle" =>
        \/ \A e \in free_since[t] : Pending(e)
        \/ /\ \A e \in free_since[t] : e \in Between(first_hand[t], hand) => Pending(e)
           /\ alloc_pc[t] = "test" => drawn[t] \in Between(first_hand[t], hand)

RcInv == RcTypeOK /\ AllCounted /\ StillFree /\ ScanCovers

-----------------------------------------------------------------------------
(* Going round the device.                                                  *)

\* The extent after n.
LEMMA NextExtent ==
    ASSUME RcAssumption, NEW n \in Extents
    PROVE  /\ (n + 1) % extent_capacity \in Extents
           /\ (n + 1) % extent_capacity = IF n + 1 = extent_capacity THEN 0 ELSE n + 1
  BY DEF RcAssumption, Extents

\* The hand moves on: what was passed grows by the extent it was at, unless
\* it has come round.
LEMMA BetweenGrows ==
    ASSUME RcAssumption, NEW f \in Extents, NEW h \in Extents,
           NEW n, n = (h + 1) % extent_capacity, n # f
    PROVE  Between(f, n) = Between(f, h) \cup {h}
  BY NextExtent DEF Between, Extents, RcAssumption

\* When it has come round everything was passed.
LEMMA BetweenAll ==
    ASSUME RcAssumption, NEW f \in Extents, NEW h \in Extents,
           f = (h + 1) % extent_capacity
    PROVE  \A e \in Extents : e = h \/ e \in Between(f, h)
  <1>1. CASE h + 1 = extent_capacity
    BY <1>1, NextExtent DEF Between, Extents, RcAssumption
  <1>2. CASE h + 1 # extent_capacity
    BY <1>2, NextExtent DEF Between, Extents, RcAssumption
  <1> QED BY <1>1, <1>2

\* The last extent of a scan is passed only when the hand has come round.
LEMMA LastIsOutside ==
    ASSUME RcAssumption, NEW f \in Extents, NEW h \in Extents,
           NEW d \in Extents, f = (d + 1) % extent_capacity
    PROVE  d \notin Between(f, h)
  BY NextExtent DEF Between, Extents, RcAssumption

-----------------------------------------------------------------------------
\* The invariant holds when the device is formatted.
LEMMA RcInvInit == RcAssumption /\ RcInit => RcInv
  <1> SUFFICES ASSUME RcAssumption, RcInit PROVE RcInv
    OBVIOUS
  <1>1. Cardinality(Reserved) \in Nat
    <2>1. IsFiniteSet({0, 1})
      <3>1. IsFiniteSet({0})
        BY FS_Singleton
      <3>2. IsFiniteSet({0} \cup {1})
        BY <3>1, FS_AddElement
      <3>3. {0, 1} = {0} \cup {1}
        OBVIOUS
      <3> QED BY <3>2, <3>3
    <2> QED BY <2>1, FS_CardinalityType DEF Reserved
  <1>2. hand \in Extents /\ 0 \in Extents
    BY <1>1 DEF RcInit, Extents, RcAssumption
  <1>3. RcTypeOK
    BY <1>2 DEF RcInit, RcTypeOK, Nothing, Reserved
  <1>4. AllCounted
    BY DEF RcInit, AllCounted, Counted, Nothing, Reserved
  <1>5. StillFree /\ ScanCovers
    BY DEF RcInit, StillFree, ScanCovers
  <1> QED BY <1>3, <1>4, <1>5 DEF RcInv

\* Every step keeps the types.
LEMMA RcTypes == RcAssumption /\ RcInv /\ RcNext => RcTypeOK'
  <1> SUFFICES ASSUME RcAssumption, RcInv, RcNext PROVE RcTypeOK'
    OBVIOUS
  <1> USE DEF RcTypeOK, disk, mem
  <1>0. RcTypeOK /\ AllCounted /\ 0 \in Extents
    BY DEF RcInv, RcAssumption, Extents
  <1>1. ASSUME NEW t \in AllocThreads, AllocBegin(t) PROVE RcTypeOK'
    BY <1>0, <1>1 DEF AllocBegin, FreeExtents
  <1>2. ASSUME NEW t \in AllocThreads, AllocDraw(t) PROVE RcTypeOK'
    BY <1>0, <1>2, NextExtent DEF AllocDraw
  <1>3. ASSUME NEW t \in AllocThreads, AllocTake(t) PROVE RcTypeOK'
    BY <1>0, <1>3 DEF AllocTake, Taken
  <1>4. ASSUME NEW t \in AllocThreads, AllocMiss(t) PROVE RcTypeOK'
    BY <1>0, <1>4 DEF AllocMiss, AllocReturn
  <1>5. ASSUME NEW t \in AllocThreads, NEW e \in Extents, IncRef(t, e)
        PROVE  RcTypeOK'
    BY <1>0, <1>5 DEF IncRef
  <1>6. ASSUME NEW t \in AllocThreads, NEW e \in Extents, DecRef(t, e)
        PROVE  RcTypeOK'
    <2>1. ref_count[e] # 0 /\ Counted(ref_count, e)
      BY <1>0, <1>6 DEF DecRef, AllCounted, Counted
    <2>2. ref_count[e] - 1 \in Nat /\ (owned[e] > 0 => owned[e] - 1 \in Nat)
      BY <1>0, <2>1
    <2> QED BY <1>0, <1>6, <2>2 DEF DecRef
  <1>7. ASSUME NEW r, AllocSuperAddr(r) \/ RemoveSuperAddr(r) PROVE RcTypeOK'
    BY <1>0, <1>7 DEF AllocSuperAddr, RemoveSuperAddr
  <1>8. CASE Unmount
    BY <1>0, <1>8 DEF Unmount
  <1>9. CASE Mount
    BY <1>0, <1>9 DEF Mount, Nothing
  <1> QED
    BY <1>1, <1>2, <1>3, <1>4, <1>5, <1>6, <1>7, <1>8, <1>9 DEF RcNext

\* Every step keeps the counts.
LEMMA RcCounts == RcAssumption /\ RcInv /\ RcNext => AllCounted'
  <1> SUFFICES ASSUME RcAssumption, RcInv, RcNext PROVE AllCounted'
    OBVIOUS
  <1> USE DEF disk, mem
  <1>0. RcTypeOK /\ AllCounted
    BY DEF RcInv
  <1>1. ASSUME NEW t \in AllocThreads, AllocBegin(t) \/ AllocDraw(t) \/ AllocMiss(t)
        PROVE  AllCounted'
    <2>1. mounted /\ mounted' /\ ref_count' = ref_count /\ owned' = owned
      BY <1>0, <1>1 DEF AllocBegin, AllocDraw, AllocMiss, AllCounted
    <2> QED BY <1>0, <2>1 DEF AllCounted, Counted
  <1>2. ASSUME NEW t \in AllocThreads, AllocTake(t) PROVE AllCounted'
    <2>1. mounted /\ mounted'
      BY <1>0, <1>2 DEF AllocTake, AllCounted
    <2>2. /\ Counted(ref_count, drawn[t]) /\ drawn[t] \in Extents
          /\ ref_count[drawn[t]] = 0
      BY <1>0, <1>2, <2>1 DEF AllocTake, AllCounted, RcTypeOK
    <2>3. drawn[t] \notin Reserved /\ owned[drawn[t]] = 0
      BY <1>0, <2>2 DEF Counted, RcTypeOK
    <2> QED
      BY <1>0, <1>2, <2>1, <2>2, <2>3
      DEF AllocTake, AllCounted, Counted, RcTypeOK, Taken
  <1>3. ASSUME NEW t \in AllocThreads, NEW e \in Extents, IncRef(t, e)
        PROVE  AllCounted'
    BY <1>0, <1>3 DEF IncRef, AllCounted, Counted, RcTypeOK
  <1>4. ASSUME NEW t \in AllocThreads, NEW e \in Extents, DecRef(t, e)
        PROVE  AllCounted'
    BY <1>0, <1>4 DEF DecRef, AllCounted, Counted, RcTypeOK
  <1>5. ASSUME NEW r, AllocSuperAddr(r) \/ RemoveSuperAddr(r) PROVE AllCounted'
    BY <1>0, <1>5 DEF AllocSuperAddr, RemoveSuperAddr, AllCounted, Counted
  <1>6. CASE Unmount
    BY <1>0, <1>6 DEF Unmount, Quiet, AllCounted, Counted
  <1>7. CASE Mount
    BY <1>0, <1>7 DEF Mount, AllCounted, Counted
  <1> QED BY <1>1, <1>2, <1>3, <1>4, <1>5, <1>6, <1>7 DEF RcNext

\* Every step keeps free what a call found free, or takes it out.
LEMMA RcFree == RcAssumption /\ RcInv /\ RcNext => StillFree'
  <1> SUFFICES ASSUME RcAssumption, RcInv, RcNext PROVE StillFree'
    OBVIOUS
  <1> USE DEF disk, mem
  <1>0. RcTypeOK /\ AllCounted /\ StillFree
    BY DEF RcInv
  <1>1. ASSUME NEW t \in AllocThreads, AllocBegin(t) \/ AllocDraw(t) \/ AllocMiss(t)
        PROVE  StillFree'
    BY <1>0, <1>1
    DEF AllocBegin, AllocDraw, AllocMiss, AllocReturn, FreeExtents,
                      StillFree, RcTypeOK
  <1>2. ASSUME NEW t \in AllocThreads, AllocTake(t) PROVE StillFree'
    BY <1>0, <1>2 DEF AllocTake, StillFree, RcTypeOK
  <1>3. ASSUME NEW t \in AllocThreads, NEW e \in Extents, IncRef(t, e) \/ DecRef(t, e)
        PROVE  StillFree'
    <2>1. ref_count[e] # 0 /\ free_since' = free_since
      BY <1>0, <1>3 DEF IncRef, DecRef, AllCounted, Counted, RcTypeOK
    <2>2. \A f \in Extents \ {e} : ref_count'[f] = ref_count[f]
      BY <1>0, <1>3 DEF IncRef, DecRef, RcTypeOK
    <2>3. alloc_pc' = alloc_pc
      BY <1>3 DEF IncRef, DecRef
    <2> QED BY <1>0, <2>1, <2>2, <2>3 DEF StillFree, RcTypeOK
  <1>4. ASSUME NEW r, AllocSuperAddr(r) \/ RemoveSuperAddr(r) PROVE StillFree'
    BY <1>0, <1>4 DEF AllocSuperAddr, RemoveSuperAddr, StillFree
  <1>5. CASE Unmount
    BY <1>0, <1>5 DEF Unmount, StillFree
  <1>6. CASE Mount
    BY <1>0, <1>6 DEF Mount, StillFree, AllCounted
  <1> QED BY <1>1, <1>2, <1>3, <1>4, <1>5, <1>6 DEF RcNext


\* A step that draws nothing and lets go of no free extent that was drawn.
LEMMA CoverKept ==
    ASSUME RcInv, NEW t \in AllocThreads, alloc_pc'[t] # "idle", hand' = hand,
           alloc_pc[t] # "idle", first_hand'[t] = first_hand[t],
           alloc_pc'[t] = "test" => alloc_pc[t] = "test" /\ drawn'[t] = drawn[t],
           free_since'[t] \subseteq free_since[t],
           \A e \in free_since'[t] : Pending(e) => Pending(e)'
    PROVE  \/ \A e \in free_since'[t] : Pending(e)'
           \/ /\ \A e \in free_since'[t] :
                   e \in Between(first_hand'[t], hand') => Pending(e)'
              /\ alloc_pc'[t] = "test" => drawn'[t] \in Between(first_hand'[t], hand')
  BY DEF RcInv, ScanCovers

\* Every step keeps the scans covered.
LEMMA RcScans == RcAssumption /\ RcInv /\ RcNext => ScanCovers'
  <1> SUFFICES ASSUME RcAssumption, RcInv, RcNext,
                      NEW t \in AllocThreads, alloc_pc'[t] # "idle"
               PROVE  \/ \A e \in free_since'[t] : Pending(e)'
                      \/ /\ \A e \in free_since'[t] :
                              e \in Between(first_hand'[t], hand') => Pending(e)'
                         /\ alloc_pc'[t] = "test" =>
                              drawn'[t] \in Between(first_hand'[t], hand')
    BY DEF ScanCovers, Between
  <1> DEFINE Goal == \/ \A e \in free_since'[t] : Pending(e)'
                     \/ /\ \A e \in free_since'[t] :
                             e \in Between(first_hand'[t], hand') => Pending(e)'
                        /\ alloc_pc'[t] = "test" =>
                             drawn'[t] \in Between(first_hand'[t], hand')
  <1> USE DEF disk, mem
  <1>0. RcTypeOK /\ StillFree /\ ScanCovers /\ AllCounted /\ RcTypeOK'
    BY RcTypes DEF RcInv
  <1>1. CASE UNCHANGED <<alloc_pc, drawn, hand, first_hand, free_since>>
    BY <1>0, <1>1 DEF ScanCovers, Pending, Between
  <1>2. ASSUME NEW u \in AllocThreads, AllocBegin(u) PROVE Goal
    <2>1. CASE u = t
      <3>1. first_hand'[t] = hand' /\ alloc_pc'[t] = "draw"
        BY <1>0, <1>2, <2>1 DEF AllocBegin, RcTypeOK
      <3>2. Between(hand', hand') = {}
        BY <1>0 DEF Between, RcTypeOK, Extents
      <3> QED BY <3>1, <3>2
    <2>2. CASE u # t
      <3>1. /\ alloc_pc'[t] = alloc_pc[t] /\ first_hand'[t] = first_hand[t]
            /\ free_since'[t] = free_since[t] /\ drawn' = drawn /\ hand' = hand
        BY <1>0, <1>2, <2>2 DEF AllocBegin, RcTypeOK
      <3>2. \A e : Pending(e) => Pending(e)'
        BY <1>0, <1>2 DEF AllocBegin, RcTypeOK, Pending
      <3> QED BY <3>1, <3>2, CoverKept
    <2> QED BY <2>1, <2>2
  <1>3. ASSUME NEW u \in AllocThreads, AllocDraw(u) PROVE Goal
    <2>1. /\ alloc_pc[t] # "idle" /\ first_hand' = first_hand
          /\ free_since' = free_since /\ hand' = (hand + 1) % extent_capacity
      BY <1>0, <1>3 DEF AllocDraw, RcTypeOK
    <2>h. PICK h \in Extents : h = hand
      BY <1>0 DEF RcTypeOK
    <2>2. Pending(h)'
      <3>1. alloc_pc'[u] = "test" /\ drawn'[u] = h
        BY <1>0, <1>3, <2>h DEF AllocDraw, RcTypeOK
      <3> QED BY <3>1 DEF Pending
    <2>3. \A e : Pending(e) => Pending(e)'
      <3>1. ASSUME NEW e, NEW v \in AllocThreads, alloc_pc[v] = "test", drawn[v] = e
            PROVE  alloc_pc'[v] = "test" /\ drawn'[v] = e
        BY <1>0, <1>3, <3>1 DEF AllocDraw, RcTypeOK
      <3> QED BY <3>1 DEF Pending
    <2>4. CASE \A e \in free_since[t] : Pending(e)
      BY <2>1, <2>3, <2>4
    <2>5. CASE /\ \A e \in free_since[t] :
                    e \in Between(first_hand[t], hand) => Pending(e)
               /\ alloc_pc[t] = "test" => drawn[t] \in Between(first_hand[t], hand)
      <3>1. first_hand[t] \in Extents /\ hand \in Extents /\ free_since[t] \subseteq Extents
        BY <1>0 DEF RcTypeOK
      <3>2. CASE hand' = first_hand[t]
        <4>1. \A e \in Extents : e = hand \/ e \in Between(first_hand[t], hand)
          BY <2>1, <3>1, <3>2, BetweenAll
        <4> QED BY <2>1, <2>h, <2>2, <2>3, <2>5, <3>1, <4>1
      <3>3. CASE hand' # first_hand[t]
        <4>1. Between(first_hand[t], hand') = Between(first_hand[t], hand) \cup {hand}
          BY <2>1, <3>1, <3>3, BetweenGrows
        <4>2. \A e \in free_since[t] : e \in Between(first_hand[t], hand') => Pending(e)'
          BY <2>h, <2>2, <2>3, <2>5, <4>1
        <4>3. alloc_pc'[t] = "test" => drawn'[t] \in Between(first_hand[t], hand')
          <5>1. CASE u = t
            BY <1>0, <1>3, <4>1, <5>1 DEF AllocDraw, RcTypeOK
          <5>2. CASE u # t
            BY <1>0, <1>3, <2>5, <4>1, <5>2 DEF AllocDraw, RcTypeOK
          <5> QED BY <5>1, <5>2
        <4> QED BY <2>1, <4>2, <4>3
      <3> QED BY <3>2, <3>3
    <2> QED BY <1>0, <2>1, <2>4, <2>5 DEF ScanCovers
  <1>4. ASSUME NEW u \in AllocThreads, AllocTake(u) PROVE Goal
    <2>1. u # t
      BY <1>0, <1>4 DEF AllocTake, RcTypeOK
    <2>2. /\ alloc_pc'[t] = alloc_pc[t] /\ first_hand'[t] = first_hand[t]
          /\ free_since'[t] = free_since[t] \ {drawn[u]} /\ drawn'[t] = drawn[t]
          /\ hand' = hand
      BY <1>0, <1>4, <2>1 DEF AllocTake, RcTypeOK
    <2>3. ASSUME NEW e, e # drawn[u], Pending(e) PROVE Pending(e)'
      BY <1>0, <1>4, <2>3 DEF AllocTake, RcTypeOK, Pending
    <2> QED BY <2>2, <2>3, CoverKept
  <1>5. ASSUME NEW u \in AllocThreads, AllocMiss(u) PROVE Goal
    <2>1. /\ alloc_pc[t] # "idle" /\ hand' = hand
          /\ first_hand'[t] = first_hand[t] /\ free_since'[t] = free_since[t]
          /\ alloc_pc'[t] = "test" => alloc_pc[t] = "test" /\ drawn'[t] = drawn[t]
      <3>1. CASE u = t
        BY <1>0, <1>5, <3>1 DEF AllocMiss, AllocReturn, RcTypeOK
      <3>2. CASE u # t
        BY <1>0, <1>5, <3>2 DEF AllocMiss, AllocReturn, RcTypeOK
      <3> QED BY <3>1, <3>2
    <2>2. drawn[u] \notin free_since[t]
      BY <1>0, <1>5 DEF AllocMiss, StillFree
    <2>3. ASSUME NEW e, e # drawn[u], Pending(e) PROVE Pending(e)'
      <3>1. PICK v \in AllocThreads : alloc_pc[v] = "test" /\ drawn[v] = e
        BY <2>3 DEF Pending
      <3>2. alloc_pc'[v] = "test" /\ drawn'[v] = e
        BY <1>0, <1>5, <2>3, <3>1 DEF AllocMiss, AllocReturn, RcTypeOK
      <3> QED BY <3>2 DEF Pending
    <2> QED BY <2>1, <2>2, <2>3, CoverKept
  <1>6. ASSUME NEW u \in AllocThreads, NEW e \in Extents, IncRef(u, e) \/ DecRef(u, e)
        PROVE  Goal
    BY <1>1, <1>6 DEF IncRef, DecRef
  <1>7. ASSUME NEW r, AllocSuperAddr(r) \/ RemoveSuperAddr(r) PROVE Goal
    BY <1>1, <1>7 DEF AllocSuperAddr, RemoveSuperAddr
  <1>8. CASE Unmount
    BY <1>1, <1>8 DEF Unmount
  <1>9. CASE Mount
    BY <1>0, <1>9 DEF Mount, AllCounted
  <1> QED
    BY <1>2, <1>3, <1>4, <1>5, <1>6, <1>7, <1>8, <1>9 DEF RcNext

\* Every step keeps the invariant.
LEMMA RcInvNext == RcAssumption /\ RcInv /\ [RcNext]_rcVars => RcInv'
  <1> SUFFICES ASSUME RcAssumption, RcInv, [RcNext]_rcVars PROVE RcInv'
    OBVIOUS
  <1>1. CASE RcNext
    BY <1>1, RcTypes, RcCounts, RcFree, RcScans DEF RcInv
  <1>2. CASE UNCHANGED rcVars
    BY <1>2 DEF rcVars, RcInv, RcTypeOK, AllCounted, Counted, StillFree,
                ScanCovers, Pending, Between
  <1> QED BY <1>1, <1>2

(* The count of every extent is what its users hold, over unmount and mount *)
(* too, and rc_allocator_alloc reports that there is no space only if no    *)
(* extent was free during the whole call (but for those that other threads  *)
(* have drawn and are about to take), for any number of threads and extents.*)
THEOREM AllocatorExact == RcSpec => []AllocationsAreExact
  <1>1. RcAssumption /\ RcInv => AllocationsAreExact
    <2> SUFFICES ASSUME RcAssumption, RcInv PROVE AllocationsAreExact
      OBVIOUS
    <2>1. CountsAreOwned
      BY DEF RcInv, AllCounted, CountsAreOwned
    <2>2. NoSpaceIsTrue
      <3> SUFFICES ASSUME NEW t \in AllocThreads, alloc_pc[t] = "test",
                          ref_count[drawn[t]] # 0, LastOfScan(t),
                          NEW e \in free_since[t]
                   PROVE  \E u \in AllocThreads \ {t} :
                              alloc_pc[u] = "test" /\ drawn[u] = e
        BY DEF NoSpaceIsTrue
      <3>1. /\ first_hand[t] \in Extents /\ hand \in Extents /\ drawn[t] \in Extents
            /\ ref_count[e] = 0
        BY DEF RcInv, RcTypeOK, StillFree
      <3>2. drawn[t] \notin Between(first_hand[t], hand)
        BY <3>1, LastIsOutside DEF LastOfScan
      <3>3. Pending(e)
        BY <3>2 DEF RcInv, ScanCovers
      <3> QED BY <3>1, <3>3 DEF Pending
    <2> QED BY <2>1, <2>2 DEF AllocationsAreExact
  <1> QED BY RcConstants, RcInvInit, RcInvNext, <1>1, PTL DEF RcSpec
=============================================================================
