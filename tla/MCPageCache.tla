---------------------------- MODULE MCPageCache ----------------------------
(* Small instances of PageCache for TLC: one entry per batch, a reference  *)
(* counter per thread or a shared one, and the operations of each thread.  *)
EXTENDS PageCacheInv, TLC

CONSTANTS e1, e2, t1, t2, t3, b1, b2, b3, s1, s2, a1, a2, branch, memtable

OneEntry == e1 :> b1
OneEach == (e1 :> b1) @@ (e2 :> b2)

TwoSlots   == (t1 :> s1) @@ (t2 :> s2)
SharedSlot == (t1 :> s1) @@ (t2 :> s2) @@ (t3 :> s2)

TwoThreads == (t1 :> Operations) @@ (t2 :> Operations)
\* a reader, a writer and the owner of the extent
ThreeThreads == (t1 :> {"get"}) @@ (t2 :> {"write"})
                  @@ (t3 :> {"write", "alloc", "discard"})

\* Renamings under which the constants stay the same: threads together with
\* their counters, entries together with their batches.
SwapThreads == {p \in Permutations({t1, t2, s1, s2}) :
                  /\ p[t1] \in {t1, t2}
                  /\ p[s1] = (IF p[t1] = t1 THEN s1 ELSE s2)}
SwapEntries == {p \in Permutations({e1, e2, b1, b2}) :
                  /\ p[e1] \in {e1, e2}
                  /\ p[b1] = (IF p[e1] = e1 THEN b1 ELSE b2)}
TypesSymmetry == SwapThreads \cup Permutations({a1, a2})
TwoSymmetry == SwapThreads \cup SwapEntries \cup Permutations({a1, a2})
=============================================================================
