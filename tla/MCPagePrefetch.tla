--------------------------- MODULE MCPagePrefetch ---------------------------
(* Small instances of PagePrefetch for TLC.                                *)
EXTENDS PagePrefetch, TLC

CONSTANTS e1, e2, t1, t2, t3, b1, b2, b3, s1, s2, a1, a2, branch

OneEach == (e1 :> b1) @@ (e2 :> b2)
\* one counter for all three: a writer waits for them in one step
OneSlot == (t1 :> s1) @@ (t2 :> s1) @@ (t3 :> s1)

\* a reader that does not wait, a thread that only prefetches, and a reader
ThreeThreads == (t1 :> {"tryget"}) @@ (t2 :> {}) @@ (t3 :> {"get"})

SwapEntries == {p \in Permutations({e1, e2, b1, b2}) :
                  /\ p[e1] \in {e1, e2}
                  /\ p[b1] = (IF p[e1] = e1 THEN b1 ELSE b2)}
TwoSymmetry == SwapEntries \cup Permutations({a1, a2})
=============================================================================
