--------------------------- MODULE RoutingFilter ---------------------------
(***************************************************************************)
(* The routing filter (routing_filter.c) that tells a lookup which         *)
(* branches of a bundle may hold a key.  routing_filter_add builds a new   *)
(* filter from an old one and the fingerprints of one more branch, its     *)
(* value.  A fingerprint with its value is a number: bucket, remainder and *)
(* value, from the high bits to the low ones; where they part changes as   *)
(* the filter grows.  An index holds the entries of index_size buckets: a  *)
(* bit string, in which each bucket is a run of zeros that a one ends, and *)
(* the remainders with their values.  How an index lies on its page is     *)
(* left out, and packing keeps a remainder as it is (PackedArray).         *)
(***************************************************************************)
EXTENDS Integers, Sequences, FiniteSets, FiniteSetsExt, SequencesExt

CONSTANTS
    fingerprint_size, log_index_size,   \* routing_config
    WORD,           \* bits of a word of the encoding
    Batches,        \* sequences of fingerprints, of one branch each
    MaxAdds         \* bound: branches

VARIABLES
    filter,     \* [num_fingerprints, value_size, index]
    added       \* the fingerprints of the branches so far

vars == <<filter, added>>

index_size == 2 ^ log_index_size
Fingerprints == 0 .. 2 ^ fingerprint_size - 1
NULL_ROUTING_FILTER == [num_fingerprints |-> 0, value_size |-> 0, index |-> <<>>]

Log2(n) == CHOOSE i \in 0 .. n : 2 ^ i <= n /\ n < 2 ^ (i + 1)
LogNumBuckets(n) == Max({Log2(n), log_index_size})
NumIndices(n) == 2 ^ (LogNumBuckets(n) - log_index_size)
RemainderSize(n) == fingerprint_size - LogNumBuckets(n)

\* The bits of a value.
ValueSize(value) == IF value = 0 THEN 0 ELSE Log2(value) + 1

-----------------------------------------------------------------------------
\* An index: zeros is the set of the unset bits of its encoding.

Header(zeros, block) == [zeros |-> zeros, block |-> block]

\* The set bits of a word; those past the end were never unset.
Word(zeros, w) == {i \in 0 .. WORD - 1 : w * WORD + i \notin zeros}

RECURSIVE FirstOne(_, _, _)
FirstOne(zeros, w, ones) ==
    IF ones = {} THEN FirstOne(zeros, w + 1, Word(zeros, w + 1))
    ELSE w * WORD + Min(ones)

\* Words are skipped as long as bucket b ends after them.
RECURSIVE SkipWords(_, _, _, _)
SkipWords(zeros, w, bucket, b) ==
    LET pop == Cardinality(Word(zeros, w))
    IN  IF bucket + pop < b THEN SkipWords(zeros, w + 1, bucket + pop, b)
        ELSE <<w, bucket>>

DropLowest(S, n) == {i \in S : Cardinality({j \in S : j < i}) >= n}

\* routing_get_bucket_bounds
BucketBounds(zeros, b) ==
    IF b = 0 THEN <<0, FirstOne(zeros, 0, Word(zeros, 0))>>
    ELSE LET at == SkipWords(zeros, 0, 0, b)
             ones == DropLowest(Word(zeros, at[1]), b - 1 - at[2])
         IN  <<at[1] * WORD + Min(ones) - b + 1,
               FirstOne(zeros, at[1], ones \ {Min(ones)}) - b>>

\* routing_get_bucket_counts: the zeros after which b ones have been seen.
BucketCount(zeros, b) ==
    Cardinality({z \in zeros : Cardinality((0 .. z) \ zeros) = b})

-----------------------------------------------------------------------------
\* routing_filter_add

\* Sorted, widened by the value, without duplicates.
NewEntries(fps, value) ==
    LET e == {fps[i] * 2 ^ ValueSize(value) + value : i \in DOMAIN fps}
    IN  [i \in 1 .. Cardinality(e) |->
            CHOOSE x \in e : Cardinality({y \in e : y < x}) = i - 1]

\* A mistake in Widened: the remainder is shifted along with its value.
WidenedWhole(e, old, new) == e * 2 ^ (new - old)

\* An old entry when values take more bits.
Widened(e, old, new) ==
    LET value == e % 2 ^ old
    IN  (e - value) * 2 ^ (new - old) + value

\* The entries of index i of the old filter, with their buckets put back.
OldEntries(old, i, value_size) ==
    LET hdr == old.index[i + 1]
        size == RemainderSize(old.num_fingerprints) + old.value_size
        buckets == FoldLeft(LAMBDA acc, b : acc \o
                        [j \in 1 .. BucketCount(hdr.zeros, b - 1) |-> i * index_size + b - 1],
                        <<>>, [b \in 1 .. index_size |-> b])
    IN  [j \in DOMAIN hdr.block |->
            Widened(buckets[j] * 2 ^ size + hdr.block[j], old.value_size, value_size)]

\* A mistake in PutBack: the entry of a later index is lost.
PutBackNot(old_fps_added) == old_fps_added + 1

\* The old entry was taken and belongs to a later index.
PutBack(old_fps_added) == old_fps_added

\* The loop over the entries of one index, up to end: those in it, and how
\* many of the old ones are used up.
RECURSIVE MergeIndex(_, _, _, _, _, _)
MergeIndex(old, o, new, n, end, acc) ==
    LET is_old == \/ n = Len(new)
                  \/ o # Len(old) /\ old[o + 1] <= new[n + 1]
    IN  CASE n = Len(new) /\ o = Len(old) -> <<acc, o>>
          [] is_old /\ o # Len(old) /\ old[o + 1] >= end -> <<acc, PutBack(o)>>
          [] is_old /\ o # Len(old) /\ old[o + 1] < end ->
                MergeIndex(old, o + 1, new, n, end, Append(acc, old[o + 1]))
          [] ~is_old -> MergeIndex(old, o, new, n + 1, end, Append(acc, new[n + 1]))

\* The header of index i: entry j unsets the bit after the ones of the
\* buckets before its own and the zeros of the entries before it.
Encode(entries, i, size) ==
    Header({j - 1 + entries[j] \div 2 ^ size - i * index_size : j \in DOMAIN entries},
           [j \in DOMAIN entries |-> entries[j] % 2 ^ size])

Add(old, fps, value) ==
    LET num == Len(fps) + old.num_fingerprints
        size == RemainderSize(num) + ValueSize(value)
        span == 2 ^ (size + log_index_size)     \* entries of an index
        new == NewEntries(fps, value)
        old_num == IF old = NULL_ROUTING_FILTER THEN 1 ELSE NumIndices(old.num_fingerprints)
        per == NumIndices(num) \div old_num
        OldOf(i) == IF old = NULL_ROUTING_FILTER THEN <<>>
                    ELSE OldEntries(old, i, ValueSize(value))
        NewOf(i) == SelectSeq(new, LAMBDA e : e \div span = i)
        \* The new indices of old index i, with a count of its entries.
        Indices(i) == FoldLeft(
            LAMBDA acc, k : LET m == MergeIndex(OldOf(i), acc[2], NewOf(k), 0, (k + 1) * span, <<>>)
                            IN  <<Append(acc[1], Encode(m[1], k, size)), m[2]>>,
            << <<>>, 0>>, [k \in 1 .. per |-> i * per + k - 1])[1]
    IN  [num_fingerprints |-> num, value_size |-> ValueSize(value),
         index |-> FoldLeft(LAMBDA acc, i : acc \o Indices(i - 1), <<>>,
                            [i \in 1 .. old_num |-> i])]

-----------------------------------------------------------------------------
\* routing_filter_lookup: the values found for fingerprint fp.
Lookup(fp) ==
    IF filter = NULL_ROUTING_FILTER THEN {}
    ELSE LET rsize == RemainderSize(filter.num_fingerprints)
             bucket == fp \div 2 ^ rsize
             hdr == filter.index[bucket \div index_size + 1]
             bounds == BucketBounds(hdr.zeros, bucket % index_size)
             Entry(p) == hdr.block[p + 1]
         IN  {Entry(p) % 2 ^ filter.value_size :
                p \in {q \in bounds[1] .. bounds[2] - 1 :
                         Entry(q) \div 2 ^ filter.value_size = fp % 2 ^ rsize}}

-----------------------------------------------------------------------------

Init == filter = NULL_ROUTING_FILTER /\ added = <<>>

\* A branch joins the bundle.
AddBranch(fps) ==
    /\ Len(added) < MaxAdds
    /\ filter' = Add(filter, fps, Len(added))
    /\ added' = Append(added, fps)

Next == \E fps \in Batches : AddBranch(fps)

Spec == Init /\ [][Next]_vars

-----------------------------------------------------------------------------

\* A lookup finds exactly the branches that have a key with its fingerprint,
\* however often the filter was rebuilt, its buckets were divided and its
\* values widened since they were added.
FilterIsExact ==
    \A fp \in Fingerprints :
        Lookup(fp) = {v \in 0 .. Len(added) - 1 : fp \in ToSet(added[v + 1])}

=============================================================================
