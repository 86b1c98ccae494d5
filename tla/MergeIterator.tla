--------------------------- MODULE MergeIterator ---------------------------
(***************************************************************************)
(* The merge iterator (merge.c): it steps through the entries of several   *)
(* ordered iterators, the trees, as one ordered sequence.  The trees that  *)
(* have an entry left stand first in ordered_iterators, sorted by their    *)
(* current key and, for one key, newest first; next_key_equal says that a  *)
(* tree has the key of the one after it.  One action is one pass of a loop *)
(* of the code.  A tree is an iterator over its entries with a position    *)
(* from 0 (before the first) to one past the last, as in iterator.h.       *)
(***************************************************************************)
EXTENDS Integers, Sequences, FiniteSets, SequencesExt

CONSTANTS
    NumTrees,       \* the tree with the largest number is the newest
    NumKeys,
    Inputs,         \* functions [tree -> [key -> kind of message or "none"]]
    Modes,          \* of "raw", "intermediate", "full"
    Starts,         \* <<key, direction>>: where the trees are positioned
    MaxMoves        \* bound: calls of merge_next and merge_prev

VARIABLES
    input, mode,        \* the trees' entries, merge_mode
    pos,                \* tree -> its position
    ordered,            \* ordered_iterators
    num_remaining,      \* how many of them have a current entry
    next_key_equal,     \* tree -> the flag
    forwards, can_prev, can_next,
    curr_key, curr_data,
    pc,                 \* what the call does next; "user" between calls
    at,                 \* the item the user should be at, counted from 1
    shared,             \* the user turned at a key that several trees have
    moves

vars == <<input, mode, pos, ordered, num_remaining, next_key_equal, forwards,
          can_prev, can_next, curr_key, curr_data, pc, at, shared, moves>>
trees == <<pos, ordered, num_remaining, next_key_equal>>
fixed == <<input, mode>>
user == <<at, shared, moves>>
flags == <<forwards, can_prev, can_next>>
current == <<curr_key, curr_data>>

Trees == 1 .. NumTrees
Keys == 1 .. NumKeys
NULL_KEY == 0
Nothing == [kind |-> "none", from |-> {}]

-----------------------------------------------------------------------------
\* Trees and messages

\* The keys of a tree, ascending.
KeysOf(t) == SetToSortSeq({k \in Keys : input[t][k] # "none"}, <)
CanPrev(t, p) == p[t] >= 1
CanNext(t, p) == p[t] <= Len(KeysOf(t))
\* iterator_can_curr
CanCurr(t, p) == CanPrev(t, p) /\ CanNext(t, p)
KeyAt(t, p) == KeysOf(t)[p[t]]
Message(t, k) == [kind |-> input[t][k], from |-> {t}]
MessageAt(t, p) == Message(t, KeyAt(t, p))

\* data_merge_tuples_final (the application's callback yields an insert).
MergeFinal(new) == IF new.kind = "update" THEN [new EXCEPT !.kind = "insert"] ELSE new

\* data_merge_tuples: what is known of the key under an older message.
MergeTuples(new, old) ==
    CASE new.kind # "update" -> new
      [] new.kind = "update" /\ old.kind = "delete" -> MergeFinal(new)
      [] OTHER -> [kind |-> old.kind, from |-> new.from \cup old.from]

-----------------------------------------------------------------------------
\* Order

\* bsearch_comp: s comes after t, where the trees are at p.
After(s, t, p) ==
    IF KeyAt(s, p) = KeyAt(t, p) THEN s < t
    ELSE (KeyAt(s, p) > KeyAt(t, p)) = forwards

\* bsearch_insert of s into list: the passes of its loop, from base (counted
\* from 0) with lim entries left.
RECURSIVE Search(_, _, _, _, _, _)
Search(s, list, p, base, lim, r) ==
    IF lim = 0 THEN r
    ELSE LET probe == base + lim \div 2
             e == list[probe + 1]
             equal == KeyAt(s, p) = KeyAt(e, p)
         IN  IF After(s, e, p)
               THEN Search(s, list, p, probe + 1, (lim - 1) \div 2,
                           [r EXCEPT !.index = probe + 1, !.prev = @ \/ equal])
               ELSE Search(s, list, p, base, lim \div 2,
                           [r EXCEPT !.index = probe, !.next = @ \/ equal])

Found(s, list, p) ==
    Search(s, list, p, 0, Len(list), [index |-> 0, prev |-> FALSE, next |-> FALSE])

\* A mistake in KeyEquality: the entry's own flag is not set.
KeyEqualityPrev(flag, before, s, r) == [flag EXCEPT ![before] = r.prev]

KeyEquality(flag, before, s, r) == [flag EXCEPT ![before] = r.prev, ![s] = r.next]

\* advance_and_resort_min_ritor
AdvanceMin ==
    LET s == ordered[1]
        p == [pos EXCEPT ![s] = IF forwards THEN @ + 1 ELSE @ - 1]
        rest == SubSeq(ordered, 2, num_remaining)
        dead == SubSeq(ordered, num_remaining + 1, NumTrees)
        r == Found(s, rest, p)
        cleared == [next_key_equal EXCEPT ![s] = FALSE]
    IN  /\ pos' = p
        /\ IF ~CanCurr(s, p)
             THEN /\ num_remaining' = num_remaining - 1
                  /\ ordered' = rest \o <<s>> \o dead
                  /\ next_key_equal' = cleared
             ELSE /\ ordered' = SubSeq(rest, 1, r.index) \o <<s>>
                                  \o SubSeq(rest, r.index + 1, Len(rest)) \o dead
                  /\ next_key_equal' =
                        IF r.index = 0 THEN [cleared EXCEPT ![s] = r.next]
                        ELSE KeyEquality(cleared, rest[r.index], s, r)
                  /\ UNCHANGED num_remaining

-----------------------------------------------------------------------------
\* merge_iterator_create, on trees that were positioned at a start

Init ==
    /\ input \in Inputs /\ mode \in Modes
    /\ \E start \in Starts :
         LET n(t) == Cardinality({k \in Keys : input[t][k] # "none" /\ k < start[1]})
         IN  /\ mode # "full" => start = <<1, "next">>
             /\ forwards = (start[2] = "next")
             /\ pos = [t \in Trees |-> IF forwards THEN n(t) + 1 ELSE n(t)]
             /\ curr_key = start[1]
    /\ ordered = [i \in Trees |-> i]
    /\ num_remaining = NumTrees
    /\ next_key_equal = [t \in Trees |-> FALSE]
    /\ can_prev = FALSE /\ can_next = FALSE
    /\ curr_data = Nothing
    /\ pc = "create"
    /\ at = 0 /\ shared = FALSE /\ moves = 0

\* The items the iterator stands for: what all trees say of a key, newest
\* first, and in raw mode every entry.
Holders(k) == SetToSortSeq({t \in Trees : input[t][k] # "none"}, >)
Merged(k) ==
    LET m == FoldLeft(LAMBDA acc, t : IF acc = Nothing THEN Message(t, k)
                                      ELSE MergeTuples(acc, Message(t, k)),
                      Nothing, Holders(k))
    IN  IF mode = "full" THEN MergeFinal(m) ELSE m
ItemsOf(k) ==
    CASE Holders(k) = <<>> -> <<>>
      [] mode = "raw" -> [i \in DOMAIN Holders(k) |-> <<k, Message(Holders(k)[i], k)>>]
      [] mode = "full" /\ Merged(k).kind = "delete" -> <<>>
      [] OTHER -> << <<k, Merged(k)>> >>
Items == FoldLeft(LAMBDA acc, k : acc \o ItemsOf(k), <<>>, [k \in Keys |-> k])

\* The first item from key k on, the last one before it.
FirstFrom(k) == Cardinality({i \in DOMAIN Items : Items[i][1] < k}) + 1
LastBefore(k) == FirstFrom(k) - 1

\* The ghost of the user's position is placed once the trees are.
Create ==
    /\ pc = "create" /\ pc' = "setup"
    /\ at' = IF forwards THEN FirstFrom(curr_key) ELSE LastBefore(curr_key)
    /\ curr_key' = NULL_KEY
    /\ UNCHANGED <<fixed, trees, flags, curr_data, shared, moves>>

Pos(s, t) == CHOOSE i \in DOMAIN s : s[i] = t

\* setup_ordered_iterators: the trees with an entry first, sorted.  Only the
\* flags of trees that another one follows are set.
Setup ==
    LET alive == {t \in Trees : CanCurr(t, pos)}
        s == SetToSortSeq(alive, LAMBDA a, b : After(b, a, pos))
    IN  /\ pc = "setup" /\ pc' = "loop"
        /\ can_prev' = \E t \in Trees : CanPrev(t, pos)
        /\ can_next' = \E t \in Trees : CanNext(t, pos)
        /\ ordered' = s \o SetToSortSeq(Trees \ alive, <)
        /\ num_remaining' = Len(s)
        /\ next_key_equal' = [t \in Trees |->
              IF t \in {s[i] : i \in 1 .. Len(s) - 1}
                THEN KeyAt(t, pos) = KeyAt(s[Pos(s, t) + 1], pos)
                ELSE next_key_equal[t]]
        /\ UNCHANGED <<fixed, pos, forwards, current, user>>

-----------------------------------------------------------------------------
\* The loop of merge_advance_helper

Advance ==
    /\ pc = "advance" /\ pc' = "loop"
    /\ AdvanceMin
    /\ curr_key' = NULL_KEY /\ curr_data' = Nothing
    /\ UNCHANGED <<fixed, flags, user>>

\* advance_one_loop
LoopEnd ==
    /\ pc = "loop" /\ num_remaining = 0 /\ pc' = "user"
    /\ can_next' = (can_next /\ ~forwards)
    /\ can_prev' = (can_prev /\ forwards)
    /\ UNCHANGED <<fixed, trees, forwards, current, user>>

LoopTake ==
    LET s == ordered[1]
    IN  /\ pc = "loop" /\ num_remaining > 0
        /\ curr_key' = KeyAt(s, pos)
        /\ curr_data' = MessageAt(s, pos)
        /\ pc' = CASE mode = "raw" -> "user"
                   [] mode # "raw" /\ next_key_equal[s] -> "resolve"
                   [] OTHER -> "finalize"
        /\ UNCHANGED <<fixed, trees, flags, user>>

\* merge_resolve_equal_keys: one older message is merged.  A flag that was
\* left from before sends the code to a tree without an entry ("lost").
Resolve ==
    /\ pc = "resolve"
    /\ IF num_remaining < 2
         THEN pc' = "lost" /\ UNCHANGED <<trees, current>>
         ELSE /\ curr_data' = MergeTuples(curr_data, MessageAt(ordered[2], pos))
              /\ curr_key' = KeyAt(ordered[2], pos)
              /\ AdvanceMin
              /\ pc' = IF next_key_equal'[ordered'[1]] THEN "resolve" ELSE "finalize"
    /\ UNCHANGED <<fixed, flags, user>>

\* merge_finalize_updates_and_discard_deletes
Finalize ==
    LET m == IF mode = "full" THEN MergeFinal(curr_data) ELSE curr_data
    IN  /\ pc = "finalize"
        /\ curr_data' = m
        /\ pc' = IF m.kind = "delete" /\ mode = "full" THEN "advance" ELSE "user"
        /\ UNCHANGED <<fixed, trees, flags, curr_key, user>>

-----------------------------------------------------------------------------
\* merge_next and merge_prev

\* A mistake in TurnedPos: the trees that were exhausted are not stepped.
TurnedPosAlive(fwd) ==
    [t \in Trees |-> IF ~CanCurr(t, pos) THEN pos[t]
                     ELSE IF fwd THEN pos[t] + 1 ELSE pos[t] - 1]

\* merge_iterator_set_direction: every tree that can makes one step.
TurnedPos(fwd) ==
    [t \in Trees |-> IF fwd /\ CanNext(t, pos) THEN pos[t] + 1
                     ELSE IF ~fwd /\ CanPrev(t, pos) THEN pos[t] - 1 ELSE pos[t]]

Valid == can_prev /\ can_next

Move(fwd) ==
    /\ pc = "user" /\ moves < MaxMoves
    /\ IF fwd THEN can_next ELSE can_prev
    /\ mode # "full" => fwd
    /\ IF forwards = fwd
         THEN pc' = "advance" /\ UNCHANGED <<pos, forwards, shared>>
         ELSE /\ pos' = TurnedPos(fwd) /\ forwards' = fwd /\ pc' = "setup"
              /\ shared' = (shared \/ (Valid /\ Len(Holders(curr_key)) > 1))
    /\ at' = IF fwd THEN at + 1 ELSE at - 1
    /\ moves' = moves + 1
    /\ UNCHANGED <<fixed, ordered, num_remaining, next_key_equal, can_prev,
                   can_next, current>>

Next ==
    \/ Create \/ Setup \/ Advance \/ LoopEnd \/ LoopTake \/ Resolve \/ Finalize
    \/ \E fwd \in BOOLEAN : Move(fwd)

Spec == Init /\ [][Next]_vars

-----------------------------------------------------------------------------

\* The iterator shows the item the user is at.
AtItem ==
    /\ at \in DOMAIN Items => Valid /\ <<curr_key, curr_data>> = Items[at]
    /\ at = Len(Items) + 1 => ~can_next /\ (at > 1 => can_prev)
    /\ at = 0 => ~can_prev /\ (Items # <<>> => can_next)

\* Between two calls the merge iterator shows what the messages of all trees
\* merge to, item after item in key order, from any start and in both
\* directions, if the user does not turn at a key that several trees have.
MergeIsExact ==
    /\ pc = "user" /\ ~shared => AtItem
    /\ pc = "lost" => shared

\* "Moves the iterator to the previous item" (splinterdb.h), wherever the
\* user turns.
TurningIsExact == pc = "user" => AtItem

\* Inputs and Starts for a small instance: all there are, and both directions.
AllInputs == [Trees -> [Keys -> {"none", "update", "delete"}]]
AllStarts == (1 .. NumKeys + 1) \X {"next", "prev"}
=============================================================================
