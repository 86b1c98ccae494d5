---------------------------- MODULE StatusClock ----------------------------
(***************************************************************************)
(* The status word of one cache entry as the integer it is in treepass.c:  *)
(* six flags below bit TP_CLOCK_SHIFT, the clock counter above them and,    *)
(* above the counter, bits nobody reads.  Accesses, the eviction sweep,     *)
(* inheritance and the write callback change the counter with a load and a  *)
(* later atomic add, subtract or compare-and-swap, while other threads      *)
(* change the flags of the same word.                                       *)
(*                                                                         *)
(* The lock protocol is PageCache's: what a thread does to the word while   *)
(* it has the entry locked is one step here, and happens only while no      *)
(* other thread has the page.                                               *)
(***************************************************************************)
EXTENDS Integers

CONSTANTS
    Threads,      \* the threads that use the page
    Discarders,   \* those among them that discard it
    Spare,        \* how many bits above the counter the word has
    MaxPasses     \* bound on num_passes of treepass_get_free_page

TP_FREE      == 1
TP_CLEAN     == 2
TP_WRITEBACK == 4

TP_CLOCK_BITS == 3
TP_CLOCK_ONE  == 2^6
TP_CLOCK_MAX  == 2^TP_CLOCK_BITS - 1
Width         == 2^(6 + TP_CLOCK_BITS + Spare)

VARIABLES
    status,   \* entry->status
    pc,       \* thread -> what it is doing with the page
    below,    \* thread -> it saw a counter below TP_CLOCK_MAX
    sweep,    \* the eviction sweep: "idle", "sub" or "test"
    wbp,      \* num_passes of the writeback in progress, or -1
    stage,    \* where that writeback is
    old       \* thread or "callback" -> old_status of treepass_set_clock

clockVars == <<status, pc, below, sweep, wbp, stage, old>>

Setters == Threads \cup {"callback"}

Flags(w) == w % TP_CLOCK_ONE
Clock(w) == (w \div TP_CLOCK_ONE) % (TP_CLOCK_MAX + 1)
WithClock(w, c) ==
    w - Clock(w) * TP_CLOCK_ONE + c * TP_CLOCK_ONE

Init ==
    /\ status = TP_FREE
    /\ pc = [t \in Threads |-> "out"]
    /\ below = [t \in Threads |-> FALSE]
    /\ sweep = "idle"
    /\ wbp = -1
    /\ stage = "idle"
    /\ old = [s \in Setters |-> 0]

-----------------------------------------------------------------------------
(* The users of the page.                                                  *)

Move(t, from, to) ==
    /\ pc[t] = from
    /\ pc' = [pc EXCEPT ![t] = to]

Alone(t) == \A u \in Threads \ {t} : pc[u] = "out"
Unused   == \A u \in Threads : pc[u] = "out"
\* write locked since its allocation
Locked   == \E u \in Threads : pc[u] \in {"new", "set"}

\* treepass_get_free_page takes a word that is exactly TP_FREE_STATUS and
\* stores the caller's word: that of a page being loaded ...
Load(t) ==
    /\ status = TP_FREE
    /\ Move(t, "out", "in")
    /\ status' = TP_CLEAN
    /\ UNCHANGED <<below, sweep, wbp, stage, old>>

\* ... or of one treepass_alloc or treepass_alloc_compaction_hot creates,
\* write locked
Alloc(t) == \E c \in {1, TP_CLOCK_MAX} :
    /\ status = TP_FREE
    /\ Move(t, "out", "new")
    /\ status' = c * TP_CLOCK_ONE
    /\ UNCHANGED <<below, sweep, wbp, stage, old>>

Unlock(t) ==
    /\ Move(t, "new", "in")
    /\ UNCHANGED <<status, below, sweep, wbp, stage, old>>

\* treepass_try_get_read succeeds and treepass_set_clock_accessed loads
HitLoad(t) ==
    /\ Flags(status) # TP_FREE
    /\ ~ Locked
    /\ Move(t, "out", "hit")
    /\ below' = [below EXCEPT ![t] = Clock(status) < TP_CLOCK_MAX]
    /\ UNCHANGED <<status, sweep, wbp, stage, old>>

HitAdd(t) ==
    /\ Move(t, "hit", "in")
    /\ status' = IF below[t] THEN (status + TP_CLOCK_ONE) % Width ELSE status
    /\ below' = [below EXCEPT ![t] = FALSE]
    /\ UNCHANGED <<sweep, wbp, stage, old>>

Unget(t) ==
    /\ Move(t, "in", "out")
    /\ UNCHANGED <<status, below, sweep, wbp, stage, old>>

\* treepass_mark_dirty between treepass_lock and treepass_unlock
MarkDirty(t) ==
    /\ pc[t] = "in" /\ Alone(t)
    /\ Flags(status) = TP_CLEAN
    /\ status' = status - TP_CLEAN
    /\ UNCHANGED <<pc, below, sweep, wbp, stage, old>>

\* treepass_try_page_discard: store TP_FREE_STATUS
Discard(t) ==
    /\ t \in Discarders /\ Alone(t)
    /\ Flags(status) \in {0, TP_CLEAN}
    /\ Move(t, "in", "out")
    /\ status' = TP_FREE
    /\ UNCHANGED <<below, sweep, wbp, stage, old>>

\* treepass_set_clock for a page that t has just allocated
\* (treepass_inherit_clock, treepass_set_page_clock_virtual): load ...
SetLoad(t) ==
    /\ Move(t, "new", "set")
    /\ old' = [old EXCEPT ![t] = status]
    /\ UNCHANGED <<status, below, sweep, wbp, stage>>

\* Mutant: the new word is stored whatever has become of the old one.
SetStore(s, c) == status' = WithClock(old[s], c)

\* ... and compare-and-swap, which loads again when it fails
SetSwap(s, c) ==
    status' = IF status = old[s] THEN WithClock(status, c) ELSE status

SetClock(t) == \E c \in 1 .. TP_CLOCK_MAX :
    /\ SetSwap(t, c)
    /\ Move(t, "set", IF status = old[t] THEN "new" ELSE "set")
    /\ old' = [old EXCEPT ![t] = IF status = @ THEN 0 ELSE status]
    /\ UNCHANGED <<below, sweep, wbp, stage>>

-----------------------------------------------------------------------------
(* treepass_try_evict, by the one thread that owns the batch.               *)

\* treepass_try_dec_clock loads the counter; the pass of early eviction
\* leaves it alone and goes to the test
SweepLoad ==
    /\ sweep = "idle"
    /\ sweep' \in IF Clock(status) = 0 THEN {"test"} ELSE {"sub", "test"}
    /\ UNCHANGED <<status, pc, below, wbp, stage, old>>

\* Mutant: the subtraction does not wrap like the 32-bit word.
SweepSubUnbounded ==
    /\ sweep = "sub"
    /\ sweep' = "idle"
    /\ status' = status - TP_CLOCK_ONE
    /\ UNCHANGED <<pc, below, wbp, stage, old>>

SweepSub ==
    /\ sweep = "sub"
    /\ sweep' = "idle"
    /\ status' = (status - TP_CLOCK_ONE) % Width
    /\ UNCHANGED <<pc, below, wbp, stage, old>>

\* the word must be exactly TP_EVICTABLE_STATUS
SweepTest ==
    /\ sweep = "test"
    /\ sweep' = "idle"
    /\ status' = IF status = TP_CLEAN /\ Unused THEN TP_FREE ELSE status
    /\ UNCHANGED <<pc, below, wbp, stage, old>>

Sweep == SweepLoad \/ SweepSub \/ SweepTest

-----------------------------------------------------------------------------
(* treepass_try_set_writeback and treepass_write_callback, one writeback     *)
(* after the other.                                                        *)

WbSet == \E p \in 0 .. MaxPasses :
    /\ stage = "idle"
    /\ Flags(status) = 0 /\ ~ Locked /\ Clock(status) <= p
    /\ status' = status + TP_WRITEBACK
    /\ wbp' = p
    /\ stage' = "io"
    /\ UNCHANGED <<pc, below, sweep, old>>

WbClean ==
    /\ stage = "io"
    /\ status' = status + TP_CLEAN
    /\ stage' = "clean"
    /\ UNCHANGED <<pc, below, sweep, wbp, old>>

\* under pressure the counter of a branch page is reset, so that the page
\* can be evicted
WbDone ==
    /\ stage = "clean"
    /\ status' = status - TP_WRITEBACK
    /\ stage' \in IF wbp \in 1 .. TP_CLOCK_MAX - 1 THEN {"reset", "idle"}
                                                 ELSE {"idle"}
    /\ wbp' = -1
    /\ UNCHANGED <<pc, below, sweep, old>>

WbLoad ==
    /\ stage = "reset"
    /\ old' = [old EXCEPT !["callback"] = status]
    /\ stage' = "swap"
    /\ UNCHANGED <<status, pc, below, sweep, wbp>>

WbReset ==
    /\ stage = "swap"
    /\ SetSwap("callback", 0)
    /\ stage' = IF status = old["callback"] THEN "idle" ELSE "swap"
    /\ old' = [old EXCEPT !["callback"] = IF status = @ THEN 0 ELSE status]
    /\ UNCHANGED <<pc, below, sweep, wbp>>

Callback == WbSet \/ WbClean \/ WbDone \/ WbLoad \/ WbReset

-----------------------------------------------------------------------------
Use(t) == \/ Load(t) \/ Alloc(t) \/ Unlock(t) \/ HitLoad(t) \/ HitAdd(t)
          \/ Unget(t) \/ MarkDirty(t) \/ Discard(t) \/ SetLoad(t)
          \/ SetClock(t)

Next == (\E t \in Threads : Use(t)) \/ Sweep \/ Callback

Spec == Init /\ [][Next]_clockVars

(* Every variable stays in its type; the word keeps its width.             *)
TypeOK ==
    /\ status \in 0 .. Width - 1
    /\ pc \in [Threads -> {"out", "hit", "in", "new", "set"}]
    /\ below \in [Threads -> BOOLEAN]
    /\ sweep \in {"idle", "sub", "test"}
    /\ wbp \in -1 .. MaxPasses
    /\ stage \in {"idle", "io", "clean", "reset", "swap"}
    /\ old \in [Setters -> 0 .. Width - 1]

(* The counter shares its word with the flags without disturbing them:      *)
(* counting an access, the sweep's decrement, treepass_set_clock and the    *)
(* reset in the write callback leave every flag that another thread sets or *)
(* clears meanwhile as it is ("Uses CAS loop to avoid clobbering concurrent *)
(* flag changes").                                                          *)
ClockStepKeepsFlags ==
    (\E t \in Threads : HitAdd(t) \/ SetClock(t)) \/ SweepSub \/ WbReset
      => Flags(status') = Flags(status)
ClockKeepsFlags == [][ClockStepKeepsFlags]_clockVars

(* A clean page whose counter has come down to 0 is one treepass_try_evict  *)
(* takes when nobody uses it: "Overflow beyond TP_CLOCK_MAX is safe         *)
(* (handled in eviction)".                                                  *)
ColdIsEvictable ==
    Flags(status) = TP_CLEAN /\ Clock(status) = 0 => status = TP_CLEAN

(* A free entry is one treepass_get_free_page takes: storing                *)
(* TP_FREE_STATUS "clears claim, write lock, and clock".                    *)
FreeIsTakeable == Flags(status) = TP_FREE => status = TP_FREE
=============================================================================
