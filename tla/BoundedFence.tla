----------------------------- MODULE BoundedFence -----------------------------
(***************************************************************************)
(* bounded_tso.c and bounded_tso.h (build option USE_BOUNDED_FENCE), with  *)
(* the adaptive overflow period of logical_clock_instruction_counting.h: a *)
(* chunk that reaches Chunk instructions is cut by a signal.  The overflow *)
(* interrupt is imprecise, so the period stops Buffer instructions short   *)
(* and the rest is single-stepped.  One thread; a call into the module is  *)
(* one step, and interrupts and traps come between user instructions.      *)
(***************************************************************************)
EXTENDS Integers, FiniteSetsExt

CONSTANTS Chunk,       \* BOUNDED_CHUNK_SIZE
          Buffer,      \* IMPRECISE_OVERFLOW_BUFFER
          MinPeriod,   \* MIN_CLOCK_SAMPLE_PERIOD
          MaxPeriod,   \* MAX_CLOCK_SAMPLE_PERIOD
          Growth,      \* the 10000 a period grows by
          Margin,      \* the 1000 a period goes beyond the waiter's clock
          MaxVal,      \* the period of a coarsened transaction (2^31 - 1)
          Wrap,        \* unsigned 64-bit arithmetic, modulo Wrap
          Skid,        \* instructions that may retire before an overflow arrives
          Ahead,       \* how far the clocks of waiting threads may be ahead of this one
          MaxRetired   \* bound: instructions retired in a run

Bound == Chunk - Buffer

ASSUME SizesAssumption ==
    /\ {Chunk, Buffer, MinPeriod, MaxPeriod, Growth, Margin, MaxVal, Wrap} \subseteq Nat
    /\ 2 * Buffer < Bound /\ MaxPeriod \in 1 .. Bound /\ MinPeriod \in 1 .. MaxPeriod
    /\ Chunk < MaxVal /\ MaxVal < Wrap
(* bounded_tso.h:29: the overflow arrives before the chunk is full, also when *)
(* perf has rounded the period up to two instructions.                       *)
ASSUME SkidAssumption == Skid \in Nat /\ Skid + 2 <= Buffer
ASSUME AheadAssumption == Ahead \subseteq Int /\ IsFiniteSet(Ahead)
ASSUME MaxRetiredAssumption == MaxRetired \in Nat

VARIABLES
    ticks, chunk, count_ticks,   \* clocks[tid].ticks, .chunk_ticks, .count_ticks
    reading,                     \* clocks[tid].userspace_reading
    period, left, count,         \* hw.sample_period, hw.period_left, event->count
    seen, to_go,                 \* the counter: since prev_count, until it overflows
    trap,                        \* X86_EFLAGS_TF of the user registers
    late,                        \* a trap may still come after stepping has ended
    hit, signal,                 \* user_status->hit_bounded_fence, SIGUSR1 pending
    open, done,                  \* between start and stop; instructions retired since start
    owed, total,                 \* instructions that should count; all instructions
    unclaimed                    \* on_single_step returned 0: a trap for the program

clock   == <<ticks, chunk, count_ticks>>
counter == <<period, left, count, seen, to_go>>
flags   == <<trap, late, hit, signal, unclaimed>>
ghost   == <<owed, done, total>>
vars    == <<clock, reading, counter, flags, open, ghost>>

(* One variable: 0 off, 1 counting, n + 2 with n instructions to step.       *)
TickCounterIsRunning == count_ticks # 0
SingleSteppingOn(n)  == n > 1

-----------------------------------------------------------------------------
(* The overflow period *)

(* __search_for_lowest_waiting_exclude_current: the distance of the lowest   *)
(* waiting clock, or 0 when nobody waits.                                    *)
LowestWaiting(waiting) ==
    IF waiting = {} THEN {0} ELSE {a \in waiting : \A b \in waiting : a <= b}

(* Broken: the part of the chunk already executed is forgotten.              *)
BoundWholeChunk(p, c) == IF p + c > Bound THEN Bound ELSE p

(* __bound_overflow_period, on unsigned numbers *)
BoundOverflowPeriod(p, c) == IF p + c > Bound THEN (Bound - c) % Wrap ELSE p

(* logical_clock_update_overflow_period, after the period p *)
UpdateOverflowPeriod(n, fenced, c, p, ahead) ==
    LET wanted == IF ahead > 0 THEN Max({ahead + Margin, MinPeriod}) ELSE p + Growth
    IN  IF SingleSteppingOn(n) \/ fenced
        THEN Bound
        ELSE Min({BoundOverflowPeriod(wanted, c), MaxPeriod})

(* The periods it may choose, whoever waits. *)
OverflowPeriods(n, fenced, c, p) ==
    {UpdateOverflowPeriod(n, fenced, c, p, ahead) :
        ahead \in UNION {LowestWaiting(waiting) : waiting \in SUBSET Ahead}}

(* x86_perf_event_set_period; two instructions is the least it programs.     *)
NextLeft(rest, p) ==
    Max({2, IF rest <= -p THEN p ELSE IF rest <= 0 THEN rest + p ELSE rest})

-----------------------------------------------------------------------------
(* The fence *)

(* __inc_chunk_ticks and begin_bounded_memory_fence, when the chunk of a     *)
(* counting thread has come to c ticks.                                      *)
BeginFence(c) ==
    LET remaining == IF c > Chunk THEN 0 ELSE Chunk - c
    IN  IF c <= Bound THEN UNCHANGED <<count_ticks, hit, signal>>
        ELSE IF remaining = 0
             THEN count_ticks' = 0 /\ hit' = TRUE /\ signal' = TRUE
             ELSE count_ticks' = remaining + 2 /\ UNCHANGED <<hit, signal>>

(* The overflow NMI in user code: perf takes the counted instructions into   *)
(* the event, task_clock_entry_overflow_update_period takes them over, perf  *)
(* programs the next period and task_clock_overflow_handler sets the trap    *)
(* flag of the interrupted registers.                                        *)
Overflow ==
    /\ to_go <= 0
    /\ IF TickCounterIsRunning
       THEN LET taken == count + seen
            IN  /\ ticks' = ticks + taken
                /\ chunk' = chunk + taken
                /\ count' = 0
                /\ BeginFence(chunk + taken)
                /\ period' \in OverflowPeriods(count_ticks', hit', chunk', period)
                /\ trap' = (trap \/ SingleSteppingOn(count_ticks'))
       ELSE /\ count' = count + seen
            /\ UNCHANGED <<clock, period, hit, signal, trap>>
    /\ left' = NextLeft(left - seen, period')
    /\ to_go' = left'
    /\ seen' = 0
    /\ UNCHANGED <<reading, late, unclaimed, open, ghost>>

(* Broken: the last stepped instruction is not counted by the clock.         *)
SingleStepUncounted ==
    IF count_ticks - 1 <= 2
    THEN ticks' = ticks /\ count_ticks' = 0 /\ hit' = TRUE /\ signal' = TRUE /\ trap' = FALSE /\ late' = TRUE
    ELSE ticks' = ticks + 1 /\ count_ticks' = count_ticks - 1 /\ UNCHANGED <<hit, signal, trap, late>>

(* on_single_step with instructions left to step *)
SingleStep ==
    /\ ticks' = ticks + 1
    /\ IF count_ticks - 1 <= 2
       THEN count_ticks' = 0 /\ hit' = TRUE /\ signal' = TRUE /\ trap' = FALSE /\ late' = TRUE
       ELSE count_ticks' = count_ticks - 1 /\ UNCHANGED <<hit, signal, trap, late>>

(* Broken: only a fence that was hit explains a trap.                        *)
ClaimsHitOnly == hit

(* The traps on_single_step claims when there is nothing left to step.       *)
Claims == hit \/ chunk < Chunk

OnSingleStep ==
    IF SingleSteppingOn(count_ticks)
    THEN SingleStep /\ UNCHANGED unclaimed
    ELSE /\ UNCHANGED <<ticks, count_ticks, hit, signal>>
         /\ trap' = (trap /\ (hit \/ ~Claims))
         /\ late' = FALSE
         /\ unclaimed' = (unclaimed \/ ~Claims)

-----------------------------------------------------------------------------
(* The program *)

(* A user instruction retires; while the signal is pending it is one of the  *)
(* signal handler's, which the module does not mean to count.                *)
Instruction ==
    /\ total < MaxRetired /\ to_go > -Skid
    /\ seen' = seen + 1
    /\ to_go' = to_go - 1
    /\ total' = total + 1
    /\ IF open /\ ~signal
       THEN owed' = owed + 1 /\ done' = done + 1
       ELSE UNCHANGED <<owed, done>>

Retire ==
    /\ ~trap
    /\ Instruction
    /\ late' = FALSE
    /\ UNCHANGED <<clock, reading, period, left, count, trap, hit, signal, unclaimed, open>>

RetireTrapped ==
    /\ trap
    /\ Instruction
    /\ OnSingleStep
    /\ UNCHANGED <<chunk, reading, period, left, count, open>>

(* The trap flag "doesn't remove cleanly": one more call of on_single_step.  *)
ExtraTrap ==
    /\ late
    /\ OnSingleStep
    /\ UNCHANGED <<chunk, reading, counter, open, ghost>>

(* Broken: the trap flag stays set when the chunk ends before the fence.     *)
TrapKept == trap

(* end_bounded_memory_fence_early clears the trap flag.                      *)
TrapAfterStop == trap /\ ~SingleSteppingOn(count_ticks)

(* task_clock_entry_stop, by the program at the end of its chunk or by its   *)
(* handler of SIGUSR1.  end_bounded_memory_fence_early comes first and turns *)
(* the counter off, so what was stepped is not counted again.  When the      *)
(* thread is found to be the lowest, __clear_entry_state clears hit.         *)
Stop ==
    /\ open
    /\ LET on == TickCounterIsRunning /\ ~SingleSteppingOn(count_ticks)
       IN  /\ ticks' = IF on THEN ticks + count + seen ELSE ticks
           /\ chunk' = IF on THEN chunk + count + seen ELSE chunk
    /\ \E lowest \in BOOLEAN : hit' = ((hit \/ SingleSteppingOn(count_ticks)) /\ ~lowest)
    /\ trap' = TrapAfterStop
    /\ late' = (late \/ SingleSteppingOn(count_ticks))
    /\ count_ticks' = 0 /\ count' = 0 /\ seen' = 0
    /\ signal' = FALSE /\ open' = FALSE
    /\ UNCHANGED <<reading, period, left, to_go, unclaimed, ghost>>

(* Broken: the counter keeps the period of the coarsened transaction.        *)
CounterKept(p) == left' = 0 /\ to_go' = to_go

(* logical_clock_reset_overflow_period leaves the counter as it is; after a  *)
(* coarsened transaction logical_clock_set_perf_counter programs it.         *)
CounterAtStart(p) ==
    IF reading THEN left' = p /\ to_go' = p ELSE left' = 0 /\ to_go' = to_go

(* task_clock_entry_start: what was counted since the stop is thrown away;   *)
(* hit is cleared last, after the period has been chosen.                    *)
Start ==
    /\ ~open
    /\ count' = 0 /\ seen' = 0
    /\ chunk' = 0 /\ count_ticks' = 1 /\ hit' = FALSE
    /\ period' \in OverflowPeriods(1, hit, 0, 0)
    /\ reading' = FALSE
    /\ CounterAtStart(period')
    /\ open' = TRUE /\ done' = 0
    /\ UNCHANGED <<ticks, trap, late, signal, unclaimed, owed, total>>

(* task_clock_entry_start_no_notify: an overflow that was pending finds the  *)
(* counter programmed anew and the tick counter off, and changes nothing.    *)
StartCoarse ==
    /\ ~open
    /\ reading' = TRUE /\ count_ticks' = 0
    /\ count' = 0 /\ seen' = 0
    /\ period' = MaxVal /\ left' = MaxVal /\ to_go' = MaxVal
    /\ UNCHANGED <<ticks, chunk, flags, open, ghost>>

Init ==
    /\ ticks = 0 /\ chunk = 0 /\ count_ticks = 0 /\ reading = FALSE
    /\ period \in 2 .. MaxPeriod /\ left = period /\ to_go = period
    /\ count = 0 /\ seen = 0
    /\ trap = FALSE /\ late = FALSE /\ hit = FALSE /\ signal = FALSE /\ unclaimed = FALSE
    /\ open = FALSE /\ done = 0 /\ owed = 0 /\ total = 0

Next == Overflow \/ Retire \/ RetireTrapped \/ ExtraTrap \/ Stop \/ Start \/ StartCoarse

Spec == Init /\ [][Next]_vars

-----------------------------------------------------------------------------
(* The range of every variable: the steps still to take fit the buffer, and  *)
(* a period is never longer than a coarsened transaction's (an unsigned      *)
(* difference below zero would be).                                          *)
NumbersOK ==
    /\ ticks \in 0 .. MaxRetired /\ count \in 0 .. MaxRetired /\ seen \in 0 .. MaxRetired
    /\ owed \in 0 .. MaxRetired /\ done \in 0 .. MaxRetired /\ total \in 0 .. MaxRetired
    /\ chunk \in 0 .. Chunk
    /\ count_ticks \in 0 .. Buffer + 1
    /\ period \in 0 .. MaxVal /\ left \in 0 .. MaxVal
    /\ to_go \in -Skid .. MaxVal

FlagsOK ==
    /\ reading \in BOOLEAN /\ trap \in BOOLEAN /\ late \in BOOLEAN /\ hit \in BOOLEAN
    /\ signal \in BOOLEAN /\ unclaimed \in BOOLEAN /\ open \in BOOLEAN

TypeOK == NumbersOK /\ FlagsOK

(* A chunk never executes more than BOUNDED_CHUNK_SIZE instructions, and the *)
(* signal that cuts it comes after exactly that many: neither early nor      *)
(* late, however late the overflows come, whatever the chunk before it was,  *)
(* and also when it follows a coarsened transaction.                         *)
FenceOnTime == open => done <= Chunk /\ (signal => done = Chunk)

(* The clock of a thread that is not counted is the number of instructions   *)
(* it retired in its chunks: those that were stepped are counted once, by    *)
(* on_single_step, although the hardware counter saw them as well.           *)
FencedClockExact == ~TickCounterIsRunning => ticks = owed

(* The trap flag is set only while there are instructions to step: a chunk   *)
(* that ends early does not leave the program in single-step mode.           *)
TrapOnlyWhileStepping == trap => SingleSteppingOn(count_ticks)

(* on_single_step claims every trap the fence causes, the extra ones after   *)
(* the trap flag was cleared included: the program never gets a SIGTRAP.     *)
EveryTrapClaimed == ~unclaimed

(* Between start and stop the next overflow is never further away than the   *)
(* place where the fence begins, although a start leaves the counter alone:  *)
(* a coarsened transaction does not keep its period.  MAX_CLOCK_SAMPLE_PERIOD *)
(* is not the bound: the period set while stepping or with the fence hit     *)
(* reaches into the next chunk.                                              *)
OverflowInReach == open => to_go <= Bound
=============================================================================
