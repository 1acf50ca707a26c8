----------------------------- MODULE LogicalClock -----------------------------
(***************************************************************************)
(* logical_clock_instruction_counting.h and the coarsened transactions of  *)
(* determ_clock.c: how the instructions a thread retires become ticks of   *)
(* its clock.  One thread, its hardware counter and the perf event behind  *)
(* it.  The counter counts user instructions only (exclude_kernel) but its *)
(* overflow interrupt may arrive late, in the middle of a kernel call; the *)
(* steps of a call are those an NMI can come between.                      *)
(***************************************************************************)
EXTENDS Integers

CONSTANTS Width,       \* the counter counts modulo Width (2^48)
          Low,         \* rdpmc in user space returns the count modulo Low (2^32)
          MaxVal,      \* the period of a coarsened transaction (2^31 - 1)
          Periods,     \* the sample periods update_overflow_period may choose
          Skid,        \* instructions that may retire before an overflow arrives
          NmiAt,       \* the places where an overflow NMI may arrive
          MaxRetired   \* bound: instructions retired in a run

Places == {"user", "coarse", "rdmsr", "prev", "swap", "off", "sum", "zero",
           "clear", "enable", "write", "written", "max", "maxed", "ignore"}

ASSUME WidthAssumption == Width \in Nat \ {0} /\ Width % 2 = 0
ASSUME LowAssumption == Low \in Nat \ {0} /\ Width % Low = 0
ASSUME MaxValAssumption == MaxVal \in 1 .. Low - 1
ASSUME PeriodsAssumption == Periods \subseteq 1 .. MaxVal /\ Periods # {}
ASSUME SkidAssumption == Skid \in Nat
ASSUME NmiAtAssumption == NmiAt \subseteq Places
ASSUME MaxRetiredAssumption == MaxRetired \in Nat

VARIABLES
    hw,              \* the counter
    pending,         \* an overflow NMI has not arrived yet
    prev, left, period, count,     \* hw.prev_count, .period_left, .sample_period, event->count
    ticks,           \* clocks[tid].ticks
    counting,        \* clocks[tid].count_ticks
    user_reading,    \* clocks[tid].userspace_reading
    in_tx, last, coarse,   \* the library's in_coarsened_tx, last_raw_perf and tick counter
    pc, op,          \* where the thread is, and the call it makes
    raw, old, delta, was_on,       \* locals of the call
    owed,            \* instructions retired while they should count
    total            \* instructions retired

event == <<prev, left, period, count>>
lib   == <<in_tx, last, coarse>>
local == <<raw, old, delta, was_on>>
ghost == <<owed, total>>
vars  == <<hw, pending, event, ticks, counting, user_reading, lib, pc, op, local, ghost>>

Minus(n) == (-n) % Width

(* Broken: the bits above the counter's width take part. *)
PlainDelta(a, b) == a - b

(* ((a << 16) - (b << 16)) >> 16 on signed 64-bit integers. *)
SignedDelta(a, b) == ((a - b + Width \div 2) % Width) - Width \div 2

(* The same on unsigned integers, as the library computes it. *)
UnsignedDelta(a, b) == (a - b) % Width

(* __rdpmc: the "=A" constraint keeps the lower half of the value. *)
Rdpmc == hw % Low

-----------------------------------------------------------------------------
(* Between the calls *)

Retire ==
    /\ pc \in {"user", "coarse"} /\ total < MaxRetired
    /\ pending => hw < Skid
    /\ hw' = (hw + 1) % Width
    /\ pending' = (pending \/ hw' = 0)
    /\ owed' = IF counting \/ pc = "coarse" THEN owed + 1 ELSE owed
    /\ total' = total + 1
    /\ UNCHANGED <<event, ticks, counting, user_reading, lib, pc, op, local>>

(* x86_perf_event_set_period, for what is left of the current period. *)
NextLeft(rest, p) ==
    IF rest <= -p THEN p ELSE IF rest <= 0 THEN rest + p ELSE rest

(* Broken: the counted instructions stay in the event. *)
OverflowKeepsCount(c) ==
    IF counting
    THEN ticks' = ticks + c /\ count' = c /\ period' \in Periods
    ELSE ticks' = ticks /\ count' = c /\ period' = period

(* task_clock_entry_overflow_update_period, with c in event->count: the      *)
(* ticks are taken over and a new period is chosen.                          *)
OverflowUpdatePeriod(c) ==
    IF counting
    THEN ticks' = ticks + c /\ count' = 0 /\ period' \in Periods
    ELSE ticks' = ticks /\ count' = c /\ period' = period

(* The overflow NMI: perf takes the difference into the event, the module    *)
(* takes it over, perf programs the next period.                             *)
Nmi ==
    /\ pending /\ pc \in NmiAt
    /\ LET seen == SignedDelta(hw, prev)
       IN  /\ OverflowUpdatePeriod(count + seen)
           /\ left' = NextLeft(left - seen, period')
    /\ hw' = Minus(left')
    /\ prev' = Minus(left')
    /\ pending' = FALSE
    /\ UNCHANGED <<counting, user_reading, lib, pc, op, local, ghost>>

-----------------------------------------------------------------------------
(* __read_performance_counter, at the beginning of every call *)

Call(name) ==
    /\ op' = name
    /\ pc' = "rdmsr"
    /\ was_on' = counting
    /\ UNCHANGED <<hw, pending, event, ticks, counting, raw, old, delta, ghost>>

ReadMsr ==
    /\ pc = "rdmsr"
    /\ raw' = hw
    /\ pc' = "prev"
    /\ UNCHANGED <<hw, pending, event, ticks, counting, user_reading, lib, op, old, delta, was_on, ghost>>

ReadPrev ==
    /\ pc = "prev"
    /\ old' = prev
    /\ pc' = "swap"
    /\ UNCHANGED <<hw, pending, event, ticks, counting, user_reading, lib, op, raw, delta, was_on, ghost>>

(* local64_cmpxchg *)
Swap ==
    /\ pc = "swap"
    /\ IF prev = old
       THEN prev' = raw /\ pc' = IF op = "stop" THEN "off" ELSE "clear"
       ELSE prev' = prev /\ pc' = "rdmsr"
    /\ UNCHANGED <<hw, pending, left, period, count, ticks, counting, user_reading, lib, op, local, ghost>>

-----------------------------------------------------------------------------
(* task_clock_entry_stop: logical_clock_read_clock_and_update *)

Stop ==
    /\ pc = "user" /\ counting
    /\ Call("stop")
    /\ UNCHANGED <<user_reading, lib>>

StopOff ==
    /\ pc = "off"
    /\ counting' = FALSE
    /\ delta' = SignedDelta(raw, old)
    /\ pc' = "sum"
    /\ UNCHANGED <<hw, pending, event, ticks, user_reading, lib, op, raw, old, was_on, ghost>>

(* The ticks an NMI left in event->count are added to the difference. *)
StopSum ==
    /\ pc = "sum"
    /\ delta' = delta + count
    /\ pc' = "zero"
    /\ UNCHANGED <<hw, pending, event, ticks, counting, user_reading, lib, op, raw, old, was_on, ghost>>

StopAdd ==
    /\ pc = "zero"
    /\ count' = 0
    /\ ticks' = IF was_on THEN ticks + delta ELSE ticks
    /\ pc' = "user"
    /\ UNCHANGED <<hw, pending, prev, left, period, counting, user_reading, lib, op, local, ghost>>

-----------------------------------------------------------------------------
(* task_clock_entry_start: logical_clock_reset_current_ticks, then on_enable *)

Start ==
    /\ pc = "user" /\ ~counting /\ ~in_tx
    /\ Call("start")
    /\ UNCHANGED <<user_reading, lib>>

(* Broken: what was counted outside the chunk is kept. *)
ClearKeepsCount ==
    /\ pc = "clear"
    /\ pc' = IF op = "start" THEN "enable" ELSE "max"
    /\ UNCHANGED <<hw, pending, event, ticks, counting, user_reading, lib, op, local, ghost>>

Clear ==
    /\ pc = "clear"
    /\ count' = 0
    /\ pc' = IF op = "start" THEN "enable" ELSE "max"
    /\ UNCHANGED <<hw, pending, prev, left, period, ticks, counting, user_reading, lib, op, local, ghost>>

Enable ==
    /\ pc = "enable"
    /\ counting' = TRUE
    /\ left' = 0
    /\ period' \in Periods
    /\ pc' = IF user_reading THEN "write" ELSE "user"
    /\ UNCHANGED <<hw, pending, prev, count, ticks, user_reading, lib, op, local, ghost>>

(* logical_clock_set_perf_counter ... *)
SetPerfCounter ==
    /\ pc = "write"
    /\ user_reading' = FALSE
    /\ hw' = Minus(period)
    /\ pc' = "written"
    /\ UNCHANGED <<pending, event, ticks, counting, lib, op, local, ghost>>

(* ... sets the counter first and the event's idea of it afterwards.         *)
SetPrevCount ==
    /\ pc = "written"
    /\ left' = period
    /\ count' = 0
    /\ prev' = Minus(period)
    /\ pc' = "user"
    /\ UNCHANGED <<hw, pending, period, ticks, counting, user_reading, lib, op, local, ghost>>

-----------------------------------------------------------------------------
(* Coarsened transactions: the kernel is entered at the first block only and *)
(* the library reads the counter in user space.                              *)

(* determ_task_clock_start_no_notify, task_clock_entry_start_no_notify *)
StartCoarse ==
    /\ pc = "user" /\ ~counting /\ ~in_tx
    /\ user_reading' = TRUE
    /\ in_tx' = TRUE
    /\ UNCHANGED <<last, coarse>>
    /\ Call("coarse")

(* logical_clock_set_perf_counter_max *)
SetMax ==
    /\ pc = "max"
    /\ hw' = Minus(MaxVal)
    /\ pc' = "maxed"
    /\ UNCHANGED <<pending, event, ticks, counting, user_reading, lib, op, local, ghost>>

SetMaxPrev ==
    /\ pc = "maxed"
    /\ left' = MaxVal
    /\ period' = MaxVal
    /\ count' = 0
    /\ prev' = Minus(MaxVal)
    /\ pc' = "ignore"
    /\ UNCHANGED <<hw, pending, ticks, counting, user_reading, lib, op, local, ghost>>

(* The tick counter is turned off; back in user space the library takes its  *)
(* first reading.                                                            *)
Ignore ==
    /\ pc = "ignore"
    /\ counting' = FALSE
    /\ last' = Rdpmc
    /\ pc' = "coarse"
    /\ UNCHANGED <<hw, pending, event, ticks, user_reading, in_tx, coarse, op, local, ghost>>

(* The next block of the same transaction. *)
StartBlock ==
    /\ pc = "user" /\ in_tx
    /\ last' = Rdpmc
    /\ pc' = "coarse"
    /\ UNCHANGED <<hw, pending, event, ticks, counting, user_reading, in_tx, coarse, op, local, ghost>>

(* determ_task_clock_stop_no_notify *)
StopBlock ==
    /\ pc = "coarse"
    /\ coarse' = coarse + UnsignedDelta(Rdpmc, last)
    /\ pc' = "user"
    /\ UNCHANGED <<hw, pending, event, ticks, counting, user_reading, in_tx, last, op, local, ghost>>

(* Broken: the ticks of the transaction are added once more by the next one. *)
EndCoarseKeepsTicks ==
    /\ pc = "user" /\ in_tx
    /\ ticks' = ticks + coarse
    /\ in_tx' = FALSE
    /\ UNCHANGED <<hw, pending, event, counting, user_reading, last, coarse, pc, op, local, ghost>>

(* add_ticks takes an int32_t. *)
Int32(n) == ((n + Low \div 2) % Low) - Low \div 2

(* determ_task_clock_end_coarsened_tx and task_clock_add_ticks *)
EndCoarse ==
    /\ pc = "user" /\ in_tx
    /\ ticks' = ticks + Int32(coarse)
    /\ coarse' = 0
    /\ in_tx' = FALSE
    /\ UNCHANGED <<hw, pending, event, counting, user_reading, last, pc, op, local, ghost>>

-----------------------------------------------------------------------------
Init ==
    /\ period \in Periods
    /\ hw = Minus(period) /\ prev = Minus(period) /\ left = period
    /\ pending = FALSE /\ count = 0 /\ ticks = 0
    /\ counting = FALSE /\ user_reading = FALSE
    /\ in_tx = FALSE /\ last = 0 /\ coarse = 0
    /\ pc = "user" /\ op = "stop"
    /\ raw = 0 /\ old = 0 /\ delta = 0 /\ was_on = FALSE
    /\ owed = 0 /\ total = 0

Next ==
    \/ Retire \/ Nmi
    \/ ReadMsr \/ ReadPrev \/ Swap
    \/ Stop \/ StopOff \/ StopSum \/ StopAdd
    \/ Start \/ Clear \/ Enable \/ SetPerfCounter \/ SetPrevCount
    \/ StartCoarse \/ SetMax \/ SetMaxPrev \/ Ignore \/ StartBlock \/ StopBlock \/ EndCoarse

Spec == Init /\ [][Next]_vars

-----------------------------------------------------------------------------
TypeOK ==
    /\ hw \in 0 .. Width - 1 /\ prev \in 0 .. Width - 1
    /\ last \in 0 .. Low - 1
    /\ raw \in 0 .. Width - 1 /\ old \in 0 .. Width - 1
    /\ left \in Int /\ delta \in Int /\ count \in Int
    /\ period \in Periods \cup {MaxVal}
    /\ ticks \in Nat /\ coarse \in Nat
    /\ {pending, counting, user_reading, in_tx, was_on} \subseteq BOOLEAN
    /\ pc \in Places /\ op \in {"start", "stop", "coarse"}
    /\ owed \in 0 .. MaxRetired /\ total \in 0 .. MaxRetired

(* The clock of a stopped thread is the number of instructions it retired    *)
(* between its starts and stops and in its coarsened blocks: none is lost,   *)
(* counted twice or counted although it retired outside, whenever the        *)
(* overflow interrupts arrive.                                               *)
StoppedClockExact ==
    pc = "user" /\ ~counting => ticks + coarse = owed

(* While a thread runs, its clock is never ahead of its instructions, and    *)
(* what it lags behind is what the counter and the event still hold: a       *)
(* thread is never passed over for instructions it did not retire.           *)
RunningClockLags ==
    pc = "user" /\ counting =>
        /\ ticks <= owed
        /\ ticks + count + SignedDelta(hw, prev) = owed

(* The reading a coarsened block will add is the length of the block.        *)
CoarseReadingExact ==
    pc = "coarse" => ticks + coarse + UnsignedDelta(Rdpmc, last) = owed
=============================================================================
