-------------------------- MODULE BoundedFenceProof --------------------------
(***************************************************************************)
(* Proofs about BoundedFence, for every size of the chunk and the buffer,  *)
(* every delay of the overflow interrupt that fits the buffer, and every   *)
(* set of waiting clocks.                                                  *)
(***************************************************************************)
EXTENDS BoundedFence, TLAPS

(* Who is between start and stop, and what the clock has taken over: while   *)
(* the counter counts, it still holds what the clock lacks.                  *)
Bookkeeping ==
    /\ ticks + (IF count_ticks = 1 THEN seen ELSE 0) = owed
    /\ owed <= total /\ done <= total /\ count + seen <= total
    /\ ~unclaimed

(* Off: the chunk was stopped, or cut at its size with the signal pending.   *)
WhenOff ==
    count_ticks = 0 => /\ ~trap
                       /\ open <=> signal
                       /\ signal => done = Chunk

(* Counting: the next overflow is due at most two instructions past the      *)
(* place where the fence begins.                                             *)
WhenCounting ==
    count_ticks = 1 =>
        /\ open /\ ~signal /\ ~trap /\ ~hit
        /\ count = 0 /\ done = chunk + seen
        /\ chunk <= Bound /\ chunk + seen + to_go <= Bound + 2
        /\ (left = 0 /\ chunk = 0) \/ left - seen = to_go

(* Stepping: the steps left are the rest of the chunk, and no overflow comes *)
(* before they are taken.                                                    *)
WhenStepping ==
    count_ticks > 1 =>
        /\ open /\ ~signal /\ trap /\ ~late
        /\ count_ticks > 2 /\ count_ticks - 2 = Chunk - done
        /\ chunk > Bound /\ chunk < Chunk
        /\ to_go > Chunk - done

(* Outside coarsened transactions no overflow is further away than the place *)
(* where the fence begins.                                                   *)
CounterNear ==
    /\ open => ~reading
    /\ ~reading => to_go <= Bound /\ left <= Bound /\ period <= Bound

(* A trap that may still come finds an unfinished chunk.                     *)
LateTrap ==
    late => chunk < Chunk /\ (count_ticks = 1 => chunk = 0 /\ seen = 0)

IInv ==
    /\ TypeOK /\ Bookkeeping /\ WhenOff /\ WhenCounting /\ WhenStepping
    /\ CounterNear /\ LateTrap

USE DEF SingleSteppingOn, TickCounterIsRunning

-----------------------------------------------------------------------------
(* The sizes, as the arithmetic needs them. *)
LEMMA Sizes ==
    /\ Chunk \in Nat /\ Buffer \in Nat /\ MinPeriod \in Nat /\ MaxPeriod \in Nat
    /\ Growth \in Nat /\ Margin \in Nat /\ MaxVal \in Nat /\ Wrap \in Nat
    /\ Skid \in Nat /\ Skid + 2 <= Buffer
    /\ Bound \in Nat /\ Bound = Chunk - Buffer /\ 2 * Buffer < Bound
    /\ 1 <= MaxPeriod /\ MaxPeriod <= Bound /\ Chunk < MaxVal /\ MaxVal < Wrap
    /\ MaxRetired \in Nat
  BY SizesAssumption, SkidAssumption, MaxRetiredAssumption DEF Bound

(* The community modules' Max of two integers ... *)
LEMMA MaxOfTwo ==
    ASSUME NEW a \in Int, NEW b \in Int
    PROVE  Max({a, b}) = IF a >= b THEN a ELSE b
  BY DEF Max

(* ... and their Min. *)
LEMMA MinOfTwo ==
    ASSUME NEW a \in Int, NEW b \in Int
    PROVE  Min({a, b}) = IF a <= b THEN a ELSE b
  BY DEF Min

(* Unsigned arithmetic leaves a number alone that fits. *)
LEMMA NoWrap ==
    ASSUME NEW x \in Nat, x < Wrap
    PROVE  x % Wrap = x
  BY Sizes

(* While there is room before the fence, a new period ends at most there;    *)
(* while stepping, or when the chunk was cut, it is the longest.             *)
LEMMA PeriodRange ==
    ASSUME NEW n \in Nat, NEW h \in BOOLEAN, NEW c \in Nat, NEW p \in Nat,
           NEW q \in OverflowPeriods(n, h, c, p)
    PROVE  /\ n > 1 \/ h => q = Bound
           /\ ~(n > 1 \/ h) /\ c <= Bound => q \in Nat /\ q + c <= Bound /\ q <= MaxPeriod
<1>1. PICK ahead \in UNION {LowestWaiting(waiting) : waiting \in SUBSET Ahead} :
          q = UpdateOverflowPeriod(n, h, c, p, ahead)
  BY DEF OverflowPeriods
<1>2. ahead \in Int
  <2>1. PICK waiting \in SUBSET Ahead : ahead \in LowestWaiting(waiting)
    BY <1>1
  <2>2. waiting \subseteq Int
    BY AheadAssumption
  <2> QED
    BY <2>1, <2>2 DEF LowestWaiting
<1> DEFINE wanted == IF ahead > 0 THEN Max({ahead + Margin, MinPeriod}) ELSE p + Growth
<1>3. wanted \in Nat
  BY <1>2, Sizes, MaxOfTwo
<1>4. ASSUME c <= Bound
      PROVE  BoundOverflowPeriod(wanted, c) \in Nat /\ BoundOverflowPeriod(wanted, c) + c <= Bound
  <2>1. Bound - c \in Nat /\ Bound - c < Wrap
    BY <1>4, Sizes
  <2> QED
    BY <2>1, <1>3, <1>4, NoWrap, Sizes DEF BoundOverflowPeriod
<1>5. CASE n > 1 \/ h
  BY <1>1, <1>5 DEF UpdateOverflowPeriod
<1>6. CASE ~(n > 1 \/ h) /\ c <= Bound
  <2>1. q = Min({BoundOverflowPeriod(wanted, c), MaxPeriod})
    BY <1>1, <1>6 DEF UpdateOverflowPeriod
  <2> DEFINE bounded == BoundOverflowPeriod(wanted, c)
  <2>2. bounded \in Nat /\ bounded + c <= Bound
    BY <1>4, <1>6
  <2> HIDE DEF bounded, wanted
  <2>3. q = IF bounded <= MaxPeriod THEN bounded ELSE MaxPeriod
    <3>1. bounded \in Int /\ MaxPeriod \in Int
      BY <2>2, Sizes
    <3>2. q = Min({bounded, MaxPeriod})
      BY <2>1 DEF bounded
    <3> QED
      BY <3>1, <3>2, MinOfTwo
  <2> QED
    BY <1>6, <2>2, <2>3, Sizes
<1> QED BY <1>5, <1>6

(* In either case it is no longer than the way to the fence of a new chunk.  *)
LEMMA PeriodBound ==
    ASSUME NEW n \in Nat, NEW h \in BOOLEAN, NEW c \in Nat, NEW p \in Nat,
           NEW q \in OverflowPeriods(n, h, c, p), c <= Bound
    PROVE  q \in Nat /\ q <= Bound
<1>1. CASE n > 1 \/ h
  BY <1>1, PeriodRange, Sizes
<1>2. CASE ~(n > 1 \/ h)
  <2>1. q \in Nat /\ q + c <= Bound
    BY <1>2, PeriodRange
  <2> QED BY <2>1, Sizes
<1> QED BY <1>1, <1>2

(* What perf programs: never less than two instructions, and never more than *)
(* the period unless more than that is left.                                 *)
LEMMA NextLeftRange ==
    ASSUME NEW rest \in Int, NEW p \in Nat
    PROVE  /\ NextLeft(rest, p) \in Nat /\ NextLeft(rest, p) >= 2
           /\ rest <= 0 => NextLeft(rest, p) <= p \/ NextLeft(rest, p) = 2
           /\ rest > 0 => NextLeft(rest, p) <= rest \/ NextLeft(rest, p) = 2
           /\ rest <= -p => NextLeft(rest, p) >= p
           /\ rest <= 0 => NextLeft(rest, p) >= p + rest
  BY MaxOfTwo DEF NextLeft

-----------------------------------------------------------------------------
(* The event as task_clock_entry_init and perf_counter_init leave it.        *)
LEMMA IInvInit == Init => IInv
<1> SUFFICES ASSUME Init PROVE IInv
  OBVIOUS
<1>1. TypeOK
  <2>1. NumbersOK
    BY Sizes DEF Init, NumbersOK
  <2>2. FlagsOK
    BY DEF Init, FlagsOK
  <2> QED BY <2>1, <2>2 DEF TypeOK
<1>2. Bookkeeping /\ WhenOff /\ WhenCounting /\ WhenStepping /\ LateTrap
  BY DEF Init, Bookkeeping, WhenOff, WhenCounting, WhenStepping, LateTrap
<1>3. CounterNear
  BY Sizes DEF Init, CounterNear
<1> QED BY <1>1, <1>2, <1>3 DEF IInv

(* An overflow while the counter does not count moves what was counted into  *)
(* the event, where the next start or stop throws it away.                   *)
LEMMA IdleOverflowStep ==
    ASSUME IInv, Overflow, count_ticks = 0
    PROVE  IInv'
<1> USE Sizes
<1>1. /\ count' = count + seen /\ seen' = 0 /\ left' = NextLeft(left - seen, period) /\ to_go' = left'
      /\ UNCHANGED <<ticks, chunk, count_ticks, period, hit, signal, trap, reading, late, unclaimed, open, owed, done, total>>
  BY DEF Overflow, clock, ghost
<1>2. /\ left' \in Nat /\ left' >= 2
      /\ left' <= left \/ left' <= period \/ left' = 2
  <2>1. left - seen \in Int /\ period \in Nat
    BY DEF IInv, TypeOK, NumbersOK
  <2> QED
    BY <1>1, <2>1, NextLeftRange DEF IInv, TypeOK, NumbersOK
<1>3. TypeOK'
  <2>1. NumbersOK'
    BY <1>1, <1>2 DEF IInv, TypeOK, NumbersOK, Bookkeeping
  <2>2. FlagsOK'
    BY <1>1 DEF IInv, TypeOK, FlagsOK
  <2> QED BY <2>1, <2>2 DEF TypeOK
<1>4. Bookkeeping' /\ WhenOff' /\ WhenCounting' /\ WhenStepping' /\ LateTrap'
  BY <1>1 DEF IInv, TypeOK, NumbersOK, Bookkeeping, WhenOff, WhenCounting, WhenStepping, LateTrap
<1>5. CounterNear'
  BY <1>1, <1>2 DEF IInv, TypeOK, NumbersOK, CounterNear
<1> QED BY <1>3, <1>4, <1>5 DEF IInv

(* An overflow while the counter counts.  It comes no later than the buffer  *)
(* allows; past the fence's beginning it leaves exactly the rest of the      *)
(* chunk to step, and an overflow further away than that.                    *)
LEMMA CountingOverflowStep ==
    ASSUME IInv, Overflow, count_ticks # 0
    PROVE  IInv'
<1> USE Sizes
<1> DEFINE c == chunk + seen
           rest == left - seen
<1>1. count_ticks = 1 /\ to_go <= 0 /\ to_go >= -Skid
  BY DEF Overflow, IInv, TypeOK, NumbersOK, WhenStepping
<1>2. /\ open /\ ~signal /\ ~trap /\ ~hit /\ count = 0 /\ done = c
      /\ chunk <= Bound /\ c + to_go <= Bound + 2 /\ c <= Chunk
      /\ rest <= 0 /\ rest \in Int /\ c \in Nat
      /\ c > Bound => rest <= -Bound \/ rest >= -Skid
  BY <1>1 DEF IInv, TypeOK, NumbersOK, WhenCounting
<1>3. /\ ticks' = ticks + seen /\ chunk' = c /\ count' = 0 /\ seen' = 0
      /\ BeginFence(c)
      /\ period' \in OverflowPeriods(count_ticks', hit', chunk', period)
      /\ trap' = (trap \/ count_ticks' > 1)
      /\ left' = NextLeft(rest, period') /\ to_go' = left'
      /\ UNCHANGED <<reading, late, unclaimed, open, owed, done, total>>
  BY <1>1, <1>2 DEF Overflow, ghost, IInv, TypeOK, NumbersOK
<1>4. Bookkeeping'
  BY <1>1, <1>2, <1>3 DEF IInv, TypeOK, NumbersOK, Bookkeeping, BeginFence
<1>5. ~reading /\ (late => c = 0)
  BY <1>1, <1>2 DEF IInv, CounterNear, LateTrap, TypeOK
<1>6. count_ticks' \in Nat /\ hit' \in BOOLEAN /\ signal' \in BOOLEAN /\ trap' \in BOOLEAN
  <2>1. count_ticks' \in Nat
    BY <1>1, <1>2, <1>3 DEF BeginFence
  <2>2. hit' \in BOOLEAN /\ signal' \in BOOLEAN
    BY <1>3 DEF BeginFence, IInv, TypeOK, FlagsOK
  <2>3. trap' \in BOOLEAN
    BY <1>3 
  <2> QED BY <2>1, <2>2, <2>3
<1>7. ASSUME NumbersOK'
      PROVE  TypeOK'
  <2>1. FlagsOK'
    BY <1>3, <1>6 DEF IInv, TypeOK, FlagsOK
  <2> QED BY <1>7, <2>1 DEF TypeOK
<1> DEFINE Numbers ==
      /\ ticks' = ticks + seen /\ chunk' = c /\ count' = 0 /\ seen' = 0 /\ to_go' = left'
      /\ owed' = owed /\ done' = done /\ total' = total
<1>n. Numbers /\ left' = NextLeft(rest, period')
  BY <1>3
<1>m. ticks + seen \in 0 .. MaxRetired
  BY <1>1 DEF IInv, TypeOK, NumbersOK, Bookkeeping
<1>8. CASE c <= Bound
  <2>1. count_ticks' = 1 /\ ~hit' /\ ~signal' /\ ~trap'
    <3>1. UNCHANGED <<count_ticks, hit, signal>>
      BY <1>3, <1>8 DEF BeginFence
    <3>2. ~(count_ticks' > 1)
      BY <3>1, <1>1
    <3> QED BY <3>1, <3>2, <1>1, <1>2, <1>3
  <2>2. period' \in Nat /\ period' + c <= Bound
    <3>1. period' \in OverflowPeriods(1, hit', c, period)
      BY <2>1, <1>3
    <3>2. c \in Nat /\ period \in Nat
      BY <1>2 DEF IInv, TypeOK, NumbersOK
    <3> QED BY <2>1, <3>1, <3>2, <1>6, <1>8, PeriodRange
  <2>3. left' \in Nat /\ (left' <= period' \/ left' = 2)
    BY <2>2, <1>2, <1>3, NextLeftRange
  <2>4. NumbersOK'
    <3>1. period' \in 0 .. MaxVal /\ left' \in 0 .. MaxVal /\ c \in 0 .. Chunk
      BY <2>2, <2>3, <1>2, <1>8
    <3>2. to_go' \in -Skid .. MaxVal /\ count_ticks' \in 0 .. Buffer + 1
      BY <3>1, <2>1, <1>n
    <3> QED BY <3>1, <3>2, <1>n, <1>m DEF IInv, TypeOK, NumbersOK
  <2>5. WhenOff' /\ WhenCounting' /\ WhenStepping'
    BY <2>1, <2>2, <2>3, <1>2, <1>3, <1>8 DEF WhenOff, WhenCounting, WhenStepping
  <2>6. CounterNear' /\ LateTrap'
    BY <2>1, <2>2, <2>3, <1>2, <1>3, <1>5, <1>8 DEF CounterNear, LateTrap
  <2> QED BY <2>4, <2>5, <2>6, <1>4, <1>7 DEF IInv
<1>9. CASE c > Bound
  <2>1. ~(c <= Bound) /\ ((IF c > Chunk THEN 0 ELSE Chunk - c) = 0 <=> c = Chunk)
    BY <1>2, <1>9
  <2>2. /\ c = Chunk => count_ticks' = 0 /\ hit' /\ signal'
        /\ c # Chunk => count_ticks' = (IF c > Chunk THEN 0 ELSE Chunk - c) + 2 /\ UNCHANGED <<hit, signal>>
    BY <2>1, <1>3 DEF BeginFence
  <2>3. /\ c = Chunk => count_ticks' = 0
        /\ c # Chunk => c < Chunk /\ count_ticks' = (Chunk - c) + 2 /\ count_ticks' > 2
    BY <2>2, <1>2, <1>9
  <2>4. count_ticks' > 1 <=> c # Chunk
    BY <2>3, <1>6, <1>2
  <2>5. trap' = (c # Chunk) /\ hit' = (c = Chunk) /\ signal' = (c = Chunk)
    BY <2>2, <2>4, <1>2, <1>3, <1>6
  <2>6. period' = Bound
    <3>1. c \in Nat /\ period \in Nat
      BY <1>2 DEF IInv, TypeOK, NumbersOK
    <3>2. period' \in OverflowPeriods(count_ticks', hit', c, period)
      BY <1>3
    <3> HIDE DEF c
    <3>3. count_ticks' > 1 \/ hit' => period' = Bound
      BY <3>1, <3>2, <1>6, PeriodRange
    <3> QED BY <3>3, <2>4, <2>5
  <2>7. left' \in Nat /\ left' <= Bound /\ left' > Buffer
    <3>1. left' = NextLeft(rest, Bound)
      BY <2>6, <1>n
    <3>2. rest \in Int /\ rest <= 0 /\ (rest <= -Bound \/ rest >= -Skid)
      BY <1>2, <1>9
    <3>3. Bound \in Nat /\ 2 <= Bound /\ Buffer + Skid < Bound
      BY Sizes
    <3> HIDE DEF rest
    <3>4. /\ left' \in Nat /\ (left' <= Bound \/ left' = 2)
          /\ rest <= -Bound => left' >= Bound
          /\ left' >= Bound + rest
      BY <3>1, <3>2, <3>3, NextLeftRange
    <3> HIDE Sizes
    <3>5. Buffer \in Nat /\ Skid \in Nat
      BY Sizes
    <3>6. left' <= Bound
      BY <3>3, <3>4
    <3>7. left' > Buffer
      BY <3>2, <3>3, <3>4, <3>5
    <3> QED BY <3>4, <3>6, <3>7
  <2>8. NumbersOK'
    <3>1. period' \in 0 .. MaxVal /\ left' \in 0 .. MaxVal /\ c \in 0 .. Chunk
      BY <2>6, <2>7, <1>2
    <3>2. to_go' \in -Skid .. MaxVal /\ count_ticks' \in 0 .. Buffer + 1
      BY <3>1, <2>3, <1>2, <1>9, <1>n
    <3> QED BY <3>1, <3>2, <1>n, <1>m DEF IInv, TypeOK, NumbersOK
  <2>a. UNCHANGED <<open, late>>
    BY <1>3
  <2>b. /\ count_ticks' = 0 => c = Chunk
        /\ count_ticks' # 1
        /\ count_ticks' > 1 => c # Chunk
    BY <2>3, <1>2
  <2>9. WhenOff' /\ WhenCounting'
    BY <2>b, <2>a, <2>5, <1>2, <1>n DEF WhenOff, WhenCounting
  <2>10. WhenStepping'
    <3> SUFFICES ASSUME c # Chunk
                 PROVE  WhenStepping'
      BY <2>b DEF WhenStepping
    <3>1. c > 0 /\ ~late
      BY <1>2, <1>5, <1>9
    <3>2. open' /\ ~signal' /\ trap' /\ ~late'
      BY <3>1, <2>a, <2>5, <1>2
    <3>3. /\ count_ticks' > 2 /\ count_ticks' - 2 = Chunk - done'
          /\ chunk' > Bound /\ chunk' < Chunk /\ to_go' > Chunk - done'
      BY <2>3, <2>7, <1>2, <1>n, <1>9
    <3> QED BY <3>2, <3>3 DEF WhenStepping
  <2>11. CounterNear' /\ LateTrap'
    BY <2>3, <2>6, <2>7, <1>2, <1>3, <1>5, <1>9 DEF CounterNear, LateTrap
  <2> QED BY <2>8, <2>9, <2>10, <2>11, <1>4, <1>7 DEF IInv
<1> QED BY <1>2, <1>8, <1>9

(* An instruction outside the single-stepping is counted by the hardware     *)
(* alone; when the chunk is cut or stopped, it is not owed.                  *)
LEMMA RetireStep ==
    ASSUME IInv, Retire
    PROVE  IInv'
<1> USE Sizes
<1>1. /\ total < MaxRetired /\ to_go > -Skid /\ seen' = seen + 1 /\ to_go' = to_go - 1 /\ total' = total + 1
      /\ open /\ ~signal => owed' = owed + 1 /\ done' = done + 1
      /\ ~(open /\ ~signal) => owed' = owed /\ done' = done
      /\ UNCHANGED <<ticks, chunk, count_ticks, period, left, count>>
  BY DEF Retire, Instruction, clock
<1>2. ~trap /\ late' = FALSE /\ UNCHANGED <<reading, trap, hit, signal, unclaimed, open>>
  BY DEF Retire
<1>3. \/ count_ticks = 0 /\ ~(open /\ ~signal) /\ owed' = owed /\ done' = done
      \/ count_ticks = 1 /\ (open /\ ~signal) /\ owed' = owed + 1 /\ done' = done + 1
  BY <1>1, <1>2 DEF IInv, TypeOK, NumbersOK, WhenOff, WhenCounting, WhenStepping
<1>4. NumbersOK'
  BY <1>1, <1>3 DEF IInv, TypeOK, NumbersOK, Bookkeeping
<1>5. FlagsOK'
  BY <1>2 DEF IInv, TypeOK, FlagsOK
<1>6. Bookkeeping'
  BY <1>1, <1>2, <1>3 DEF IInv, TypeOK, NumbersOK, Bookkeeping
<1>7. WhenOff' /\ WhenStepping' /\ LateTrap'
  BY <1>1, <1>2, <1>3 DEF IInv, WhenOff, WhenStepping, LateTrap
<1>8. WhenCounting'
  BY <1>1, <1>2, <1>3 DEF IInv, TypeOK, NumbersOK, WhenCounting
<1>9. CounterNear'
  BY <1>1, <1>2 DEF IInv, TypeOK, NumbersOK, CounterNear
<1> QED BY <1>4, <1>5, <1>6, <1>7, <1>8, <1>9 DEF IInv, TypeOK

(* A stepped instruction is counted by on_single_step alone, and the last    *)
(* one of them fills the chunk.                                              *)
LEMMA RetireTrappedStep ==
    ASSUME IInv, RetireTrapped
    PROVE  IInv'
<1> USE Sizes
<1>1. /\ count_ticks > 2 /\ open /\ ~signal /\ ~late /\ count_ticks - 2 = Chunk - done
      /\ chunk > Bound /\ chunk < Chunk /\ to_go > Chunk - done
  BY DEF RetireTrapped, IInv, TypeOK, NumbersOK, WhenOff, WhenCounting, WhenStepping
<1>2. /\ total < MaxRetired /\ seen' = seen + 1 /\ to_go' = to_go - 1 /\ total' = total + 1
      /\ owed' = owed + 1 /\ done' = done + 1
      /\ UNCHANGED <<chunk, period, left, count>>
  BY <1>1 DEF RetireTrapped, Instruction
<1>3. SingleStep /\ UNCHANGED <<unclaimed, reading, open>>
  BY <1>1 DEF RetireTrapped, OnSingleStep, IInv, TypeOK, NumbersOK
<1>4. ticks' = ticks + 1
  BY <1>3 DEF SingleStep
<1>5. \/ /\ count_ticks = 3 /\ count_ticks' = 0
         /\ hit' = TRUE /\ signal' = TRUE /\ trap' = FALSE /\ late' = TRUE
      \/ /\ count_ticks > 3 /\ count_ticks' = count_ticks - 1
         /\ UNCHANGED <<hit, signal, trap, late>>
  BY <1>1, <1>3 DEF SingleStep, IInv, TypeOK, NumbersOK
<1>6. NumbersOK'
  BY <1>1, <1>2, <1>4, <1>5 DEF IInv, TypeOK, NumbersOK, Bookkeeping
<1>7. FlagsOK'
  BY <1>3, <1>5 DEF IInv, TypeOK, FlagsOK
<1>8. Bookkeeping'
  BY <1>1, <1>2, <1>3, <1>4, <1>5 DEF IInv, TypeOK, NumbersOK, Bookkeeping
<1>9. WhenOff' /\ WhenCounting' /\ WhenStepping' /\ LateTrap'
  <2>1. CASE count_ticks = 3
    BY <2>1, <1>1, <1>2, <1>3, <1>5
       DEF IInv, TypeOK, NumbersOK, WhenOff, WhenCounting, WhenStepping, LateTrap
  <2>2. CASE count_ticks > 3
    BY <2>2, <1>1, <1>2, <1>3, <1>5
       DEF IInv, TypeOK, NumbersOK, WhenOff, WhenCounting, WhenStepping, LateTrap
  <2> QED BY <2>1, <2>2, <1>5
<1>10. CounterNear'
  BY <1>1, <1>2, <1>3 DEF IInv, TypeOK, NumbersOK, CounterNear
<1> QED BY <1>6, <1>7, <1>8, <1>9, <1>10 DEF IInv, TypeOK

(* A trap after the stepping has ended finds an unfinished chunk, and is     *)
(* claimed for it.                                                           *)
LEMMA ExtraTrapStep ==
    ASSUME IInv, ExtraTrap
    PROVE  IInv'
<1> USE Sizes
<1>1. late /\ chunk < Chunk /\ ~(count_ticks > 1) /\ ~trap
  BY DEF ExtraTrap, IInv, TypeOK, NumbersOK, WhenOff, WhenCounting, WhenStepping, LateTrap
<1>2. /\ UNCHANGED <<ticks, chunk, count_ticks, reading, open, hit, signal, counter, ghost>>
      /\ trap' = (trap /\ (hit \/ ~Claims)) /\ late' = FALSE
      /\ unclaimed' = (unclaimed \/ ~Claims)
  BY <1>1 DEF ExtraTrap, OnSingleStep
<1>3. Claims
  BY <1>1 DEF Claims
<1>4. UNCHANGED <<trap, unclaimed>>
  BY <1>1, <1>2, <1>3 DEF IInv, TypeOK, FlagsOK
<1>5. TypeOK'
  <2>1. NumbersOK'
    BY <1>2 DEF IInv, TypeOK, NumbersOK, counter, ghost
  <2>2. FlagsOK'
    BY <1>2, <1>4 DEF IInv, TypeOK, FlagsOK
  <2> QED BY <2>1, <2>2 DEF TypeOK
<1>6. Bookkeeping' /\ WhenOff' /\ WhenCounting' /\ WhenStepping' /\ CounterNear' /\ LateTrap'
  BY <1>1, <1>2, <1>4
     DEF IInv, Bookkeeping, WhenOff, WhenCounting, WhenStepping, CounterNear, LateTrap, counter, ghost
<1> QED BY <1>5, <1>6 DEF IInv

(* The stop takes over what the counter holds only if the counter counts,    *)
(* and never more than the chunk has room for.                               *)
LEMMA StopStep ==
    ASSUME IInv, Stop
    PROVE  IInv'
<1> USE Sizes
<1>1. /\ open /\ count_ticks' = 0 /\ count' = 0 /\ seen' = 0
      /\ hit' \in BOOLEAN /\ signal' = FALSE /\ open' = FALSE
      /\ trap' = (trap /\ ~(count_ticks > 1)) /\ late' = (late \/ count_ticks > 1)
      /\ UNCHANGED <<reading, period, left, to_go, unclaimed, owed, done, total>>
  BY DEF Stop, TrapAfterStop, ghost, IInv, TypeOK, FlagsOK
<1>2. count_ticks \in Nat /\ (count_ticks = 0 \/ count_ticks = 1 \/ count_ticks > 1)
  BY DEF IInv, TypeOK, NumbersOK
<1>3. /\ count_ticks = 1 => ticks' = ticks + count + seen /\ chunk' = chunk + count + seen
      /\ count_ticks # 1 => ticks' = ticks /\ chunk' = chunk
  <2>1. (count_ticks # 0 /\ ~(count_ticks > 1)) <=> count_ticks = 1
    BY <1>2
  <2> QED BY <2>1 DEF Stop
<1>4. trap' = FALSE /\ late' \in BOOLEAN
  <2>1. trap => count_ticks > 1
    BY <1>2 DEF IInv, WhenOff, WhenCounting
  <2> QED BY <2>1, <1>1
<1>5. /\ ticks' = owed /\ owed \in 0 .. MaxRetired
      /\ chunk' \in 0 .. Chunk
  BY <1>2, <1>3 DEF IInv, TypeOK, NumbersOK, Bookkeeping, WhenCounting
<1>6. late' => chunk' < Chunk
  <2>1. late => chunk' = chunk /\ chunk < Chunk
    BY <1>2, <1>3 DEF IInv, TypeOK, NumbersOK, WhenCounting, LateTrap
  <2>2. count_ticks > 1 => chunk' = chunk /\ chunk < Chunk
    BY <1>2, <1>3 DEF IInv, WhenStepping
  <2> QED BY <2>1, <2>2, <1>1
<1>7. NumbersOK'
  BY <1>1, <1>5 DEF IInv, TypeOK, NumbersOK
<1>8. FlagsOK'
  BY <1>1, <1>4 DEF IInv, TypeOK, FlagsOK
<1>9. Bookkeeping'
  BY <1>1, <1>5 DEF IInv, TypeOK, NumbersOK, Bookkeeping
<1>10. WhenOff' /\ WhenCounting' /\ WhenStepping' /\ CounterNear' /\ LateTrap'
  BY <1>1, <1>4, <1>6
     DEF IInv, WhenOff, WhenCounting, WhenStepping, CounterNear, LateTrap
<1> QED BY <1>7, <1>8, <1>9, <1>10 DEF IInv, TypeOK

(* The start leaves the counter where it is, which is never further away     *)
(* than the place where the fence begins, or programs it so.                 *)
LEMMA StartStep ==
    ASSUME IInv, Start
    PROVE  IInv'
<1> USE Sizes
<1>1. /\ ~open /\ count' = 0 /\ seen' = 0 /\ chunk' = 0 /\ count_ticks' = 1
      /\ hit' = FALSE /\ reading' = FALSE /\ open' = TRUE /\ done' = 0
      /\ period' \in OverflowPeriods(1, hit, 0, 0)
      /\ CounterAtStart(period')
      /\ UNCHANGED <<ticks, trap, late, signal, unclaimed, owed, total>>
  BY DEF Start
<1>2. count_ticks = 0
  BY <1>1 DEF IInv, TypeOK, NumbersOK, WhenCounting, WhenStepping
<1>3. ~trap /\ ~signal /\ ticks = owed
  BY <1>1, <1>2 DEF IInv, WhenOff, TypeOK, NumbersOK, Bookkeeping
<1>4. period' \in Nat /\ period' <= Bound
  <2>1. hit \in BOOLEAN
    BY DEF IInv, TypeOK, FlagsOK
  <2>2. 0 <= Bound
    OBVIOUS
  <2> QED BY <1>1, <2>1, <2>2, PeriodBound
<1>5. /\ left' \in Nat /\ left' <= Bound /\ to_go' \in -Skid .. Bound
      /\ left' = 0 \/ left' = to_go'
  <2>1. CASE reading
    BY <2>1, <1>1, <1>4 DEF CounterAtStart
  <2>2. CASE ~reading
    BY <2>2, <1>1 DEF CounterAtStart, IInv, TypeOK, NumbersOK, CounterNear
  <2> QED BY <2>1, <2>2
<1>6. NumbersOK'
  BY <1>1, <1>4, <1>5 DEF IInv, TypeOK, NumbersOK
<1>7. FlagsOK'
  BY <1>1 DEF IInv, TypeOK, FlagsOK
<1>8. Bookkeeping'
  BY <1>1, <1>3 DEF IInv, TypeOK, NumbersOK, Bookkeeping
<1>9. WhenOff' /\ WhenStepping' /\ LateTrap'
  BY <1>1 DEF WhenOff, WhenStepping, LateTrap
<1>10. WhenCounting'
  <2>1. open' /\ ~signal' /\ ~trap' /\ ~hit'
    BY <1>1, <1>3
  <2>2. count' = 0 /\ seen' = 0 /\ chunk' = 0 /\ done' = 0
    BY <1>1
  <2>3. \A x, y, z \in Int : x = 0 /\ y = 0 => x + y = 0 /\ x + y + z = z /\ z - y = z
    OBVIOUS
  <2>4. to_go' \in Int /\ to_go' <= Bound + 2 /\ 0 <= Bound /\ (left' = 0 \/ left' = to_go')
    BY <1>5
  <2>5. chunk' + seen' = 0 /\ chunk' + seen' + to_go' = to_go' /\ to_go' - seen' = to_go'
    <3> HIDE Sizes
    <3>1. chunk' \in Int /\ seen' \in Int
      BY <2>2
    <3> QED BY <3>1, <2>2, <2>3, <2>4, Zenon
  <2> QED BY <2>1, <2>2, <2>4, <2>5 DEF WhenCounting
<1>11. CounterNear'
  BY <1>1, <1>4, <1>5 DEF CounterNear
<1> QED BY <1>6, <1>7, <1>8, <1>9, <1>10, <1>11 DEF IInv, TypeOK

(* A coarsened transaction pushes the overflow out of reach.                 *)
LEMMA StartCoarseStep ==
    ASSUME IInv, StartCoarse
    PROVE  IInv'
<1> USE Sizes
<1>1. /\ ~open /\ reading' = TRUE /\ count_ticks' = 0 /\ count' = 0 /\ seen' = 0
      /\ period' = MaxVal /\ left' = MaxVal /\ to_go' = MaxVal
      /\ UNCHANGED <<ticks, chunk, trap, late, hit, signal, unclaimed, open, owed, done, total>>
  BY DEF StartCoarse, flags, ghost
<1>2. count_ticks = 0
  BY <1>1 DEF IInv, TypeOK, NumbersOK, WhenCounting, WhenStepping
<1>3. NumbersOK'
  BY <1>1 DEF IInv, TypeOK, NumbersOK
<1>4. FlagsOK'
  BY <1>1 DEF IInv, TypeOK, FlagsOK
<1>5. Bookkeeping'
  BY <1>1, <1>2 DEF IInv, TypeOK, NumbersOK, Bookkeeping
<1>6. WhenOff' /\ WhenCounting' /\ WhenStepping' /\ CounterNear' /\ LateTrap'
  BY <1>1, <1>2 DEF IInv, WhenOff, WhenCounting, WhenStepping, CounterNear, LateTrap
<1> QED BY <1>3, <1>4, <1>5, <1>6 DEF IInv, TypeOK

(* Every step, and every stuttering step, keeps the invariant.               *)
LEMMA IInvStep == IInv /\ [Next]_vars => IInv'
<1> SUFFICES ASSUME IInv, [Next]_vars PROVE IInv'
  OBVIOUS
<1>1. CASE Overflow
  BY <1>1, IdleOverflowStep, CountingOverflowStep
<1>2. CASE Retire
  BY <1>2, RetireStep
<1>3. CASE RetireTrapped
  BY <1>3, RetireTrappedStep
<1>4. CASE ExtraTrap
  BY <1>4, ExtraTrapStep
<1>5. CASE Stop
  BY <1>5, StopStep
<1>6. CASE Start
  BY <1>6, StartStep
<1>7. CASE StartCoarse
  BY <1>7, StartCoarseStep
<1>8. CASE UNCHANGED vars
  BY <1>8 DEF vars, clock, counter, flags, ghost, IInv, TypeOK, NumbersOK, FlagsOK, Bookkeeping,
              WhenOff, WhenCounting, WhenStepping, CounterNear, LateTrap
<1> QED BY <1>1, <1>2, <1>3, <1>4, <1>5, <1>6, <1>7, <1>8 DEF Next

-----------------------------------------------------------------------------
(* The invariant holds in every state of every behaviour.                    *)
THEOREM FenceInvariant == Spec => []IInv
  BY IInvInit, IInvStep, PTL DEF Spec

(* The numbers stay in range whatever the sizes: the steps still to take fit *)
(* the buffer, and the unsigned difference of __bound_overflow_period never  *)
(* goes below zero.                                                          *)
THEOREM FenceTypeOK == Spec => []TypeOK
<1>1. IInv => TypeOK
  BY DEF IInv
<1> QED BY <1>1, FenceInvariant, PTL

(* bounded_tso.h: a chunk is cut after exactly BOUNDED_CHUNK_SIZE            *)
(* instructions, for every delay of the overflow that fits the buffer.       *)
THEOREM FenceCutsOnTime == Spec => []FenceOnTime
<1>1. IInv => FenceOnTime
  <2> SUFFICES ASSUME IInv, open PROVE done <= Chunk /\ (signal => done = Chunk)
    BY DEF FenceOnTime
  <2>1. CASE count_ticks = 0
    BY <2>1, Sizes DEF IInv, WhenOff
  <2>2. CASE count_ticks = 1
    BY <2>2, Sizes DEF IInv, TypeOK, NumbersOK, WhenCounting
  <2>3. CASE count_ticks > 1
    BY <2>3, Sizes DEF IInv, TypeOK, NumbersOK, WhenStepping
  <2> QED BY <2>1, <2>2, <2>3 DEF IInv, TypeOK, NumbersOK
<1> QED BY <1>1, FenceInvariant, PTL

(* __inc_clock_ticks and on_single_step together count every instruction of  *)
(* the chunks, and none of them twice.                                       *)
THEOREM FenceClockExact == Spec => []FencedClockExact
<1>1. IInv => FencedClockExact
  BY DEF IInv, TypeOK, NumbersOK, Bookkeeping, FencedClockExact
<1> QED BY <1>1, FenceInvariant, PTL

(* end_bounded_memory_fence_early and on_single_step leave no trap flag set  *)
(* when there is nothing left to step.                                       *)
THEOREM FenceTrapFlag == Spec => []TrapOnlyWhileStepping
<1>1. IInv => TrapOnlyWhileStepping
  BY DEF IInv, TypeOK, NumbersOK, WhenOff, WhenCounting, TrapOnlyWhileStepping
<1> QED BY <1>1, FenceInvariant, PTL

(* on_single_step takes every trap of the fence for its own.                 *)
THEOREM FenceClaimsTraps == Spec => []EveryTrapClaimed
<1>1. IInv => EveryTrapClaimed
  BY DEF IInv, Bookkeeping, EveryTrapClaimed
<1> QED BY <1>1, FenceInvariant, PTL

(* logical_clock_set_perf_counter takes the period of a coarsened            *)
(* transaction back, so that waiters learn of the clock within Bound.        *)
THEOREM FenceOverflowInReach == Spec => []OverflowInReach
<1>1. IInv => OverflowInReach
  BY DEF IInv, CounterNear, OverflowInReach
<1> QED BY <1>1, FenceInvariant, PTL
=============================================================================
