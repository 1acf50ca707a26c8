-------------------------- MODULE LogicalClockProof --------------------------
(***************************************************************************)
(* Proofs about LogicalClock: a thread's clock is the number of its        *)
(* instructions, for counters of any width and any choice of periods, if   *)
(* no overflow NMI falls between a read of the counter and the exchange of *)
(* prev_count, or between the two writes of set_perf_counter, and if no    *)
(* coarsened transaction wraps the 32 bits the library works with.         *)
(***************************************************************************)
EXTENDS LogicalClock, NatFacts

Half == Width \div 2

(* Where the overflow NMIs must not fall: run latenmi shows why.             *)
Quiet == NmiAt \cap {"prev", "swap", "written"} = {}

(* The longest period and the skid are small against the counter's width.    *)
Roomy == 2 * (MaxVal + Skid) < Half

(* In a coarsened transaction neither the lower half of the counter nor the  *)
(* int32_t of add_ticks wraps.                                               *)
ShortTransactions ==
    in_tx /\ pc \in {"user", "coarse"} => Rdpmc # 0 /\ coarse < Low \div 2

-----------------------------------------------------------------------------
(* Arithmetic *)

(* A counter value as a distance from its overflow, negative before it.      *)
Pos(x) == IF x < Half THEN x ELSE x - Width

LEMMA HalfOfWidth == Half \in Nat \ {0} /\ Width = 2 * Half
BY WidthAssumption DEF Half

LEMMA SignedDeltaIs ==
    ASSUME NEW a \in 0 .. Width - 1, NEW b \in 0 .. Width - 1,
           Pos(a) - Pos(b) \in -Half .. Half - 1
    PROVE  SignedDelta(a, b) = Pos(a) - Pos(b)
<1>1. Half \in Nat \ {0} /\ Width = 2 * Half /\ Width \in Nat \ {0}
  BY HalfOfWidth
<1> DEFINE d == a - b + Half
<1>2. d \in Int /\ -Width <= d /\ d < 2 * Width
  BY <1>1
<1>3. SignedDelta(a, b) = (d % Width) - Half
  BY DEF SignedDelta, Half
<1> HIDE DEF d
<1>4. d % Width = IF d < 0 THEN d + Width ELSE IF d < Width THEN d ELSE d - Width
  BY <1>1, <1>2, ModNear
<1>5. CASE a < Half
  BY <1>1, <1>3, <1>4, <1>5 DEF Pos, d
<1>6. CASE ~(a < Half)
  BY <1>1, <1>3, <1>4, <1>6 DEF Pos, d
<1> QED
  BY <1>5, <1>6

LEMMA MinusIs ==
    ASSUME NEW n \in 1 .. Half
    PROVE  Minus(n) \in 0 .. Width - 1 /\ Minus(n) = Width - n /\ Pos(Minus(n)) = -n
<1>1. Half \in Nat \ {0} /\ Width = 2 * Half /\ Width \in Nat \ {0}
  BY HalfOfWidth
<1>2. ASSUME NEW d \in Int, d = -n PROVE d % Width = d + Width
  BY <1>1, <1>2, ModNear
<1> QED
  BY <1>1, <1>2 DEF Minus, Pos

(* The counter's next value, and that of its lower half.                     *)
LEMMA CountsUp ==
    ASSUME NEW x \in 0 .. Width - 1
    PROVE  /\ (x + 1) % Width = IF x = Width - 1 THEN 0 ELSE x + 1
           /\ (x + 1) % Width # 0 => Pos((x + 1) % Width) = Pos(x) + 1 \/ x + 1 = Half
           /\ LET y == (x + 1) % Width
              IN  y % Low = 0 \/ y % Low = (x % Low) + 1
<1>1. Half \in Nat \ {0} /\ Width = 2 * Half /\ Width \in Nat \ {0} /\ Low \in Nat \ {0}
  BY HalfOfWidth, LowAssumption
<1>2. (x + 1) % Width = IF x = Width - 1 THEN 0 ELSE x + 1
  <2>1. ASSUME NEW d \in 0 .. Width PROVE d % Width = IF d = Width THEN 0 ELSE d
    <3>1. d \in Int /\ 0 <= d /\ d <= Width /\ -Width <= d /\ d < 2 * Width
      BY <1>1
    <3>2. d % Width = IF d < 0 THEN d + Width ELSE IF d < Width THEN d ELSE d - Width
      BY <1>1, <3>1, ModNear
    <3> QED
      BY <1>1, <3>2
  <2> QED
    BY <1>1, <2>1
<1>3. 0 % Low = 0
  BY <1>1, ModNear
<1>4. (x + 1) % Low = IF x % Low = Low - 1 THEN 0 ELSE (x % Low) + 1
  <2>1. x \in Int
    BY <1>1
  <2> QED
    BY <1>1, <2>1, ModSucc
<1>5. CASE x = Width - 1
  BY <1>2, <1>3, <1>5
<1>6. CASE x # Width - 1
  <2>1. (x + 1) % Width = x + 1
    BY <1>2, <1>6
  <2>2. Pos(x + 1) = Pos(x) + 1 \/ x + 1 = Half
    BY <1>1 DEF Pos
  <2> QED
    BY <1>4, <2>1, <2>2, <1>2
<1> QED
  BY <1>2, <1>5, <1>6

(* What the library computes from two readings of which the later is larger. *)
LEMMA UnsignedDeltaIs ==
    ASSUME NEW a \in 0 .. Low - 1, NEW b \in 0 .. a
    PROVE  UnsignedDelta(a, b) = a - b
<1>1. Low <= Width
  <2> SUFFICES ASSUME Width < Low PROVE FALSE
    BY WidthAssumption, LowAssumption
  <2>1. Width % Low = Width
    BY WidthAssumption, LowAssumption, ModNear
  <2> QED
    BY <2>1, WidthAssumption, LowAssumption
<1>2. a - b \in 0 .. Width - 1
  BY <1>1, WidthAssumption, LowAssumption
<1>3. (a - b) % Width = a - b
  <2>1. ASSUME NEW d \in 0 .. Width - 1 PROVE d % Width = d
    BY <2>1, WidthAssumption, ModNear
  <2> QED
    BY <1>2, <2>1
<1> QED
  BY <1>3 DEF UnsignedDelta

LEMMA Int32Is ==
    ASSUME NEW n \in Nat, n < Low \div 2
    PROVE  Int32(n) = n
<1> DEFINE h == Low \div 2
<1>1. h \in Nat /\ 2 * h <= Low /\ Low \in Nat \ {0}
  BY LowAssumption
<1>2. ASSUME NEW d \in Nat, d < Low PROVE d % Low = d
  BY <1>1, <1>2, ModNear
<1> HIDE DEF h
<1>3. n + h \in Nat /\ n + h < Low
  BY <1>1 DEF h
<1>4. (n + h) % Low = n + h
  BY <1>2, <1>3
<1>5. Int32(n) = ((n + h) % Low) - h
  BY DEF Int32, h
<1> QED
  BY <1>1, <1>4, <1>5

LEMMA RdpmcRange == TypeOK => Rdpmc \in 0 .. Low - 1
<1> SUFFICES ASSUME TypeOK PROVE Rdpmc \in 0 .. Low - 1
  OBVIOUS
<1>1. hw \in Int
  BY WidthAssumption DEF TypeOK
<1> QED
  BY <1>1, LowAssumption, ModRange DEF Rdpmc

-----------------------------------------------------------------------------
(* The parts of the invariant. *)

(* How far before its overflow a counter may be set: an NMI between the two  *)
(* writes of set_perf_counter_max takes a negative difference for a count.   *)
Far == 2 * MaxVal + Skid

(* The counter runs from at most Far before its overflow to Skid after it.   *)
HwNear == Pos(hw) \in -Far .. Skid /\ (Pos(hw) >= 0 => pending)

(* prev_count is behind the counter, but for the writes of set_perf_counter. *)
PrevNear ==
    /\ Pos(prev) \in -Far .. Skid
    /\ pc \notin {"maxed", "written"}
       => Pos(prev) <= Pos(hw) \/ (~pending /\ ~counting /\ Pos(prev) = -MaxVal)

LeftNear == left \in 0 .. (IF pc = "maxed" /\ ~pending THEN Far ELSE MaxVal)

(* What a call has read is still so when it uses it. *)
Reads ==
    /\ pc \in {"prev", "swap"} => raw = hw
    /\ pc = "swap" => old = prev
    /\ pc \in {"off", "sum", "zero", "clear", "enable", "write", "max"} => prev = hw
    /\ pc = "written" => hw = Minus(period)
    /\ pending /\ pc = "maxed" => hw = Minus(MaxVal)
    /\ pending /\ in_tx /\ pc \in {"ignore", "user", "coarse"}
       => hw = Minus(MaxVal) /\ prev = hw /\ left = MaxVal /\ period = MaxVal

(* Which call a place belongs to, and when the tick counter is on.           *)
Calls ==
    /\ pc \in {"off", "sum", "zero"} => op = "stop"
    /\ pc \in {"enable", "write", "written"} => op = "start"
    /\ pc \in {"max", "maxed", "ignore"} => op = "coarse"
    /\ pc = "clear" => op # "stop"
    /\ pc \notin {"user", "coarse"}
       => /\ op = "coarse" <=> in_tx
          /\ was_on <=> op = "stop"
          /\ counting <=> \/ op = "stop" /\ pc \notin {"sum", "zero"}
                          \/ pc \in {"write", "written"}
          /\ coarse = 0
    /\ pc = "coarse" => in_tx
    /\ in_tx => ~counting
    /\ ~in_tx => coarse = 0

(* Where the instructions are that ticks does not have yet. *)
Exact ==
    /\ owed <= total
    /\ counting /\ pc \in {"user", "rdmsr", "prev", "swap"}
       => count = 0 /\ ticks + (Pos(hw) - Pos(prev)) = owed
    /\ pc = "off" => count = 0 /\ ticks + SignedDelta(raw, old) = owed
    /\ pc = "sum" => count = 0 /\ ticks + delta = owed
    /\ pc = "zero" => ticks + delta = owed
    /\ pc \in {"enable", "write", "written"} => count = 0 /\ ticks = owed
    /\ ~counting /\ pc \notin {"sum", "zero", "coarse"} => ticks + coarse = owed
    /\ pc = "coarse" => last <= Rdpmc /\ ticks + coarse + (Rdpmc - last) = owed

LInv ==
    /\ TypeOK
    /\ HwNear /\ PrevNear /\ LeftNear
    /\ Reads /\ Calls /\ Exact

-----------------------------------------------------------------------------
(* One lemma for each kind of call. *)

(* The bounds as the leaves below need them. *)
LEMMA Bounds ==
    ASSUME Roomy
    PROVE  /\ Width = 2 * Half /\ Half \in Nat /\ Far + Skid < Half /\ MaxVal <= Far
           /\ Far \in Nat /\ MaxVal \in Nat \ {0} /\ Skid \in Nat
           /\ Width \in Nat \ {0} /\ Low \in Nat \ {0}
           /\ Periods \subseteq 1 .. MaxVal
BY HalfOfWidth, WidthAssumption, LowAssumption, MaxValAssumption, SkidAssumption, PeriodsAssumption
   DEF Roomy, Far

LEMMA ReadKeeps ==
    ASSUME Quiet, Roomy, LInv, ReadMsr \/ ReadPrev \/ Swap
    PROVE  LInv'
<1> USE DEF event, local, lib, ghost
<1>0. TypeOK /\ HwNear /\ PrevNear /\ LeftNear /\ Reads /\ Calls /\ Exact
  BY DEF LInv
<1>1. TypeOK'
  BY <1>0 DEF ReadMsr, ReadPrev, Swap, TypeOK, Places
<1>2. HwNear' /\ LeftNear'
  BY <1>0 DEF ReadMsr, ReadPrev, Swap, HwNear, LeftNear, Pos
<1>3. PrevNear'
  BY <1>0 DEF ReadMsr, ReadPrev, Swap, PrevNear, HwNear, Reads, Pos
<1>4. Reads' /\ Calls'
  BY <1>0 DEF ReadMsr, ReadPrev, Swap, Reads, Calls, TypeOK, Minus
<1>5. Exact'
  <2>1. CASE ReadMsr \/ ReadPrev
    BY <1>0, <2>1 DEF ReadMsr, ReadPrev, Exact, Reads, Calls, Pos, Rdpmc
  <2>2. CASE Swap
    <3>1. prev = old /\ raw = hw /\ prev' = raw
      BY <1>0, <2>2 DEF Swap, Reads
    <3>2. CASE op = "stop"
      <4>1. Pos(hw) - Pos(prev) \in -Half .. Half - 1
        BY <1>0, Bounds DEF HwNear, PrevNear
      <4>2. SignedDelta(raw, old) = Pos(hw) - Pos(prev)
        BY <1>0, <3>1, <4>1, SignedDeltaIs DEF TypeOK
      <4>3. pc' = "off" /\ counting /\ count = 0 /\ ticks + (Pos(hw) - Pos(prev)) = owed
        BY <1>0, <2>2, <3>1, <3>2 DEF Swap, Calls, Exact
      <4>4. UNCHANGED <<count, ticks, raw, old, owed, total, counting>> /\ owed <= total
        BY <1>0, <2>2 DEF Swap, Exact
      <4> QED
        BY <4>2, <4>3, <4>4 DEF Exact, SignedDelta
    <3>3. CASE op # "stop"
      BY <1>0, <2>2, <3>1, <3>3 DEF Swap, Calls, Exact
    <3> QED
      BY <3>2, <3>3
  <2> QED
    BY <2>1, <2>2
<1> QED
  BY <1>1, <1>2, <1>3, <1>4, <1>5 DEF LInv

LEMMA StopKeeps ==
    ASSUME Quiet, Roomy, LInv, Stop \/ StopOff \/ StopSum \/ StopAdd
    PROVE  LInv'
<1> USE DEF event, local, lib, ghost
<1>0. TypeOK /\ HwNear /\ PrevNear /\ LeftNear /\ Reads /\ Calls /\ Exact
  BY DEF LInv
<1>1. TypeOK'
  <2>1. SignedDelta(raw, old) \in Int
    BY <1>0, WidthAssumption DEF TypeOK, SignedDelta
  <2>2. CASE StopAdd
    <3>1. ticks' = owed
      BY <1>0, <2>2 DEF StopAdd, Calls, Exact
    <3> QED
      BY <1>0, <2>2, <3>1 DEF StopAdd, TypeOK, Places
  <2>3. CASE Stop
    BY <1>0, <2>3 DEF Stop, Call, TypeOK, Places
  <2>4. CASE StopOff
    BY <1>0, <2>1, <2>4 DEF StopOff, TypeOK, Places
  <2>5. CASE StopSum
    BY <1>0, <2>5 DEF StopSum, TypeOK, Places
  <2> QED
    BY <2>2, <2>3, <2>4, <2>5
<1>2. HwNear' /\ LeftNear' /\ PrevNear'
  BY <1>0 DEF Stop, Call, StopOff, StopSum, StopAdd, HwNear, LeftNear, PrevNear, Reads, Pos
<1>3. Reads' /\ Calls'
  BY <1>0 DEF Stop, Call, StopOff, StopSum, StopAdd, Reads, Calls, Minus
<1>4. Exact'
  BY <1>0 DEF Stop, Call, StopOff, StopSum, StopAdd, Exact, Reads, Calls, Pos, TypeOK, SignedDelta
<1> QED
  BY <1>1, <1>2, <1>3, <1>4 DEF LInv

LEMMA StartKeeps ==
    ASSUME Quiet, Roomy, LInv, Start \/ Clear \/ Enable \/ SetPerfCounter \/ SetPrevCount
    PROVE  LInv'
<1> USE DEF event, local, lib, ghost
<1>0. TypeOK /\ HwNear /\ PrevNear /\ LeftNear /\ Reads /\ Calls /\ Exact
  BY DEF LInv
<1>1. CASE Start
  <2>1. TypeOK'
    BY <1>0, <1>1 DEF Start, Call, TypeOK, Places
  <2>2. HwNear' /\ LeftNear' /\ PrevNear'
    BY <1>0, <1>1 DEF Start, Call, HwNear, LeftNear, PrevNear, Pos
  <2>3. Reads' /\ Calls' /\ Exact'
    BY <1>0, <1>1 DEF Start, Call, Reads, Calls, Exact, TypeOK
  <2> QED
    BY <2>1, <2>2, <2>3 DEF LInv
<1>2. CASE Clear
  <2>1. TypeOK'
    BY <1>0, <1>2 DEF Clear, TypeOK, Places
  <2>2. HwNear' /\ LeftNear' /\ PrevNear'
    BY <1>0, <1>2 DEF Clear, HwNear, LeftNear, PrevNear, Pos
  <2>3. Reads' /\ Calls' /\ Exact'
    BY <1>0, <1>2 DEF Clear, Reads, Calls, Exact, TypeOK
  <2> QED
    BY <2>1, <2>2, <2>3 DEF LInv
<1>3. CASE Enable
  <2>1. TypeOK'
    BY <1>0, <1>3 DEF Enable, TypeOK, Places
  <2>2. HwNear' /\ LeftNear' /\ PrevNear'
    BY <1>0, <1>3, Bounds DEF Enable, HwNear, LeftNear, PrevNear, Reads, Pos, TypeOK
  <2>3. Reads' /\ Calls'
    BY <1>0, <1>3 DEF Enable, Reads, Calls, TypeOK
  <2>4. Exact'
    <3>1. Pos(hw)' - Pos(prev)' = 0
      BY <1>0, <1>3, Bounds DEF Enable, Reads, Pos, TypeOK
    <3> QED
      BY <1>0, <1>3, <3>1 DEF Enable, Calls, Exact, TypeOK
  <2> QED
    BY <2>1, <2>2, <2>3, <2>4 DEF LInv
<1>4. SetPerfCounter \/ SetPrevCount
      => period \in 1 .. Half /\ Minus(period) \in 0 .. Width - 1 /\ Pos(Minus(period)) = -period
  BY <1>0, Bounds, MinusIs DEF TypeOK
<1>5. CASE SetPerfCounter
  <2>1. TypeOK'
    BY <1>0, <1>4, <1>5 DEF SetPerfCounter, TypeOK, Places
  <2>2. HwNear' /\ LeftNear' /\ PrevNear'
    BY <1>0, <1>4, <1>5, Bounds DEF SetPerfCounter, HwNear, LeftNear, PrevNear, TypeOK, Pos
  <2>3. Reads' /\ Calls' /\ Exact'
    BY <1>0, <1>5 DEF SetPerfCounter, Reads, Calls, Exact, TypeOK, Minus
  <2> QED
    BY <2>1, <2>2, <2>3 DEF LInv
<1>6. CASE SetPrevCount
  <2>0. hw = Minus(period) /\ counting /\ period \in 1 .. MaxVal
    BY <1>0, <1>6, Bounds DEF SetPrevCount, Reads, Calls, TypeOK
  <2>1. TypeOK'
    BY <1>0, <1>4, <1>6 DEF SetPrevCount, TypeOK, Places
  <2>2. HwNear' /\ LeftNear' /\ PrevNear'
    BY <1>0, <1>6, <2>0, Bounds DEF SetPrevCount, HwNear, LeftNear, PrevNear, Pos
  <2>3. Reads' /\ Calls'
    BY <1>0, <1>6 DEF SetPrevCount, Reads, Calls, TypeOK
  <2>4. Exact'
    <3>1. Pos(hw)' - Pos(prev)' = 0
      BY <1>0, <1>4, <1>6, <2>0, Bounds DEF SetPrevCount, Pos, TypeOK
    <3> QED
      BY <1>0, <1>6, <2>0, <3>1 DEF SetPrevCount, Calls, Exact, TypeOK
  <2> QED
    BY <2>1, <2>2, <2>3, <2>4 DEF LInv
<1> QED
  BY <1>1, <1>2, <1>3, <1>5, <1>6

LEMMA CoarseKeeps ==
    ASSUME Quiet, Roomy, ShortTransactions, LInv,
           StartCoarse \/ SetMax \/ SetMaxPrev \/ Ignore \/ StartBlock \/ StopBlock \/ EndCoarse
    PROVE  LInv'
<1> USE DEF event, local, lib, ghost
<1>0. TypeOK /\ HwNear /\ PrevNear /\ LeftNear /\ Reads /\ Calls /\ Exact
  BY DEF LInv
<1>a. Rdpmc \in 0 .. Low - 1
  BY <1>0, RdpmcRange
<1>1. CASE StartCoarse
  <2>1. TypeOK'
    BY <1>0, <1>1 DEF StartCoarse, Call, TypeOK, Places
  <2>2. HwNear' /\ LeftNear' /\ PrevNear'
    BY <1>0, <1>1 DEF StartCoarse, Call, HwNear, LeftNear, PrevNear, Pos
  <2>3. Reads' /\ Calls' /\ Exact'
    BY <1>0, <1>1 DEF StartCoarse, Call, Reads, Calls, Exact, TypeOK
  <2> QED
    BY <2>1, <2>2, <2>3 DEF LInv
<1>b. Minus(MaxVal) \in 0 .. Width - 1 /\ Pos(Minus(MaxVal)) = -MaxVal
  BY Bounds, MinusIs
<1>2. CASE SetMax
  <2>1. TypeOK'
    BY <1>0, <1>2, <1>b DEF SetMax, TypeOK, Places
  <2>2. HwNear' /\ LeftNear' /\ PrevNear'
    BY <1>0, <1>2, <1>b, Bounds DEF SetMax, HwNear, LeftNear, PrevNear, Pos
  <2>3. Reads' /\ Calls' /\ Exact'
    BY <1>0, <1>2 DEF SetMax, Reads, Calls, Exact, TypeOK, Minus
  <2> QED
    BY <2>1, <2>2, <2>3 DEF LInv
<1>3. CASE SetMaxPrev
  <2>1. TypeOK'
    BY <1>0, <1>3, <1>b, Bounds DEF SetMaxPrev, TypeOK, Places
  <2>2. HwNear' /\ LeftNear' /\ PrevNear'
    BY <1>0, <1>3, <1>b, Bounds DEF SetMaxPrev, HwNear, LeftNear, PrevNear, Reads, Calls, Pos
  <2>3. Reads' /\ Calls' /\ Exact'
    BY <1>0, <1>3 DEF SetMaxPrev, Reads, Calls, Exact, TypeOK, Minus
  <2> QED
    BY <2>1, <2>2, <2>3 DEF LInv
<1>4. CASE Ignore
  <2>1. TypeOK'
    BY <1>0, <1>4, <1>a DEF Ignore, TypeOK, Places
  <2>2. HwNear' /\ LeftNear' /\ PrevNear'
    BY <1>0, <1>4 DEF Ignore, HwNear, LeftNear, PrevNear, Pos
  <2>3. Reads' /\ Calls'
    BY <1>0, <1>4 DEF Ignore, Reads, Calls, TypeOK, Minus
  <2>4. ticks + coarse = owed
    BY <1>0, <1>4 DEF Ignore, Calls, Exact
  <2>5. Exact'
    BY <1>0, <1>4, <1>a, <2>4 DEF Ignore, Exact, TypeOK, Rdpmc
  <2> QED
    BY <2>1, <2>2, <2>3, <2>5 DEF LInv
<1>5. CASE StartBlock
  <2>1. TypeOK'
    BY <1>0, <1>5, <1>a DEF StartBlock, TypeOK, Places
  <2>2. HwNear' /\ LeftNear' /\ PrevNear'
    BY <1>0, <1>5 DEF StartBlock, HwNear, LeftNear, PrevNear, Pos
  <2>3. Reads' /\ Calls'
    BY <1>0, <1>5 DEF StartBlock, Reads, Calls, TypeOK, Minus
  <2>4. ticks + coarse = owed /\ ~counting
    BY <1>0, <1>5 DEF StartBlock, Calls, Exact
  <2>5. Exact'
    BY <1>0, <1>5, <1>a, <2>4 DEF StartBlock, Exact, TypeOK, Rdpmc
  <2> QED
    BY <2>1, <2>2, <2>3, <2>5 DEF LInv
<1>6. CASE StopBlock
  <2>0. UnsignedDelta(Rdpmc, last) = Rdpmc - last /\ Rdpmc - last \in Nat
    <3>1. last \in 0 .. Rdpmc
      BY <1>0, <1>6, <1>a DEF StopBlock, Exact, TypeOK
    <3> QED
      BY <1>a, <3>1, UnsignedDeltaIs
  <2>1. TypeOK'
    BY <1>0, <1>6, <2>0 DEF StopBlock, TypeOK, Places
  <2>2. HwNear' /\ LeftNear' /\ PrevNear'
    BY <1>0, <1>6 DEF StopBlock, HwNear, LeftNear, PrevNear, Pos
  <2>3. Reads' /\ Calls'
    BY <1>0, <1>6 DEF StopBlock, Reads, Calls, TypeOK, Minus
  <2>4. Exact'
    BY <1>0, <1>6, <2>0 DEF StopBlock, Exact, Calls, TypeOK
  <2> QED
    BY <2>1, <2>2, <2>3, <2>4 DEF LInv
<1>7. CASE EndCoarse
  <2>0. Int32(coarse) = coarse
    BY <1>0, <1>7, Int32Is DEF EndCoarse, ShortTransactions, TypeOK
  <2>1. TypeOK'
    <3>1. ticks' \in Nat /\ coarse' \in Nat
      BY <1>0, <1>7, <2>0 DEF EndCoarse, TypeOK
    <3>2. {pending, counting, user_reading, in_tx, was_on}' \subseteq BOOLEAN
      BY <1>0, <1>7 DEF EndCoarse, TypeOK
    <3> QED
      BY <1>0, <1>7, <3>1, <3>2 DEF EndCoarse, TypeOK
  <2>2. HwNear' /\ LeftNear' /\ PrevNear'
    BY <1>0, <1>7 DEF EndCoarse, HwNear, LeftNear, PrevNear, Pos
  <2>3. Reads' /\ Calls'
    BY <1>0, <1>7 DEF EndCoarse, Reads, Calls, TypeOK, Minus
  <2>4. Exact'
    BY <1>0, <1>7, <2>0 DEF EndCoarse, Exact, Calls, TypeOK
  <2> QED
    BY <2>1, <2>2, <2>3, <2>4 DEF LInv
<1> QED
  BY <1>1, <1>2, <1>3, <1>4, <1>5, <1>6, <1>7

LEMMA RetireTypes ==
    ASSUME LInv, Retire
    PROVE  TypeOK'
<1> USE DEF event, local, lib, ghost
<1>0. TypeOK /\ Exact
  BY DEF LInv
<1>1. /\ total < MaxRetired
      /\ hw' = (hw + 1) % Width /\ pending' \in BOOLEAN
      /\ owed' = (IF counting \/ pc = "coarse" THEN owed + 1 ELSE owed) /\ total' = total + 1
      /\ UNCHANGED <<event, ticks, counting, user_reading, lib, pc, op, local>>
  BY <1>0 DEF Retire, TypeOK
<1>2. hw' \in 0 .. Width - 1
  <2>1. hw + 1 \in Int /\ Width \in Nat \ {0}
    BY <1>0, WidthAssumption DEF TypeOK
  <2> QED
    BY <1>1, <2>1, ModRange
<1>3. owed \in 0 .. total /\ total \in 0 .. MaxRetired
  BY <1>0, MaxRetiredAssumption DEF TypeOK, Exact
<1>4. owed' \in 0 .. MaxRetired /\ total' \in 0 .. MaxRetired
  BY <1>1, <1>3, MaxRetiredAssumption
<1> QED
  BY <1>0, <1>1, <1>2, <1>4 DEF TypeOK

(* An instruction moves the counter and what it owes by one. *)
LEMMA RetireKeeps ==
    ASSUME Quiet, Roomy, ShortTransactions, ShortTransactions', LInv, Retire
    PROVE  LInv'
<1> USE DEF event, local, lib, ghost
<1>0. TypeOK /\ HwNear /\ PrevNear /\ LeftNear /\ Reads /\ Calls /\ Exact
  BY DEF LInv
<1>1. /\ pc \in {"user", "coarse"} /\ total < MaxRetired /\ (pending => hw < Skid)
      /\ hw' = (hw + 1) % Width /\ pending' \in BOOLEAN /\ (pending' <=> pending \/ hw' = 0)
      /\ owed' = (IF counting \/ pc = "coarse" THEN owed + 1 ELSE owed) /\ total' = total + 1
      /\ UNCHANGED <<event, ticks, counting, user_reading, lib, pc, op, local>>
  BY DEF Retire
<1>2. hw \in 0 .. Width - 1 /\ prev \in 0 .. Width - 1
  BY <1>0 DEF TypeOK
<1>3. hw' = IF hw = Width - 1 THEN 0 ELSE hw + 1
  BY <1>1, <1>2, CountsUp
<1>4. Pos(hw)' = Pos(hw) + 1 /\ Pos(hw)' <= Skid /\ (Pos(hw)' >= 0 => pending')
  <2>1. Half \in Nat /\ Width = 2 * Half /\ Skid \in Nat /\ Skid + 1 < Half
    BY Bounds
  <2>2. CASE pending
    <3>1. hw < Skid /\ hw' = hw + 1
      BY <1>1, <1>2, <1>3, <2>1, <2>2
    <3> QED
      BY <1>1, <1>2, <2>1, <2>2, <3>1 DEF Pos
  <2>3. CASE ~pending
    <3>1. Half <= hw /\ Pos(hw) = hw - Width
      BY <1>0, <1>2, <2>1, <2>3 DEF HwNear, Pos
    <3>2. CASE hw = Width - 1
      BY <1>1, <1>2, <1>3, <2>1, <3>1, <3>2 DEF Pos
    <3>3. CASE hw # Width - 1
      BY <1>2, <1>3, <2>1, <3>1, <3>3 DEF Pos
    <3> QED
      BY <3>2, <3>3
  <2> QED
    BY <2>2, <2>3
<1>5. Pos(prev)' = Pos(prev)
  BY <1>1 DEF Pos
<1>6. HwNear' /\ LeftNear'
  BY <1>0, <1>1, <1>4, Bounds DEF HwNear, LeftNear, Pos
<1>7. PrevNear'
  <2>1. Pos(prev) \in Int /\ Pos(hw) \in Int
    BY <1>2, Bounds DEF Pos
  <2>2. CASE Pos(prev) <= Pos(hw)
    BY <1>0, <1>1, <1>4, <1>5, <2>1, <2>2 DEF PrevNear
  <2>3. CASE ~pending /\ ~counting /\ Pos(prev) = -MaxVal
    <3>1. pending' => Pos(hw)' = 0
      <4>1. 0 < Half
        BY Bounds
      <4> QED
        BY <1>1, <2>3, <4>1 DEF Pos
    <3> QED
      BY <1>0, <1>1, <1>4, <1>5, <2>1, <2>3, <3>1, Bounds DEF PrevNear
  <2> QED
    BY <1>0, <1>1, <2>2, <2>3 DEF PrevNear
<1>8. in_tx => ~pending' /\ Rdpmc' = Rdpmc + 1
  <2> SUFFICES ASSUME in_tx PROVE ~pending' /\ Rdpmc' = Rdpmc + 1
    OBVIOUS
  <2>1. Rdpmc' # 0
    BY <1>1 DEF ShortTransactions
  <2>2. Rdpmc' = 0 \/ Rdpmc' = Rdpmc + 1
    BY <1>1, <1>2, CountsUp DEF Rdpmc
  <2>3. hw' # 0
    <3>1. 0 % Low = 0
      BY LowAssumption, ModNear
    <3> QED
      BY <2>1, <3>1 DEF Rdpmc
  <2>4. ~pending
    <3>1. pending => hw = Width - MaxVal
      BY <1>0, <1>1, Bounds, MinusIs DEF Reads
    <3> QED
      BY <1>1, <3>1, Bounds
  <2> QED
    BY <1>1, <2>1, <2>2, <2>3, <2>4
<1>9. TypeOK'
  BY RetireTypes
<1>10. Reads' /\ Calls'
  BY <1>0, <1>1, <1>8 DEF Reads, Calls
<1>11. Exact'
  <2>0. owed' <= total'
    BY <1>0, <1>1, MaxRetiredAssumption DEF TypeOK, Exact
  <2>1. CASE pc = "coarse"
    <3>1. Rdpmc \in Int /\ last \in Int /\ last <= Rdpmc /\ ticks + coarse + (Rdpmc - last) = owed
      BY <1>0, <2>1, RdpmcRange, LowAssumption DEF Exact, TypeOK
    <3>2. Rdpmc' = Rdpmc + 1 /\ owed' = owed + 1 /\ ~counting
      BY <1>0, <1>1, <1>8, <2>1 DEF Calls
    <3> QED
      BY <1>0, <1>1, <2>0, <2>1, <3>1, <3>2 DEF Exact, TypeOK
  <2>2. CASE pc = "user" /\ counting
    <3>1. Pos(prev) \in Int /\ Pos(hw) \in Int
      BY <1>2, Bounds DEF Pos
    <3>2. count = 0 /\ ticks + (Pos(hw) - Pos(prev)) = owed
      BY <1>0, <2>2 DEF Exact
    <3> QED
      BY <1>0, <1>1, <1>4, <1>5, <2>0, <2>2, <3>1, <3>2 DEF Exact, TypeOK
  <2>3. CASE pc = "user" /\ ~counting
    BY <1>0, <1>1, <2>0, <2>3 DEF Exact
  <2> QED
    BY <1>1, <2>1, <2>2, <2>3
<1> QED
  BY <1>6, <1>7, <1>9, <1>10, <1>11 DEF LInv

LEMMA NextLeftIs ==
    ASSUME NEW rest \in Int, NEW p \in Nat \ {0}, NEW b \in Nat, p <= b, rest <= b
    PROVE  NextLeft(rest, p) \in 1 .. b
BY DEF NextLeft

(* What an overflow finds: nothing new once the call has exchanged            *)
(* prev_count, and otherwise what retired since the last exchange.            *)
LEMMA SeenIs ==
    ASSUME Quiet, Roomy, LInv, pending, pc \in NmiAt
    PROVE  /\ pc \notin {"prev", "swap", "written"}
           /\ SignedDelta(hw, prev) = Pos(hw) - Pos(prev) /\ Pos(hw) \in Int /\ Pos(prev) \in Int
           /\ pc # "maxed" => Pos(hw) - Pos(prev) \in Nat
           /\ pc = "maxed" => Pos(hw) - Pos(prev) >= -(MaxVal + Skid)
           /\ prev = hw => SignedDelta(hw, prev) = 0
<1>0. TypeOK /\ HwNear /\ PrevNear /\ Reads
  BY DEF LInv
<1>1. pc \notin {"prev", "swap", "written"}
  BY DEF Quiet
<1>2. Pos(hw) \in -Far .. Skid /\ Pos(prev) \in -Far .. Skid
  BY <1>0 DEF HwNear, PrevNear
<1>3. Pos(hw) - Pos(prev) \in -Half .. Half - 1 /\ Pos(hw) \in Int /\ Pos(prev) \in Int
  BY <1>2, Bounds
<1>4. SignedDelta(hw, prev) = Pos(hw) - Pos(prev)
  BY <1>0, <1>3, SignedDeltaIs DEF TypeOK
<1>5. pc # "maxed" => Pos(prev) <= Pos(hw)
  BY <1>0, <1>1 DEF PrevNear
<1>6. pc = "maxed" => Pos(hw) = -MaxVal
  BY <1>0, Bounds, MinusIs DEF Reads
<1>7. pc = "maxed" => Pos(hw) - Pos(prev) >= -(MaxVal + Skid)
  BY <1>2, <1>6, Bounds
<1>8. prev = hw => SignedDelta(hw, prev) = 0
  BY <1>3, <1>4
<1> QED
  BY <1>1, <1>3, <1>4, <1>5, <1>7, <1>8

(* A late overflow leaves the counter of a coarsened transaction alone. *)
LEMMA NmiStays ==
    ASSUME Quiet, Roomy, LInv, Nmi, in_tx, pc \in {"ignore", "user", "coarse"}
    PROVE  hw' = hw
<1>0. TypeOK /\ Reads /\ Calls
  BY DEF LInv
<1>1. /\ pending /\ pc \in NmiAt /\ hw' = Minus(left')
      /\ left' = NextLeft(left - SignedDelta(hw, prev), period')
      /\ ~counting => period' = period
  BY DEF Nmi, OverflowUpdatePeriod
<1>2. ~counting /\ period' = MaxVal
  BY <1>0, <1>1 DEF Calls, Reads
<1>3. hw = Minus(MaxVal) /\ left = MaxVal /\ SignedDelta(hw, prev) = 0
  BY <1>0, <1>1, SeenIs DEF Reads
<1>4. NextLeft(MaxVal, MaxVal) = MaxVal /\ left - SignedDelta(hw, prev) = MaxVal
  BY <1>3, Bounds DEF NextLeft
<1> QED
  BY <1>1, <1>2, <1>3, <1>4

LEMMA NmiKeeps ==
    ASSUME Quiet, Roomy, LInv, Nmi
    PROVE  LInv'
<1> USE DEF event, local, lib, ghost
<1>0. TypeOK /\ HwNear /\ PrevNear /\ LeftNear /\ Reads /\ Calls /\ Exact
  BY DEF LInv
<1> DEFINE seen == SignedDelta(hw, prev)
<1>1. /\ pending /\ pc \in NmiAt /\ pending' = FALSE
      /\ hw' = Minus(left') /\ prev' = Minus(left')
      /\ left' = NextLeft(left - seen, period')
      /\ IF counting
         THEN ticks' = ticks + (count + seen) /\ count' = 0 /\ period' \in Periods
         ELSE ticks' = ticks /\ count' = count + seen /\ period' = period
      /\ UNCHANGED <<counting, user_reading, lib, pc, op, local, ghost>>
  BY DEF Nmi, OverflowUpdatePeriod
<1>2. /\ pc \notin {"prev", "swap", "written"}
      /\ seen = Pos(hw) - Pos(prev) /\ Pos(hw) \in Int /\ Pos(prev) \in Int
      /\ pc # "maxed" => Pos(hw) - Pos(prev) \in Nat
      /\ pc = "maxed" => Pos(hw) - Pos(prev) >= -(MaxVal + Skid)
      /\ prev = hw => seen = 0
  BY <1>1, SeenIs
<1> HIDE DEF seen
<1>3. seen \in Int /\ (pc # "maxed" => seen \in Nat) /\ (pc = "maxed" => seen >= -(MaxVal + Skid))
  BY <1>2
<1>4. period \in 1 .. MaxVal /\ period' \in 1 .. MaxVal /\ period' \in Periods \cup {MaxVal}
  BY <1>0, <1>1, Bounds DEF TypeOK
<1>5. left \in 0 .. MaxVal
  BY <1>0, <1>1 DEF LeftNear
<1>6. left' \in 1 .. (IF pc = "maxed" THEN Far ELSE MaxVal)
  <2>1. CASE pc = "maxed"
    <3>1. left - seen \in Int /\ left - seen <= Far /\ period' \in Nat \ {0} /\ period' <= Far
      BY <1>3, <1>4, <1>5, <2>1, Bounds DEF Far
    <3> QED
      BY <1>1, <2>1, <3>1, NextLeftIs, Bounds
  <2>2. CASE pc # "maxed"
    <3>1. left - seen \in Int /\ left - seen <= MaxVal /\ period' \in Nat \ {0} /\ period' <= MaxVal
      BY <1>3, <1>4, <1>5, <2>2, Bounds
    <3> QED
      BY <1>1, <2>2, <3>1, NextLeftIs, Bounds
  <2> QED
    BY <2>1, <2>2
<1>7. hw' \in 0 .. Width - 1 /\ prev' = hw' /\ Pos(hw') = -left'
  BY <1>1, <1>6, Bounds, MinusIs
<1>8. Pos(hw)' = -left' /\ Pos(prev)' = Pos(hw)'
  BY <1>7 DEF Pos
<1>9. pc' = pc /\ pending' = FALSE /\ left' \in Nat
  BY <1>1, <1>6, Bounds
<1>10. counting => count = 0 /\ seen \in Nat /\ ticks' = ticks + seen /\ count' = 0
  BY <1>0, <1>1, <1>2, <1>3 DEF Calls, Exact, TypeOK, Places
<1>11. in_tx /\ pc = "coarse" => hw' = hw
  BY NmiStays
<1>12. TypeOK'
  <2>1. ticks' \in Nat
    BY <1>0, <1>1, <1>10 DEF TypeOK
  <2>2. left' \in Int /\ count' \in Int
    BY <1>0, <1>1, <1>3, <1>9 DEF TypeOK
  <2>3. {pending, counting, user_reading, in_tx, was_on}' \subseteq BOOLEAN
    BY <1>0, <1>1 DEF TypeOK
  <2> QED
    BY <1>0, <1>1, <1>4, <1>7, <2>1, <2>2, <2>3 DEF TypeOK
<1>13. HwNear' /\ PrevNear' /\ LeftNear'
  <2>1. left' \in 1 .. Far
    BY <1>6, Bounds
  <2>2. Pos(hw)' \in -Far .. Skid /\ Pos(hw)' < 0 /\ Pos(prev)' = Pos(hw)'
    <3>1. ASSUME NEW n \in 1 .. Far PROVE -n \in -Far .. Skid /\ -n < 0
      BY Bounds
    <3> QED
      BY <1>8, <2>1, <3>1
  <2>3. HwNear' /\ PrevNear'
    BY <1>9, <2>2, Bounds DEF HwNear, PrevNear
  <2>4. LeftNear'
    BY <1>6, <1>9, Bounds DEF LeftNear
  <2> QED
    BY <2>3, <2>4
<1>14. Reads' /\ Calls'
  BY <1>0, <1>1, <1>2, <1>7 DEF Reads, Calls
<1>15. Exact'
  <2>1. CASE counting /\ pc \in {"user", "rdmsr"}
    <3>1. ticks' = owed
      <4>1. ticks + (Pos(hw) - Pos(prev)) = owed
        BY <1>0, <2>1 DEF Exact
      <4> QED
        BY <1>2, <1>10, <2>1, <4>1
    <3>2. Pos(hw)' - Pos(prev)' = 0
      <4>1. -left' \in Int
        BY <1>9
      <4> QED
        BY <1>8, <4>1
    <3> QED
      BY <1>0, <1>1, <1>10, <2>1, <3>1, <3>2 DEF Exact, TypeOK
  <2>2. CASE pc \in {"off", "sum", "zero", "enable", "write"}
    <3>1. seen = 0
      BY <1>0, <1>2, <2>2 DEF Reads
    <3>2. ticks' = ticks /\ (count = 0 => count' = 0)
      BY <1>0, <1>1, <1>10, <3>1 DEF TypeOK
    <3> QED
      BY <1>0, <1>1, <2>2, <3>2 DEF Exact, Calls, SignedDelta
  <2>3. CASE pc = "coarse"
    <3>1. in_tx /\ ~counting
      BY <1>0, <2>3 DEF Calls
    <3>2. Rdpmc' = Rdpmc
      BY <1>1, <1>11, <2>3, <3>1 DEF Rdpmc
    <3> QED
      BY <1>0, <1>1, <2>3, <3>1, <3>2 DEF Exact
  <2>4. CASE ~counting /\ pc \notin {"off", "sum", "zero", "enable", "write", "coarse"}
    BY <1>0, <1>1, <1>2, <2>4 DEF Exact
  <2>5. counting => pc \in {"user", "rdmsr", "off", "write"}
    BY <1>0, <1>2 DEF Calls, TypeOK, Places
  <2> QED
    BY <2>1, <2>2, <2>3, <2>4, <2>5
<1> QED
  BY <1>12, <1>13, <1>14, <1>15 DEF LInv

-----------------------------------------------------------------------------
(* The theorems. *)

LEMMA LInvInit == ASSUME Roomy, Init PROVE LInv
<1>1. period \in 1 .. MaxVal /\ period \in Periods
  BY Bounds DEF Init
<1>2. Minus(period) \in 0 .. Width - 1 /\ Pos(Minus(period)) = -period
  BY <1>1, Bounds, MinusIs
<1>3. TypeOK
  <2>1. hw \in 0 .. Width - 1 /\ prev \in 0 .. Width - 1 /\ 0 \in 0 .. Width - 1 /\ 0 \in 0 .. Low - 1
    BY <1>2, Bounds DEF Init
  <2>2. left \in Int /\ 0 \in 0 .. MaxRetired
    BY <1>1, MaxRetiredAssumption, Bounds DEF Init
  <2>3. {pending, counting, user_reading, in_tx, was_on} \subseteq BOOLEAN
    BY DEF Init
  <2>4. ticks = 0 /\ coarse = 0 /\ last = 0 /\ raw = 0 /\ old = 0 /\ delta = 0 /\ count = 0
        /\ owed = 0 /\ total = 0 /\ pc = "user" /\ op = "stop"
    BY DEF Init
  <2> QED
    BY <1>1, <2>1, <2>2, <2>3, <2>4 DEF TypeOK, Places
<1>4. HwNear /\ PrevNear /\ LeftNear
  BY <1>1, <1>2, Bounds DEF Init, HwNear, PrevNear, LeftNear
<1>5. Reads /\ Calls /\ Exact
  BY DEF Init, Reads, Calls, Exact
<1> QED
  BY <1>3, <1>4, <1>5 DEF LInv

LEMMA LInvStep ==
    ASSUME Quiet, Roomy, ShortTransactions, Retire => ShortTransactions', LInv, [Next]_vars
    PROVE  LInv'
<1>1. CASE UNCHANGED vars
  BY <1>1 DEF vars, event, lib, local, ghost, LInv, TypeOK, HwNear, PrevNear, LeftNear,
              Reads, Calls, Exact, Pos, Rdpmc, SignedDelta
<1>2. CASE Retire
  BY <1>2, RetireKeeps
<1>3. CASE Nmi
  BY <1>3, NmiKeeps
<1>4. CASE ReadMsr \/ ReadPrev \/ Swap
  BY <1>4, ReadKeeps
<1>5. CASE Stop \/ StopOff \/ StopSum \/ StopAdd
  BY <1>5, StopKeeps
<1>6. CASE Start \/ Clear \/ Enable \/ SetPerfCounter \/ SetPrevCount
  BY <1>6, StartKeeps
<1>7. CASE StartCoarse \/ SetMax \/ SetMaxPrev \/ Ignore \/ StartBlock \/ StopBlock \/ EndCoarse
  BY <1>7, CoarseKeeps
<1> QED
  BY <1>1, <1>2, <1>3, <1>4, <1>5, <1>6, <1>7 DEF Next
LEMMA LInvAlways ==
    ASSUME Quiet, Roomy
    PROVE  Spec /\ []ShortTransactions => []LInv
<1>1. Init => LInv
  BY LInvInit
<1>2. LInv /\ ShortTransactions /\ ShortTransactions' /\ [Next]_vars => LInv'
  BY LInvStep
<1> QED
  BY <1>1, <1>2, PTL DEF Spec

(* The counter, the clock and the locals of a call keep their types; the     *)
(* clock never runs below zero (logical_clock_instruction_counting.h).       *)
THEOREM ClockTypeCorrect ==
    ASSUME Quiet, Roomy
    PROVE  Spec /\ []ShortTransactions => []TypeOK
<1>1. LInv => TypeOK
  BY DEF LInv
<1> QED
  BY <1>1, LInvAlways, PTL

(* The clock a stop leaves is the number of instructions retired between the *)
(* starts and stops and in the coarsened blocks, for any interleaving of the *)
(* calls with overflow NMIs (task_clock_entry_stop, task_clock_add_ticks).   *)
THEOREM StoppedIsExact ==
    ASSUME Quiet, Roomy
    PROVE  Spec /\ []ShortTransactions => []StoppedClockExact
<1>1. LInv => StoppedClockExact
  BY DEF LInv, Exact, StoppedClockExact
<1> QED
  BY <1>1, LInvAlways, PTL

(* A running thread's clock is never ahead of its instructions, and lags by  *)
(* what the counter has gained over prev_count                               *)
(* (task_clock_entry_overflow_update_period).                                *)
THEOREM RunningLags ==
    ASSUME Quiet, Roomy
    PROVE  Spec /\ []ShortTransactions => []RunningClockLags
<1>1. LInv => RunningClockLags
  <2> SUFFICES ASSUME LInv, pc = "user", counting
               PROVE  ticks <= owed /\ ticks + count + SignedDelta(hw, prev) = owed
    BY DEF RunningClockLags
  <2>0. TypeOK /\ HwNear /\ PrevNear /\ Exact
    BY DEF LInv
  <2>1. Pos(hw) \in -Far .. Skid /\ Pos(prev) \in -Far .. Skid /\ Pos(prev) <= Pos(hw)
    BY <2>0 DEF HwNear, PrevNear
  <2>2. Pos(hw) - Pos(prev) \in -Half .. Half - 1 /\ Pos(hw) - Pos(prev) \in Nat
    BY <2>1, Bounds
  <2>3. SignedDelta(hw, prev) = Pos(hw) - Pos(prev)
    BY <2>0, <2>2, SignedDeltaIs DEF TypeOK
  <2>4. count = 0 /\ ticks + (Pos(hw) - Pos(prev)) = owed
    BY <2>0 DEF Exact
  <2>5. ticks \in Nat
    BY <2>0 DEF TypeOK
  <2> QED
    BY <2>2, <2>3, <2>4, <2>5
<1> QED
  BY <1>1, LInvAlways, PTL

(* What the library adds at the end of a coarsened block, from two readings  *)
(* of the counter's lower half in user space, is the block's length          *)
(* (determ_clock.c, __rdpmc).                                                *)
THEOREM CoarseReadingsExact ==
    ASSUME Quiet, Roomy
    PROVE  Spec /\ []ShortTransactions => []CoarseReadingExact
<1>1. LInv => CoarseReadingExact
  <2> SUFFICES ASSUME LInv, pc = "coarse"
               PROVE  ticks + coarse + UnsignedDelta(Rdpmc, last) = owed
    BY DEF CoarseReadingExact
  <2>0. TypeOK /\ Exact
    BY DEF LInv
  <2>1. last \in 0 .. Low - 1 /\ last <= Rdpmc /\ ticks + coarse + (Rdpmc - last) = owed
    BY <2>0 DEF TypeOK, Exact
  <2>2. Rdpmc \in 0 .. Low - 1
    BY <2>0, RdpmcRange
  <2>3. last \in 0 .. Rdpmc
    BY <2>1, <2>2, LowAssumption
  <2> QED
    BY <2>1, <2>2, <2>3, UnsignedDeltaIs
<1> QED
  BY <1>1, LInvAlways, PTL

-----------------------------------------------------------------------------
(* A run that retires fewer instructions than the period of a coarsened      *)
(* transaction has short transactions only.                                  *)

ShortRun == MaxRetired < MaxVal /\ MaxVal <= Low \div 2

(* The counter has moved on from where set_perf_counter_max set it. *)
SinceMax ==
    /\ pc = "maxed" => hw = Width - MaxVal
    /\ in_tx /\ pc \in {"ignore", "user", "coarse"}
       => hw \in Width - MaxVal .. Width - MaxVal + total

LEMMA ShortIs ==
    ASSUME ShortRun, Roomy, hw \in Width - MaxVal .. Width - MaxVal + total,
           total \in 0 .. MaxRetired, coarse \in 0 .. owed, owed \in 0 .. MaxRetired
    PROVE  Rdpmc # 0 /\ coarse < Low \div 2
<1> DEFINE k == hw - (Width - MaxVal)
           q == Width \div Low
<1>1. /\ MaxVal \in 1 .. Low - 1 /\ MaxRetired \in Nat /\ MaxRetired < MaxVal
      /\ Low \in Nat \ {0} /\ Width \in Nat \ {0}
  BY MaxValAssumption, MaxRetiredAssumption, LowAssumption, WidthAssumption DEF ShortRun
<1>2. coarse < Low \div 2
  <2> DEFINE h == Low \div 2
  <2>1. h \in Int /\ MaxVal <= h
    BY <1>1 DEF ShortRun
  <2> HIDE DEF h
  <2>2. coarse < h
    BY <1>1, <2>1
  <2> QED
    BY <2>2 DEF h
<1>3. q \in Int /\ Width = Low * q
  <2>1. q \in Int /\ Width = Low * q + (Width % Low)
    BY <1>1, DivMod
  <2>2. Low * q \in Int /\ Width % Low = 0
    BY <1>1, <2>1, LowAssumption
  <2> QED
    BY <2>1, <2>2
<1>4. k \in 0 .. MaxVal - 1
  BY <1>1
<1> HIDE DEF q
<1>5. Low - MaxVal + k \in 1 .. Low - 1 /\ Low - MaxVal + k \in 0 .. Low - 1
  BY <1>1, <1>4
<1>6. hw = Low * (q - 1) + (Low - MaxVal + k)
  <2>1. Low * (q - 1) = Width - Low
    BY <1>1, <1>3
  <2> QED
    BY <1>1, <1>4, <2>1
<1> HIDE DEF k
<1>7. hw % Low = Low - MaxVal + k
  <2>1. q - 1 \in Int
    BY <1>3
  <2> QED
    BY <1>1, <1>5, <1>6, <2>1, ModUnique
<1> QED
  BY <1>1, <1>2, <1>5, <1>7 DEF Rdpmc

LEMMA SinceMaxStep ==
    ASSUME Quiet, Roomy, ShortRun, "maxed" \notin NmiAt, LInv, SinceMax, [Next]_vars
    PROVE  SinceMax'
<1> USE DEF event, local, lib, ghost
<1>0. TypeOK /\ Calls
  BY DEF LInv
<1>1. CASE UNCHANGED vars
  BY <1>1 DEF vars, SinceMax
<1>2. CASE Retire
  <2>1. hw' = (hw + 1) % Width /\ total' = total + 1 /\ total < MaxRetired /\ UNCHANGED <<pc, in_tx>>
        /\ pc \in {"user", "coarse"}
    BY <1>2 DEF Retire
  <2> SUFFICES ASSUME in_tx PROVE hw' \in Width - MaxVal .. Width - MaxVal + total'
    BY <2>1 DEF SinceMax
  <2>2. hw \in Width - MaxVal .. Width - MaxVal + total /\ total \in 0 .. MaxRetired - 1
        /\ hw \in 0 .. Width - 1
    BY <1>0, <2>1, MaxRetiredAssumption DEF SinceMax, TypeOK
  <2>3. hw # Width - 1
    BY <2>2, Bounds, MaxRetiredAssumption DEF ShortRun
  <2>4. hw' = hw + 1
    BY <2>1, <2>2, <2>3, CountsUp
  <2> QED
    BY <2>1, <2>2, <2>4, Bounds, MaxRetiredAssumption
<1>3. CASE Nmi
  <2>1. UNCHANGED <<pc, in_tx, total>> /\ pc # "maxed"
    BY <1>3 DEF Nmi
  <2> QED
    BY <1>3, <2>1, NmiStays DEF SinceMax
<1>4. CASE SetMax
  BY <1>4, Bounds, MinusIs DEF SetMax, SinceMax
<1>5. CASE SetMaxPrev
  <2>1. total \in Nat /\ Width - MaxVal \in Int
    BY <1>0, Bounds, MaxRetiredAssumption DEF TypeOK
  <2> QED
    BY <1>5, <2>1 DEF SetMaxPrev, SinceMax
<1>6. CASE ReadMsr \/ ReadPrev \/ Swap \/ Stop \/ StopOff \/ StopSum \/ StopAdd
  BY <1>0, <1>6 DEF ReadMsr, ReadPrev, Swap, Stop, Call, StopOff, StopSum, StopAdd, Calls, SinceMax
<1>7. CASE Start \/ Clear \/ Enable \/ SetPerfCounter \/ SetPrevCount
  BY <1>0, <1>7 DEF Start, Call, Clear, Enable, SetPerfCounter, SetPrevCount, Calls, SinceMax
<1>8. CASE StartCoarse \/ Ignore \/ StartBlock \/ StopBlock \/ EndCoarse
  BY <1>0, <1>8 DEF StartCoarse, Call, Ignore, StartBlock, StopBlock, EndCoarse, Calls, SinceMax
<1> QED
  BY <1>1, <1>2, <1>3, <1>4, <1>5, <1>6, <1>7, <1>8 DEF Next

LEMMA ShortFollows ==
    ASSUME ShortRun, Roomy, TypeOK, SinceMax, coarse <= owed
    PROVE  ShortTransactions
<1>1. total \in 0 .. MaxRetired /\ coarse \in 0 .. owed /\ owed \in 0 .. MaxRetired
  BY MaxRetiredAssumption DEF TypeOK
<1> QED
  BY <1>1, ShortIs DEF ShortTransactions, SinceMax

(* What the library has counted of a transaction did retire. *)
LEMMA CoarseRetired ==
    ASSUME LInv
    PROVE  coarse <= owed
<1>0. TypeOK /\ Calls /\ Exact
  BY DEF LInv
<1>1. ticks \in Nat /\ coarse \in Nat /\ owed \in Nat /\ last \in Int
  BY <1>0, MaxRetiredAssumption DEF TypeOK
<1>2. CASE pc = "coarse"
  <2>1. last <= Rdpmc /\ ticks + coarse + (Rdpmc - last) = owed /\ Rdpmc \in Int
    BY <1>0, <1>2, RdpmcRange DEF Exact
  <2> QED
    BY <1>1, <2>1
<1>3. CASE pc = "user" /\ in_tx
  <2>1. ticks + coarse = owed
    BY <1>0, <1>3 DEF Exact, Calls
  <2> QED
    BY <1>1, <2>1
<1>4. CASE coarse = 0
  BY <1>1, <1>4
<1> QED
  BY <1>0, <1>2, <1>3, <1>4 DEF Calls

(* The hypothesis of the theorems above holds: while a run retires fewer     *)
(* instructions than set_perf_counter_max leaves before the overflow, its    *)
(* coarsened transactions are short.                                         *)
THEOREM ShortRunsAreShort ==
    ASSUME Quiet, Roomy, ShortRun, "maxed" \notin NmiAt
    PROVE  Spec => []ShortTransactions
<1> DEFINE I == LInv /\ SinceMax /\ ShortTransactions
<1>0. TypeOK /\ SinceMax /\ coarse <= owed => ShortTransactions
  BY ShortFollows
<1>1. (TypeOK /\ SinceMax /\ coarse <= owed => ShortTransactions)'
  BY <1>0, PTL
<1>2. (LInv => TypeOK /\ coarse <= owed)'
  <2>1. LInv => TypeOK /\ coarse <= owed
    BY CoarseRetired DEF LInv
  <2> QED
    BY <2>1, PTL
<1>3. Init => I
  <2> SUFFICES ASSUME Init PROVE I
    OBVIOUS
  <2>1. LInv /\ SinceMax
    BY LInvInit DEF Init, SinceMax
  <2> QED
    BY <2>1, CoarseRetired, ShortFollows DEF LInv
<1>4. I /\ [Next]_vars => I'
  <2> SUFFICES ASSUME I, [Next]_vars PROVE I'
    OBVIOUS
  <2>1. SinceMax'
    BY SinceMaxStep
  <2>2. CASE Retire
    <3>1. TypeOK'
      BY <2>2, RetireTypes
    <3>2. coarse' <= owed'
      <4>1. coarse <= owed /\ coarse \in Nat /\ owed \in Nat
        BY CoarseRetired, MaxRetiredAssumption DEF LInv, TypeOK
      <4>2. coarse' = coarse /\ (owed' = owed \/ owed' = owed + 1)
        BY <2>2 DEF Retire, lib
      <4> QED
        BY <4>1, <4>2
    <3>3. ShortTransactions'
      BY <1>1, <2>1, <3>1, <3>2
    <3> QED
      BY <2>1, <3>3, LInvStep
  <2>3. CASE ~Retire
    <3>1. LInv'
      BY <2>3, LInvStep
    <3> QED
      BY <1>1, <1>2, <2>1, <3>1
  <2> QED
    BY <2>2, <2>3
<1> QED
  BY <1>3, <1>4, PTL DEF Spec
=============================================================================
