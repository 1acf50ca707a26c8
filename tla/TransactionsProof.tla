-------------------------- MODULE TransactionsProof --------------------------
(***************************************************************************)
(* Proofs about Transactions: the library's view adds nothing to the       *)
(* clock's behaviour, and the size it records for a block is the number of *)
(* the block's instructions.                                               *)
(***************************************************************************)
EXTENDS Transactions, LogicalClockProof

(* The clock in the user status is the module's, or still the zero it had    *)
(* before any call published it.                                             *)
Published == user_ticks = ticks + Base \/ (user_ticks = 0 /\ ticks = 0)

(* The thread is between the calls and not counting, or enters a coarsened   *)
(* transaction.                                                              *)
Idle == (pc \in {"user", "coarse"} /\ ~counting) \/ (pc \notin {"user", "coarse"} /\ op = "coarse")

(* The thread is in a chunk, or enters or leaves one. *)
InChunk == (pc = "user" /\ counting) \/ (pc \notin {"user", "coarse"} /\ op # "coarse")

(* The thread is in a coarsened block, or enters its first one. *)
InCoarse == pc = "coarse" \/ (pc \notin {"user", "coarse"} /\ op = "coarse")

Marks ==
    /\ Idle => Published
    /\ InChunk => last_value = begun + Base \/ (last_value = 0 /\ begun = 0)
    /\ InCoarse => begun = ticks + coarse
    /\ begun \in Nat

TxInv == LInv /\ Marks /\ TxSizeExact

-----------------------------------------------------------------------------
LEMMA TxStepIsStep == [TxNext]_txvars => [Next]_vars
BY DEF TxNext, Hidden, BeginBlock, Enabled, Ask, EndBlock, EndCoarseBlock, EndTransaction,
       Next, txvars, vars, event, lib, local, ghost

(* The library only watches: what is proved of the clock holds in            *)
(* Transactions too.                                                         *)
LEMMA TransactionsRefinesClock == TxSpec => Spec
<1>1. TxInit => Init
  BY DEF TxInit
<1> QED
  BY <1>1, TxStepIsStep, PTL DEF TxSpec, Spec

(* Steps the library does not see leave what it remembers in place. *)
LEMMA HiddenKeeps ==
    ASSUME Quiet, Roomy, ShortTransactions, LInv, LInv', Marks, TxSizeExact, Hidden
    PROVE  Marks' /\ TxSizeExact'
<1> USE DEF event, lib, local, ghost, tx
<1>0. TypeOK /\ Calls /\ Exact
  BY DEF LInv
<1>1. CASE Retire
  BY <1>0, <1>1 DEF Hidden, Retire, Marks, Published, Idle, InChunk, InCoarse, TxSizeExact, Calls
<1>2. CASE Nmi
  <2>1. UNCHANGED <<pc, op, counting, coarse, owed, tx>>
    BY <1>2 DEF Hidden, Nmi
  <2>2. Idle \/ InCoarse => ~counting
    BY <1>0 DEF Idle, InCoarse, Calls
  <2>3. ~counting => ticks' = ticks
    BY <1>2 DEF Nmi, OverflowUpdatePeriod
  <2> QED
    BY <2>1, <2>2, <2>3 DEF Marks, Published, Idle, InChunk, InCoarse, TxSizeExact
<1>3. CASE ReadMsr \/ ReadPrev \/ Swap
  BY <1>3 DEF Hidden, ReadMsr, ReadPrev, Swap, Marks, Published, Idle, InChunk, InCoarse, TxSizeExact
<1>4. CASE Stop \/ StopOff \/ StopSum
  BY <1>0, <1>4 DEF Hidden, Stop, Call, StopOff, StopSum, Marks, Published, Idle, InChunk, InCoarse,
                    TxSizeExact, Calls
<1>5. CASE Clear \/ SetPerfCounter \/ SetMax \/ SetMaxPrev \/ Ignore
  BY <1>0, <1>5 DEF Hidden, Clear, SetPerfCounter, SetMax, SetMaxPrev, Ignore, Marks, Published, Idle,
                    InChunk, InCoarse, TxSizeExact, Calls
<1> QED
  BY <1>1, <1>2, <1>3, <1>4, <1>5 DEF Hidden

(* A block begins at the clock the thread has. *)
LEMMA BeginKeeps ==
    ASSUME Quiet, Roomy, ShortTransactions, LInv, LInv', Marks, TxSizeExact, BeginBlock
    PROVE  Marks' /\ TxSizeExact'
<1> USE DEF event, lib, local, ghost, tx
<1>0. TypeOK /\ Calls /\ Exact
  BY DEF LInv
<1>1. pc = "user" /\ ~counting /\ UNCHANGED <<ticks, coarse, owed, user_ticks>>
      /\ begun' = owed /\ last_value' = user_ticks + coarse
  BY <1>0 DEF BeginBlock, Start, StartCoarse, StartBlock, Call, ClockRead, Calls
<1>2. ticks + coarse = owed /\ Published /\ ticks \in Nat /\ coarse \in Nat /\ owed \in Nat
  BY <1>0, <1>1, MaxRetiredAssumption DEF Exact, Marks, Idle, TypeOK
<1>3. CASE Start
  <2>1. coarse = 0 /\ pc' = "rdmsr" /\ op' = "start"
    BY <1>0, <1>3 DEF Start, Call, Calls
  <2>2. last_value' = begun' + Base \/ (last_value' = 0 /\ begun' = 0)
    BY <1>1, <1>2, <2>1, BaseAssumption DEF Published
  <2> QED
    BY <1>1, <1>2, <2>1, <2>2 DEF Marks, Idle, InChunk, InCoarse, TxSizeExact
<1>4. CASE StartCoarse
  <2>1. pc' = "rdmsr" /\ op' = "coarse"
    BY <1>4 DEF StartCoarse, Call
  <2> QED
    BY <1>1, <1>2, <2>1 DEF Marks, Published, Idle, InChunk, InCoarse, TxSizeExact
<1>5. CASE StartBlock
  <2>1. pc' = "coarse"
    BY <1>5 DEF StartBlock
  <2> QED
    BY <1>1, <1>2, <2>1 DEF Marks, Published, Idle, InChunk, InCoarse, TxSizeExact
<1> QED
  BY <1>3, <1>4, <1>5 DEF BeginBlock

(* What is published is the clock; the size is what it gained.               *)
LEMMA PublishKeeps ==
    ASSUME Quiet, Roomy, ShortTransactions, LInv, LInv', Marks, TxSizeExact,
           Enabled \/ Ask \/ EndBlock \/ EndCoarseBlock \/ EndTransaction
    PROVE  Marks' /\ TxSizeExact'
<1> USE DEF event, lib, local, ghost, tx
<1>0. TypeOK /\ Calls /\ Exact
  BY DEF LInv
<1>a. ticks \in Nat /\ coarse \in Nat /\ owed \in Nat /\ Base \in Nat /\ begun \in Nat
  BY <1>0, BaseAssumption, MaxRetiredAssumption DEF TypeOK, Marks
<1>1. CASE Enabled
  <2>1. counting' /\ op' = "start" /\ pc' # "coarse" /\ UNCHANGED <<last_value, size, counted, begun>>
        /\ InChunk
    BY <1>0, <1>1 DEF Enabled, Enable, SetPrevCount, Calls, InChunk
  <2> QED
    BY <2>1 DEF Marks, Idle, InChunk, InCoarse, TxSizeExact
<1>2. CASE Ask
  BY <1>2 DEF Ask, vars, Marks, Published, Idle, InChunk, InCoarse, TxSizeExact
<1>3. CASE EndBlock
  <2>1. op = "stop" /\ pc = "zero" /\ ~counting /\ coarse = 0 /\ ticks' = owed
    BY <1>0, <1>3 DEF EndBlock, StopAdd, Calls, Exact
  <2>2. last_value = begun + Base \/ (last_value = 0 /\ begun = 0)
    BY <2>1 DEF Marks, InChunk
  <2>3. /\ user_ticks' = ticks' + Base /\ size' = user_ticks' + coarse - last_value /\ counted' = TRUE
        /\ pc' = "user" /\ UNCHANGED <<last_value, begun, counting, owed, coarse>>
    BY <1>3 DEF EndBlock, StopAdd
  <2>4. size' = owed - begun + (IF last_value < Base THEN Base ELSE 0)
    BY <1>a, <2>1, <2>2, <2>3
  <2>5. Marks'
    BY <1>a, <2>1, <2>3 DEF Marks, Published, Idle, InChunk, InCoarse
  <2>6. TxSizeExact'
    BY <2>3, <2>4 DEF TxSizeExact
  <2> QED
    BY <2>5, <2>6
<1>4. CASE EndCoarseBlock
  <2>1. pc = "coarse" /\ begun = ticks + coarse /\ Published /\ ~counting
    BY <1>0, <1>4 DEF EndCoarseBlock, StopBlock, Marks, Idle, InCoarse, Calls
  <2>2. UnsignedDelta(Rdpmc, last) = Rdpmc - last /\ ticks + coarse + (Rdpmc - last) = owed
        /\ Rdpmc \in Int /\ last \in Int
    <3>1. last <= Rdpmc /\ ticks + coarse + (Rdpmc - last) = owed
      BY <1>0, <2>1 DEF Exact
    <3>2. Rdpmc \in 0 .. Low - 1 /\ last \in 0 .. Low - 1
      BY <1>0, RdpmcRange DEF TypeOK
    <3>3. last \in 0 .. Rdpmc
      BY <3>1, <3>2, LowAssumption
    <3> QED
      BY <3>1, <3>2, <3>3, UnsignedDeltaIs, LowAssumption
  <2>3. /\ size' = UnsignedDelta(Rdpmc, last) /\ counted' = FALSE /\ pc' = "user"
        /\ UNCHANGED <<user_ticks, last_value, begun, counting, owed, ticks>>
    BY <1>4 DEF EndCoarseBlock, StopBlock, BlockSize
  <2>4. size' = owed - begun
    BY <1>a, <2>1, <2>2, <2>3
  <2>5. Marks'
    BY <2>1, <2>3 DEF Marks, Published, Idle, InChunk, InCoarse
  <2>6. TxSizeExact'
    BY <1>a, <2>3, <2>4 DEF TxSizeExact
  <2> QED
    BY <2>5, <2>6
<1>5. CASE EndTransaction
  <2>1. Int32(coarse) = coarse
    BY <1>0, <1>5, Int32Is DEF EndTransaction, EndCoarse, ShortTransactions, TypeOK
  <2>2. /\ pc = "user" /\ ~counting /\ ticks' = ticks + coarse
        /\ user_ticks' = IF coarse > 0 THEN ticks' + Base ELSE user_ticks
        /\ UNCHANGED <<last_value, size, counted, begun, pc, op, counting, owed>>
    BY <1>0, <1>5, <2>1 DEF EndTransaction, EndCoarse, Calls
  <2>3. Published'
    <3>1. Published
      BY <2>2 DEF Marks, Idle
    <3>2. CASE coarse > 0
      BY <2>2, <3>2 DEF Published
    <3>3. CASE coarse = 0
      BY <1>a, <2>2, <3>1, <3>3 DEF Published
    <3> QED
      BY <1>a, <3>2, <3>3
  <2>4. Marks'
    BY <2>2, <2>3 DEF Marks, Idle, InChunk, InCoarse
  <2>5. TxSizeExact'
    BY <2>2 DEF TxSizeExact
  <2> QED
    BY <2>4, <2>5
<1> QED
  BY <1>1, <1>2, <1>3, <1>4, <1>5

(* determ_clock.c:344, "so we can figure out later the length of the tx in   *)
(* instructions": the size recorded for a block is the number of its         *)
(* instructions, plus the clock its creator gave it for the first block of a *)
(* thread that started it before any call had published that clock.          *)
THEOREM SizesExact ==
    ASSUME Quiet, Roomy
    PROVE  TxSpec /\ []ShortTransactions => []TxSizeExact
<1>1. TxInit => TxInv
  <2> SUFFICES ASSUME TxInit PROVE TxInv
    OBVIOUS
  <2>1. LInv
    BY LInvInit DEF TxInit
  <2> QED
    BY <2>1 DEF TxInit, Init, TxInv, Marks, Published, Idle, InChunk, InCoarse, TxSizeExact
<1>2. TxInv /\ ShortTransactions /\ ShortTransactions' /\ [TxNext]_txvars => TxInv'
  <2> SUFFICES ASSUME TxInv, ShortTransactions, ShortTransactions', [TxNext]_txvars
               PROVE  TxInv'
    OBVIOUS
  <2>0. LInv /\ Marks /\ TxSizeExact
    BY DEF TxInv
  <2>1. LInv'
    BY <2>0, TxStepIsStep, LInvStep
  <2>2. CASE UNCHANGED txvars
    BY <2>0, <2>1, <2>2 DEF txvars, vars, tx, event, lib, local, ghost, TxInv, Marks, Published, Idle,
                            InChunk, InCoarse, TxSizeExact
  <2>3. CASE Hidden
    BY <2>0, <2>1, <2>3, HiddenKeeps DEF TxInv
  <2>4. CASE BeginBlock
    BY <2>0, <2>1, <2>4, BeginKeeps DEF TxInv
  <2>5. CASE Enabled \/ Ask \/ EndBlock \/ EndCoarseBlock \/ EndTransaction
    BY <2>0, <2>1, <2>5, PublishKeeps DEF TxInv
  <2> QED
    BY <2>2, <2>3, <2>4, <2>5 DEF TxNext
<1>3. TxInv => TxSizeExact
  BY DEF TxInv
<1> QED
  BY <1>1, <1>2, <1>3, PTL DEF TxSpec
=============================================================================
