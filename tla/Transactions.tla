----------------------------- MODULE Transactions -----------------------------
(***************************************************************************)
(* LogicalClock with what the library can see of it: the clock the module  *)
(* publishes in the user status, and the size it records of every block of *)
(* instructions between a start and a stop (determ_clock.c), which feeds   *)
(* the estimator of tx_estimate.h.                                         *)
(***************************************************************************)
EXTENDS LogicalClock

CONSTANT Base   \* clocks[tid].base_ticks, given by the thread's creator

ASSUME BaseAssumption == Base \in Nat

VARIABLES
    user_ticks,   \* user_status->ticks
    last_value,   \* the library's last_clock_value
    size,         \* the tx_size of the last block
    counted,      \* it was not a block of a coarsened transaction
    begun         \* owed when the last block began

tx     == <<user_ticks, last_value, size, counted, begun>>
txvars == <<vars, tx>>

(* determ_task_clock_read *)
ClockRead == user_ticks + coarse

(* The beginning of every kind of block. *)
BeginBlock ==
    /\ Start \/ StartCoarse \/ StartBlock
    /\ last_value' = ClockRead
    /\ begun' = owed
    /\ UNCHANGED <<user_ticks, size, counted>>

(* __determine_lowest_and_notify_or_wait publishes the clock first; here at  *)
(* the end of on_enable, ...                                                 *)
Enabled ==
    /\ Enable \/ SetPrevCount
    /\ user_ticks' = IF pc' = "user" THEN ticks + Base ELSE user_ticks
    /\ UNCHANGED <<last_value, size, counted, begun>>

(* ... in every call that only asks for the turn ...                         *)
Ask ==
    /\ pc = "user" /\ ~counting
    /\ user_ticks' = ticks + Base
    /\ UNCHANGED <<vars, last_value, size, counted, begun>>

(* ... at the end of a stop, after which the library computes the size ...   *)
EndBlock ==
    /\ StopAdd
    /\ user_ticks' = ticks' + Base
    /\ size' = user_ticks' + coarse - last_value
    /\ counted' = TRUE
    /\ UNCHANGED <<last_value, begun>>

(* ... and in add_ticks, if the coarsened transaction has any.               *)
EndTransaction ==
    /\ EndCoarse
    /\ user_ticks' = IF coarse > 0 THEN ticks' + Base ELSE user_ticks
    /\ UNCHANGED <<last_value, size, counted, begun>>

(* Broken: the blocks of the transaction before this one count as well. *)
AllBlocks == coarse + UnsignedDelta(Rdpmc, last)

BlockSize == UnsignedDelta(Rdpmc, last)

(* __determ_task_clock_stop_with_id for a coarsened block *)
EndCoarseBlock ==
    /\ StopBlock
    /\ size' = BlockSize
    /\ counted' = FALSE
    /\ UNCHANGED <<user_ticks, last_value, begun>>

(* Steps the library does not see. *)
Hidden ==
    /\ \/ Retire \/ Nmi
       \/ ReadMsr \/ ReadPrev \/ Swap
       \/ Stop \/ StopOff \/ StopSum
       \/ Clear \/ SetPerfCounter \/ SetMax \/ SetMaxPrev \/ Ignore
    /\ UNCHANGED tx

TxInit ==
    /\ Init
    /\ user_ticks = 0 /\ last_value = 0
    /\ size = 0 /\ counted = FALSE /\ begun = 0

TxNext ==
    Hidden \/ BeginBlock \/ Enabled \/ Ask \/ EndBlock \/ EndCoarseBlock \/ EndTransaction

TxSpec == TxInit /\ [][TxNext]_txvars

-----------------------------------------------------------------------------
(* determ_clock.c:344, "so we can figure out later the length of the tx in   *)
(* instructions": the size recorded for a block is the number of its         *)
(* instructions, wherever overflows came and whatever coarsened transactions *)
(* came before.  The exception is the first block of a thread that starts it *)
(* before any call has published the clock its creator gave it: the size     *)
(* then includes that clock.                                                 *)
TxSizeExact ==
    pc = "user" /\ ~counting =>
        size = owed - begun + (IF counted /\ last_value < Base THEN Base ELSE 0)
=============================================================================
