---------------------------- MODULE TaskClockLive ----------------------------
(***************************************************************************)
(* What must eventually happen in a group.  The program is a finite one:   *)
(* every chunk and every overflow interval retires at least one            *)
(* instruction, a thread whose clock has reached MaxTicks has spent its    *)
(* budget and only takes the turns it still waits for before it halts, and *)
(* a thread halts only then.                                               *)
(***************************************************************************)
EXTENDS TaskClock

CONSTANT Sleepers   \* the threads whose waits outlast MAX_SPIN_INT rounds

ASSUME SleepersAssumption == Sleepers \subseteq Threads

(* The choices of such a program, as a constraint on a step of thread t. *)
Working(t) ==
    /\ t \in counting' \ counting => clock[t] < MaxTicks
    /\ t \in counting \ counting' => clock'[t] > clock[t] \/ clock[t] = MaxTicks
    /\ pc'[t] = "nmi" => clock'[t] > clock[t]
    /\ pc'[t] = "sleep" => t \in Sleepers
    /\ pc'[t] = "disabling" => clock'[t] = MaxTicks
    /\ \A u \in (active' \ active) \cap initialized : clock[u] < MaxTicks

LiveStep(t) == Step(t) /\ Working(t)

LiveNext == \E t \in Threads : LiveStep(t)

(* The scheduler runs every thread that can run, and a program computes for  *)
(* a finite time between two calls of the library.                           *)
LiveSpec == Init /\ [][LiveNext]_vars /\ \A t \in Threads : WF_vars(LiveStep(t))

(* A thread that computes for ever overflows again and again.                *)
OverflowAgain(t) == Overflow(t) /\ clock[t] = MaxTicks

EndlessNext == LiveNext \/ \E t \in Threads : OverflowAgain(t)

(* A weaker assumption: a thread whose counter runs need not call the        *)
(* library, but it keeps overflowing.                                        *)
Forced(t) == (LiveStep(t) /\ (pc[t] = "run" => pc'[t] = "nmi")) \/ OverflowAgain(t)

EndlessSpec == Init /\ [][EndlessNext]_vars /\ \A t \in Threads : WF_vars(Forced(t))

-----------------------------------------------------------------------------
(* Every thread that waits for its turn gets it: is_lowest_wait returns,     *)
(* from the spinning or, by the POLL_IN of another thread, from poll().      *)
WaiterGetsTurn == \A t \in Threads : t \in InWait ~> pc[t] = "turn"

(* clock_main.c:328, "there is a new lowest thread, make sure to set it": a   *)
(* waiting thread that the running ones have passed gets its turn through    *)
(* the overflow handler alone, without their cooperation.                    *)
PassedWaiterGetsTurn ==
    \A t \in Threads : t \in InWait /\ clock[t] < MaxTicks ~> pc[t] = "turn"

(* clock_main.c:700-701, "if we aren't going to wake anyone up, and no one    *)
(* else is alive... do what we can to wake someone up": the loop of          *)
(* task_clock_entry_sleep, which runs with the group lock held, ends.        *)
SleepLoopEnds == \A t \in Threads : lock = t ~> lock = NoTid
=============================================================================
