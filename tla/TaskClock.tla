------------------------------ MODULE TaskClock ------------------------------
(***************************************************************************)
(* The turn protocol of TaskClock: clock_main.c and search_entries.h (the  *)
(* kernel module) driven by determ_clock.c (the library).  Every thread of *)
(* a group has a logical clock; determ_task_clock_is_lowest_wait returns   *)
(* when the caller's clock is the lowest of all active threads.            *)
(*                                                                         *)
(* Atomicity.  A section under group_info->lock is one action.  Everything *)
(* the code does outside the lock is an action of its own: the NMI handler *)
(* (which takes no lock), the wake-up after the unlock, the library's      *)
(* reads of the user status, the poll.  An NMI is taken while its thread   *)
(* is in user code; its irq work runs on the same cpu right after it.      *)
(***************************************************************************)
EXTENDS Integers, FiniteSets

CONSTANTS Threads,     \* the tids of the group
          Main,        \* the tid of the process that loads the library
          MaxTicks,    \* bound: no clock grows beyond it
          Ops          \* the optional library calls the program makes

NoTid == -1

(* ... a signal during poll() counts as one.                                 *)
Optional == {"activate", "spawn_early", "halt", "reset", "coarse", "add_ticks", "ask", "sleep",
             "signal", "wakeup", "clear_single"}

ASSUME ThreadsAssumption == Threads \subseteq Nat /\ IsFiniteSet(Threads) /\ Main \in Threads
ASSUME MaxTicksAssumption == MaxTicks \in Nat
ASSUME OpsAssumption == Ops \subseteq Optional

VARIABLES
    lowest_tid,           \* group_info: the thread last named the lowest, or NoTid
    notification_needed,  \* group_info: the lowest has not been told yet
    nmi_new_low,          \* group_info: an NMI saw a new lowest
    irq_pending,          \* group_info->pending_work is queued
    active,               \* the tids in group_info->active_threads
    max_index,            \* active_threads->max_index
    lock,                 \* holder of group_info->lock between two actions
    clock,                \* clocks[tid].ticks + clocks[tid].base_ticks
    initialized, inactive, waiting, sleeping,  \* clocks[tid] flags, as sets of tids
    counting,             \* clocks[tid].count_ticks
    lowest_clock, single_active, activated_lowest,  \* user_status flags
    disabled,             \* the library's task_clock_info.disabled
    poll_in,              \* the perf buffer of tid holds POLL_IN
    pc,                   \* where each thread is
    wakee,                \* the argument of its __wake_up_waiting_thread
    ret                   \* where it continues after that call

group   == <<lowest_tid, notification_needed, nmi_new_low>>
list    == <<active, max_index>>
entries == <<initialized, inactive, waiting, sleeping>>
status  == <<lowest_clock, single_active, activated_lowest>>
call    == <<wakee, ret>>
vars == <<group, irq_pending, list, lock, clock, entries, counting, status,
          disabled, poll_in, pc, call>>

-----------------------------------------------------------------------------
(* search_entries.h *)

(* __clock_is_lower, for the clocks cl: a strict total order on the tids.    *)
ClockIsLower(cl, i, j) == cl[i] < cl[j] \/ (cl[i] = cl[j] /\ i < j)

(* __search_for_lowest over the given candidates; empty iff there is none. *)
SearchForLowest(S, cl) ==
    LET alive == (S \cap initialized) \ inactive
    IN  {i \in alive : \A j \in alive : ~ClockIsLower(cl, j, i)}

(* What an NMI scans: every slot up to max_index, listed or not. *)
Scanned == {i \in Threads : i <= max_index}

(* Broken: the lowest of the waiting threads, not the lowest if it waits.    *)
SearchAmongWaiting(S, w, cl) ==
    LET low == SearchForLowest(S \cap w, cl)
    IN  IF low = {} THEN {NoTid} ELSE low

(* __search_for_lowest_waiting.  thread_arr is not initialised: the slot of  *)
(* a lowest thread that is not waiting may hold a stale 1.                   *)
SearchForLowestWaiting(S, w, cl) ==
    LET low == SearchForLowest(S, cl)
    IN  low \cup (IF low \subseteq w /\ low # {} THEN {} ELSE {NoTid})

-----------------------------------------------------------------------------
(* __determine_lowest_and_notify_or_wait *)

OnlyActive(t, act, inact) == Cardinality(act) = 1 /\ t \notin inact

(* Broken: a change of the lowest does not call for a notification. *)
VerdictUnchanged(t, w, low) ==
    LET notify == low # t /\ low \in w /\ notification_needed
    IN  [low |-> low, lead |-> low = t, alone |-> FALSE,
         needed |-> notification_needed /\ low # t /\ ~notify,
         nmi |-> nmi_new_low /\ ~notify,
         wake |-> IF notify THEN low ELSE NoTid]

(* The outcome when the search found low and w are the waiting threads. *)
Verdict(t, w, low) ==
    LET needed == notification_needed \/ low # lowest_tid
        notify == low # t /\ low \in w /\ needed
    IN  [low    |-> low,
         lead   |-> low = t,
         alone  |-> FALSE,
         needed |-> needed /\ low # t /\ ~notify,
         nmi    |-> nmi_new_low /\ ~notify,
         wake   |-> IF notify THEN low ELSE NoTid]

(* The outcomes the call may have for thread t, with the list, the inactive  *)
(* flags and the clocks as they are at the call.                             *)
Verdicts(t, act, inact, cl) ==
    IF OnlyActive(t, act, inact)
    THEN {[low |-> lowest_tid, lead |-> TRUE, alone |-> TRUE,
           needed |-> FALSE, nmi |-> nmi_new_low, wake |-> NoTid]}
    ELSE {Verdict(t, waiting \cup {t}, low) :
              low \in SearchForLowestWaiting(act, waiting \cup {t}, cl)}

(* Continue at next, through __wake_up_waiting_thread(w) when there is a w. *)
Continue(t, w, next) ==
    IF w = NoTid
    THEN pc' = [pc EXCEPT ![t] = next] /\ UNCHANGED call
    ELSE /\ pc' = [pc EXCEPT ![t] = "wake"]
         /\ wakee' = [wakee EXCEPT ![t] = w]
         /\ ret' = [ret EXCEPT ![t] = next]

(* Broken: only the thread the search names is flagged, or, in the second,   *)
(* lowest_tid is kept when the search finds nobody.                          *)
PublishNamedOnly(t, v) ==
    /\ lowest_tid' = v.low
    /\ notification_needed' = v.needed
    /\ nmi_new_low' = v.nmi
    /\ lowest_clock' = IF v.low = t THEN lowest_clock \cup {t} ELSE lowest_clock \ {t}
    /\ single_active' = IF v.alone THEN single_active \cup {t} ELSE single_active

PublishKeepsLowest(t, v) ==
    /\ lowest_tid' = IF v.low = NoTid THEN lowest_tid ELSE v.low
    /\ notification_needed' = v.needed
    /\ nmi_new_low' = v.nmi
    /\ lowest_clock' = IF v.lead THEN lowest_clock \cup {t} ELSE lowest_clock \ {t}
    /\ single_active' = IF v.alone THEN single_active \cup {t} ELSE single_active

(* What the call writes to the group and to the caller's status page. *)
Publish(t, v) ==
    /\ lowest_tid' = v.low
    /\ notification_needed' = v.needed
    /\ nmi_new_low' = v.nmi
    /\ lowest_clock' = IF v.lead THEN lowest_clock \cup {t} ELSE lowest_clock \ {t}
    /\ single_active' = IF v.alone THEN single_active \cup {t} ELSE single_active

(* What it writes to the caller's entry: a lead thread is cleared, any other *)
(* one is marked waiting.                                                    *)
MarkEntry(t, v) ==
    /\ waiting' = IF v.lead THEN waiting \ {t} ELSE waiting \cup {t}
    /\ sleeping' = IF v.lead THEN sleeping \ {t} ELSE sleeping

(* A locked section that is exactly this call. *)
Determine(t, cl, next) ==
    /\ lock = NoTid
    /\ \E v \in Verdicts(t, active, inactive, cl) :
           /\ Publish(t, v)
           /\ MarkEntry(t, v)
           /\ Continue(t, v.wake, next)
    /\ UNCHANGED <<irq_pending, list, lock, initialized, inactive, activated_lowest, poll_in>>

-----------------------------------------------------------------------------
(* Entering, activating and leaving the group *)

(* Broken: the waiting flag survives. *)
ClearEntryStateButWaiting(t) ==
    inactive' = inactive \ {t} /\ waiting' = waiting /\ sleeping' = sleeping \ {t}

(* __clear_entry_state *)
ClearEntryState(t) ==
    inactive' = inactive \ {t} /\ waiting' = waiting \ {t} /\ sleeping' = sleeping \ {t}

(* determ_task_clock_init_with_id, up to the test of initialized, which      *)
(* takes no lock.  A child may get here after its parent activated it, or    *)
(* ("spawn_early") before.                                                   *)
EntryTest(t) ==
    /\ pc[t] = "off"
    /\ t = Main \/ t \in active \/ "spawn_early" \in Ops
    /\ disabled' = disabled \ {t}
    /\ lowest_clock' = lowest_clock \ {t}
    /\ single_active' = single_active \ {t}
    /\ activated_lowest' = activated_lowest \ {t}
    /\ pc' = [pc EXCEPT ![t] = IF t \in initialized THEN "init" ELSE "initzero"]
    /\ UNCHANGED <<group, irq_pending, list, lock, clock, entries, counting, poll_in, call>>

(* Broken: a child wipes the clock its parent gave it. *)
ClockAtInitZero(t) == [clock EXCEPT ![t] = 0]

(* What the test decided, whatever an activate_other has done since.         *)
ClockAtInit(t) == IF pc[t] = "init" THEN clock ELSE [clock EXCEPT ![t] = 0]

(* The rest of task_clock_entry_init. *)
EntryInit(t) ==
    /\ pc[t] \in {"init", "initzero"}
    /\ clock' = ClockAtInit(t)
    /\ initialized' = initialized \cup {t}
    /\ ClearEntryState(t)
    /\ counting' = counting \ {t}
    /\ pc' = [pc EXCEPT ![t] = IF t \in active THEN "stopped" ELSE "idle"]
    /\ UNCHANGED <<group, irq_pending, list, lock, status, disabled, poll_in, call>>

(* Broken: the bound of the NMI's scan is not raised. *)
MarkActiveUnscanned(id) ==
    ClearEntryState(id) /\ active' = active \cup {id} /\ UNCHANGED max_index

(* __clear_entry_state, then __mark_as_active with listarray_insert. *)
MarkActive(id) ==
    /\ ClearEntryState(id)
    /\ active' = active \cup {id}
    /\ max_index' = IF id > max_index THEN id ELSE max_index

(* __new_lowest as an activating thread calls it, after its insertion. *)
ActivatedIsLowest(t) ==
    IF lowest_tid = NoTid
    THEN \A j \in (active \cap initialized) \ inactive : ~ClockIsLower(clock, j, t)
    ELSE ClockIsLower(clock, t, lowest_tid)

(* determ_task_clock_activate: the main thread enters the empty group by it; *)
(* a thread that has left the group may enter it again by itself.            *)
Activate(t) ==
    /\ lock = NoTid
    /\ pc[t] = "idle" /\ t \in initialized \ active
    /\ (t = Main /\ t \notin inactive) \/ "activate" \in Ops
    /\ MarkActive(t)
    /\ disabled' = disabled \ {t}
    /\ IF ActivatedIsLowest(t)
       THEN /\ lowest_tid' = t
            /\ notification_needed' = FALSE
            /\ lowest_clock' = lowest_clock \cup {t}
       ELSE /\ lowest_clock' = lowest_clock \ {t}
            /\ UNCHANGED <<lowest_tid, notification_needed>>
    /\ pc' = [pc EXCEPT ![t] = "stopped"]
    /\ UNCHANGED <<nmi_new_low, irq_pending, lock, clock, initialized, counting,
                   single_active, activated_lowest, poll_in, call>>

(* Broken: a group without a lowest thread is overlooked. *)
ActivatesLowestOfNamed(id, cl) == lowest_tid # NoTid /\ ClockIsLower(cl, id, lowest_tid)

(* Whether activating id, at the clocks cl, must be reported to the caller.  *)
ActivatesLowest(id, cl) == lowest_tid = NoTid \/ ClockIsLower(cl, id, lowest_tid)

(* Broken: the caller is still taken for the only thread. *)
SingleKept(t) == single_active

SingleCleared(t) == single_active \ {t}

(* Threads inside __wake_up_waiting_thread. *)
Waking == {t \in Threads : pc[t] \in {"wake", "wakepoll", "wakeflag"}}

(* Where a thread is, or goes on after its __wake_up_waiting_thread.         *)
Doing(t) == IF t \in Waking THEN ret[t] ELSE pc[t]

(* determ_task_clock_activate_other up to the return of the ioctl.  The      *)
(* program creates or signals a thread when it has the turn; one that halts  *)
(* may be activated while it still wakes another after its unlock.           *)
ActivateOther(t, id) ==
    /\ lock = NoTid
    /\ pc[t] = "turn"
    /\ id # t /\ id \notin active /\ Doing(id) \in {"off", "init", "initzero", "idle"}
    /\ IF id \in initialized
       THEN UNCHANGED clock
       ELSE clock[t] < MaxTicks /\ clock' = [clock EXCEPT ![id] = clock[t] + 1]
    /\ initialized' = initialized \cup {id}
    /\ MarkActive(id)
    /\ single_active' = SingleCleared(t)
    /\ activated_lowest' =
          IF ActivatesLowest(id, clock') THEN activated_lowest \cup {t} ELSE activated_lowest
    /\ pc' = [pc EXCEPT ![t] = "activated"]
    /\ UNCHANGED <<group, irq_pending, lock, counting, lowest_clock, disabled, poll_in, call>>

(* ... and its return, which is 1 iff activated_lowest was set. *)
ActivateOtherReturn(t) ==
    /\ pc[t] = "activated"
    /\ activated_lowest' = activated_lowest \ {t}
    /\ pc' = [pc EXCEPT ![t] = "turn"]
    /\ UNCHANGED <<group, irq_pending, list, lock, clock, entries, counting,
                   lowest_clock, single_active, disabled, poll_in, call>>

(* The program of an inactive thread goes on after another one activated it. *)
Resume(t) ==
    /\ pc[t] = "idle" /\ t \in active
    /\ pc' = [pc EXCEPT ![t] = "stopped"]
    /\ UNCHANGED <<group, irq_pending, list, lock, clock, entries, counting,
                   status, disabled, poll_in, call>>

(* task_clock_entry_reset, by a pooled thread that has left the group and    *)
(* waits for another one to activate it; takes no lock.                      *)
Reset(t) ==
    /\ "reset" \in Ops /\ t # Main
    /\ pc[t] = "idle" /\ t \in initialized \ active
    /\ initialized' = initialized \ {t}
    /\ UNCHANGED <<group, irq_pending, list, lock, clock, inactive, waiting, sleeping,
                   counting, status, disabled, poll_in, pc, call>>

(* determ_task_clock_halt, first ioctl: task_clock_on_disable.  It sets      *)
(* notification_needed before it takes the lock.                             *)
Disable(t) ==
    /\ "halt" \in Ops
    /\ pc[t] \in {"run", "stopped", "turn"}
    /\ \E c \in clock[t] .. (IF t \in counting THEN MaxTicks ELSE clock[t]) :
           clock' = [clock EXCEPT ![t] = c]
    /\ counting' = counting \ {t}
    /\ notification_needed' = TRUE
    /\ pc' = [pc EXCEPT ![t] = "disabling"]
    /\ UNCHANGED <<lowest_tid, nmi_new_low, irq_pending, list, lock, entries,
                   status, disabled, poll_in, call>>

DisableDetermine(t) ==
    /\ pc[t] = "disabling"
    /\ Determine(t, clock, "halting")
    /\ disabled' = disabled \cup {t}
    /\ UNCHANGED <<clock, counting>>

(* ... and its second ioctl: task_clock_entry_halt. *)
Halt(t) ==
    /\ lock = NoTid
    /\ pc[t] = "halting"
    /\ active' = active \ {t}
    /\ inactive' = inactive \cup {t}
    /\ \E v \in Verdicts(t, active', inactive', clock) :
           /\ Publish(t, v)
           /\ Continue(t, v.wake, "idle")
    /\ waiting' = waiting \ {t}
    /\ UNCHANGED <<irq_pending, max_index, lock, clock, initialized, sleeping, counting,
                   activated_lowest, disabled, poll_in>>

-----------------------------------------------------------------------------
(* Counting *)

(* A lowest thread that is about to run will have to notify the next one.    *)
OnEnable(t, v) == [v EXCEPT !.needed = @ \/ v.low = t, !.nmi = @ /\ v.low # t]

(* determ_task_clock_start: the library clears its flags, task_clock_on_enable *)
(* decides who is the lowest and turns the counter on.                       *)
Start(t) ==
    /\ lock = NoTid
    /\ pc[t] \in {"stopped", "turn"}
    /\ \E v \in Verdicts(t, active, inactive, clock) :
           /\ Publish(t, OnEnable(t, v))
           /\ Continue(t, v.wake, "run")
    /\ ClearEntryState(t)
    /\ counting' = counting \cup {t}
    /\ disabled' = disabled \ {t}
    /\ UNCHANGED <<irq_pending, list, lock, clock, initialized, activated_lowest, poll_in>>

(* determ_task_clock_stop: the counter is read and turned off first, ...      *)
Stop(t) ==
    /\ pc[t] = "run"
    /\ \E c \in clock[t] .. MaxTicks : clock' = [clock EXCEPT ![t] = c]
    /\ counting' = counting \ {t}
    /\ pc' = [pc EXCEPT ![t] = "stopping"]
    /\ UNCHANGED <<group, irq_pending, list, lock, entries, status, disabled, poll_in, call>>

(* ... then the lock is taken. *)
StopDetermine(t) ==
    /\ pc[t] = "stopping"
    /\ Determine(t, clock, "stopped")
    /\ UNCHANGED <<clock, counting, disabled>>

(* Broken: a negative number of ticks is subtracted. *)
AddTicksSigned(t) ==
    /\ "add_ticks" \in Ops
    /\ pc[t] = "stopped" /\ clock[t] < MaxTicks
    /\ \E c \in clock[t] - 1 .. MaxTicks : clock' = [clock EXCEPT ![t] = c]
    /\ Determine(t, clock', "stopped")
    /\ UNCHANGED <<counting, disabled>>

(* determ_task_clock_add_ticks *)
AddTicks(t) ==
    /\ "add_ticks" \in Ops
    /\ pc[t] = "stopped" /\ clock[t] < MaxTicks
    /\ \E c \in clock[t] + 1 .. MaxTicks : clock' = [clock EXCEPT ![t] = c]
    /\ Determine(t, clock', "stopped")
    /\ UNCHANGED <<counting, disabled>>

(* determ_task_clock_start_no_notify: a coarsened transaction begins; the    *)
(* kernel is told to ignore overflows and nobody is notified.                *)
StartCoarse(t) ==
    /\ "coarse" \in Ops
    /\ pc[t] \in {"stopped", "turn"}
    /\ lowest_clock' = lowest_clock \ {t}
    /\ disabled' = disabled \ {t}
    /\ counting' = counting \ {t}
    /\ pc' = [pc EXCEPT ![t] = "coarse"]
    /\ UNCHANGED <<group, irq_pending, list, lock, clock, entries, single_active,
                   activated_lowest, poll_in, call>>

(* determ_task_clock_stop_no_notify and determ_task_clock_end_coarsened_tx:  *)
(* the ticks counted in user space are added, if there are any.              *)
EndCoarse(t) ==
    /\ pc[t] = "coarse" /\ clock[t] < MaxTicks
    /\ \E c \in clock[t] + 1 .. MaxTicks : clock' = [clock EXCEPT ![t] = c]
    /\ Determine(t, clock', "stopped")
    /\ UNCHANGED <<counting, disabled>>

EndCoarseEmpty(t) ==
    /\ pc[t] = "coarse"
    /\ pc' = [pc EXCEPT ![t] = "stopped"]
    /\ UNCHANGED <<group, irq_pending, list, lock, clock, entries, counting, status,
                   disabled, poll_in, call>>

-----------------------------------------------------------------------------
(* Waiting for the turn: determ_task_clock_is_lowest_wait *)

Wait(t) ==
    /\ pc[t] = "stopped"
    /\ Determine(t, clock, "spin")
    /\ disabled' = disabled \cup {t}
    /\ UNCHANGED <<clock, counting>>

(* Steps that only move a thread on. *)
Move(t, from, to) ==
    /\ pc[t] = from
    /\ pc' = [pc EXCEPT ![t] = to]
    /\ UNCHANGED <<group, irq_pending, list, lock, clock, entries, counting, status,
                   disabled, call>>

SpinSeen(t) == t \in lowest_clock /\ Move(t, "spin", "woken") /\ UNCHANGED poll_in

(* MAX_SPIN_INT rounds without the flag. *)
SpinOut(t) == "sleep" \in Ops /\ t \notin lowest_clock /\ Move(t, "spin", "sleep") /\ UNCHANGED poll_in

(* task_clock_entry_sleep: one round of its loop.  The lock is kept while    *)
(* nobody is to be woken and no active thread is awake.                      *)
Sleep(t) ==
    /\ lock \in {NoTid, t}
    /\ pc[t] = "sleep"
    /\ \E v \in Verdicts(t, active, inactive, clock) :
           /\ Publish(t, v)
           /\ waiting' = IF v.lead THEN waiting \ {t} ELSE waiting \cup {t}
           /\ sleeping' = IF v.lead THEN sleeping \ {t} ELSE sleeping \cup {t}
           /\ IF v.wake = NoTid /\ (active \cap initialized) \ inactive \subseteq sleeping'
              THEN lock' = t /\ UNCHANGED <<pc, call>>
              ELSE lock' = NoTid /\ Continue(t, v.wake, "check")
    /\ UNCHANGED <<irq_pending, list, clock, initialized, inactive, counting,
                   activated_lowest, disabled, poll_in>>

CheckFlag(t) ==
    /\ Move(t, "check", IF t \in lowest_clock THEN "woken" ELSE "poll")
    /\ UNCHANGED poll_in

(* poll() returns when the buffer holds POLL_IN, and takes it. *)
Poll(t) == t \in poll_in /\ Move(t, "poll", "woken") /\ poll_in' = poll_in \ {t}

(* ... or when a signal interrupts it, which its caller does not notice.      *)
PollInterrupted(t) ==
    /\ "signal" \in Ops
    /\ Move(t, "poll", "woken")
    /\ UNCHANGED poll_in

(* Broken: the sleeping flag survives the wake-up. *)
WokeUpAsleep(t) ==
    /\ lock = NoTid
    /\ waiting' = waiting \ {t}
    /\ UNCHANGED <<group, irq_pending, list, lock, clock, initialized, inactive, sleeping,
                   counting, single_active, activated_lowest, poll_in, call>>

(* task_clock_entry_woke_up *)
WokeUp(t) ==
    /\ lock = NoTid
    /\ waiting' = waiting \ {t}
    /\ sleeping' = sleeping \ {t}
    /\ UNCHANGED <<group, irq_pending, list, lock, clock, initialized, inactive, counting,
                   single_active, activated_lowest, poll_in, call>>

(* is_lowest_wait makes the ioctl itself, ...                                *)
Woken(t) ==
    /\ pc[t] = "woken"
    /\ WokeUp(t)
    /\ pc' = [pc EXCEPT ![t] = "wokenlib"]
    /\ UNCHANGED <<lowest_clock, disabled>>

(* ... and once more in __woke_up, which then clears the library's flags.    *)
TakeTurn(t) ==
    /\ pc[t] = "wokenlib"
    /\ WokeUp(t)
    /\ lowest_clock' = lowest_clock \ {t}
    /\ disabled' = disabled \ {t}
    /\ pc' = [pc EXCEPT ![t] = "turn"]

(* determ_task_clock_is_lowest: ask once; while disabled or named the lowest *)
(* only the flag is read.                                                    *)
IsLowest(t) ==
    /\ "ask" \in Ops
    /\ pc[t] = "stopped" /\ t \notin disabled \cup lowest_clock
    /\ Determine(t, clock, "asked")
    /\ disabled' = disabled \cup {t}
    /\ UNCHANGED <<clock, counting>>

IsLowestAgain(t) ==
    /\ "ask" \in Ops
    /\ t \in disabled \cup lowest_clock
    /\ Move(t, "stopped", "asked")
    /\ UNCHANGED poll_in

Asked(t) ==
    /\ Move(t, "asked", IF t \in lowest_clock THEN "wokenlib" ELSE "stopped")
    /\ UNCHANGED poll_in

(* determ_task_clock_on_wakeup *)
OnWakeup(t) ==
    /\ "wakeup" \in Ops
    /\ pc[t] \in {"stopped", "turn"}
    /\ lowest_clock' = lowest_clock \ {t}
    /\ disabled' = disabled \ {t}
    /\ UNCHANGED <<group, irq_pending, list, lock, clock, entries, counting, single_active,
                   activated_lowest, poll_in, pc, call>>

(* determ_task_clock_clear_single_active_thread *)
ClearSingleActive(t) ==
    /\ "clear_single" \in Ops
    /\ pc[t] \in {"stopped", "turn"}
    /\ single_active' = SingleCleared(t)
    /\ UNCHANGED <<group, irq_pending, list, lock, clock, entries, counting, lowest_clock,
                   activated_lowest, disabled, poll_in, pc, call>>

-----------------------------------------------------------------------------
(* __wake_up_waiting_thread, after the unlock *)

(* It tests the group's lowest_tid, not the thread it was called for.        *)
WakeTest(t) ==
    /\ pc[t] = "wake"
    /\ IF lowest_tid \in sleeping
       THEN pc' = [pc EXCEPT ![t] = "wakepoll"] /\ UNCHANGED wakee
       ELSE pc' = [pc EXCEPT ![t] = "wakeflag"] /\ wakee' = [wakee EXCEPT ![t] = lowest_tid]
    /\ UNCHANGED <<group, irq_pending, list, lock, clock, entries, counting, status,
                   disabled, poll_in, ret>>

WakeReturn(t) ==
    /\ pc' = [pc EXCEPT ![t] = ret[t]]
    /\ wakee' = [wakee EXCEPT ![t] = NoTid]
    /\ ret' = [ret EXCEPT ![t] = "off"]
    /\ UNCHANGED <<group, irq_pending, list, lock, clock, entries, counting,
                   single_active, activated_lowest, disabled>>

WakePoll(t) ==
    /\ pc[t] = "wakepoll"
    /\ poll_in' = poll_in \cup {wakee[t]}
    /\ WakeReturn(t)
    /\ UNCHANGED lowest_clock

(* user_status_arr[lowest_tid].lowest_clock=1; nobody's when it reads -1.     *)
WakeFlag(t) ==
    /\ pc[t] = "wakeflag"
    /\ lowest_clock' = IF wakee[t] = NoTid THEN lowest_clock ELSE lowest_clock \cup {wakee[t]}
    /\ WakeReturn(t)
    /\ UNCHANGED poll_in

-----------------------------------------------------------------------------
(* The overflow NMI and its irq work *)

(* task_clock_entry_overflow_update_period: the event's count, possibly 0,   *)
(* is added to the clock.                                                    *)
Overflow(t) ==
    /\ pc[t] = "run" /\ t \in counting
    /\ \E c \in clock[t] .. MaxTicks : clock' = [clock EXCEPT ![t] = c]
    /\ pc' = [pc EXCEPT ![t] = "nmi"]
    /\ UNCHANGED <<group, irq_pending, list, lock, entries, counting, status, disabled,
                   poll_in, call>>

(* Another thread that __new_lowest may return to thread t in an NMI.        *)
NewLowest(t) == IF lowest_tid \in {NoTid, t} THEN SearchForLowest(Scanned, clock) \ {t} ELSE {}

(* task_clock_overflow_handler up to its last test: it reads without a lock. *)
NmiCheck(t) ==
    /\ pc[t] = "nmi"
    /\ pc' = [pc EXCEPT ![t] =
                 IF ~nmi_new_low /\ NewLowest(t) \cap waiting # {} THEN "nmiset" ELSE "run"]
    /\ UNCHANGED <<group, irq_pending, list, lock, clock, entries, counting, status, disabled,
                   poll_in, call>>

(* nmi_new_low is set and the irq work queued, unless it is queued already.  *)
NmiSet(t) ==
    /\ pc[t] = "nmiset"
    /\ nmi_new_low' = TRUE
    /\ irq_pending' = TRUE
    /\ pc' = [pc EXCEPT ![t] = IF irq_pending THEN "run" ELSE "irq"]
    /\ UNCHANGED <<lowest_tid, notification_needed, list, lock, clock, entries, counting, status,
                   disabled, poll_in, call>>

(* The irq work starts: from here on it can be queued again. *)
Irq(t) ==
    /\ pc[t] = "irq"
    /\ irq_pending' = FALSE
    /\ pc' = [pc EXCEPT ![t] = "notify"]
    /\ UNCHANGED <<group, list, lock, clock, entries, counting, status, disabled, poll_in, call>>

(* __task_clock_notify_waiting_threads *)
Notify(t) ==
    /\ lock = NoTid
    /\ pc[t] = "notify"
    /\ \E low \in SearchForLowestWaiting(active, waiting, clock) :
           LET tell == low \in waiting /\ (notification_needed \/ nmi_new_low)
           IN  /\ lowest_tid' = IF low \in waiting THEN low ELSE lowest_tid
               /\ notification_needed' = (notification_needed /\ ~tell)
               /\ nmi_new_low' = (nmi_new_low /\ ~tell)
               /\ Continue(t, IF tell THEN low ELSE NoTid, "run")
    /\ UNCHANGED <<irq_pending, list, lock, clock, entries, counting, status, disabled, poll_in>>

-----------------------------------------------------------------------------
(* task_clock_group_init, before the constructor of the library runs. *)
Init ==
    /\ lowest_tid = NoTid /\ notification_needed = TRUE /\ nmi_new_low = FALSE
    /\ irq_pending = FALSE
    /\ active = {} /\ max_index = 0
    /\ lock = NoTid
    /\ clock = [t \in Threads |-> 0]
    /\ initialized = {} /\ inactive = {} /\ waiting = {} /\ sleeping = {}
    /\ counting = {}
    /\ lowest_clock = {} /\ single_active = {} /\ activated_lowest = {}
    /\ disabled = {}
    /\ poll_in = {}
    /\ pc = [t \in Threads |-> "off"]
    /\ wakee = [t \in Threads |-> NoTid]
    /\ ret = [t \in Threads |-> "off"]

Membership(t) ==
    \/ EntryTest(t) \/ EntryInit(t) \/ Activate(t) \/ Resume(t) \/ Reset(t)
    \/ Disable(t) \/ DisableDetermine(t) \/ Halt(t)
    \/ ActivateOtherReturn(t)
    \/ \E id \in Threads : ActivateOther(t, id)

Counting(t) ==
    \/ Start(t) \/ Stop(t) \/ StopDetermine(t) \/ AddTicks(t)
    \/ StartCoarse(t) \/ EndCoarse(t) \/ EndCoarseEmpty(t)

Turn(t) ==
    \/ Wait(t) \/ SpinSeen(t) \/ SpinOut(t) \/ Sleep(t) \/ CheckFlag(t) \/ Poll(t)
    \/ PollInterrupted(t) \/ Woken(t) \/ TakeTurn(t) \/ IsLowest(t) \/ IsLowestAgain(t) \/ Asked(t)
    \/ OnWakeup(t) \/ ClearSingleActive(t)

Wake(t) == WakeTest(t) \/ WakePoll(t) \/ WakeFlag(t)

Interrupt(t) == Overflow(t) \/ NmiCheck(t) \/ NmiSet(t) \/ Irq(t) \/ Notify(t)

Step(t) == Membership(t) \/ Counting(t) \/ Turn(t) \/ Wake(t) \/ Interrupt(t)

Next == \E t \in Threads : Step(t)

Spec == Init /\ [][Next]_vars

-----------------------------------------------------------------------------
(* Properties *)

PC == {"off", "init", "initzero", "idle", "stopped", "run", "coarse", "turn", "activated",
       "stopping", "disabling", "halting",
       "spin", "sleep", "check", "poll", "woken", "wokenlib", "asked",
       "wake", "wakepoll", "wakeflag", "nmi", "nmiset", "irq", "notify"}

TypeOK ==
    /\ lowest_tid \in Threads \cup {NoTid}
    /\ notification_needed \in BOOLEAN
    /\ nmi_new_low \in BOOLEAN
    /\ irq_pending \in BOOLEAN
    /\ active \subseteq Threads
    /\ max_index \in Nat
    /\ lock \in Threads \cup {NoTid}
    /\ clock \in [Threads -> 0 .. MaxTicks]
    /\ initialized \subseteq Threads /\ inactive \subseteq Threads
    /\ waiting \subseteq Threads /\ sleeping \subseteq Threads
    /\ counting \subseteq Threads
    /\ lowest_clock \subseteq Threads /\ single_active \subseteq Threads
    /\ activated_lowest \subseteq Threads
    /\ disabled \subseteq Threads
    /\ poll_in \subseteq Threads
    /\ pc \in [Threads -> PC]
    /\ wakee \in [Threads -> Threads \cup {NoTid}]
    /\ ret \in [Threads -> PC]

(* t has the lowest clock of the active threads. *)
IsLowestActive(t) == \A j \in active : ~ClockIsLower(clock, j, t)

(* Threads inside determ_task_clock_is_lowest_wait that wait for their turn. *)
InWait == {t \in Threads : pc[t] \in {"spin", "sleep", "check", "poll"}}

(* Threads that poll() keeps in the kernel. *)
Blocked == {t \in Threads : pc[t] = "poll" /\ t \notin poll_in}

(* Every listed thread is one the searches consider, those of an NMI (which  *)
(* scan the entries up to max_index and read their flags) as well as those   *)
(* under the lock: no interleaving of init, activate, halt and reset leaves  *)
(* an active thread that is skipped when the lowest is looked for.           *)
ActiveIsSearchable ==
    /\ active \subseteq initialized
    /\ active \cap inactive = {}
    /\ active \subseteq Scanned

(* The group's lowest_tid is an active thread: a thread that halts, halts    *)
(* while others are notifying it, or is reset never stays named the lowest.  *)
LowestTidActive == lowest_tid \in active \cup {NoTid}

(* The sleeping flag, by which a waker chooses between POLL_IN and the user  *)
(* status page, is set for every thread that polls and only on the way from  *)
(* SLEEP to WOKE_UP.                                                         *)
SleepingMeansBlocked ==
    \A t \in Threads :
        /\ pc[t] = "poll" => t \in sleeping
        /\ t \in sleeping => pc[t] \in {"sleep", "check", "poll", "woken"} \/ ret[t] = "check"

(* A thread whose counter runs is never marked waiting: nobody is given the  *)
(* turn, and no thread is woken, on account of a clock that overflows still  *)
(* move.  (A thread in a coarsened transaction may be marked: its counter is *)
(* off, and its clock moves when the transaction ends.)                      *)
CountingNotWaiting == counting \cap waiting = {}

(* A thread inside is_lowest_wait is visible to every search as an active    *)
(* waiting thread, or it has been told that it is the lowest.                *)
WaiterIsVisible == InWait \subseteq active \cap (waiting \cup lowest_clock)

(* "DLC: No one is awake": while the lock is free, the active threads are    *)
(* never all blocked in poll() with no wake-up on its way.                   *)
SomeoneAwake ==
    active # {} /\ lock = NoTid => ~(active \subseteq Blocked) \/ Waking # {}

(* No notification is lost: when a thread that blocks in poll() is the one   *)
(* named the lowest, it is still to be notified or its waker is on the way.  *)
NotificationInFlight ==
    lowest_tid \in Blocked \cap waiting => notification_needed \/ Waking # {}

(* A waiting thread named the lowest has the lowest clock of all active      *)
(* threads, however the clocks of the others moved since.  (Not so when a    *)
(* halted thread with an older clock is activated again.)                    *)
WaitingLowestIsLowest == lowest_tid \in waiting => IsLowestActive(lowest_tid)

(* A flag lowest_clock that is raised under the lock goes to a thread that    *)
(* has the lowest clock of all active threads at that moment.                *)
FlagRaisedForLowest ==
    [][(\A u \in Threads : pc[u] = "wakeflag" => pc'[u] = "wakeflag")
       => \A t \in lowest_clock' \ lowest_clock : IsLowestActive(t)']_vars

(* The clock of an active thread never goes back, not even when a child      *)
(* initialises after its parent has given it a clock; only one activated     *)
(* between its init's test and the write may lose that clock.                *)
ClockMonotone ==
    [][\A t \in active : pc[t] # "initzero" => clock'[t] >= clock[t]]_vars

(* determ_clock.c:315, "the only way this flag could change is when we       *)
(* activate others": as long as threads enter the group only by being        *)
(* activated, a thread that is told it is alone is alone, whoever halted     *)
(* or was activated since.                                                   *)
SingleActiveIsAlone == \A t \in single_active \cap active : active = {t}

(* activate_other reports an activation that makes the new thread the lowest *)
(* of the group, in time for the caller's return value.                      *)
LowestActivationReported ==
    [][\A t, id \in Threads :
          ActivateOther(t, id) /\ IsLowestActive(id)' => t \in activated_lowest']_vars

-----------------------------------------------------------------------------
(* What the comments of the code promise and its interleavings break. *)

(* determ_clock.c:248, "we arrive here if we're the lowest clock, else we    *)
(* need to poll and wait": a thread that leaves is_lowest_wait is the lowest. *)
TurnIsLowest == \A t \in Threads : pc[t] = "turn" => IsLowestActive(t)

(* clock_main.c:631, "if I'm the new lowest, we need to set the flag so      *)
(* userspace can see that": the flag an activation sets means that the        *)
(* activated thread is the lowest of the active ones.                        *)
ActivateFlagsLowest ==
    [][\A t \in Threads :
          Activate(t) /\ t \in lowest_clock' => IsLowestActive(t)']_vars
=============================================================================
