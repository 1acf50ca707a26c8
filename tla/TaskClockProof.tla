---------------------------- MODULE TaskClockProof ----------------------------
(***************************************************************************)
(* Proofs about TaskClock, for every set of threads, every bound on the    *)
(* clocks and every set of calls the program makes.                        *)
(***************************************************************************)
EXTENDS TaskClock, TLAPS

(* What __determine_lowest_and_notify_or_wait may conclude when it searches  *)
(* the threads S: the new lowest is one of S or nobody, unless the caller is *)
(* alone, in which case the group keeps the lowest it had.                   *)
LEMMA VerdictRange ==
    ASSUME TypeOK, NEW t \in Threads, NEW S \in SUBSET Threads, NEW I, NEW cl,
           NEW v \in Verdicts(t, S, I, cl)
    PROVE  /\ v.wake \in Threads \cup {NoTid}
           /\ v.low \in Threads \cup {NoTid}
           /\ v.lead \in BOOLEAN /\ v.alone \in BOOLEAN
           /\ v.needed \in BOOLEAN /\ v.nmi \in BOOLEAN
           /\ v.low \in S \cup {NoTid} \/ (t \notin I /\ v.low = lowest_tid)
<1>1. CASE OnlyActive(t, S, I)
  <2>1. v = [low |-> lowest_tid, lead |-> TRUE, alone |-> TRUE,
             needed |-> FALSE, nmi |-> nmi_new_low, wake |-> NoTid]
    BY <1>1 DEF Verdicts
  <2>2. t \notin I
    BY <1>1 DEF OnlyActive
  <2> QED
    BY <2>1, <2>2 DEF TypeOK
<1>2. CASE ~OnlyActive(t, S, I)
  <2>1. PICK low \in SearchForLowestWaiting(S, waiting \cup {t}, cl) :
            v = Verdict(t, waiting \cup {t}, low)
    BY <1>2 DEF Verdicts
  <2>2. low \in S \cup {NoTid}
    BY DEF SearchForLowestWaiting, SearchForLowest
  <2> QED
    BY <2>1, <2>2 DEF Verdict, TypeOK
<1> QED BY <1>1, <1>2

(* The call's writes to the group keep their types, and it goes on either at *)
(* next or in __wake_up_waiting_thread.                                      *)
LEMMA DetermineTypes ==
    ASSUME TypeOK, NEW t \in Threads, NEW cl, NEW next \in PC, Determine(t, cl, next)
    PROVE  /\ lowest_tid' \in Threads \cup {NoTid}
           /\ notification_needed' \in BOOLEAN /\ nmi_new_low' \in BOOLEAN
           /\ lowest_clock' \subseteq Threads /\ single_active' \subseteq Threads
           /\ waiting' \subseteq Threads /\ sleeping' \subseteq Threads
           /\ pc' \in [Threads -> PC]
           /\ wakee' \in [Threads -> Threads \cup {NoTid}]
           /\ ret' \in [Threads -> PC]
<1>1. PICK v \in Verdicts(t, active, inactive, cl) :
          Publish(t, v) /\ MarkEntry(t, v) /\ Continue(t, v.wake, next)
  BY DEF Determine
<1>2. /\ v.wake \in Threads \cup {NoTid} /\ v.low \in Threads \cup {NoTid}
      /\ v.needed \in BOOLEAN /\ v.nmi \in BOOLEAN
  BY <1>1, VerdictRange DEF TypeOK
<1>3. /\ lowest_tid' \in Threads \cup {NoTid}
      /\ notification_needed' \in BOOLEAN /\ nmi_new_low' \in BOOLEAN
      /\ lowest_clock' \subseteq Threads /\ single_active' \subseteq Threads
  BY <1>1, <1>2 DEF Publish, TypeOK
<1>4. waiting' \subseteq Threads /\ sleeping' \subseteq Threads
  BY <1>1 DEF MarkEntry, TypeOK
<1>5. /\ pc' \in [Threads -> PC]
      /\ wakee' \in [Threads -> Threads \cup {NoTid}]
      /\ ret' \in [Threads -> PC]
  BY <1>1, <1>2 DEF Continue, TypeOK, call, PC
<1> QED BY <1>3, <1>4, <1>5

(* start changes two fields of the verdict; the others stay.                 *)
LEMMA StartVerdict ==
    ASSUME TypeOK, NEW t \in Threads, NEW S \in SUBSET Threads, NEW I, NEW cl,
           NEW v \in Verdicts(t, S, I, cl)
    PROVE  /\ OnEnable(t, v).low = v.low
           /\ OnEnable(t, v).lead = v.lead
           /\ OnEnable(t, v).needed \in BOOLEAN /\ OnEnable(t, v).nmi \in BOOLEAN
<1>1. CASE OnlyActive(t, S, I)
  <2>1. v = [low |-> lowest_tid, lead |-> TRUE, alone |-> TRUE,
             needed |-> FALSE, nmi |-> nmi_new_low, wake |-> NoTid]
    BY <1>1 DEF Verdicts
  <2> QED
    BY <2>1 DEF OnEnable, TypeOK
<1>2. CASE ~OnlyActive(t, S, I)
  <2>1. PICK low \in SearchForLowestWaiting(S, waiting \cup {t}, cl) :
            v = Verdict(t, waiting \cup {t}, low)
    BY <1>2 DEF Verdicts
  <2> QED
    BY <2>1 DEF Verdict, OnEnable, TypeOK
<1> QED BY <1>1, <1>2

(* A thread inside __wake_up_waiting_thread that has yet to choose between    *)
(* POLL_IN and the user status was called for a thread.                      *)
WakeeNamed == \A t \in Threads : pc[t] \in {"wake", "wakepoll"} => wakee[t] \in Threads

(* A step of any kind keeps every variable in its range. *)
LEMMA TypeStep ==
    ASSUME TypeOK, WakeeNamed, NEW t \in Threads, Step(t)
    PROVE  TypeOK'
<1> USE ThreadsAssumption, MaxTicksAssumption
<1> USE DEF group, list, entries, status, call
<1>1. ASSUME Membership(t) PROVE TypeOK'
  <2>0. ASSUME EntryTest(t) PROVE TypeOK'
    BY <2>0 DEF EntryTest, TypeOK, PC
  <2>1. ASSUME EntryInit(t) PROVE TypeOK'
    BY <2>1 DEF EntryInit, ClockAtInit, ClearEntryState, TypeOK, PC
  <2>2. ASSUME Activate(t) PROVE TypeOK'
    BY <2>2 DEF Activate, MarkActive, ClearEntryState, TypeOK, PC
  <2>3. ASSUME Resume(t) PROVE TypeOK'
    BY <2>3 DEF Resume, TypeOK, PC
  <2>4. ASSUME Reset(t) PROVE TypeOK'
    BY <2>4 DEF Reset, TypeOK
  <2>5. ASSUME Disable(t) PROVE TypeOK'
    BY <2>5 DEF Disable, TypeOK, PC
  <2>6. ASSUME DisableDetermine(t) PROVE TypeOK'
    <3>1. Determine(t, clock, "halting") /\ "halting" \in PC
      BY <2>6 DEF DisableDetermine, PC
    <3> QED
      BY <2>6, <3>1, DetermineTypes DEF DisableDetermine, Determine, TypeOK
  <2>7. ASSUME Halt(t) PROVE TypeOK'
    <3>1. PICK v \in Verdicts(t, active', inactive', clock) :
              Publish(t, v) /\ Continue(t, v.wake, "idle")
      BY <2>7 DEF Halt
    <3>2. active' \in SUBSET Threads /\ inactive' \subseteq Threads
      BY <2>7 DEF Halt, TypeOK
    <3>3. /\ v.wake \in Threads \cup {NoTid} /\ v.low \in Threads \cup {NoTid}
          /\ v.needed \in BOOLEAN /\ v.nmi \in BOOLEAN
      BY <3>1, <3>2, VerdictRange
    <3>4. /\ pc' \in [Threads -> PC]
          /\ wakee' \in [Threads -> Threads \cup {NoTid}]
          /\ ret' \in [Threads -> PC]
      BY <3>1, <3>3 DEF Continue, TypeOK, PC
    <3> QED
      BY <2>7, <3>1, <3>2, <3>3, <3>4 DEF Halt, Publish, TypeOK
  <2>8. ASSUME ActivateOtherReturn(t) PROVE TypeOK'
    BY <2>8 DEF ActivateOtherReturn, TypeOK, PC
  <2>9. ASSUME NEW id \in Threads, ActivateOther(t, id) PROVE TypeOK'
    <3>1. clock' \in [Threads -> 0 .. MaxTicks]
      BY <2>9 DEF ActivateOther, TypeOK
    <3> QED
      BY <2>9, <3>1 DEF ActivateOther, SingleCleared, MarkActive, ClearEntryState, TypeOK, PC
  <2> QED
    BY <1>1, <2>0, <2>1, <2>2, <2>3, <2>4, <2>5, <2>6, <2>7, <2>8, <2>9 DEF Membership
<1>2. ASSUME Counting(t) PROVE TypeOK'
  <2>1. ASSUME Start(t) PROVE TypeOK'
    <3>1. PICK v \in Verdicts(t, active, inactive, clock) :
              /\ Publish(t, OnEnable(t, v))
              /\ Continue(t, v.wake, "run")
      BY <2>1 DEF Start
    <3>2. /\ v.wake \in Threads \cup {NoTid} /\ v.low \in Threads \cup {NoTid}
          /\ v.needed \in BOOLEAN /\ v.nmi \in BOOLEAN
      BY <3>1, VerdictRange DEF TypeOK
    <3>3. /\ pc' \in [Threads -> PC]
          /\ wakee' \in [Threads -> Threads \cup {NoTid}]
          /\ ret' \in [Threads -> PC]
      BY <3>1, <3>2 DEF Continue, TypeOK, PC
    <3>4. /\ lowest_tid' \in Threads \cup {NoTid}
          /\ notification_needed' \in BOOLEAN /\ nmi_new_low' \in BOOLEAN
          /\ lowest_clock' \subseteq Threads /\ single_active' \subseteq Threads
      <4>1. /\ OnEnable(t, v).low = v.low
            /\ OnEnable(t, v).needed \in BOOLEAN /\ OnEnable(t, v).nmi \in BOOLEAN
        BY <3>1, StartVerdict DEF TypeOK
      <4> QED
        BY <3>1, <3>2, <4>1 DEF Publish, TypeOK
    <3> QED
      BY <2>1, <3>3, <3>4 DEF Start, ClearEntryState, TypeOK
  <2>2. ASSUME Stop(t) PROVE TypeOK'
    BY <2>2 DEF Stop, TypeOK, PC
  <2>3. ASSUME StopDetermine(t) PROVE TypeOK'
    <3>1. Determine(t, clock, "stopped") /\ "stopped" \in PC
      BY <2>3 DEF StopDetermine, PC
    <3> QED
      BY <2>3, <3>1, DetermineTypes DEF StopDetermine, Determine, TypeOK
  <2>4. ASSUME AddTicks(t) PROVE TypeOK'
    <3>1. Determine(t, clock', "stopped") /\ "stopped" \in PC
      BY <2>4 DEF AddTicks, PC
    <3>2. clock' \in [Threads -> 0 .. MaxTicks]
      BY <2>4 DEF AddTicks, TypeOK
    <3> QED
      BY <2>4, <3>1, <3>2, DetermineTypes DEF AddTicks, Determine, TypeOK
  <2>5. ASSUME StartCoarse(t) PROVE TypeOK'
    BY <2>5 DEF StartCoarse, TypeOK, PC
  <2>6. ASSUME EndCoarse(t) PROVE TypeOK'
    <3>1. Determine(t, clock', "stopped") /\ "stopped" \in PC
      BY <2>6 DEF EndCoarse, PC
    <3>2. clock' \in [Threads -> 0 .. MaxTicks]
      BY <2>6 DEF EndCoarse, TypeOK
    <3> QED
      BY <2>6, <3>1, <3>2, DetermineTypes DEF EndCoarse, Determine, TypeOK
  <2>7. ASSUME EndCoarseEmpty(t) PROVE TypeOK'
    BY <2>7 DEF EndCoarseEmpty, TypeOK, PC
  <2> QED
    BY <1>2, <2>1, <2>2, <2>3, <2>4, <2>5, <2>6, <2>7 DEF Counting
<1>3. ASSUME Turn(t) PROVE TypeOK'
  <2>1. ASSUME Wait(t) PROVE TypeOK'
    <3>1. Determine(t, clock, "spin") /\ "spin" \in PC
      BY <2>1 DEF Wait, PC
    <3> QED
      BY <2>1, <3>1, DetermineTypes DEF Wait, Determine, TypeOK
  <2>2. ASSUME SpinSeen(t) \/ SpinOut(t) PROVE TypeOK'
    BY <2>2 DEF SpinSeen, SpinOut, Move, TypeOK, PC
  <2>3. ASSUME Sleep(t) PROVE TypeOK'
    <3>1. PICK v \in Verdicts(t, active, inactive, clock) :
              /\ Publish(t, v)
              /\ waiting' = IF v.lead THEN waiting \ {t} ELSE waiting \cup {t}
              /\ sleeping' = IF v.lead THEN sleeping \ {t} ELSE sleeping \cup {t}
              /\ \/ lock' = t /\ UNCHANGED <<pc, call>>
                 \/ lock' = NoTid /\ Continue(t, v.wake, "check")
      BY <2>3 DEF Sleep
    <3>2. /\ v.wake \in Threads \cup {NoTid} /\ v.low \in Threads \cup {NoTid}
          /\ v.needed \in BOOLEAN /\ v.nmi \in BOOLEAN
      BY <3>1, VerdictRange DEF TypeOK
    <3>3. /\ pc' \in [Threads -> PC]
          /\ wakee' \in [Threads -> Threads \cup {NoTid}]
          /\ ret' \in [Threads -> PC]
          /\ lock' \in Threads \cup {NoTid}
      BY <3>1, <3>2 DEF Continue, TypeOK, PC
    <3>4. /\ lowest_tid' \in Threads \cup {NoTid}
          /\ notification_needed' \in BOOLEAN /\ nmi_new_low' \in BOOLEAN
          /\ lowest_clock' \subseteq Threads /\ single_active' \subseteq Threads
          /\ waiting' \subseteq Threads /\ sleeping' \subseteq Threads
      BY <3>1, <3>2 DEF Publish, TypeOK
    <3> QED
      BY <2>3, <3>3, <3>4 DEF Sleep, TypeOK
  <2>4. ASSUME CheckFlag(t) \/ Poll(t) \/ PollInterrupted(t) PROVE TypeOK'
    BY <2>4 DEF CheckFlag, Poll, PollInterrupted, Move, TypeOK, PC
  <2>5. ASSUME Woken(t) \/ TakeTurn(t) PROVE TypeOK'
    BY <2>5 DEF Woken, TakeTurn, WokeUp, TypeOK, PC
  <2>6. ASSUME IsLowest(t) PROVE TypeOK'
    <3>1. Determine(t, clock, "asked") /\ "asked" \in PC
      BY <2>6 DEF IsLowest, PC
    <3> QED
      BY <2>6, <3>1, DetermineTypes DEF IsLowest, Determine, TypeOK
  <2>7. ASSUME IsLowestAgain(t) \/ Asked(t) PROVE TypeOK'
    BY <2>7 DEF IsLowestAgain, Asked, Move, TypeOK, PC
  <2>8. ASSUME OnWakeup(t) \/ ClearSingleActive(t) PROVE TypeOK'
    BY <2>8 DEF OnWakeup, ClearSingleActive, SingleCleared, TypeOK
  <2> QED
    BY <1>3, <2>1, <2>2, <2>3, <2>4, <2>5, <2>6, <2>7, <2>8 DEF Turn
<1>4. ASSUME Wake(t) PROVE TypeOK'
  <2>1. ASSUME WakeTest(t) PROVE TypeOK'
    BY <2>1 DEF WakeTest, TypeOK, PC
  <2>2. ASSUME WakePoll(t) \/ WakeFlag(t) PROVE TypeOK'
    <3>1. poll_in' \subseteq Threads /\ lowest_clock' \subseteq Threads
      BY <2>2 DEF WakePoll, WakeFlag, WakeeNamed, TypeOK
    <3>2. WakeReturn(t)
      BY <2>2 DEF WakePoll, WakeFlag
    <3> QED
      BY <3>1, <3>2 DEF WakeReturn, TypeOK, PC
  <2> QED
    BY <1>4, <2>1, <2>2 DEF Wake
<1>5. ASSUME Interrupt(t) PROVE TypeOK'
  <2>1. ASSUME Overflow(t) PROVE TypeOK'
    BY <2>1 DEF Overflow, TypeOK, PC
  <2>4. ASSUME NmiCheck(t) PROVE TypeOK'
    BY <2>4 DEF NmiCheck, TypeOK, PC
  <2>2. ASSUME NmiSet(t) \/ Irq(t) PROVE TypeOK'
    BY <2>2 DEF NmiSet, Irq, TypeOK, PC
  <2>3. ASSUME Notify(t) PROVE TypeOK'
    <3>1. PICK low \in SearchForLowestWaiting(active, waiting, clock), tell \in BOOLEAN :
              /\ lowest_tid' = IF low \in waiting THEN low ELSE lowest_tid
              /\ notification_needed' = (notification_needed /\ ~tell)
              /\ nmi_new_low' = (nmi_new_low /\ ~tell)
              /\ Continue(t, IF tell THEN low ELSE NoTid, "run")
      BY <2>3 DEF Notify
    <3>2. low \in Threads \cup {NoTid}
      BY DEF SearchForLowestWaiting, SearchForLowest, TypeOK
    <3>3. /\ pc' \in [Threads -> PC]
          /\ wakee' \in [Threads -> Threads \cup {NoTid}]
          /\ ret' \in [Threads -> PC]
      BY <3>1, <3>2 DEF Continue, TypeOK, PC
    <3>4. /\ lowest_tid' \in Threads \cup {NoTid}
          /\ notification_needed' \in BOOLEAN /\ nmi_new_low' \in BOOLEAN
      BY <3>1, <3>2 DEF TypeOK
    <3> QED
      BY <2>3, <3>3, <3>4 DEF Notify, TypeOK
  <2> QED
    BY <1>5, <2>1, <2>2, <2>3, <2>4 DEF Interrupt
<1> QED
  BY <1>1, <1>2, <1>3, <1>4, <1>5 DEF Step

-----------------------------------------------------------------------------
(* The state of one thread.  Whatever the others do, a thread's own calls    *)
(* keep its flags in step with the place it has reached.                     *)

ThreadState(t) ==
    /\ t \in Waking => ret[t] \notin {"wake", "wakepoll", "wakeflag"}
    /\ pc[t] \in {"wake", "wakepoll"} => wakee[t] \in Threads
    /\ Doing(t) \notin {"off", "init", "initzero", "idle"} => t \in active
    /\ t \in counting => Doing(t) \in {"run", "nmi", "nmiset", "irq", "notify"}
    /\ t \in counting => t \notin waiting
    /\ Doing(t) \in {"spin", "sleep", "check", "poll"} => t \in waiting \cup lowest_clock
    /\ Doing(t) = "check" => t \in sleeping \cup lowest_clock
    /\ Doing(t) = "poll" => t \in sleeping
    /\ t \in sleeping => \/ pc[t] \in {"sleep", "check", "poll", "woken"}
                         \/ t \in Waking /\ ret[t] = "check"

(* A step of another thread that leaves u alone, except that it may name u   *)
(* the lowest.                                                               *)
Untouched(u) ==
    /\ pc'[u] = pc[u] /\ ret'[u] = ret[u] /\ wakee'[u] = wakee[u]
    /\ u \in active' <=> u \in active
    /\ u \in counting' <=> u \in counting
    /\ u \in waiting' <=> u \in waiting
    /\ u \in sleeping' <=> u \in sleeping
    /\ u \in lowest_clock => u \in lowest_clock'

(* activate_other, seen by the thread that is activated. *)
Activated(u) ==
    /\ Doing(u) \in {"off", "init", "initzero", "idle"}
    /\ pc'[u] = pc[u] /\ ret'[u] = ret[u] /\ wakee'[u] = wakee[u]
    /\ u \in active' /\ u \notin waiting' \cup sleeping'
    /\ u \in counting' <=> u \in counting

(* A thread that a step leaves untouched, or only activates, stays consistent. *)
LEMMA OthersKeepThreadState ==
    ASSUME NEW u \in Threads, ThreadState(u), Untouched(u) \/ Activated(u)
    PROVE  ThreadState(u)'
<1>1. CASE Untouched(u)
  BY <1>1 DEF ThreadState, Untouched, Doing, Waking
<1>2. CASE Activated(u)
  BY <1>2 DEF ThreadState, Activated, Doing, Waking
<1> QED BY <1>1, <1>2

(* Continue brings the thread to next, through the wake-up of w or at once.  *)
LEMMA ContinueState ==
    ASSUME TypeOK, NEW t \in Threads, NEW w \in Threads \cup {NoTid}, NEW next \in PC,
           next \notin {"wake", "wakepoll", "wakeflag"}, Continue(t, w, next)
    PROVE  /\ \A u \in Threads \ {t} :
                  pc'[u] = pc[u] /\ ret'[u] = ret[u] /\ wakee'[u] = wakee[u]
           /\ \/ pc'[t] = next
              \/ pc'[t] = "wake" /\ ret'[t] = next /\ wakee'[t] \in Threads
BY DEF Continue, TypeOK, call

(* A locked section that is one call of                                      *)
(* __determine_lowest_and_notify_or_wait: the caller is told that it is the  *)
(* lowest or marked waiting, and the group's lowest is an active thread.     *)
LEMMA DetermineState ==
    ASSUME TypeOK, LowestTidActive, NEW t \in Threads, NEW cl, NEW next \in PC,
           next \notin {"wake", "wakepoll", "wakeflag"}, Determine(t, cl, next)
    PROVE  /\ \A u \in Threads \ {t} :
                  /\ pc'[u] = pc[u] /\ ret'[u] = ret[u] /\ wakee'[u] = wakee[u]
                  /\ u \in waiting' <=> u \in waiting
                  /\ u \in sleeping' <=> u \in sleeping
                  /\ u \in lowest_clock' <=> u \in lowest_clock
           /\ \/ pc'[t] = next
              \/ pc'[t] = "wake" /\ ret'[t] = next /\ wakee'[t] \in Threads
           /\ t \in waiting' \cup lowest_clock'
           /\ t \in sleeping' => t \in sleeping
           /\ lowest_tid' \in active \cup {NoTid}
<1>1. PICK v \in Verdicts(t, active, inactive, cl) :
          Publish(t, v) /\ MarkEntry(t, v) /\ Continue(t, v.wake, next)
  BY DEF Determine
<1>2. /\ v.wake \in Threads \cup {NoTid}
      /\ v.low \in active \cup {NoTid} \/ v.low = lowest_tid
  BY <1>1, VerdictRange DEF TypeOK
<1>3. /\ \A u \in Threads \ {t} :
             pc'[u] = pc[u] /\ ret'[u] = ret[u] /\ wakee'[u] = wakee[u]
      /\ \/ pc'[t] = next
         \/ pc'[t] = "wake" /\ ret'[t] = next /\ wakee'[t] \in Threads
  BY <1>1, <1>2, ContinueState
<1>4. /\ \A u \in Threads \ {t} : /\ u \in waiting' <=> u \in waiting
                                  /\ u \in sleeping' <=> u \in sleeping
                                  /\ u \in lowest_clock' <=> u \in lowest_clock
      /\ t \in waiting' \cup lowest_clock'
      /\ t \in sleeping' => t \in sleeping
  BY <1>1 DEF Publish, MarkEntry
<1>5. lowest_tid' \in active \cup {NoTid}
  BY <1>1, <1>2 DEF Publish, LowestTidActive
<1> QED BY <1>3, <1>4, <1>5

(* A step of t keeps the state of t and touches another thread only by       *)
(* naming or activating it.                                                  *)
Keeps(t) ==
    ThreadState(t)' /\ \A u \in Threads \ {t} : Untouched(u) \/ Activated(u)

(* Init, activation, reset and halt keep every thread's flags consistent.    *)
LEMMA MembershipKeeps ==
    ASSUME TypeOK, LowestTidActive, NEW t \in Threads, ThreadState(t), Membership(t)
    PROVE  Keeps(t)
<1> USE DEF group, list, entries, status, call, Untouched, Keeps
<1>0. ASSUME EntryTest(t) PROVE Keeps(t)
  BY <1>0 DEF EntryTest, ThreadState, Doing, Waking, TypeOK
<1>1. ASSUME EntryInit(t) PROVE Keeps(t)
  BY <1>1 DEF EntryInit, ClearEntryState, ThreadState, Doing, Waking, TypeOK
<1>2. ASSUME Activate(t) PROVE Keeps(t)
  BY <1>2 DEF Activate, MarkActive, ClearEntryState, ThreadState, Doing, Waking, TypeOK
<1>3. ASSUME Resume(t) PROVE Keeps(t)
  BY <1>3 DEF Resume, ThreadState, Doing, Waking, TypeOK
<1>4. ASSUME Reset(t) PROVE Keeps(t)
  BY <1>4 DEF Reset, ThreadState, Doing, Waking, TypeOK
<1>5. ASSUME Disable(t) PROVE Keeps(t)
  BY <1>5 DEF Disable, ThreadState, Doing, Waking, TypeOK
<1>6. ASSUME DisableDetermine(t) PROVE Keeps(t)
  <2>1. Determine(t, clock, "halting") /\ "halting" \in PC
    BY <1>6 DEF DisableDetermine, PC
  <2> QED
    BY <1>6, <2>1, DetermineState
       DEF DisableDetermine, Determine, ThreadState, Doing, Waking, TypeOK
<1>7. ASSUME Halt(t) PROVE Keeps(t)
  <2>1. PICK v \in Verdicts(t, active', inactive', clock) :
            Publish(t, v) /\ Continue(t, v.wake, "idle")
    BY <1>7 DEF Halt
  <2>2. v.wake \in Threads \cup {NoTid} /\ "idle" \in PC
    BY <1>7, <2>1, VerdictRange DEF Halt, TypeOK, PC
  <2>3. /\ \A u \in Threads \ {t} :
               pc'[u] = pc[u] /\ ret'[u] = ret[u] /\ wakee'[u] = wakee[u]
        /\ \/ pc'[t] = "idle"
           \/ pc'[t] = "wake" /\ ret'[t] = "idle" /\ wakee'[t] \in Threads
    BY <2>1, <2>2, ContinueState
  <2> QED
    BY <1>7, <2>1, <2>3 DEF Halt, Publish, ThreadState, Doing, Waking, TypeOK
<1>8. ASSUME ActivateOtherReturn(t) PROVE Keeps(t)
  BY <1>8 DEF ActivateOtherReturn, ThreadState, Doing, Waking, TypeOK
<1>9. ASSUME NEW id \in Threads, ActivateOther(t, id) PROVE Keeps(t)
  <2>1. Activated(id)
    BY <1>9 DEF ActivateOther, MarkActive, ClearEntryState, Activated, TypeOK
  <2>2. \A u \in Threads \ {t, id} : Untouched(u)
    BY <1>9 DEF ActivateOther, MarkActive, ClearEntryState, TypeOK
  <2>3. ThreadState(t)'
    BY <1>9 DEF ActivateOther, MarkActive, ClearEntryState, ThreadState, Doing, Waking, TypeOK
  <2> QED
    BY <2>1, <2>2, <2>3
<1> QED
  BY <1>0, <1>1, <1>2, <1>3, <1>4, <1>5, <1>6, <1>7, <1>8, <1>9 DEF Membership

(* So do start, stop and the calls that add ticks ...                         *)
LEMMA CountingKeeps ==
    ASSUME TypeOK, LowestTidActive, NEW t \in Threads, ThreadState(t), Counting(t)
    PROVE  Keeps(t)
<1> USE DEF group, list, entries, status, call, Untouched, Keeps
<1>1. ASSUME Start(t) PROVE Keeps(t)
  <2>1. PICK v \in Verdicts(t, active, inactive, clock) :
            Publish(t, OnEnable(t, v)) /\ Continue(t, v.wake, "run")
    BY <1>1 DEF Start
  <2>2. v.wake \in Threads \cup {NoTid} /\ "run" \in PC
    BY <2>1, VerdictRange DEF TypeOK, PC
  <2>3. /\ \A u \in Threads \ {t} :
               pc'[u] = pc[u] /\ ret'[u] = ret[u] /\ wakee'[u] = wakee[u]
        /\ \/ pc'[t] = "run"
           \/ pc'[t] = "wake" /\ ret'[t] = "run" /\ wakee'[t] \in Threads
    BY <2>1, <2>2, ContinueState
  <2> QED
    BY <1>1, <2>1, <2>3 DEF Start, Publish, ClearEntryState, ThreadState, Doing, Waking, TypeOK
<1>2. ASSUME Stop(t) PROVE Keeps(t)
  BY <1>2 DEF Stop, ThreadState, Doing, Waking, TypeOK
<1>3. ASSUME StopDetermine(t) PROVE Keeps(t)
  <2>1. Determine(t, clock, "stopped") /\ "stopped" \in PC
    BY <1>3 DEF StopDetermine, PC
  <2> QED
    BY <1>3, <2>1, DetermineState
       DEF StopDetermine, Determine, ThreadState, Doing, Waking, TypeOK
<1>4. ASSUME AddTicks(t) \/ EndCoarse(t) PROVE Keeps(t)
  <2>1. Determine(t, clock', "stopped") /\ "stopped" \in PC /\ UNCHANGED counting
    BY <1>4 DEF AddTicks, EndCoarse, PC
  <2>2. pc[t] \in {"stopped", "coarse"}
    BY <1>4 DEF AddTicks, EndCoarse
  <2> QED
    BY <2>1, <2>2, DetermineState DEF Determine, ThreadState, Doing, Waking, TypeOK
<1>5. ASSUME StartCoarse(t) \/ EndCoarseEmpty(t) PROVE Keeps(t)
  BY <1>5 DEF StartCoarse, EndCoarseEmpty, ThreadState, Doing, Waking, TypeOK
<1> QED
  BY <1>1, <1>2, <1>3, <1>4, <1>5 DEF Counting

(* ... the steps of is_lowest and is_lowest_wait ...                          *)
LEMMA TurnKeeps ==
    ASSUME TypeOK, LowestTidActive, NEW t \in Threads, ThreadState(t), Turn(t)
    PROVE  Keeps(t)
<1> USE DEF group, list, entries, status, call, Untouched, Keeps
<1>1. ASSUME Wait(t) \/ IsLowest(t) PROVE Keeps(t)
  <2>1. PICK next \in {"spin", "asked"} : Determine(t, clock, next)
    BY <1>1 DEF Wait, IsLowest
  <2>2. next \in PC /\ next \notin {"wake", "wakepoll", "wakeflag", "off", "idle", "check", "poll"}
    BY DEF PC
  <2>3. pc[t] = "stopped" /\ UNCHANGED counting
    BY <1>1 DEF Wait, IsLowest
  <2> QED
    BY <2>1, <2>2, <2>3, DetermineState DEF Determine, ThreadState, Doing, Waking, TypeOK
<1>2. ASSUME SpinSeen(t) \/ SpinOut(t) PROVE Keeps(t)
  BY <1>2 DEF SpinSeen, SpinOut, Move, ThreadState, Doing, Waking, TypeOK
<1>3. ASSUME Sleep(t) PROVE Keeps(t)
  <2>1. PICK v \in Verdicts(t, active, inactive, clock) :
            /\ Publish(t, v)
            /\ waiting' = IF v.lead THEN waiting \ {t} ELSE waiting \cup {t}
            /\ sleeping' = IF v.lead THEN sleeping \ {t} ELSE sleeping \cup {t}
            /\ \/ UNCHANGED <<pc, call>>
               \/ Continue(t, v.wake, "check")
    BY <1>3 DEF Sleep
  <2>2. v.wake \in Threads \cup {NoTid} /\ "check" \in PC
    BY <2>1, VerdictRange DEF TypeOK, PC
  <2>3. /\ \A u \in Threads \ {t} :
               pc'[u] = pc[u] /\ ret'[u] = ret[u] /\ wakee'[u] = wakee[u]
        /\ \/ UNCHANGED <<pc, call>>
           \/ pc'[t] = "check"
           \/ pc'[t] = "wake" /\ ret'[t] = "check" /\ wakee'[t] \in Threads
    BY <2>1, <2>2, ContinueState
  <2>4. /\ \A u \in Threads \ {t} : /\ u \in waiting' <=> u \in waiting
                                    /\ u \in sleeping' <=> u \in sleeping
                                    /\ u \in lowest_clock' <=> u \in lowest_clock
        /\ t \in waiting' \cup lowest_clock'
        /\ t \in sleeping' \cup lowest_clock'
    BY <2>1 DEF Publish
  <2> QED
    BY <1>3, <2>3, <2>4 DEF Sleep, ThreadState, Doing, Waking, TypeOK
<1>4. ASSUME CheckFlag(t) \/ Poll(t) \/ PollInterrupted(t) PROVE Keeps(t)
  BY <1>4 DEF CheckFlag, Poll, PollInterrupted, Move, ThreadState, Doing, Waking, TypeOK
<1>5. ASSUME Woken(t) \/ TakeTurn(t) PROVE Keeps(t)
  BY <1>5 DEF Woken, TakeTurn, WokeUp, ThreadState, Doing, Waking, TypeOK
<1>6. ASSUME IsLowestAgain(t) \/ Asked(t) PROVE Keeps(t)
  BY <1>6 DEF IsLowestAgain, Asked, Move, ThreadState, Doing, Waking, TypeOK
<1>7. ASSUME OnWakeup(t) \/ ClearSingleActive(t) PROVE Keeps(t)
  BY <1>7 DEF OnWakeup, ClearSingleActive, ThreadState, Doing, Waking, TypeOK
<1> QED
  BY <1>1, <1>2, <1>3, <1>4, <1>5, <1>6, <1>7 DEF Turn

(* ... the wake-up, which writes to another thread's status ...               *)
LEMMA WakeKeeps ==
    ASSUME TypeOK, NEW t \in Threads, ThreadState(t), Wake(t)
    PROVE  Keeps(t)
<1> USE DEF group, list, entries, status, call, Untouched, Keeps
<1>1. ASSUME WakeTest(t) PROVE Keeps(t)
  BY <1>1 DEF WakeTest, ThreadState, Doing, Waking, TypeOK
<1>2. ASSUME WakePoll(t) \/ WakeFlag(t) PROVE Keeps(t)
  <2>1. WakeReturn(t) /\ lowest_clock \subseteq lowest_clock' /\ t \in Waking
    BY <1>2 DEF WakePoll, WakeFlag, Waking
  <2>2. Doing(t)' = Doing(t) /\ t \notin Waking' /\ pc'[t] = ret[t]
    BY <2>1 DEF WakeReturn, ThreadState, Doing, Waking, TypeOK
  <2>3. ThreadState(t)'
    BY <2>1, <2>2 DEF WakeReturn, ThreadState, Doing, Waking, TypeOK
  <2>4. \A u \in Threads \ {t} : Untouched(u)
    BY <2>1 DEF WakeReturn, TypeOK
  <2> QED
    BY <2>3, <2>4
<1> QED
  BY <1>1, <1>2 DEF Wake

(* ... and the overflow handler with its irq work.                           *)
LEMMA InterruptKeeps ==
    ASSUME TypeOK, NEW t \in Threads, ThreadState(t), Interrupt(t)
    PROVE  Keeps(t)
<1> USE DEF group, list, entries, status, call, Untouched, Keeps
<1>1. ASSUME Overflow(t) \/ NmiCheck(t) PROVE Keeps(t)
  <2>1. pc' = [pc EXCEPT ![t] = pc'[t]] /\ pc'[t] \in {"nmi", "nmiset", "run"}
    BY <1>1 DEF Overflow, NmiCheck, TypeOK
  <2> QED
    BY <1>1, <2>1 DEF Overflow, NmiCheck, ThreadState, Doing, Waking, TypeOK
<1>2. ASSUME NmiSet(t) \/ Irq(t) PROVE Keeps(t)
  BY <1>2 DEF NmiSet, Irq, ThreadState, Doing, Waking, TypeOK
<1>3. ASSUME Notify(t) PROVE Keeps(t)
  <2>1. PICK w \in Threads \cup {NoTid} : Continue(t, w, "run")
    <3>1. PICK low \in SearchForLowestWaiting(active, waiting, clock), tell \in BOOLEAN :
              Continue(t, IF tell THEN low ELSE NoTid, "run")
      BY <1>3 DEF Notify
    <3>2. low \in Threads \cup {NoTid}
      BY DEF SearchForLowestWaiting, SearchForLowest, TypeOK
    <3> QED
      BY <3>1, <3>2
  <2>2. /\ \A u \in Threads \ {t} :
               pc'[u] = pc[u] /\ ret'[u] = ret[u] /\ wakee'[u] = wakee[u]
        /\ \/ pc'[t] = "run"
           \/ pc'[t] = "wake" /\ ret'[t] = "run" /\ wakee'[t] \in Threads
    <3>1. "run" \in PC
      BY DEF PC
    <3> QED
      BY <2>1, <3>1, ContinueState
  <2> QED
    BY <1>3, <2>2 DEF Notify, ThreadState, Doing, Waking, TypeOK
<1> QED
  BY <1>1, <1>2, <1>3 DEF Interrupt

-----------------------------------------------------------------------------
(* The list of active threads and the group's lowest. *)

(* Only init, activation, halt and reset touch what the searches look at;    *)
(* every other step may at most clear an inactive flag.                      *)
LEMMA SearchableStep ==
    ASSUME TypeOK, ActiveIsSearchable, NEW t \in Threads, Step(t)
    PROVE  ActiveIsSearchable'
<1> USE ThreadsAssumption
<1> USE DEF group, list, entries, status, call
<1>1. ASSUME UNCHANGED <<active, max_index, initialized>>, inactive' \subseteq inactive
      PROVE  ActiveIsSearchable'
  BY <1>1 DEF ActiveIsSearchable, Scanned
<1>2. ASSUME Membership(t) PROVE ActiveIsSearchable'
  <2>1. CASE EntryInit(t)
    BY <2>1 DEF EntryInit, ClearEntryState, ActiveIsSearchable, Scanned
  <2>2. CASE Activate(t)
    BY <2>2 DEF Activate, MarkActive, ClearEntryState, ActiveIsSearchable, Scanned, TypeOK
  <2>3. CASE EntryTest(t) \/ Resume(t) \/ Disable(t) \/ ActivateOtherReturn(t)
    BY <1>1, <2>3 DEF EntryTest, Resume, Disable, ActivateOtherReturn
  <2>4. CASE Reset(t)
    BY <2>4 DEF Reset, ActiveIsSearchable, Scanned
  <2>5. CASE DisableDetermine(t)
    BY <1>1, <2>5 DEF DisableDetermine, Determine
  <2>6. CASE Halt(t)
    BY <2>6 DEF Halt, ActiveIsSearchable, Scanned
  <2>7. ASSUME NEW id \in Threads, ActivateOther(t, id) PROVE ActiveIsSearchable'
    BY <2>7 DEF ActivateOther, MarkActive, ClearEntryState, ActiveIsSearchable, Scanned, TypeOK
  <2> QED
    BY <1>2, <2>1, <2>2, <2>3, <2>4, <2>5, <2>6, <2>7 DEF Membership
<1>3. ASSUME Counting(t) PROVE ActiveIsSearchable'
  <2>1. CASE Start(t)
    BY <1>1, <2>1 DEF Start, ClearEntryState
  <2>2. CASE Stop(t) \/ StartCoarse(t) \/ EndCoarseEmpty(t)
    BY <1>1, <2>2 DEF Stop, StartCoarse, EndCoarseEmpty
  <2>3. CASE StopDetermine(t) \/ AddTicks(t) \/ EndCoarse(t)
    BY <1>1, <2>3 DEF StopDetermine, AddTicks, EndCoarse, Determine
  <2> QED
    BY <1>3, <2>1, <2>2, <2>3 DEF Counting
<1>4. ASSUME Turn(t) PROVE ActiveIsSearchable'
  <2>1. CASE Wait(t) \/ IsLowest(t)
    BY <1>1, <2>1 DEF Wait, IsLowest, Determine
  <2>2. CASE SpinSeen(t) \/ SpinOut(t) \/ CheckFlag(t) \/ Poll(t) \/ PollInterrupted(t)
             \/ IsLowestAgain(t) \/ Asked(t)
    BY <1>1, <2>2 DEF SpinSeen, SpinOut, CheckFlag, Poll, PollInterrupted, IsLowestAgain, Asked, Move
  <2>3. CASE Sleep(t)
    BY <1>1, <2>3 DEF Sleep
  <2>4. CASE Woken(t) \/ TakeTurn(t) \/ OnWakeup(t) \/ ClearSingleActive(t)
    BY <1>1, <2>4 DEF Woken, TakeTurn, WokeUp, OnWakeup, ClearSingleActive
  <2> QED
    BY <1>4, <2>1, <2>2, <2>3, <2>4 DEF Turn
<1>5. ASSUME Wake(t) PROVE ActiveIsSearchable'
  BY <1>1, <1>5 DEF Wake, WakeTest, WakePoll, WakeFlag, WakeReturn
<1>6. ASSUME Interrupt(t) PROVE ActiveIsSearchable'
  BY <1>1, <1>6 DEF Interrupt, Overflow, NmiCheck, NmiSet, Irq, Notify
<1> QED
  BY <1>2, <1>3, <1>4, <1>5, <1>6 DEF Step

(* A thread that becomes the group's lowest is active, and the lowest thread *)
(* cannot leave the group without a new search: it is then not alone, since  *)
(* it has just been marked inactive.                                         *)
LEMMA LowestTidStep ==
    ASSUME TypeOK, LowestTidActive, NEW t \in Threads, Step(t)
    PROVE  LowestTidActive'
<1> USE DEF group, list, entries, status, call
<1>1. ASSUME UNCHANGED <<lowest_tid, active>> PROVE LowestTidActive'
  BY <1>1 DEF LowestTidActive
<1>2. ASSUME NEW cl, NEW next, Determine(t, cl, next) PROVE LowestTidActive'
  <2>1. PICK v \in Verdicts(t, active, inactive, cl) : Publish(t, v)
    BY <1>2 DEF Determine
  <2>2. v.low \in active \cup {NoTid} \/ v.low = lowest_tid
    BY <2>1, VerdictRange DEF TypeOK
  <2> QED
    BY <1>2, <2>1, <2>2 DEF Determine, Publish, LowestTidActive
<1>3. ASSUME Membership(t) PROVE LowestTidActive'
  <2>1. CASE EntryTest(t) \/ EntryInit(t) \/ Resume(t) \/ Reset(t) \/ Disable(t)
             \/ ActivateOtherReturn(t)
    BY <1>1, <2>1 DEF EntryTest, EntryInit, Resume, Reset, Disable, ActivateOtherReturn
  <2>2. CASE Activate(t)
    BY <2>2 DEF Activate, MarkActive, LowestTidActive
  <2>3. CASE DisableDetermine(t)
    BY <1>2, <2>3 DEF DisableDetermine
  <2>4. CASE Halt(t)
    <3>1. PICK v \in Verdicts(t, active', inactive', clock) : Publish(t, v)
      BY <2>4 DEF Halt
    <3>2. t \in inactive' /\ active' \in SUBSET Threads
      BY <2>4 DEF Halt, TypeOK
    <3>3. v.low \in active' \cup {NoTid}
      BY <3>1, <3>2, VerdictRange
    <3> QED
      BY <3>1, <3>3 DEF Publish, LowestTidActive
  <2>5. ASSUME NEW id \in Threads, ActivateOther(t, id) PROVE LowestTidActive'
    BY <2>5 DEF ActivateOther, MarkActive, LowestTidActive
  <2> QED
    BY <1>3, <2>1, <2>2, <2>3, <2>4, <2>5 DEF Membership
<1>4. ASSUME Counting(t) PROVE LowestTidActive'
  <2>1. CASE Start(t)
    <3>1. PICK v \in Verdicts(t, active, inactive, clock) : Publish(t, OnEnable(t, v))
      BY <2>1 DEF Start
    <3>2. v.low \in active \cup {NoTid} \/ v.low = lowest_tid
      BY <3>1, VerdictRange DEF TypeOK
    <3>3. OnEnable(t, v).low = v.low
      BY <3>1, StartVerdict DEF TypeOK
    <3> QED
      BY <2>1, <3>1, <3>2, <3>3 DEF Start, Publish, LowestTidActive
  <2>2. CASE Stop(t) \/ StartCoarse(t) \/ EndCoarseEmpty(t)
    BY <1>1, <2>2 DEF Stop, StartCoarse, EndCoarseEmpty
  <2>3. CASE StopDetermine(t) \/ AddTicks(t) \/ EndCoarse(t)
    BY <1>2, <2>3 DEF StopDetermine, AddTicks, EndCoarse
  <2> QED
    BY <1>4, <2>1, <2>2, <2>3 DEF Counting
<1>5. ASSUME Turn(t) PROVE LowestTidActive'
  <2>1. CASE Wait(t) \/ IsLowest(t)
    BY <1>2, <2>1 DEF Wait, IsLowest
  <2>2. CASE SpinSeen(t) \/ SpinOut(t) \/ CheckFlag(t) \/ Poll(t) \/ PollInterrupted(t)
             \/ IsLowestAgain(t) \/ Asked(t)
    BY <1>1, <2>2 DEF SpinSeen, SpinOut, CheckFlag, Poll, PollInterrupted, IsLowestAgain, Asked, Move
  <2>3. CASE Sleep(t)
    <3>1. PICK v \in Verdicts(t, active, inactive, clock) : Publish(t, v)
      BY <2>3 DEF Sleep
    <3>2. v.low \in active \cup {NoTid} \/ v.low = lowest_tid
      BY <3>1, VerdictRange DEF TypeOK
    <3> QED
      BY <2>3, <3>1, <3>2 DEF Sleep, Publish, LowestTidActive
  <2>4. CASE Woken(t) \/ TakeTurn(t) \/ OnWakeup(t) \/ ClearSingleActive(t)
    BY <1>1, <2>4 DEF Woken, TakeTurn, WokeUp, OnWakeup, ClearSingleActive
  <2> QED
    BY <1>5, <2>1, <2>2, <2>3, <2>4 DEF Turn
<1>6. ASSUME Wake(t) PROVE LowestTidActive'
  BY <1>1, <1>6 DEF Wake, WakeTest, WakePoll, WakeFlag, WakeReturn
<1>7. ASSUME Interrupt(t) PROVE LowestTidActive'
  <2>1. CASE Overflow(t) \/ NmiCheck(t) \/ NmiSet(t) \/ Irq(t)
    BY <1>1, <2>1 DEF Overflow, NmiCheck, NmiSet, Irq
  <2>2. CASE Notify(t)
    <3>1. PICK low \in SearchForLowestWaiting(active, waiting, clock) :
              lowest_tid' = IF low \in waiting THEN low ELSE lowest_tid
      BY <2>2 DEF Notify
    <3>2. low \in active \cup {NoTid}
      BY DEF SearchForLowestWaiting, SearchForLowest
    <3> QED
      BY <2>2, <3>1, <3>2 DEF Notify, LowestTidActive
  <2> QED
    BY <1>7, <2>1, <2>2 DEF Interrupt
<1> QED
  BY <1>3, <1>4, <1>5, <1>6, <1>7 DEF Step

-----------------------------------------------------------------------------
(* The inductive invariant. *)

IInv ==
    /\ TypeOK
    /\ ActiveIsSearchable
    /\ LowestTidActive
    /\ \A t \in Threads : ThreadState(t)

(* A new group, as task_clock_group_init leaves it, satisfies the invariant. *)
LEMMA IInvInit == Init => IInv
<1> SUFFICES ASSUME Init PROVE IInv
  OBVIOUS
<1> USE DEF Init
<1>1. TypeOK
  <2>1. clock \in [Threads -> 0 .. MaxTicks] /\ max_index \in Nat
    BY MaxTicksAssumption
  <2>2. pc \in [Threads -> PC] /\ ret \in [Threads -> PC]
    BY DEF PC
  <2>3. wakee \in [Threads -> Threads \cup {NoTid}]
    OBVIOUS
  <2>4. /\ notification_needed \in BOOLEAN /\ nmi_new_low \in BOOLEAN
        /\ irq_pending \in BOOLEAN
    OBVIOUS
  <2> QED
    BY <2>1, <2>2, <2>3, <2>4 DEF TypeOK
<1>2. ActiveIsSearchable /\ LowestTidActive
  BY DEF ActiveIsSearchable, LowestTidActive
<1>3. ASSUME NEW t \in Threads PROVE ThreadState(t)
  BY DEF ThreadState, Doing, Waking
<1> QED
  BY <1>1, <1>2, <1>3 DEF IInv

(* Every step of the library, the module and its interrupts preserves it.    *)
LEMMA IInvStep == IInv /\ [Next]_vars => IInv'
<1> SUFFICES ASSUME IInv, [Next]_vars PROVE IInv'
  OBVIOUS
<1>1. ASSUME NEW t \in Threads, Step(t) PROVE IInv'
  <2>1. Keeps(t)
    BY <1>1, MembershipKeeps, CountingKeeps, TurnKeeps, WakeKeeps, InterruptKeeps DEF IInv, Step
  <2>2. ASSUME NEW u \in Threads PROVE ThreadState(u)'
    BY <2>1, OthersKeepThreadState DEF Keeps, IInv
  <2>3. WakeeNamed
    BY DEF IInv, ThreadState, WakeeNamed
  <2> QED
    BY <1>1, <2>2, <2>3, TypeStep, SearchableStep, LowestTidStep DEF IInv
<1>2. CASE UNCHANGED vars
  <2>1. ASSUME NEW t \in Threads PROVE ThreadState(t)'
    BY <1>2 DEF vars, group, list, entries, status, call, IInv, ThreadState, Doing, Waking
  <2> QED
    BY <1>2, <2>1 DEF vars, group, list, entries, status, call, IInv,
                      TypeOK, ActiveIsSearchable, Scanned, LowestTidActive
<1> QED
  BY <1>1, <1>2 DEF Next

(* The inductive invariant holds in every reachable state of a group.        *)
THEOREM Invariance == Spec => []IInv
BY IInvInit, IInvStep, PTL DEF Spec

(* Every variable stays in its range: in particular __wake_up_waiting_thread *)
(* is always called for a thread, so the event it dereferences exists.       *)
THEOREM TypeCorrect == Spec => []TypeOK
<1>1. IInv => TypeOK
  BY DEF IInv
<1> QED BY <1>1, Invariance, PTL

(* No order of init, activate, halt and reset hides an active thread from    *)
(* the searches for the lowest clock.                                        *)
THEOREM ActiveAlwaysSearchable == Spec => []ActiveIsSearchable
<1>1. IInv => ActiveIsSearchable
  BY DEF IInv
<1> QED BY <1>1, Invariance, PTL

(* group_info->lowest_tid never names a thread that has left the group.      *)
THEOREM LowestTidAlwaysActive == Spec => []LowestTidActive
<1>1. IInv => LowestTidActive
  BY DEF IInv
<1> QED BY <1>1, Invariance, PTL

(* A thread whose clock still moves is never a candidate for a turn.         *)
THEOREM NoCountingWaiter == Spec => []CountingNotWaiting
<1>1. IInv => CountingNotWaiting
  BY DEF IInv, ThreadState, CountingNotWaiting, TypeOK
<1> QED BY <1>1, Invariance, PTL

(* The sleeping flag agrees with the library's poll().                       *)
THEOREM SleepersPoll == Spec => []SleepingMeansBlocked
<1>1. IInv => SleepingMeansBlocked
  BY DEF IInv, ThreadState, Doing, Waking, SleepingMeansBlocked
<1> QED BY <1>1, Invariance, PTL

(* A thread inside is_lowest_wait is marked waiting or has its flag raised.  *)
THEOREM WaitersVisible == Spec => []WaiterIsVisible
<1>1. IInv => WaiterIsVisible
  BY DEF IInv, ThreadState, Doing, Waking, InWait, WaiterIsVisible
<1> QED BY <1>1, Invariance, PTL

-----------------------------------------------------------------------------
(* Action properties. *)

(* No single step takes ticks from the clock of an active thread, unless its *)
(* init has found it uninitialised.                                          *)
LEMMA ClocksGrow ==
    ASSUME IInv, NEW t \in Threads, Step(t), NEW u \in active, pc[u] # "initzero"
    PROVE  clock'[u] >= clock[u]
<1> USE DEF IInv, TypeOK
<1>1. ASSUME UNCHANGED clock PROVE clock'[u] >= clock[u]
  BY <1>1
<1>2. CASE Membership(t)
  <2>1. CASE EntryInit(t)
    BY <2>1 DEF EntryInit, ClockAtInit
  <2>2. CASE Disable(t)
    BY <2>2 DEF Disable
  <2>3. ASSUME NEW id \in Threads, ActivateOther(t, id) PROVE clock'[u] >= clock[u]
    BY <2>3 DEF ActivateOther
  <2> QED
    BY <1>1, <1>2, <2>1, <2>2, <2>3
       DEF Membership, EntryTest, Activate, Resume, Reset, DisableDetermine, Halt, ActivateOtherReturn
<1>3. CASE Counting(t)
  <2>1. CASE Stop(t) \/ AddTicks(t) \/ EndCoarse(t)
    BY <2>1 DEF Stop, AddTicks, EndCoarse
  <2> QED
    BY <1>1, <1>3, <2>1 DEF Counting, Start, StopDetermine, StartCoarse, EndCoarseEmpty
<1>4. CASE Turn(t)
  BY <1>1, <1>4 DEF Turn, Wait, SpinSeen, SpinOut, Sleep, CheckFlag, Poll, PollInterrupted, Woken, TakeTurn,
                    WokeUp, IsLowest, IsLowestAgain, Asked, OnWakeup, ClearSingleActive, Move
<1>5. CASE Wake(t)
  BY <1>1, <1>5 DEF Wake, WakeTest, WakePoll, WakeFlag, WakeReturn
<1>6. CASE Interrupt(t)
  <2>1. CASE Overflow(t)
    BY <2>1 DEF Overflow
  <2> QED
    BY <1>1, <1>6, <2>1 DEF Interrupt, NmiCheck, NmiSet, Irq, Notify
<1> QED
  BY <1>2, <1>3, <1>4, <1>5, <1>6 DEF Step

(* The logical clock of an active thread never goes back, whichever of       *)
(* parent and child initialises the child's clock first.                     *)
THEOREM ClocksNeverGoBack == Spec => ClockMonotone
<1>1. IInv /\ [Next]_vars => [\A t \in active : pc[t] # "initzero" => clock'[t] >= clock[t]]_vars
  BY ClocksGrow DEF Next
<1> QED BY <1>1, Invariance, PTL DEF Spec, ClockMonotone


(* activate_other never fails to tell its caller of an activation that makes *)
(* the new thread the lowest: lowest_tid is compared after the clock of the  *)
(* new thread was set, and names an active thread.                           *)
THEOREM ActivationReported == Spec => LowestActivationReported
<1>1. ASSUME IInv, IInv', NEW t \in Threads, NEW id \in Threads,
             ActivateOther(t, id), IsLowestActive(id)'
      PROVE  t \in activated_lowest'
  <2>1. lowest_tid = NoTid \/ ClockIsLower(clock', id, lowest_tid)
    <3>1. CASE lowest_tid \in active
      <4>1. lowest_tid \in active' /\ lowest_tid # id /\ lowest_tid \in Threads
        BY <1>1, <3>1 DEF ActivateOther, MarkActive, IInv, TypeOK
      <4>2. ~ClockIsLower(clock', lowest_tid, id)
        BY <1>1, <4>1 DEF IsLowestActive
      <4>3. clock' \in [Threads -> 0 .. MaxTicks]
        BY <1>1 DEF IInv, TypeOK
      <4> QED
        BY <4>1, <4>2, <4>3, ThreadsAssumption DEF ClockIsLower
    <3> QED
      BY <3>1, <1>1 DEF IInv, LowestTidActive
  <2> QED
    BY <1>1, <2>1 DEF ActivateOther, ActivatesLowest
<1>2. IInv /\ IInv' /\ [Next]_vars =>
         [\A t, id \in Threads :
             ActivateOther(t, id) /\ IsLowestActive(id)' => t \in activated_lowest']_vars
  BY <1>1
<1> QED BY <1>2, Invariance, PTL DEF Spec, LowestActivationReported
=============================================================================
