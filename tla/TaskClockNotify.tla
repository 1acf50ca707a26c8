---------------------------- MODULE TaskClockNotify ----------------------------
(***************************************************************************)
(* Proofs about TaskClock: no notification is lost and no group falls      *)
(* asleep, for every number of threads, as long as a thread that has left  *)
(* the group comes back only by being activated.  (A thread that activates *)
(* itself may take lowest_tid, and with it the notification owed to a      *)
(* sleeping thread with a lower clock.)                                    *)
(***************************************************************************)
EXTENDS TaskClockProof, FiniteSetTheorems, NatFacts

NoSelfActivation == "activate" \notin Ops

(* The place of a thread that has not entered the group's life yet.          *)
New == {"off", "init", "initzero"}

(* The thread's chunk has begun and its end has not been published.          *)
Running(t) == Doing(t) \in {"run", "nmi", "nmiset", "irq", "notify", "stopping"}

(* The thread is, or soon will be, in poll(), and only POLL_IN ends that.    *)
Dozing(t) == t \in sleeping \ poll_in /\ (pc[t] \in {"check", "poll"} \/ t \in Waking)

(* The sleeping thread s has left poll(), or a POLL_IN will end it.          *)
Rousing(s) ==
    \/ s \in poll_in
    \/ pc[s] = "woken"
    \/ \E u \in Threads : /\ wakee[u] = s
                          /\ pc[u] = "wakepoll" \/ (pc[u] = "wake" /\ lowest_tid \in sleeping)

-----------------------------------------------------------------------------
(* The parts of the invariant. *)

(* Until Main has activated itself nobody is active or told to be alone.     *)
MainFirst ==
    /\ Main \notin active \cup inactive => active = {} /\ single_active = {}
    /\ Main \in inactive => Doing(Main) \notin New

AloneTold == \A t \in single_active : active \subseteq {t}

(* A thread in its chunk does not wait, and owes a notification while it is  *)
(* named the lowest: its clock moves away from where the search found it.    *)
RunningOwes ==
    \A t \in Threads : Running(t) => t \notin waiting /\ (t = lowest_tid => notification_needed)

(* When no notification is owed, no waiting thread is below the one named.   *)
NoLowerWaiter ==
    ~notification_needed /\ lowest_tid # NoTid
    => \A j \in active \cap waiting : ~ClockIsLower(clock, j, lowest_tid)

(* An irq work that finds nobody named still has its reason to notify.       *)
IrqTells ==
    lowest_tid = NoTid /\ ~notification_needed /\ (\E t \in Threads : Doing(t) \in {"irq", "notify"})
    => nmi_new_low

(* A thread asleep waits, and keeps the lock until it leaves SLEEP.          *)
SleepersHold ==
    /\ sleeping \subseteq waiting
    /\ \A t \in sleeping : pc[t] = "sleep" => lock = t

(* A dozing thread that is named the lowest is told, or will be.             *)
LowestIsTold ==
    lowest_tid \in Threads /\ Dozing(lowest_tid) /\ ~notification_needed
    => \E u \in Threads : wakee[u] = lowest_tid /\ pc[u] \in {"wake", "wakepoll"}

(* When all active threads sleep, one of them is being woken.                *)
SleepersRoused ==
    active # {} /\ lock = NoTid /\ active \subseteq sleeping => \E s \in active : Rousing(s)

NInv ==
    /\ MainFirst
    /\ AloneTold
    /\ RunningOwes
    /\ NoLowerWaiter
    /\ IrqTells
    /\ SleepersHold
    /\ LowestIsTold
    /\ SleepersRoused

-----------------------------------------------------------------------------
(* Two kinds of steps. *)

(* What a step may do to the threads other than its own.                     *)
OthersKeep(t) ==
    \A u \in Threads \ {t} :
        /\ pc'[u] = pc[u] /\ ret'[u] = ret[u] /\ wakee'[u] = wakee[u]
        /\ clock'[u] = clock[u]
        /\ u \in waiting' <=> u \in waiting
        /\ u \in sleeping' <=> u \in sleeping
        /\ u \in inactive' <=> u \in inactive
        /\ u \in poll_in => u \in poll_in'

(* A step that neither searches for the lowest nor activates a thread.       *)
Calm(t) ==
    /\ UNCHANGED <<lowest_tid, active, lock>>
    /\ notification_needed => notification_needed'
    /\ nmi_new_low => nmi_new_low'
    /\ single_active' \subseteq single_active
    /\ lowest_clock' \subseteq lowest_clock \/ (pc[t] = "wakeflag" /\ pc'[t] # "wakeflag")
    /\ OthersKeep(t)
    /\ t \in waiting' => t \in waiting /\ clock'[t] = clock[t]
    /\ t \in sleeping' => t \in sleeping /\ (t \in waiting => t \in waiting')
    /\ clock'[t] <= clock[t] \/ Running(t) \/ notification_needed'
    /\ Running(t)' => Running(t)
    /\ t \in inactive' => t \in inactive
    /\ t \in inactive => t \in inactive' \/ Doing(t) \in New
    /\ Doing(t)' \in New => Doing(t) \in New
    /\ Doing(t)' \in {"irq", "notify"} => Doing(t) \in {"irq", "notify"} \/ nmi_new_low'
    /\ pc'[t] = "sleep" => t \notin sleeping'
    /\ Dozing(t)' => Dozing(t)
    /\ t \in poll_in => t \in poll_in' \/ pc'[t] = "woken"
    /\ pc[t] = "woken" => t \notin sleeping'
    /\ pc[t] = "wakepoll" => wakee[t] \in poll_in'
    /\ pc[t] = "wake" /\ lowest_tid \in sleeping => pc'[t] = "wakepoll" /\ wakee'[t] = wakee[t]

Tells(t, low) == pc'[t] = "wake" /\ wakee'[t] = low

(* A step under the lock that searches for the lowest.                       *)
Decided(t) ==
    /\ t \in active /\ t \notin Waking /\ pc[t] # "woken" /\ lock \in {NoTid, t}
    /\ active' \subseteq active /\ active \subseteq active' \cup {t}
    /\ t \in active' \cup inactive' /\ Doing(t)' \notin New
    /\ OthersKeep(t)
    /\ UNCHANGED poll_in
    /\ lowest_clock' \subseteq lowest_clock \cup {t}
    /\ t \in lowest_clock' => t \in lowest_clock \/ \A j \in active' : ~ClockIsLower(clock', j, t)
    /\ t \in single_active' => t \in single_active \/ active' = {t}
    /\ single_active' \subseteq single_active \cup {t}
    /\ Running(t)' => t \notin waiting'
    /\ Doing(t)' \notin {"irq", "notify"}
    /\ t \in sleeping' => t \in waiting' /\ (pc'[t] = "sleep" => lock' = t)
    /\ lowest_tid' \in active' \cup {NoTid}
    /\ ~notification_needed' /\ lowest_tid' # NoTid
       => \/ lowest_tid' = t /\ ~Running(t)' /\ t \notin sleeping'
          \/ Tells(t, lowest_tid') /\ lowest_tid' \in waiting \ {t}
          \/ /\ lowest_tid' = lowest_tid /\ ~notification_needed
             /\ lowest_tid' # t \/ (Running(t) /\ Running(t)')
    /\ lowest_tid' # NoTid
       => \/ \A j \in active' : ~ClockIsLower(clock', j, lowest_tid')
          \/ /\ UNCHANGED <<lowest_tid, active, waiting, clock>>
             /\ notification_needed => notification_needed'
    /\ ~notification_needed' /\ lowest_tid' = NoTid
       => \/ active' = {t}
          \/ ~notification_needed /\ lowest_tid = NoTid /\ (nmi_new_low => nmi_new_low')
    /\ lock' = NoTid /\ active' # {} /\ active' \subseteq sleeping'
       => /\ lowest_tid' \in active' \ {t}
          /\ Tells(t, lowest_tid') \/ (lowest_tid' = lowest_tid /\ ~notification_needed)

KindOfStep(t) ==
    Calm(t) \/ Decided(t) \/ Activate(t) \/ \E id \in Threads : ActivateOther(t, id)

(* The state of a thread that the lemmas below start from. *)
LEMMA PlacesInRange ==
    ASSUME IInv, NEW t \in Threads
    PROVE  /\ pc[t] \in PC /\ ret[t] \in PC /\ wakee[t] \in Threads \cup {NoTid}
           /\ clock[t] \in Int
           /\ ThreadState(t)
BY DEF IInv, TypeOK

LEMMA MembershipCalm ==
    ASSUME IInv, NInv, NEW t \in Threads,
           EntryTest(t) \/ EntryInit(t) \/ Resume(t) \/ Reset(t) \/ Disable(t) \/ ActivateOtherReturn(t)
    PROVE  Calm(t)
<1> USE DEF group, list, entries, status, call, Calm, OthersKeep, Dozing, Running, New
<1>1. ThreadState(t) /\ clock \in [Threads -> 0 .. MaxTicks] /\ pc \in [Threads -> PC]
  BY DEF IInv, TypeOK
<1>0. MaxTicks \in Nat
  BY MaxTicksAssumption
<1>2. CASE EntryTest(t)
  BY <1>1, <1>2 DEF EntryTest, ThreadState, Doing, Waking
<1>3. CASE EntryInit(t)
  <2>1. CASE pc[t] = "init"
    BY <1>0, <1>1, <1>3, <2>1 DEF EntryInit, ClockAtInit, ClearEntryState, ThreadState, Doing, Waking
  <2>2. CASE pc[t] = "initzero"
    BY <1>0, <1>1, <1>3, <2>2 DEF EntryInit, ClockAtInit, ClearEntryState, ThreadState, Doing, Waking
  <2> QED
    BY <1>3, <2>1, <2>2 DEF EntryInit
<1>4. CASE Resume(t)
  BY <1>1, <1>4 DEF Resume, ThreadState, Doing, Waking
<1>5. CASE Reset(t)
  BY <1>1, <1>5 DEF Reset, ThreadState, Doing, Waking
<1>6. CASE Disable(t)
  <2>1. t \in waiting => clock'[t] = clock[t]
    BY <1>0, <1>1, <1>6 DEF Disable, ThreadState
  <2> QED
    BY <1>1, <1>6, <2>1 DEF Disable, ThreadState, Doing, Waking
<1>7. CASE ActivateOtherReturn(t)
  BY <1>1, <1>7 DEF ActivateOtherReturn, ThreadState, Doing, Waking
<1> QED
  BY <1>2, <1>3, <1>4, <1>5, <1>6, <1>7

LEMMA CountingCalm ==
    ASSUME IInv, NInv, NEW t \in Threads,
           Stop(t) \/ StartCoarse(t) \/ EndCoarseEmpty(t)
    PROVE  Calm(t)
<1> USE DEF group, list, entries, status, call, Calm, OthersKeep, Dozing, Running, New
<1>1. ThreadState(t) /\ clock \in [Threads -> 0 .. MaxTicks] /\ pc \in [Threads -> PC]
  BY DEF IInv, TypeOK
<1>2. CASE Stop(t)
  <2>1. t \notin waiting
    BY <1>2 DEF Stop, NInv, RunningOwes, Doing, Waking
  <2> QED
    BY <1>1, <1>2, <2>1 DEF Stop, ThreadState, Doing, Waking
<1>3. CASE StartCoarse(t) \/ EndCoarseEmpty(t)
  BY <1>1, <1>3 DEF StartCoarse, EndCoarseEmpty, ThreadState, Doing, Waking
<1> QED
  BY <1>2, <1>3

LEMMA TurnCalm ==
    ASSUME IInv, NInv, NEW t \in Threads, Turn(t), ~Wait(t), ~Sleep(t), ~IsLowest(t)
    PROVE  Calm(t)
<1> USE DEF group, list, entries, status, call, Calm, OthersKeep, Dozing, Running, New
<1>1. ThreadState(t) /\ clock \in [Threads -> 0 .. MaxTicks] /\ pc \in [Threads -> PC]
  BY DEF IInv, TypeOK
<1>2. CASE SpinSeen(t) \/ SpinOut(t)
  BY <1>1, <1>2 DEF SpinSeen, SpinOut, Move, ThreadState, Doing, Waking
<1>3. CASE CheckFlag(t)
  BY <1>1, <1>3 DEF CheckFlag, Move, ThreadState, Doing, Waking
<1>4. CASE Poll(t) \/ PollInterrupted(t)
  BY <1>1, <1>4 DEF Poll, PollInterrupted, Move, ThreadState, Doing, Waking
<1>5. CASE Woken(t) \/ TakeTurn(t)
  BY <1>1, <1>5 DEF Woken, TakeTurn, WokeUp, ThreadState, Doing, Waking
<1>6. CASE IsLowestAgain(t) \/ Asked(t)
  BY <1>1, <1>6 DEF IsLowestAgain, Asked, Move, ThreadState, Doing, Waking
<1>7. CASE OnWakeup(t) \/ ClearSingleActive(t)
  BY <1>1, <1>7 DEF OnWakeup, ClearSingleActive, SingleCleared, ThreadState, Doing, Waking
<1> QED
  BY <1>2, <1>3, <1>4, <1>5, <1>6, <1>7 DEF Turn

LEMMA WakeCalm ==
    ASSUME IInv, NEW t \in Threads, Wake(t)
    PROVE  Calm(t)
<1> USE DEF group, list, entries, status, call, Calm, OthersKeep, Dozing, Running, New
<1>1. /\ ThreadState(t) /\ clock \in [Threads -> 0 .. MaxTicks] /\ pc \in [Threads -> PC]
      /\ wakee \in [Threads -> Threads \cup {NoTid}] /\ ret \in [Threads -> PC]
  BY DEF IInv, TypeOK
<1>2. CASE WakeTest(t)
  BY <1>1, <1>2 DEF WakeTest, ThreadState, Doing, Waking
<1>3. CASE WakePoll(t) \/ WakeFlag(t)
  <2>1. /\ Doing(t)' = Doing(t) /\ t \notin Waking' /\ t \in Waking /\ pc'[t] = ret[t]
        /\ ret[t] \notin {"wake", "wakepoll", "wakeflag"}
    BY <1>1, <1>3 DEF WakePoll, WakeFlag, WakeReturn, ThreadState, Doing, Waking
  <2>2. t \in sleeping => ret[t] = "check"
    BY <1>1, <2>1 DEF ThreadState, Waking
  <2> QED
    BY <1>1, <1>3, <2>1, <2>2 DEF WakePoll, WakeFlag, WakeReturn, Waking
<1> QED
  BY <1>2, <1>3 DEF Wake

LEMMA InterruptCalm ==
    ASSUME IInv, NInv, NEW t \in Threads, Interrupt(t), ~Notify(t)
    PROVE  Calm(t)
<1> USE DEF group, list, entries, status, call, Calm, OthersKeep, Dozing, Running, New
<1>1. ThreadState(t) /\ clock \in [Threads -> 0 .. MaxTicks] /\ pc \in [Threads -> PC]
  BY DEF IInv, TypeOK
<1>2. CASE Overflow(t)
  <2>1. t \notin waiting
    BY <1>2 DEF Overflow, NInv, RunningOwes, Doing, Waking
  <2> QED
    BY <1>1, <1>2, <2>1 DEF Overflow, ThreadState, Doing, Waking
<1>3. CASE NmiCheck(t)
  <2>1. pc' = [pc EXCEPT ![t] = pc'[t]] /\ pc'[t] \in {"nmiset", "run"}
    BY <1>1, <1>3 DEF NmiCheck
  <2> QED
    BY <1>1, <1>3, <2>1 DEF NmiCheck, ThreadState, Doing, Waking
<1>4. CASE NmiSet(t) \/ Irq(t)
  BY <1>1, <1>4 DEF NmiSet, Irq, ThreadState, Doing, Waking
<1> QED
  BY <1>2, <1>3, <1>4 DEF Interrupt

-----------------------------------------------------------------------------
(* The searches. *)

(* Some thread of a non-empty set has the lowest clock of the set.           *)
LEMMA LowestExists ==
    ASSUME NEW S \in SUBSET Threads, S # {}, NEW cl \in [Threads -> Nat]
    PROVE  \E i \in S : \A j \in S : ~ClockIsLower(cl, j, i)
<1> USE ThreadsAssumption
<1>1. PICK c \in {cl[i] : i \in S} : \A d \in {cl[i] : i \in S} : c <= d
  <2>1. {cl[i] : i \in S} \in SUBSET Nat /\ {cl[i] : i \in S} # {}
    OBVIOUS
  <2> QED
    BY <2>1, SmallestNumber
<1>2. PICK i \in {j \in S : cl[j] = c} : \A j \in {j \in S : cl[j] = c} : i <= j
  <2>1. {j \in S : cl[j] = c} \in SUBSET Nat /\ {j \in S : cl[j] = c} # {}
    BY <1>1
  <2> QED
    BY <2>1, SmallestNumber
<1>3. ASSUME NEW j \in S PROVE ~ClockIsLower(cl, j, i)
  <2>1. c <= cl[j] /\ cl[i] = c /\ cl[j] \in Nat /\ c \in Nat /\ i \in Nat /\ j \in Nat
    BY <1>1, <1>2
  <2>2. cl[j] = c => i <= j
    BY <1>2
  <2> QED
    BY <2>1, <2>2 DEF ClockIsLower
<1> QED
  BY <1>2, <1>3

(* The search over active threads returns nobody, or the lowest of them; it  *)
(* does return it when all of them wait.                                     *)
LEMMA SearchLow ==
    ASSUME IInv, NEW S \in SUBSET active, NEW cl \in [Threads -> Nat], NEW w,
           NEW low \in SearchForLowestWaiting(S, w, cl)
    PROVE  /\ low \in S \cup {NoTid}
           /\ low \in S => \A j \in S : ~ClockIsLower(cl, j, low)
           /\ S # {} /\ S \subseteq w => low \in S
<1>1. (S \cap initialized) \ inactive = S
  BY DEF IInv, ActiveIsSearchable
<1>2. SearchForLowest(S, cl) = {i \in S : \A j \in S : ~ClockIsLower(cl, j, i)}
  BY <1>1 DEF SearchForLowest
<1>3. S # {} => SearchForLowest(S, cl) # {}
  <2>1. S \in SUBSET Threads
    BY DEF IInv, TypeOK
  <2> QED
    BY <1>2, <2>1, LowestExists
<1>4. NoTid \notin S
  BY ThreadsAssumption DEF IInv, TypeOK, NoTid
<1> QED
  BY <1>2, <1>3, <1>4 DEF SearchForLowestWaiting

(* What __determine_lowest_and_notify_or_wait concludes for thread t from the *)
(* list S and the clocks cl.                                                 *)
Sound(t, S, cl, v) ==
    /\ v.low \in S \cup {NoTid}
    /\ v.low # NoTid => \A j \in S : ~ClockIsLower(cl, j, v.low)
    /\ v.wake # NoTid => v.wake = v.low /\ v.low \in waiting \ {t}
    /\ ~v.needed => \/ v.low \in {t, NoTid} \/ v.wake = v.low
                    \/ ~notification_needed /\ v.low = lowest_tid
    /\ ~v.needed /\ v.low = NoTid
       => \/ S = {t}
          \/ ~notification_needed /\ lowest_tid = NoTid /\ (nmi_new_low => v.nmi)
    /\ v.alone => S = {t}
    /\ v.low = t => v.lead
    /\ v.lead => \A j \in S : ~ClockIsLower(cl, j, t)
    /\ t \notin S /\ S # {} /\ S \subseteq waiting
       => v.low \in S /\ ~v.needed /\ ~v.lead

(* t is in the list, or has just left it and is marked inactive.             *)
LEMMA VerdictTells ==
    ASSUME IInv, NEW t \in Threads, NEW S \in SUBSET active, NEW I,
           (t \in S /\ S = active) \/ (t \notin S /\ t \in I),
           NEW cl \in [Threads -> Nat], NEW v \in Verdicts(t, S, I, cl)
    PROVE  Sound(t, S, cl, v)
<1> USE ThreadsAssumption
<1>0. NoTid \notin Threads /\ S \subseteq Threads
  BY DEF NoTid, IInv, TypeOK
<1>1. CASE OnlyActive(t, S, I)
  <2>1. v = [low |-> lowest_tid, lead |-> TRUE, alone |-> TRUE,
             needed |-> FALSE, nmi |-> nmi_new_low, wake |-> NoTid]
    BY <1>1 DEF Verdicts
  <2>2. t \in S /\ S = active /\ Cardinality(S) = 1
    BY <1>1 DEF OnlyActive
  <2>3. S = {t}
    <3>1. IsFiniteSet(S)
      BY <1>0, FS_Subset
    <3> QED
      BY <2>2, <3>1, FS_Singleton
  <2>4. lowest_tid \in {t, NoTid}
    BY <2>2, <2>3 DEF IInv, LowestTidActive
  <2>5. ~ClockIsLower(cl, t, t)
    BY DEF ClockIsLower
  <2> QED
    BY <2>1, <2>2, <2>3, <2>4, <2>5 DEF Sound
<1>2. CASE ~OnlyActive(t, S, I)
  <2>1. PICK low \in SearchForLowestWaiting(S, waiting \cup {t}, cl) :
            v = Verdict(t, waiting \cup {t}, low)
    BY <1>2 DEF Verdicts
  <2>2. /\ low \in S \cup {NoTid}
        /\ low \in S => \A j \in S : ~ClockIsLower(cl, j, low)
        /\ S # {} /\ S \subseteq waiting \cup {t} => low \in S
    BY <2>1, SearchLow
  <2>3. NoTid \notin waiting
    BY <1>0 DEF IInv, TypeOK
  <2>4. v.low = low /\ v.alone = FALSE /\ v.lead = (low = t)
    BY <2>1 DEF Verdict
  <2>5. v.wake = IF low # t /\ low \in waiting \cup {t} /\ (notification_needed \/ low # lowest_tid)
                 THEN low ELSE NoTid
    BY <2>1 DEF Verdict
  <2>6. v.needed <=> /\ notification_needed \/ low # lowest_tid
                     /\ low # t
                     /\ low \notin waiting
    <3>1. notification_needed \in BOOLEAN
      BY DEF IInv, TypeOK
    <3> QED
      BY <2>1, <3>1 DEF Verdict
  <2>7. v.nmi <=> nmi_new_low /\ ~(low # t /\ low \in waiting \cup {t}
                                    /\ (notification_needed \/ low # lowest_tid))
    <3>1. nmi_new_low \in BOOLEAN
      BY DEF IInv, TypeOK
    <3> QED
      BY <2>1, <3>1 DEF Verdict
  <2> QED
    BY <1>0, <2>2, <2>3, <2>4, <2>5, <2>6, <2>7 DEF Sound
<1> QED
  BY <1>1, <1>2

COROLLARY ActiveVerdict ==
    ASSUME IInv, NEW t \in active, NEW cl \in [Threads -> Nat],
           NEW v \in Verdicts(t, active, inactive, cl)
    PROVE  Sound(t, active, cl, v)
<1>1. t \in Threads
  BY DEF IInv, TypeOK
<1> QED
  BY <1>1, VerdictTells

(* start raises notification_needed for a lowest thread that is about to run. *)
LEMMA EnableVerdict ==
    ASSUME IInv, NEW t \in Threads, NEW v \in Verdicts(t, active, inactive, clock)
    PROVE  /\ OnEnable(t, v).low = v.low
           /\ OnEnable(t, v).lead = v.lead
           /\ OnEnable(t, v).alone = v.alone
           /\ OnEnable(t, v).needed <=> v.needed \/ v.low = t
           /\ OnEnable(t, v).nmi <=> v.nmi /\ v.low # t
<1>1. CASE OnlyActive(t, active, inactive)
  <2>1. v = [low |-> lowest_tid, lead |-> TRUE, alone |-> TRUE,
             needed |-> FALSE, nmi |-> nmi_new_low, wake |-> NoTid]
    BY <1>1 DEF Verdicts
  <2> QED
    BY <2>1 DEF OnEnable
<1>2. CASE ~OnlyActive(t, active, inactive)
  <2>1. PICK low \in SearchForLowestWaiting(active, waiting \cup {t}, clock) :
            v = Verdict(t, waiting \cup {t}, low)
    BY <1>2 DEF Verdicts
  <2> QED
    BY <2>1 DEF Verdict, OnEnable
<1> QED
  BY <1>1, <1>2

(* A call that is one __determine_lowest_and_notify_or_wait.                 *)
LEMMA DetermineDecides ==
    ASSUME IInv, IInv', NInv, NEW t \in Threads, NEW next \in PC,
           next \in {"halting", "stopped", "spin", "asked"},
           pc[t] \in {"disabling", "stopping", "stopped", "coarse"},
           Determine(t, clock', next), \A u \in Threads \ {t} : clock'[u] = clock[u]
    PROVE  Decided(t)
<1> USE DEF group, list, entries, status, call
<1>1. /\ ThreadState(t) /\ TypeOK /\ TypeOK' /\ NoTid \notin Threads
  BY ThreadsAssumption DEF IInv, NoTid
<1>2. t \in active /\ t \notin Waking /\ t \notin sleeping /\ Doing(t) = pc[t]
  BY <1>1 DEF ThreadState, Doing, Waking
<1>3. PICK v \in Verdicts(t, active, inactive, clock') :
          Publish(t, v) /\ MarkEntry(t, v) /\ Continue(t, v.wake, next)
  BY DEF Determine
<1>4. Sound(t, active, clock', v)
  <2>1. clock' \in [Threads -> Nat]
    BY <1>1, MaxTicksAssumption DEF TypeOK
  <2> QED
    BY <1>2, <1>3, <2>1, ActiveVerdict
<1>5. /\ \A u \in Threads \ {t} : pc'[u] = pc[u] /\ ret'[u] = ret[u] /\ wakee'[u] = wakee[u]
      /\ IF v.wake = NoTid THEN pc'[t] = next
                           ELSE pc'[t] = "wake" /\ ret'[t] = next /\ wakee'[t] = v.wake
  BY <1>1, <1>3 DEF Continue, TypeOK
<1>6. Doing(t)' = next /\ ~Running(t)' /\ Doing(t)' \notin New /\ pc'[t] # "sleep"
  BY <1>5 DEF Doing, Waking, Running, New
<1>7. t \notin sleeping'
  BY <1>2, <1>3 DEF MarkEntry
<1>8. OthersKeep(t) /\ UNCHANGED <<poll_in, active, inactive>> /\ lock = NoTid
  BY <1>3, <1>5 DEF OthersKeep, Determine, MarkEntry
<1>9. /\ lowest_tid' = v.low /\ notification_needed' = v.needed /\ nmi_new_low' = v.nmi
      /\ single_active' = IF v.alone THEN single_active \cup {t} ELSE single_active
      /\ lowest_clock' = IF v.lead THEN lowest_clock \cup {t} ELSE lowest_clock \ {t}
  BY <1>3 DEF Publish
<1> QED
  BY <1>2, <1>4, <1>5, <1>6, <1>7, <1>8, <1>9 DEF Decided, Tells, Sound

LEMMA StartDecides ==
    ASSUME IInv, NInv, NEW t \in Threads, Start(t)
    PROVE  Decided(t)
<1> USE DEF group, list, entries, status, call
<1>1. ThreadState(t) /\ TypeOK /\ NoTid \notin Threads
  BY ThreadsAssumption DEF IInv, NoTid
<1>2. t \in active /\ t \notin Waking /\ pc[t] # "woken"
  BY <1>1 DEF Start, ThreadState, Doing, Waking
<1>3. PICK v \in Verdicts(t, active, inactive, clock) :
          Publish(t, OnEnable(t, v)) /\ Continue(t, v.wake, "run")
  BY DEF Start
<1>4. Sound(t, active, clock, v)
  <2>1. clock \in [Threads -> Nat]
    BY <1>1, MaxTicksAssumption DEF TypeOK
  <2> QED
    BY <1>2, <1>3, <2>1, ActiveVerdict
<1>5. /\ \A u \in Threads \ {t} : pc'[u] = pc[u] /\ ret'[u] = ret[u] /\ wakee'[u] = wakee[u]
      /\ IF v.wake = NoTid THEN pc'[t] = "run"
                           ELSE pc'[t] = "wake" /\ ret'[t] = "run" /\ wakee'[t] = v.wake
  BY <1>1, <1>3 DEF Continue, TypeOK
<1>6. Doing(t)' = "run" /\ pc'[t] # "sleep"
  BY <1>5 DEF Doing, Waking
<1>7. /\ t \notin sleeping' \cup waiting' /\ OthersKeep(t)
      /\ UNCHANGED <<poll_in, active, clock, lock>> /\ lock = NoTid
  BY <1>5 DEF Start, ClearEntryState, OthersKeep
<1>8. /\ lowest_tid' = v.low /\ (notification_needed' <=> v.needed \/ v.low = t)
      /\ nmi_new_low' <=> v.nmi /\ v.low # t
      /\ single_active' = IF v.alone THEN single_active \cup {t} ELSE single_active
      /\ lowest_clock' = IF v.lead THEN lowest_clock \cup {t} ELSE lowest_clock \ {t}
  BY <1>1, <1>3, EnableVerdict DEF Publish
<1> QED
  BY <1>1, <1>2, <1>4, <1>5, <1>6, <1>7, <1>8 DEF Decided, Tells, Sound, New

LEMMA HaltDecides ==
    ASSUME IInv, NInv, NEW t \in Threads, Halt(t)
    PROVE  Decided(t)
<1> USE DEF group, list, entries, status, call
<1>1. ThreadState(t) /\ TypeOK /\ NoTid \notin Threads
  BY ThreadsAssumption DEF IInv, NoTid
<1>2. t \in active /\ t \notin Waking /\ pc[t] # "woken" /\ t \notin sleeping
  BY <1>1 DEF Halt, ThreadState, Doing, Waking
<1>3. PICK v \in Verdicts(t, active', inactive', clock) :
          Publish(t, v) /\ Continue(t, v.wake, "idle")
  BY DEF Halt
<1>4. active' = active \ {t} /\ inactive' = inactive \cup {t} /\ waiting' = waiting \ {t}
  BY DEF Halt
<1>5. Sound(t, active', clock, v)
  <2>1. /\ clock \in [Threads -> Nat] /\ active' \in SUBSET active
        /\ t \notin active' /\ t \in inactive'
    BY <1>1, <1>4, MaxTicksAssumption DEF TypeOK
  <2> QED
    BY <1>3, <2>1, VerdictTells
<1>6. /\ \A u \in Threads \ {t} : pc'[u] = pc[u] /\ ret'[u] = ret[u] /\ wakee'[u] = wakee[u]
      /\ IF v.wake = NoTid THEN pc'[t] = "idle"
                           ELSE pc'[t] = "wake" /\ ret'[t] = "idle" /\ wakee'[t] = v.wake
  BY <1>1, <1>3 DEF Continue, TypeOK
<1>7. Doing(t)' = "idle" /\ pc'[t] # "sleep" /\ ~Running(t)'
  BY <1>6 DEF Doing, Waking, Running
<1>8. /\ OthersKeep(t) /\ UNCHANGED <<poll_in, clock, lock, sleeping>> /\ lock = NoTid
  BY <1>6 DEF Halt, OthersKeep
<1>9. /\ lowest_tid' = v.low /\ notification_needed' = v.needed /\ nmi_new_low' = v.nmi
      /\ single_active' = IF v.alone THEN single_active \cup {t} ELSE single_active
      /\ lowest_clock' = IF v.lead THEN lowest_clock \cup {t} ELSE lowest_clock \ {t}
  BY <1>3 DEF Publish
<1>10. lock' = NoTid /\ active' # {} /\ active' \subseteq sleeping'
       => /\ lowest_tid' \in active' \ {t}
          /\ Tells(t, lowest_tid') \/ (lowest_tid' = lowest_tid /\ ~notification_needed)
  <2>1. active' \subseteq sleeping' => active' \subseteq waiting
    BY <1>8 DEF NInv, SleepersHold
  <2>2. t \notin active' /\ NoTid \notin active'
    BY <1>1, <1>4 DEF TypeOK
  <2> QED
    BY <1>5, <1>6, <1>9, <2>1, <2>2 DEF Tells, Sound
<1> QED
  BY <1>2, <1>4, <1>5, <1>6, <1>7, <1>8, <1>9, <1>10 DEF Decided, Tells, Sound, New

LEMMA SleepDecides ==
    ASSUME IInv, NInv, NEW t \in Threads, Sleep(t)
    PROVE  Decided(t)
<1> USE DEF group, list, entries, status, call
<1>1. ThreadState(t) /\ TypeOK /\ NoTid \notin Threads
  BY ThreadsAssumption DEF IInv, NoTid
<1>2. t \in active /\ t \notin Waking /\ pc[t] = "sleep"
  BY <1>1 DEF Sleep, ThreadState, Doing, Waking
<1>3. PICK v \in Verdicts(t, active, inactive, clock) :
           /\ Publish(t, v)
           /\ waiting' = IF v.lead THEN waiting \ {t} ELSE waiting \cup {t}
           /\ sleeping' = IF v.lead THEN sleeping \ {t} ELSE sleeping \cup {t}
           /\ IF v.wake = NoTid /\ (active \cap initialized) \ inactive \subseteq sleeping'
              THEN lock' = t /\ UNCHANGED <<pc, call>>
              ELSE lock' = NoTid /\ Continue(t, v.wake, "check")
  BY DEF Sleep
<1>4. Sound(t, active, clock, v)
  <2>1. clock \in [Threads -> Nat]
    BY <1>1, MaxTicksAssumption DEF TypeOK
  <2> QED
    BY <1>2, <1>3, <2>1, ActiveVerdict
<1>5. (active \cap initialized) \ inactive = active
  BY DEF IInv, ActiveIsSearchable
<1>6. \A u \in Threads \ {t} : pc'[u] = pc[u] /\ ret'[u] = ret[u] /\ wakee'[u] = wakee[u]
  BY <1>1, <1>3 DEF Continue, TypeOK
<1>7. \/ /\ pc'[t] = "sleep" /\ lock' = t /\ v.wake = NoTid
      \/ /\ pc'[t] = "check" /\ v.wake = NoTid /\ ~(active \subseteq sleeping')
      \/ pc'[t] = "wake" /\ ret'[t] = "check" /\ wakee'[t] = v.wake /\ v.wake # NoTid
  BY <1>1, <1>2, <1>3, <1>5 DEF Continue, TypeOK
<1>8. Doing(t)' \in {"sleep", "check"} /\ ~Running(t)' /\ Doing(t)' \notin New
  BY <1>7 DEF Doing, Waking, Running, New
<1>9. /\ OthersKeep(t) /\ UNCHANGED <<poll_in, active, clock, inactive>>
      /\ lock \in {NoTid, t}
  BY <1>3, <1>6 DEF Sleep, OthersKeep
<1>10. /\ lowest_tid' = v.low /\ notification_needed' = v.needed /\ nmi_new_low' = v.nmi
       /\ single_active' = IF v.alone THEN single_active \cup {t} ELSE single_active
       /\ lowest_clock' = IF v.lead THEN lowest_clock \cup {t} ELSE lowest_clock \ {t}
  BY <1>3 DEF Publish
<1>11. /\ v.low = t => t \notin sleeping'
       /\ t \in sleeping' => t \in waiting'
  BY <1>3, <1>4 DEF Sound
<1>12. lock' = NoTid /\ active' \subseteq sleeping' => pc'[t] = "wake"
  BY <1>1, <1>3, <1>7, <1>9
<1>13. pc'[t] = "wake" => v.low \in active \ {t} /\ Tells(t, v.low)
  BY <1>1, <1>4, <1>7 DEF Sound, Tells
<1> QED
  BY <1>2, <1>4, <1>7, <1>8, <1>9, <1>10, <1>11, <1>12, <1>13 DEF Decided, Tells, Sound

LEMMA NotifyDecides ==
    ASSUME IInv, NInv, NEW t \in Threads, Notify(t)
    PROVE  Decided(t)
<1> USE DEF group, list, entries, status, call
<1>1. ThreadState(t) /\ TypeOK /\ NoTid \notin Threads
  BY ThreadsAssumption DEF IInv, NoTid
<1>2. t \in active /\ t \notin Waking /\ Running(t) /\ t \notin sleeping /\ Doing(t) = "notify"
  BY <1>1 DEF Notify, ThreadState, Doing, Waking, Running
<1>3. t \notin waiting
  BY <1>2 DEF NInv, RunningOwes
<1>4. PICK low \in SearchForLowestWaiting(active, waiting, clock), tell \in BOOLEAN :
           /\ tell <=> low \in waiting /\ (notification_needed \/ nmi_new_low)
           /\ lowest_tid' = IF low \in waiting THEN low ELSE lowest_tid
           /\ notification_needed' = (notification_needed /\ ~tell)
           /\ nmi_new_low' = (nmi_new_low /\ ~tell)
           /\ Continue(t, IF tell THEN low ELSE NoTid, "run")
  BY DEF Notify
<1>5. /\ low \in active \cup {NoTid}
      /\ low \in active => \A j \in active : ~ClockIsLower(clock, j, low)
  <2>1. clock \in [Threads -> Nat] /\ active \in SUBSET active
    BY <1>1, MaxTicksAssumption DEF TypeOK
  <2> QED
    BY <2>1, SearchLow
<1>6. low \in waiting => low \in active /\ low # t /\ low # NoTid
  BY <1>1, <1>3, <1>5 DEF TypeOK
<1>7. ASSUME low \in waiting, ~notification_needed, ~tell PROVE low = lowest_tid
  <2>1. lowest_tid # NoTid
    BY <1>2, <1>4, <1>7 DEF NInv, IrqTells
  <2>2. lowest_tid \in active
    BY <2>1 DEF IInv, LowestTidActive
  <2>3. ~ClockIsLower(clock, low, lowest_tid) /\ ~ClockIsLower(clock, lowest_tid, low)
    BY <1>5, <1>6, <1>7, <2>1, <2>2 DEF NInv, NoLowerWaiter
  <2>4. /\ clock[low] \in Int /\ clock[lowest_tid] \in Int
        /\ low \in Int /\ lowest_tid \in Int
    BY <1>1, <1>6, <1>7, <2>2, ThreadsAssumption DEF TypeOK
  <2> QED
    BY <2>3, <2>4 DEF ClockIsLower
<1>8. /\ \A u \in Threads \ {t} : pc'[u] = pc[u] /\ ret'[u] = ret[u] /\ wakee'[u] = wakee[u]
      /\ IF tell THEN pc'[t] = "wake" /\ ret'[t] = "run" /\ wakee'[t] = low
                 ELSE pc'[t] = "run"
  BY <1>1, <1>4, <1>6 DEF Continue, TypeOK
<1>9. Doing(t)' = "run" /\ Running(t)' /\ pc'[t] # "sleep"
  BY <1>8 DEF Doing, Waking, Running
<1>10. /\ OthersKeep(t) /\ lock = NoTid
       /\ UNCHANGED <<poll_in, active, clock, lock, inactive, waiting, sleeping, single_active,
                    lowest_clock>>
  BY <1>8 DEF Notify, OthersKeep
<1>11. ASSUME lowest_tid' # NoTid
       PROVE  /\ ~notification_needed'
                 => \/ Tells(t, lowest_tid') /\ lowest_tid' \in waiting \ {t}
                    \/ lowest_tid' = lowest_tid /\ ~notification_needed
              /\ \/ \A j \in active' : ~ClockIsLower(clock', j, lowest_tid')
                 \/ lowest_tid' = lowest_tid /\ (notification_needed => notification_needed')
  BY <1>1, <1>3, <1>4, <1>5, <1>6, <1>7, <1>8, <1>10, <1>11 DEF Tells, TypeOK
<1>12. ~notification_needed' /\ lowest_tid' = NoTid
       => ~notification_needed /\ lowest_tid = NoTid /\ (nmi_new_low => nmi_new_low')
  BY <1>1, <1>4, <1>6 DEF TypeOK
<1>13. lowest_tid' \in active' \cup {NoTid}
  BY <1>4, <1>5, <1>6, <1>10 DEF IInv, LowestTidActive
<1> QED
  BY <1>2, <1>3, <1>8, <1>9, <1>10, <1>11, <1>12, <1>13, <1>1 DEF Decided, New, Waking, Doing

(* Every step is of one of the kinds.                                        *)
LEMMA EveryStepHasAKind ==
    ASSUME IInv, IInv', NInv, NEW t \in Threads, Step(t)
    PROVE  KindOfStep(t)
<1> USE DEF KindOfStep
<1>1. CASE Membership(t)
  <2>1. CASE DisableDetermine(t)
    <3>1. Determine(t, clock', "halting") /\ pc[t] = "disabling" /\ clock' = clock
      BY <2>1 DEF DisableDetermine
    <3> QED
      BY <3>1, DetermineDecides DEF PC
  <2> QED
    BY <1>1, <2>1, HaltDecides, MembershipCalm DEF Membership
<1>2. CASE Counting(t)
  <2>1. CASE StopDetermine(t)
    <3>1. Determine(t, clock', "stopped") /\ pc[t] = "stopping" /\ clock' = clock
      BY <2>1 DEF StopDetermine
    <3> QED
      BY <3>1, DetermineDecides DEF PC
  <2>2. CASE AddTicks(t) \/ EndCoarse(t)
    <3>1. Determine(t, clock', "stopped") /\ pc[t] \in {"stopped", "coarse"}
      BY <2>2 DEF AddTicks, EndCoarse
    <3>2. \A u \in Threads \ {t} : clock'[u] = clock[u]
      BY <2>2 DEF AddTicks, EndCoarse, IInv, TypeOK
    <3> QED
      BY <3>1, <3>2, DetermineDecides DEF PC
  <2> QED
    BY <1>2, <2>1, <2>2, StartDecides, CountingCalm DEF Counting
<1>3. CASE Turn(t)
  <2>1. CASE Wait(t)
    <3>1. Determine(t, clock', "spin") /\ pc[t] = "stopped" /\ clock' = clock
      BY <2>1 DEF Wait
    <3> QED
      BY <3>1, DetermineDecides DEF PC
  <2>2. CASE IsLowest(t)
    <3>1. Determine(t, clock', "asked") /\ pc[t] = "stopped" /\ clock' = clock
      BY <2>2 DEF IsLowest
    <3> QED
      BY <3>1, DetermineDecides DEF PC
  <2> QED
    BY <1>3, <2>1, <2>2, SleepDecides, TurnCalm
<1>4. CASE Wake(t)
  BY <1>4, WakeCalm
<1>5. CASE Interrupt(t)
  BY <1>5, NotifyDecides, InterruptCalm
<1> QED
  BY <1>1, <1>2, <1>3, <1>4, <1>5 DEF Step

-----------------------------------------------------------------------------
(* The invariant survives a step of each kind. *)

LEMMA CalmKeeps ==
    ASSUME IInv, IInv', NInv, NEW t \in Threads, Calm(t)
    PROVE  NInv'
<1>0. /\ TypeOK /\ TypeOK' /\ NoTid \notin Threads /\ \A u \in Threads : ThreadState(u)
      /\ ActiveIsSearchable /\ LowestTidActive
  BY ThreadsAssumption DEF IInv, NoTid
<1> USE DEF Calm, OthersKeep
<1>1. \A u \in Threads \ {t} : /\ Doing(u)' = Doing(u) /\ (Running(u)' <=> Running(u))
                               /\ u \in Waking' <=> u \in Waking
                               /\ Dozing(u)' => Dozing(u)
  BY DEF Doing, Waking, Running, Dozing
<1>2. MainFirst'
  <2>1. Main \in Threads
    BY ThreadsAssumption
  <2>2. CASE t = Main
    BY <2>1, <2>2 DEF NInv, MainFirst
  <2>3. CASE t # Main
    BY <1>1, <2>1, <2>3 DEF NInv, MainFirst
  <2> QED
    BY <2>2, <2>3
<1>3. AloneTold'
  BY DEF NInv, AloneTold
<1>4. RunningOwes'
  BY <1>1 DEF NInv, RunningOwes
<1>5. NoLowerWaiter'
  <2> SUFFICES ASSUME ~notification_needed', lowest_tid # NoTid, NEW j \in active \cap waiting'
               PROVE  ~ClockIsLower(clock', j, lowest_tid)
    BY DEF NoLowerWaiter
  <2>1. j \in active \cap waiting /\ clock'[j] = clock[j] /\ ~notification_needed
    BY <1>0 DEF TypeOK
  <2>2. ~ClockIsLower(clock, j, lowest_tid)
    BY <2>1 DEF NInv, NoLowerWaiter
  <2>3. clock'[lowest_tid] <= clock[lowest_tid]
    <3>1. lowest_tid \in Threads
      BY <1>0 DEF TypeOK
    <3>2. CASE lowest_tid = t
      BY <2>1, <3>2 DEF NInv, RunningOwes
    <3>3. CASE lowest_tid # t
      BY <1>0, <3>1, <3>3 DEF TypeOK
    <3> QED
      BY <3>2, <3>3
  <2>4. /\ j \in Int /\ lowest_tid \in Int /\ clock[j] \in Int
        /\ clock[lowest_tid] \in Int /\ clock'[lowest_tid] \in Int
    BY <1>0, <2>1, ThreadsAssumption DEF TypeOK
  <2> QED
    BY <2>1, <2>2, <2>3, <2>4 DEF ClockIsLower
<1>6. IrqTells'
  BY <1>1 DEF NInv, IrqTells
<1>7. SleepersHold'
  BY <1>0 DEF NInv, SleepersHold, TypeOK
<1>8. LowestIsTold'
  <2> SUFFICES ASSUME lowest_tid \in Threads, Dozing(lowest_tid)', ~notification_needed'
               PROVE  \E u \in Threads : wakee'[u] = lowest_tid /\ pc'[u] \in {"wake", "wakepoll"}
    BY DEF LowestIsTold, Dozing
  <2>1. Dozing(lowest_tid) /\ ~notification_needed
    BY <1>1
  <2>2. PICK u \in Threads : wakee[u] = lowest_tid /\ pc[u] \in {"wake", "wakepoll"}
    BY <2>1 DEF NInv, LowestIsTold
  <2>3. CASE u = t
    BY <2>1, <2>2, <2>3 DEF Dozing
  <2>4. CASE u # t
    BY <2>2, <2>4
  <2> QED
    BY <2>3, <2>4
<1>9. SleepersRoused'
  <2> SUFFICES ASSUME active # {}, lock = NoTid, active \subseteq sleeping'
               PROVE  \E s \in active : Rousing(s)'
    BY DEF SleepersRoused
  <2>1. active \subseteq sleeping
    BY <1>0 DEF TypeOK
  <2>2. PICK s \in active : Rousing(s)
    BY <2>1 DEF NInv, SleepersRoused
  <2>3. s \in Threads /\ s \in sleeping'
    BY <1>0 DEF TypeOK
  <2>4. lowest_tid \in sleeping => lowest_tid \in sleeping'
    BY <1>0 DEF LowestTidActive, TypeOK
  <2>5. CASE s \in poll_in \/ pc[s] = "woken"
    BY <2>3, <2>5 DEF Rousing
  <2>6. ASSUME NEW u \in Threads, wakee[u] = s,
               pc[u] = "wakepoll" \/ (pc[u] = "wake" /\ lowest_tid \in sleeping)
        PROVE  Rousing(s)'
    <3>1. CASE u = t
      BY <2>6, <3>1 DEF Rousing
    <3>2. CASE u # t
      BY <2>4, <2>6, <3>2 DEF Rousing
    <3> QED
      BY <3>1, <3>2
  <2> QED
    BY <2>2, <2>5, <2>6 DEF Rousing
<1> QED
  BY <1>2, <1>3, <1>4, <1>5, <1>6, <1>7, <1>8, <1>9 DEF NInv

LEMMA DecidedKeeps ==
    ASSUME IInv, IInv', NInv, NEW t \in Threads, Decided(t)
    PROVE  NInv'
<1>0. /\ TypeOK /\ TypeOK' /\ NoTid \notin Threads /\ \A u \in Threads : ThreadState(u)
      /\ ActiveIsSearchable /\ LowestTidActive /\ LowestTidActive'
      /\ \A u \in Threads : ThreadState(u)'
  BY ThreadsAssumption DEF IInv, NoTid
<1> USE DEF Decided, OthersKeep
<1>1. \A u \in Threads \ {t} : /\ Doing(u)' = Doing(u) /\ (Running(u)' <=> Running(u))
                               /\ u \in Waking' <=> u \in Waking
                               /\ Dozing(u)' <=> Dozing(u)
  BY DEF Doing, Waking, Running, Dozing
<1>2. MainFirst'
  <2>1. Main \in Threads
    BY ThreadsAssumption
  <2>2. CASE t = Main
    BY <2>1, <2>2 DEF NInv, MainFirst
  <2>3. CASE t # Main
    BY <1>1, <2>1, <2>3 DEF NInv, MainFirst
  <2> QED
    BY <2>2, <2>3
<1>3. AloneTold'
  BY DEF NInv, AloneTold
<1>4. RunningOwes'
  BY <1>0, <1>1 DEF NInv, RunningOwes, TypeOK
<1>5. NoLowerWaiter'
  <2> SUFFICES ASSUME ~notification_needed', lowest_tid' # NoTid, NEW j \in active' \cap waiting'
               PROVE  ~ClockIsLower(clock', j, lowest_tid')
    BY DEF NoLowerWaiter
  <2> QED
    BY DEF NInv, NoLowerWaiter
<1>6. IrqTells'
  <2> SUFFICES ASSUME lowest_tid' = NoTid, ~notification_needed',
                      NEW u \in Threads, Doing(u)' \in {"irq", "notify"}
               PROVE  nmi_new_low'
    BY DEF IrqTells
  <2>1. u # t /\ Doing(u) \in {"irq", "notify"}
    BY <1>1
  <2>2. u \in active
    BY <1>0, <2>1 DEF ThreadState
  <2> QED
    BY <2>1, <2>2 DEF NInv, IrqTells
<1>7. SleepersHold'
  BY <1>0 DEF NInv, SleepersHold, TypeOK
<1>8. LowestIsTold'
  <2> SUFFICES ASSUME lowest_tid' \in Threads, Dozing(lowest_tid)', ~notification_needed'
               PROVE  \E u \in Threads : wakee'[u] = lowest_tid' /\ pc'[u] \in {"wake", "wakepoll"}
    BY DEF LowestIsTold
  <2>1. CASE Tells(t, lowest_tid')
    BY <2>1 DEF Tells
  <2>2. CASE lowest_tid' = lowest_tid /\ ~notification_needed /\ lowest_tid' # t
    <3>1. Dozing(lowest_tid)
      BY <1>1, <2>2
    <3>2. PICK u \in Threads : wakee[u] = lowest_tid /\ pc[u] \in {"wake", "wakepoll"}
      BY <2>2, <3>1 DEF NInv, LowestIsTold
    <3>3. u # t
      BY <3>2 DEF Waking
    <3> QED
      BY <2>2, <3>2, <3>3
  <2>3. CASE Running(t)' /\ lowest_tid' = t
    BY <1>0, <2>3 DEF Dozing, Running, ThreadState, Doing, Waking
  <2>4. CASE lowest_tid' = t /\ t \notin sleeping'
    BY <2>4 DEF Dozing
  <2>5. lowest_tid' # NoTid
    BY <1>0
  <2> QED
    BY <2>1, <2>2, <2>3, <2>4, <2>5
<1>9. SleepersRoused'
  <2> SUFFICES ASSUME active' # {}, lock' = NoTid, active' \subseteq sleeping'
               PROVE  \E s \in active' : Rousing(s)'
    BY DEF SleepersRoused
  <2>1. lowest_tid' \in active' \ {t} /\ lowest_tid' \in sleeping'
    OBVIOUS
  <2>2. CASE Tells(t, lowest_tid')
    BY <2>1, <2>2 DEF Tells, Rousing
  <2>3. CASE lowest_tid' = lowest_tid /\ ~notification_needed
    <3>1. lowest_tid \in Threads \ {t} /\ lowest_tid \in sleeping /\ ThreadState(lowest_tid)
      BY <1>0, <2>1, <2>3 DEF TypeOK
    <3>2. CASE pc[lowest_tid] = "woken" \/ lowest_tid \in poll_in
      BY <2>1, <2>3, <3>1, <3>2 DEF Rousing
    <3>3. CASE Dozing(lowest_tid)
      <4>1. PICK u \in Threads : wakee[u] = lowest_tid /\ pc[u] \in {"wake", "wakepoll"}
        BY <2>3, <3>1, <3>3 DEF NInv, LowestIsTold
      <4>2. u # t
        BY <4>1 DEF Waking
      <4> QED
        BY <2>1, <2>3, <4>1, <4>2 DEF Rousing
    <3>4. pc[lowest_tid] # "sleep"
      BY <1>0, <3>1 DEF NInv, SleepersHold
    <3> QED
      BY <3>1, <3>2, <3>3, <3>4 DEF ThreadState, Dozing
  <2> QED
    BY <2>2, <2>3
<1> QED
  BY <1>2, <1>3, <1>4, <1>5, <1>6, <1>7, <1>8, <1>9 DEF NInv

(* Only Main activates itself, and nobody is active before it.               *)
LEMMA ActivateKeeps ==
    ASSUME IInv, IInv', NInv, NoSelfActivation, NEW t \in Threads, Activate(t)
    PROVE  NInv'
<1>0. /\ TypeOK /\ TypeOK' /\ NoTid \notin Threads /\ \A u \in Threads : ThreadState(u)
      /\ ActiveIsSearchable /\ LowestTidActive
  BY ThreadsAssumption DEF IInv, NoTid
<1> USE DEF group, list, entries, status, call
<1>1. t = Main /\ t \notin active \cup inactive
  BY DEF Activate, NoSelfActivation
<1>2. active = {} /\ single_active = {} /\ lowest_tid = NoTid
  <2>1. active = {} /\ single_active = {}
    BY <1>1 DEF NInv, MainFirst
  <2> QED
    BY <1>0, <2>1 DEF LowestTidActive
<1>3. /\ active' = {t} /\ single_active' = {} /\ lowest_tid' = t
      /\ inactive' = inactive \ {t} /\ waiting' = waiting \ {t} /\ sleeping' = sleeping \ {t}
      /\ pc' = [pc EXCEPT ![t] = "stopped"] /\ UNCHANGED <<wakee, ret, lock, poll_in, clock>>
  BY <1>2 DEF Activate, MarkActive, ClearEntryState, ActivatedIsLowest
<1>4. Doing(t)' = "stopped" /\ \A u \in Threads \ {t} : Doing(u)' = Doing(u) /\ pc'[u] = pc[u]
  BY <1>0, <1>3 DEF Doing, Waking, TypeOK
<1>5. MainFirst' /\ AloneTold'
  BY <1>1, <1>3 DEF MainFirst, AloneTold
<1>6. RunningOwes'
  BY <1>3, <1>4 DEF RunningOwes, Running, NInv
<1>7. NoLowerWaiter' /\ IrqTells'
  BY <1>0, <1>3 DEF NoLowerWaiter, IrqTells
<1>8. SleepersHold'
  BY <1>0, <1>3, <1>4 DEF SleepersHold, NInv, TypeOK
<1>9. LowestIsTold' /\ SleepersRoused'
  BY <1>3 DEF LowestIsTold, SleepersRoused, Dozing
<1> QED
  BY <1>5, <1>6, <1>7, <1>8, <1>9 DEF NInv

(* A thread activated by another one is not asleep, nor named the lowest.    *)
LEMMA ActivateOtherKeeps ==
    ASSUME IInv, IInv', NInv, NEW t \in Threads, NEW id \in Threads, ActivateOther(t, id)
    PROVE  NInv'
<1>0. /\ TypeOK /\ TypeOK' /\ NoTid \notin Threads /\ \A u \in Threads : ThreadState(u)
      /\ ActiveIsSearchable /\ LowestTidActive
  BY ThreadsAssumption DEF IInv, NoTid
<1> USE DEF group, list, entries, status, call
<1>1. /\ t \in active /\ id \notin active /\ id # t /\ pc[t] = "turn"
      /\ active' = active \cup {id} /\ inactive' = inactive \ {id}
      /\ waiting' = waiting \ {id} /\ sleeping' = sleeping \ {id}
      /\ single_active' = single_active \ {t}
      /\ pc' = [pc EXCEPT ![t] = "activated"]
      /\ UNCHANGED <<wakee, ret, lock, poll_in, lowest_tid, notification_needed, nmi_new_low>>
      /\ \A u \in Threads \ {id} : clock'[u] = clock[u]
  BY <1>0 DEF ActivateOther, MarkActive, ClearEntryState, SingleCleared, TypeOK,
              ThreadState, Doing, Waking
<1>2. /\ Doing(t)' = "activated"
      /\ \A u \in Threads \ {t} : Doing(u)' = Doing(u) /\ pc'[u] = pc[u]
      /\ Waking' = Waking
  BY <1>0, <1>1 DEF Doing, Waking, TypeOK
<1>3. MainFirst'
  BY <1>1, <1>2, ThreadsAssumption DEF MainFirst, NInv, New
<1>4. AloneTold'
  BY <1>1 DEF AloneTold, NInv
<1>5. RunningOwes'
  BY <1>1, <1>2 DEF RunningOwes, Running, NInv
<1>6. NoLowerWaiter'
  <2> SUFFICES ASSUME ~notification_needed, lowest_tid # NoTid, NEW j \in active' \cap waiting'
               PROVE  ~ClockIsLower(clock', j, lowest_tid)
    BY <1>1 DEF NoLowerWaiter
  <2>1. j \in active \cap waiting /\ clock'[j] = clock[j]
    BY <1>0, <1>1 DEF TypeOK
  <2>2. clock'[lowest_tid] = clock[lowest_tid]
    BY <1>0, <1>1 DEF LowestTidActive, TypeOK
  <2> QED
    BY <2>1, <2>2 DEF NoLowerWaiter, NInv, ClockIsLower
<1>7. IrqTells'
  BY <1>1, <1>2 DEF IrqTells, NInv
<1>8. SleepersHold'
  BY <1>0, <1>1, <1>2 DEF SleepersHold, NInv, TypeOK
<1>9. LowestIsTold'
  <2> SUFFICES ASSUME lowest_tid \in Threads, Dozing(lowest_tid)', ~notification_needed
               PROVE  \E u \in Threads : wakee'[u] = lowest_tid /\ pc'[u] \in {"wake", "wakepoll"}
    BY <1>1 DEF LowestIsTold, Dozing
  <2>1. Dozing(lowest_tid)
    BY <1>1, <1>2 DEF Dozing, Waking
  <2>2. PICK u \in Threads : wakee[u] = lowest_tid /\ pc[u] \in {"wake", "wakepoll"}
    BY <2>1 DEF NInv, LowestIsTold
  <2> QED
    BY <1>1, <1>2, <2>2
<1>10. SleepersRoused'
  BY <1>1 DEF SleepersRoused
<1> QED
  BY <1>3, <1>4, <1>5, <1>6, <1>7, <1>8, <1>9, <1>10 DEF NInv

LEMMA NInvInit == Init => NInv
<1> SUFFICES ASSUME Init PROVE NInv
  OBVIOUS
<1> USE DEF Init
<1>1. \A t \in Threads : Doing(t) = "off"
  BY DEF Doing, Waking
<1> QED
  BY <1>1 DEF NInv, MainFirst, AloneTold, RunningOwes, Running, NoLowerWaiter, IrqTells,
              SleepersHold, LowestIsTold, SleepersRoused

LEMMA NInvStep ==
    ASSUME NoSelfActivation
    PROVE  IInv /\ IInv' /\ NInv /\ [Next]_vars => NInv'
<1> SUFFICES ASSUME IInv, IInv', NInv, [Next]_vars PROVE NInv'
  OBVIOUS
<1>1. ASSUME NEW t \in Threads, Step(t) PROVE NInv'
  <2>1. KindOfStep(t)
    BY <1>1, EveryStepHasAKind
  <2> QED
    BY <2>1, CalmKeeps, DecidedKeeps, ActivateKeeps, ActivateOtherKeeps DEF KindOfStep
<1>2. CASE UNCHANGED vars
  <2> USE <1>2 DEF vars, group, list, entries, status, call
  <2>1. \A t \in Threads : /\ Doing(t)' = Doing(t) /\ (Running(t)' <=> Running(t))
                           /\ Dozing(t)' <=> Dozing(t)
                           /\ Rousing(t)' <=> Rousing(t)
    BY DEF Doing, Waking, Running, Dozing, Rousing
  <2>2. MainFirst' /\ AloneTold' /\ RunningOwes' /\ NoLowerWaiter' /\ IrqTells' /\ SleepersHold'
    BY <2>1, ThreadsAssumption
       DEF NInv, MainFirst, AloneTold, RunningOwes, NoLowerWaiter, IrqTells, SleepersHold
  <2>3. LowestIsTold' /\ SleepersRoused'
    BY <2>1 DEF NInv, LowestIsTold, SleepersRoused, IInv, TypeOK
  <2> QED
    BY <2>2, <2>3 DEF NInv
<1> QED
  BY <1>1, <1>2 DEF Next

-----------------------------------------------------------------------------
(* The theorems. *)

THEOREM NotifyInvariance ==
    ASSUME NoSelfActivation
    PROVE  Spec => [](IInv /\ NInv)
BY IInvInit, IInvStep, NInvInit, NInvStep, PTL DEF Spec

(* No notification is lost: when a thread that blocks in poll() is the one   *)
(* named the lowest, __determine_lowest_and_notify_or_wait and the irq work  *)
(* have told it, or still will.                                              *)
THEOREM NotificationNeverLost ==
    ASSUME NoSelfActivation
    PROVE  Spec => []NotificationInFlight
<1>1. IInv /\ NInv => NotificationInFlight
  <2> SUFFICES ASSUME IInv, NInv, lowest_tid \in Blocked \cap waiting, ~notification_needed
               PROVE  Waking # {}
    BY DEF NotificationInFlight
  <2>1. lowest_tid \in Threads /\ Dozing(lowest_tid)
    BY DEF Blocked, Dozing, IInv, ThreadState, Doing, Waking
  <2> QED
    BY <2>1 DEF NInv, LowestIsTold, Waking
<1> QED
  BY <1>1, NotifyInvariance, PTL

(* A group never falls asleep: while the lock is free, its threads are never *)
(* all blocked in poll() with no wake-up on its way.                         *)
THEOREM SomeoneAlwaysAwake ==
    ASSUME NoSelfActivation
    PROVE  Spec => []SomeoneAwake
<1>1. IInv /\ NInv => SomeoneAwake
  <2> SUFFICES ASSUME IInv, NInv, active # {}, lock = NoTid, active \subseteq Blocked
               PROVE  Waking # {}
    BY DEF SomeoneAwake
  <2>1. active \subseteq sleeping
    BY DEF Blocked, IInv, ThreadState, Doing, Waking
  <2>2. PICK s \in active : Rousing(s)
    BY <2>1 DEF NInv, SleepersRoused
  <2> QED
    BY <2>2 DEF Rousing, Blocked, Waking
<1> QED
  BY <1>1, NotifyInvariance, PTL

(* A thread whose page says that it is the only one is the only one: the     *)
(* flag is cleared by whoever activates another thread, before it does.      *)
THEOREM SingleAlwaysAlone ==
    ASSUME NoSelfActivation
    PROVE  Spec => []SingleActiveIsAlone
<1>1. IInv /\ NInv => SingleActiveIsAlone
  BY DEF NInv, AloneTold, SingleActiveIsAlone
<1> QED
  BY <1>1, NotifyInvariance, PTL

(* A flag raised under the lock goes to a thread that has the lowest clock   *)
(* of all active threads at that moment, whoever halted or came back.        *)
THEOREM FlagGoesToLowest ==
    ASSUME NoSelfActivation
    PROVE  Spec => FlagRaisedForLowest
<1> DEFINE Flag == (\A u \in Threads : pc[u] = "wakeflag" => pc'[u] = "wakeflag")
                   => \A t \in lowest_clock' \ lowest_clock : IsLowestActive(t)'
<1>1. ASSUME IInv, IInv', NInv, NEW s \in Threads, Step(s) PROVE Flag
  <2>1. KindOfStep(s)
    BY <1>1, EveryStepHasAKind
  <2>2. CASE Calm(s)
    BY <2>2 DEF Calm
  <2>3. CASE Decided(s)
    BY <2>3 DEF Decided, IsLowestActive
  <2>4. CASE Activate(s)
    <3>1. s = Main /\ s \notin active \cup inactive
      BY <2>4 DEF Activate, NoSelfActivation, entries, list
    <3>2. active' = {s} /\ lowest_clock' \subseteq lowest_clock \cup {s}
      BY <1>1, <2>4, <3>1 DEF Activate, MarkActive, NInv, MainFirst, entries, list
    <3> QED
      BY <3>2, <1>1, ThreadsAssumption DEF IsLowestActive, ClockIsLower, IInv, TypeOK
  <2>5. ASSUME NEW id \in Threads, ActivateOther(s, id) PROVE Flag
    BY <2>5 DEF ActivateOther
  <2> QED
    BY <2>1, <2>2, <2>3, <2>4, <2>5 DEF KindOfStep
<1>2. IInv /\ IInv' /\ NInv /\ [Next]_vars
      => [(\A u \in Threads : pc[u] = "wakeflag" => pc'[u] = "wakeflag")
          => \A t \in lowest_clock' \ lowest_clock : IsLowestActive(t)']_vars
  BY <1>1 DEF Next
<1> QED
  BY <1>2, NotifyInvariance, PTL DEF Spec, FlagRaisedForLowest

-----------------------------------------------------------------------------
(* Groups that threads do not leave.  A thread that halts and is activated   *)
(* again brings an old clock, which may be lower than that of the thread     *)
(* waiting at the head of the group.                                         *)
Steady == Ops \cap {"activate", "halt", "reset", "spawn_early"} = {}

(* A thread other than Main begins its life by being activated, and none     *)
(* ends it.                                                                  *)
BornActive ==
    /\ inactive = {}
    /\ \A t \in Threads \ {Main} : t \notin active => t \notin initialized /\ Doing(t) = "off"
    /\ \A t \in active : Doing(t) # "initzero"
    /\ \A t \in Threads : Doing(t) \notin {"disabling", "halting"}

(* Most steps are taken by a thread past its init and concern nobody's birth. *)
LEMMA BornActiveKept ==
    ASSUME IInv, BornActive, NEW t \in Threads, UNCHANGED <<active, initialized>>,
           inactive' \subseteq inactive,
           \A u \in Threads \ {t} : pc'[u] = pc[u] /\ ret'[u] = ret[u],
           t \in active, Doing(t)' \notin {"initzero", "disabling", "halting"}
    PROVE  BornActive'
BY DEF BornActive, Doing, Waking, IInv, TypeOK

LEMMA BornActiveStep ==
    ASSUME Steady, IInv, IInv', NInv, BornActive, NEW t \in Threads, Step(t)
    PROVE  BornActive'
<1> USE DEF group, list, entries, status, call
<1>0. /\ pc \in [Threads -> PC] /\ ret \in [Threads -> PC] /\ wakee \in [Threads -> Threads \cup {NoTid}]
      /\ ThreadState(t) /\ active \subseteq initialized /\ active \subseteq Threads
      /\ TypeOK /\ LowestTidActive
  BY DEF IInv, TypeOK, ActiveIsSearchable
<1>1. "activate" \notin Ops /\ "halt" \notin Ops /\ "reset" \notin Ops /\ "spawn_early" \notin Ops
  BY DEF Steady
<1>2. Doing(t) \notin {"disabling", "halting"} /\ (t \in active => Doing(t) # "initzero")
  BY DEF BornActive
<1>3. pc[t] \notin {"off", "init", "initzero", "idle"} /\ t \notin Waking => t \in active
  BY <1>0 DEF ThreadState, Doing
<1>4. CASE Membership(t)
  <2>1. CASE EntryTest(t)
    <3>1. t = Main \/ t \in active
      BY <1>1, <2>1 DEF EntryTest
    <3> QED
      BY <1>0, <2>1, <3>1 DEF EntryTest, BornActive, Doing, Waking
  <2>2. CASE EntryInit(t)
    <3>1. t = Main \/ t \in active
      BY <2>2 DEF EntryInit, BornActive, Doing, Waking
    <3> QED
      BY <1>0, <2>2, <3>1 DEF EntryInit, ClearEntryState, BornActive, Doing, Waking
  <2>3. CASE Activate(t)
    BY <1>0, <1>1, <2>3 DEF Activate, MarkActive, ClearEntryState, BornActive, Doing, Waking
  <2>4. CASE Resume(t)
    BY <1>0, <2>4 DEF Resume, BornActive, Doing, Waking
  <2>5. CASE ActivateOtherReturn(t)
    BY <1>0, <2>5 DEF ActivateOtherReturn, BornActive, Doing, Waking
  <2>6. ASSUME NEW id \in Threads, ActivateOther(t, id) PROVE BornActive'
    <3>1. id # Main
      BY <1>0, <2>6 DEF ActivateOther, NInv, MainFirst, BornActive, ThreadState, Doing, Waking
    <3>2. Doing(id) = "off"
      BY <2>6, <3>1 DEF ActivateOther, BornActive
    <3> QED
      BY <1>0, <2>6, <3>1, <3>2
         DEF ActivateOther, MarkActive, ClearEntryState, BornActive, Doing, Waking
  <2>7. ~Reset(t) /\ ~Disable(t) /\ ~DisableDetermine(t) /\ ~Halt(t)
    BY <1>1, <1>2 DEF Reset, Disable, DisableDetermine, Halt, Doing, Waking
  <2> QED
    BY <1>4, <2>1, <2>2, <2>3, <2>4, <2>5, <2>6, <2>7 DEF Membership
<1>5. ASSUME NEW cl, NEW next \in {"stopped", "spin", "asked"}, Determine(t, cl, next), t \in active
      PROVE  BornActive'
  <2>1. /\ \A u \in Threads \ {t} : pc'[u] = pc[u] /\ ret'[u] = ret[u]
        /\ \/ pc'[t] = next
           \/ pc'[t] = "wake" /\ ret'[t] = next /\ wakee'[t] \in Threads
    <3>1. next \in PC /\ next \notin {"wake", "wakepoll", "wakeflag"}
      BY <1>5 DEF PC
    <3> QED
      BY <1>0, <1>5, <3>1, DetermineState
  <2>2. Doing(t)' = next
    BY <2>1, <1>5 DEF Doing, Waking
  <2> QED
    BY <1>5, <2>1, <2>2, BornActiveKept DEF Determine
<1>6. CASE Counting(t)
  <2>1. CASE Start(t) \/ Stop(t) \/ StartCoarse(t) \/ EndCoarseEmpty(t)
    <3>1. /\ \A u \in Threads \ {t} : pc'[u] = pc[u] /\ ret'[u] = ret[u]
          /\ t \in active /\ UNCHANGED <<active, initialized>> /\ inactive' \subseteq inactive
      BY <1>0, <1>3, <2>1
         DEF Start, Stop, StartCoarse, EndCoarseEmpty, Continue, ClearEntryState, Waking
    <3>2. Doing(t)' \in {"run", "stopping", "coarse", "stopped"}
      BY <1>0, <2>1 DEF Start, Stop, StartCoarse, EndCoarseEmpty, Continue, Doing, Waking
    <3> QED
      BY <3>1, <3>2, BornActiveKept
  <2>2. CASE StopDetermine(t) \/ AddTicks(t) \/ EndCoarse(t)
    <3>1. t \in active
      BY <1>3, <2>2 DEF StopDetermine, AddTicks, EndCoarse, Waking
    <3> QED
      BY <1>5, <2>2, <3>1 DEF StopDetermine, AddTicks, EndCoarse
  <2> QED
    BY <1>6, <2>1, <2>2 DEF Counting
<1>7. CASE Turn(t)
  <2>1. CASE Wait(t) \/ IsLowest(t)
    <3>1. t \in active
      BY <1>3, <2>1 DEF Wait, IsLowest, Waking
    <3> QED
      BY <1>5, <2>1, <3>1 DEF Wait, IsLowest
  <2>2. CASE SpinSeen(t) \/ SpinOut(t) \/ CheckFlag(t) \/ Poll(t) \/ PollInterrupted(t)
             \/ IsLowestAgain(t) \/ Asked(t)
    <3>1. /\ \A u \in Threads \ {t} : pc'[u] = pc[u] /\ ret'[u] = ret[u]
          /\ t \in active /\ UNCHANGED <<active, initialized, inactive>>
          /\ pc'[t] \in {"woken", "sleep", "poll", "asked", "wokenlib", "stopped"}
      BY <1>0, <1>3, <2>2 DEF SpinSeen, SpinOut, CheckFlag, Poll, PollInterrupted, IsLowestAgain,
                              Asked, Move, Waking
    <3> QED
      BY <3>1, BornActiveKept DEF Doing, Waking
  <2>3. CASE Sleep(t)
    <3>1. /\ \A u \in Threads \ {t} : pc'[u] = pc[u] /\ ret'[u] = ret[u]
          /\ t \in active /\ UNCHANGED <<active, initialized, inactive>>
      BY <1>0, <1>3, <2>3 DEF Sleep, Continue, Waking
    <3>2. Doing(t)' \in {"sleep", "check"}
      BY <1>0, <2>3 DEF Sleep, Continue, Doing, Waking
    <3> QED
      BY <3>1, <3>2, BornActiveKept
  <2>4. CASE Woken(t) \/ TakeTurn(t) \/ OnWakeup(t) \/ ClearSingleActive(t)
    <3>1. /\ \A u \in Threads \ {t} : pc'[u] = pc[u] /\ ret'[u] = ret[u]
          /\ t \in active /\ UNCHANGED <<active, initialized, inactive>>
          /\ pc'[t] \in {"wokenlib", "turn", "stopped"}
      BY <1>0, <1>3, <2>4 DEF Woken, TakeTurn, WokeUp, OnWakeup, ClearSingleActive, Waking
    <3> QED
      BY <3>1, BornActiveKept DEF Doing, Waking
  <2> QED
    BY <1>7, <2>1, <2>2, <2>3, <2>4 DEF Turn
<1>8. CASE Wake(t)
  <2>1. /\ \A u \in Threads \ {t} : pc'[u] = pc[u] /\ ret'[u] = ret[u]
        /\ UNCHANGED <<active, initialized, inactive>>
    BY <1>0, <1>8 DEF Wake, WakeTest, WakePoll, WakeFlag, WakeReturn
  <2>2. Doing(t)' = Doing(t)
    BY <1>0, <1>8 DEF Wake, WakeTest, WakePoll, WakeFlag, WakeReturn, ThreadState, Doing, Waking
  <2> QED
    BY <2>1, <2>2 DEF BornActive, Doing, Waking, IInv, TypeOK
<1>9. CASE Interrupt(t)
  <2>1. /\ \A u \in Threads \ {t} : pc'[u] = pc[u] /\ ret'[u] = ret[u]
        /\ t \in active /\ UNCHANGED <<active, initialized, inactive>>
    BY <1>0, <1>3, <1>9 DEF Interrupt, Overflow, NmiCheck, NmiSet, Irq, Notify, Continue, Waking
  <2>2. Doing(t)' \in {"nmi", "nmiset", "run", "irq", "notify"}
    BY <1>0, <1>9 DEF Interrupt, Overflow, NmiCheck, NmiSet, Irq, Notify, Continue, Doing, Waking
  <2> QED
    BY <2>1, <2>2, BornActiveKept
<1> QED
  BY <1>4, <1>6, <1>7, <1>8, <1>9 DEF Step

LEMMA WaitingLowestStep ==
    ASSUME Steady, IInv, IInv', NInv, BornActive, NEW t \in Threads, Step(t),
           WaitingLowestIsLowest
    PROVE  WaitingLowestIsLowest'
<1>0. /\ TypeOK /\ TypeOK' /\ NoTid \notin Threads /\ ThreadState(t)
      /\ LowestTidActive /\ active \subseteq Threads
  BY ThreadsAssumption DEF IInv, TypeOK, NoTid
<1> SUFFICES ASSUME lowest_tid' \in waiting', NEW j \in active'
             PROVE  ~ClockIsLower(clock', j, lowest_tid')
  BY DEF WaitingLowestIsLowest, IsLowestActive
<1>1. lowest_tid \in waiting => \A i \in active : ~ClockIsLower(clock, i, lowest_tid)
  BY DEF WaitingLowestIsLowest, IsLowestActive
<1>2. lowest_tid' \in Threads /\ j \in Threads
  BY <1>0 DEF TypeOK
<1>3. CASE Calm(t)
  <2>1. lowest_tid' = lowest_tid /\ j \in active
    BY <1>3 DEF Calm
  <2>2. lowest_tid \in waiting /\ clock'[lowest_tid] = clock[lowest_tid]
    BY <1>2, <1>3, <2>1 DEF Calm, OthersKeep
  <2>3. pc[j] # "initzero"
    BY <2>1 DEF BornActive, Doing, Waking
  <2>4. clock'[j] >= clock[j]
    BY <2>1, <2>3, ClocksGrow
  <2>5. ~ClockIsLower(clock, j, lowest_tid)
    BY <1>1, <2>1, <2>2
  <2>6. /\ j \in Int /\ lowest_tid \in Int /\ clock[j] \in Int
        /\ clock'[j] \in Int /\ clock[lowest_tid] \in Int
    BY <1>0, <1>2, <2>1, ThreadsAssumption DEF TypeOK
  <2> QED
    BY <2>1, <2>2, <2>4, <2>5, <2>6 DEF ClockIsLower
<1>4. CASE Decided(t)
  BY <1>0, <1>1, <1>2, <1>4 DEF Decided
<1>5. CASE Activate(t)
  <2>1. t = Main /\ t \notin active \cup inactive
    BY <1>5 DEF Activate, Steady, entries, list
  <2>2. lowest_tid = NoTid
    BY <1>0, <2>1 DEF NInv, MainFirst, LowestTidActive
  <2>3. lowest_tid' \in {t, NoTid} /\ t \notin waiting'
    BY <1>5, <2>2 DEF Activate, MarkActive, ClearEntryState
  <2> QED
    BY <1>0, <1>2, <2>3
<1>6. ASSUME NEW id \in Threads, ActivateOther(t, id)
      PROVE  ~ClockIsLower(clock', j, lowest_tid')
  <2>1. /\ t \in active /\ id \notin active /\ id # t
        /\ active' = active \cup {id} /\ waiting' = waiting \ {id} /\ lowest_tid' = lowest_tid
        /\ \A u \in Threads \ {id} : clock'[u] = clock[u]
    BY <1>0, <1>6 DEF ActivateOther, MarkActive, ClearEntryState, TypeOK, group,
                      ThreadState, Doing, Waking
  <2>2. lowest_tid \in waiting /\ clock'[lowest_tid] = clock[lowest_tid]
    BY <1>2, <2>1
  <2>3. CASE j = id
    <3>1. id \notin initialized
      BY <2>1 DEF NInv, MainFirst, BornActive
    <3>2. clock'[id] = clock[t] + 1
      BY <1>0, <1>6, <3>1 DEF ActivateOther, TypeOK
    <3>3. ~ClockIsLower(clock, t, lowest_tid)
      BY <1>1, <2>1, <2>2
    <3>4. clock[t] \in Int /\ clock[lowest_tid] \in Int
      BY <1>0, <1>2, <2>1 DEF TypeOK
    <3> QED
      BY <2>1, <2>2, <2>3, <3>2, <3>3, <3>4 DEF ClockIsLower
  <2>4. CASE j # id
    BY <1>1, <1>2, <2>1, <2>2, <2>4 DEF ClockIsLower
  <2> QED
    BY <2>3, <2>4
<1> QED
  BY <1>3, <1>4, <1>5, <1>6, EveryStepHasAKind DEF KindOfStep

(* A waiting thread named the lowest has the lowest clock of all active      *)
(* threads, however the clocks of the others moved since: a named thread's   *)
(* clock stands still, those of the others grow, and a new thread starts     *)
(* above its parent.                                                         *)
THEOREM WaitingLowestAlwaysLowest ==
    ASSUME Steady
    PROVE  Spec => []WaitingLowestIsLowest
<1>1. NoSelfActivation
  BY DEF Steady, NoSelfActivation
<1>2. Init => BornActive /\ WaitingLowestIsLowest
  BY DEF Init, BornActive, Doing, Waking, WaitingLowestIsLowest
<1>3. IInv /\ IInv' /\ NInv /\ BornActive /\ WaitingLowestIsLowest /\ [Next]_vars
      => BornActive' /\ WaitingLowestIsLowest'
  <2> SUFFICES ASSUME IInv, IInv', NInv, BornActive, WaitingLowestIsLowest, [Next]_vars
               PROVE  BornActive' /\ WaitingLowestIsLowest'
    OBVIOUS
  <2>1. ASSUME NEW t \in Threads, Step(t) PROVE BornActive' /\ WaitingLowestIsLowest'
    BY <2>1, BornActiveStep, WaitingLowestStep
  <2>2. CASE UNCHANGED vars
    BY <2>2 DEF vars, group, list, entries, status, call, BornActive, Doing, Waking,
                WaitingLowestIsLowest, IsLowestActive, ClockIsLower
  <2> QED
    BY <2>1, <2>2 DEF Next
<1>4. Spec => [](IInv /\ NInv)
  BY <1>1, NotifyInvariance
<1> QED
  BY <1>2, <1>3, <1>4, PTL DEF Spec
=============================================================================
