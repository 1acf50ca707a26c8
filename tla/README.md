# TaskClock: TLA+ models, model checking and proofs

TaskClock gives every thread of a program a *logical clock* that counts the
instructions it retires, and grants a *turn* to one thread at a time: the one
with the lowest clock (ties go to the lower tid). A runtime that lets threads
synchronise only in their turns is deterministic. The program is a kernel module
(`src/src/module`), called by a patched kernel through a table of callbacks, and
a library (`src/src/lib`) that the application links.

## 1. The system

| component | state | operations |
|---|---|---|
| turn arbitration (`clock_main.c`) | `lowest_tid`, `notification_needed`, `nmi_new_low`, `pending_work`, the group lock; per thread `initialized`, `inactive`, `waiting`, `sleeping`, `ticks`, `base_ticks`, `count_ticks` | init, activate, activate_other, halt, reset, start, stop, on_enable, on_disable, add_ticks, wait, sleep, woke_up, overflow handler, irq work |
| search for the lowest (`search_entries.h`) | none | four searches over the listed entries, or over every slot when called from an NMI |
| list of active threads (`listarray.h`) | `prev`/`next` arrays, head, tail, count, `max_index` | insert, remove, in_list, two iterations |
| instruction counting (`logical_clock_instruction_counting.h`) | the hardware counter, `prev_count`, `period_left`, `sample_period`, `event->count` | read and update, reset, set, set to the maximum, take over at an overflow, choose a period |
| bounded fence (`bounded_tso.c`, `.h`; option `USE_BOUNDED_FENCE`) | `chunk_ticks`, `count_ticks`, the trap flag, `hit_bounded_fence` | begin, single step, early end |
| library (`determ_clock.c`, `.h`) | `disabled`, the coarsened tick counter, the shared `user_status` pages | the calls an application makes, among them `is_lowest_wait`, which spins on `lowest_clock`, then sleeps in `poll()` |
| perf counter wrapper (`perf_counter.c`) | the event's file descriptor | open, enable, disable |
| transaction estimator (`tx_estimate.h`) | ring of ten observations and an average | add an observation, guess |
| debug ring buffer, `debug_clock_cache.c`, module registration, `tests/simple.c` | debugging and start-up | |

**How they interact.** The library enters the module by `ioctl`/system call; the
module answers through the shared `user_status` page (`lowest_clock`,
`activated_lowest`, `single_active_thread`, `ticks`, `hit_bounded_fence`) and by
ending a `poll()`, which a signal may end as well. Most calls run
`__determine_lowest_and_notify_or_wait` under the group lock, which marks the
caller waiting, searches for the lowest clock, names it in `lowest_tid`, and
decides whether the caller leads or some other waiting thread is to be woken.
The wake-up itself comes *after* the unlock. A thread that only computes is
overtaken silently; its overflow NMI notices this without any lock and queues irq
work that notifies the waiting thread.

**What is hard here.** The wake-up outside the lock, the lock-free NMI handler,
flags that are written by one thread and consumed by another in user space, the
choice between a flag and `POLL_IN`, threads that enter and leave the group while
others search it, and counters read and reset while an overflow may arrive at any
instruction. `PROJECT.json` lists these hazards with their lines.

**What correctness means for each component.**
- *Turns*: a waiting thread is visible to every search; the thread that is named
  or flagged has the lowest clock; no notification is lost; every waiter gets its
  turn; clocks never go back.
- *List*: it behaves as a set, and an unlocked scan up to `max_index` misses no
  listed thread.
- *Clock*: a tick for every instruction retired while counting, and none besides.
- *Fence*: a chunk is cut after exactly `BOUNDED_CHUNK_SIZE` instructions, and its
  next overflow is never further away than the fence.
- *Estimator*: the size recorded for a block is the number of its instructions, and a
  guess covers the mean of what the same identifier observed last.

## 2. Modules

| module | what it is |
|---|---|
| `ListArray` / `ActiveSet` | `listarray.h`, and the set of tids it promises to be |
| `ListArrayProof` | the list as a sequence, and the refinement |
| `TaskClock` | turn arbitration, the searches, the entry flags and the library's calls, for any number of threads |
| `TaskClockLive` | the same with a finite program and fairness |
| `MCTaskClock`, `MCTaskClockLive` | instances for TLC |
| `TaskClockProof` | the inductive invariant of `TaskClock` and the theorems about the flags |
| `TaskClockNotify` | on top of it: notifications, and who is named or flagged |
| `LogicalClock` | one thread's counter, its perf event, and coarsened transactions |
| `Transactions` | `LogicalClock` with what the library sees of it: the published clock and the size of every block |
| `TxEstimate`, `MCTxEstimate` | the estimator that is fed with these sizes, and its instance for TLC |
| `BoundedFence` | one thread's chunks under the bounded fence, with the adaptive overflow period |
| `BoundedFenceProof` | its inductive invariant and theorems |
| `LogicalClockProof`, `TransactionsProof` | the same for the counter and the blocks |
| `TxEstimateProof` | sums, the ring, and the guesses |
| `NatFacts` | facts about remainders, quotients and least numbers that the proofs share |

### ListArray
The arrays are functions from slots, `head`, `tail`, `count` and `max_index` are
variables. `Insert` and `Remove` are the two operations under the code's own
checks; the four cases of the removal are separate operators. `Walk` is the
iteration `listarray_foreach`; `At` is its index after each step, a recursive function.

### TaskClock
The entry flags are sets of tids; `clock[t]` is `ticks + base_ticks`; `pc[t]` says
where a thread is. **A section under the group lock is one action**; everything
outside it is an action of its own:
- `__wake_up_waiting_thread` is `WakeTest` (is the lowest sleeping?), then
  `WakePoll` or `WakeFlag`, then `WakeReturn`. The code reads `lowest_tid` twice;
  the model, like an optimising build, may read it once, and that is enough for
  the findings below;
- `determ_task_clock_is_lowest_wait` is `Wait`, `SpinSeen` / `SpinOut`, `Sleep`,
  `CheckFlag`, `Poll`, `WokeUp`, `Woken`, `TakeTurn`. The bounded spin is a choice:
  the flag is seen, or the spin ends while it is down;
- `on_disable`, `halt` and `stop` write `notification_needed` or the counter
  before they take the lock, so each has two actions;
- `determ_task_clock_init_with_id` is `EntryTest` (up to the test of `initialized`,
  which takes no lock) and `EntryInit` (the rest, which zeroes the clock if the test
  said so); a parent's `ActivateOther` may come between them;
- `PollInterrupted` is a signal during `poll()`: the library ignores the result and
  goes on as if it had the turn. `OnWakeup` and `ClearSingleActive` are the two calls
  by which an application resets flags of its own status page;
- an overflow is `Overflow` (ticks are taken over), `NmiCheck` (the unlocked scan
  and the test of `nmi_new_low`), `NmiSet`, `Irq`, `Notify`. An NMI is taken while
  its thread runs user code; the irq work runs on the same cpu right after it.

`lock` is held across actions only by the loop of `task_clock_entry_sleep`. The
uninitialised `thread_arr` of `__search_for_lowest_waiting` makes the search
return the lowest thread or nobody when that thread does not wait. `lowest_ticks`
and the debug fields are dropped: nothing reads them.

The application is external. `TaskClock` lets it make any call of the set `Ops`
in any order that the library supports: it starts and stops alternately; a thread
activates itself only when it is not active; it activates another only in its own
turn, and one that is inactive, be it still in the wake-up that follows its halt's
unlock; it halts only while active (an inactive one hits the
`BUG_ON` of `listarray_remove`); it resets only outside the group. From a turn it goes on
by a start, a coarsened transaction or a halt: it does not wait, add ticks or ask again
before it has executed a chunk. `poll()`
returns when the buffer holds `POLL_IN` and takes it (kernel, external).
`perf_counter_start` reaches the same `on_enable` as a plain start, so the
`started` flag is dropped.

### LogicalClock
The counter counts user instructions only (`exclude_kernel`). Each read or write of
the counter, `prev_count`, `event->count` and the tick counter inside a call is a
step, and an overflow NMI may come between any two of the steps in `NmiAt`. It is
raised when the counter wraps and may arrive up to `Skid` instructions late, also
inside the next call. The period is any of `Periods`. `rdpmc` in the library
returns only the lower half (the `"=A"` constraint). A coarsened transaction is
shorter than its period of `2^31 - 1`; its ticks are passed on as an `int32_t`
(`Int32`), which the bounds do not reach. What `perf_event_disable` does to the event
before `on_disable` is not modelled.

### Transactions
Every action of `LogicalClock` together with what the library reads and writes at
that point: `user_ticks` is `user_status->ticks`, which the kernel writes only where
`__determine_lowest_and_notify_or_wait` runs (`Enabled`, `Ask`, `EndBlock`,
`EndTransaction`), `last_value` what `BeginBlock` read, `size` the `tx_size` of the
block that ended, by the clock (`EndBlock`) or by `rdpmc` (`EndCoarseBlock`). `Base` is
the clock a thread is given by its creator. All other actions are `Hidden`.

### TxEstimate
One estimator. An entry is a ring of observations with its counter and the truncated
average; an identifier is what the hash tells apart, its two bytes as sets of bits and
the rest. The average is computed in `float` by the code and in integers here: the
two agree for every pair of values below 400 (computed once), and the difference of
an observation and the average is cut to an int as `abs()` does. `Sum` adds up the
first elements of a function as the loop over the ring does. `recent` is the
history: what each identifier observed last.

### BoundedFence
A call of the module is one step; interrupts come between user instructions.
`count_ticks` keeps its three meanings (off, counting, steps plus two),
`chunk_ticks` and the ghost `done` are compared, and `UpdateOverflowPeriod`
computes the period from the clocks of the waiting threads and the rest of the
chunk in unsigned arithmetic. `ExtraTrap` is the trap that, says the code, may still
come after the trap flag was cleared. The perf core never programs fewer than two
instructions, so the assumption on the buffer is `Skid + 2 <= Buffer`; the code's
200 leaves the overflow 198 instructions. A coarsened transaction may start while an
overflow is pending and may last longer than its period, whose overflow is then not counted. The signal handler is the application's:
it stops the chunk, and the instructions it executes before must not count.

## 3. Runs

| run | bounds | question |
|---|---|---|
| `pair` | 2 threads, clocks up to 2, every call | do the flags agree with where the threads are, do the active threads never all sleep, does any clock go back? |
| `three` | 3 threads that stay, clocks up to 2 | has the named or flagged thread the lowest clock, is a notification lost? |
| `live` | 3 threads of which one sleeps, clocks up to 2, finite program | does every waiter get its turn, and is a thread that was told it is alone alone? |
| `list` | 5 slots | does the array implement a set? |
| `clock` | 8 instructions, periods 2 and 3, skid 2 | is every instruction counted once, wherever an overflow comes, and is a block's recorded size its instructions? |
| `estimate` | a ring of 2, 4 entries, 7 observations of 3 sizes | does a guess cover what was observed? |
| `fence` | chunks of 10 with 3 stepped, a longest period of 12, 24 instructions | does the signal come at the chunk's size, and is an overflow always in reach? |
| `lateflag`, `reactivate`, `sleeploop`, `starve`, `latenmi` | 2 or 3 threads | the findings of section 5 |

**Why the bounds are enough.** Two threads already have every pair of roles the
protocol knows (waker and sleeper, parent and child, NMI and lock holder); the
third is needed where a thread is named while two others act, and `three` drops
the calls by which a thread leaves. Clocks only matter by their order, so
two ticks with ties broken by tid give every order of three clocks. Five slots give
the list a middle entry with neighbours on both sides, twice. Eight instructions
give four overflows; the counter wraps in the model's width exactly as in the
code's. Twenty-four instructions give two full chunks and the beginning of a third, or a
coarsened transaction that outlives its period of twelve and a whole chunk after it.
In `estimate` the ring of two wraps three times, four identifiers share three
entries and the largest size is further from the others than an int reaches. In
`live` one thread (`Sleepers`) may fall asleep: with two the loop of run `sleeploop`
can occur, which is a finding. `SingleActiveIsAlone` is checked there because its
program enters the group only by being activated, which is what the comment it
comes from assumes; in `pair` a thread may activate itself.
Deadlock is checked except in the runs where the finite program ends.

Larger instances, checked once: `SomeoneAwake`, `NotificationInFlight`,
`SleepingMeansBlocked` and `WaiterIsVisible` hold on three threads that halt, sleep and
get signals, clocks up to 1 (1.7 million states); all of them but `NotificationInFlight` also
when these threads may activate themselves (18.5 million states). The invariants of the proofs were
checked before they were proved: `IInv` on `pair`; `NInv` and `IInv` on two threads with every
call but self-activation, clocks up to 2 (242 000 states), and on three that halt, sleep and get
signals, clocks up to 1; that of the list on five slots; that of the
clock, besides `clock`, with longer periods and a smaller lower half (3.5 million states).
The width of `clock` is the least power of two for which its theorems hold, too.

**Properties.** Each is stated in a comment above it. The ones to read first:
`NotificationInFlight` (a blocked thread that is named the lowest is still to be
notified or its waker is on the way), `SomeoneAwake`, `WaiterIsVisible`,
`FlagRaisedForLowest`, `WaiterGetsTurn`, `StoppedClockExact`, `TxSizeExact`, `FenceOnTime`,
`GuessCoversMean`.
`WaitingLowestIsLowest` holds for groups that threads neither enter nor leave: a thread
that comes back brings an older clock (see `reactivate`). `FlagRaisedForLowest` needs
only that no thread but the first activates itself, and so does `NotificationInFlight`:
self-activation breaks it in a group of four (section 5). It is therefore checked on `three`,
whose threads enter by being activated only, and not on `pair`; groups whose threads halt are
covered by its theorem and by the larger instances above.

**Fairness.** `live` and `sleeploop` assume weak fairness of every thread's step:
the scheduler runs what can run, interrupts included, and the application computes
for a finite time between two calls. `starve` assumes less: a running thread need
not call the library, but its counter keeps overflowing, which is what the hardware
guarantees. A section under the group lock is one action, so weak fairness of a
thread's step also says that a thread that waits for the lock gets it in the end:
the kernel's spin locks queue their waiters. A spin in user space need not succeed.

## 4. Proofs

`TaskClockProof` proves, for every finite set of threads, every bound on the clocks
and every set of calls, with the assumptions `ThreadsAssumption`,
`MaxTicksAssumption` and `OpsAssumption` only:

| theorem | states |
|---|---|
| `TypeCorrect`, `ActiveAlwaysSearchable`, `LowestTidAlwaysActive`, `NoCountingWaiter`, `SleepersPoll`, `WaitersVisible` | the invariants of the same names in `pair` |
| `ClocksNeverGoBack`, `ActivationReported` | `ClockMonotone` (with its exception for the race of init), `LowestActivationReported` |

The argument: none of these is inductive alone, because a step of one thread
depends on flags another wrote. `IInv` adds `ThreadState(t)`: for each place of a
thread, what must hold of its flags (active, counting, waiting, sleeping,
`lowest_clock`, the argument of its wake-up). A step writes the flags of its own
thread, plus `lowest_clock` of a wakee and the entry of a thread it activates; the
lemmas `MembershipKeeps`, `CountingKeeps`, `TurnKeeps`, `WakeKeeps` and
`InterruptKeeps` show that `ThreadState` survives for the actor, and
`OthersKeepThreadState` that it survives for all others. `DetermineState` is the one
lemma about `__determine_lowest_and_notify_or_wait`, used by every call under the
lock.

`BoundedFenceProof` proves the six properties of the run `fence` (`FenceTypeOK`,
`FenceCutsOnTime`, `FenceClockExact`, `FenceTrapFlag`, `FenceClaimsTraps`,
`FenceOverflowInReach`) for every
size of chunk, buffer and periods, every delay of the overflow and every finite set of
waiting clocks, from `SizesAssumption`, `SkidAssumption`, `AheadAssumption` and
`MaxRetiredAssumption`. `FenceOnTime` is about what has been executed, while the code
looks only at what it has counted; so `IInv` says, for each meaning of `count_ticks`,
how far away the next overflow is. While the thread counts, it comes no later than
two instructions (the least perf programs) past the beginning of the fence; while it
steps, it comes after the last step; and outside a coarsened transaction it is
never further than a chunk without its buffer, which is why `start` may leave the
counter as it is. `PeriodRange` and `NextLeftRange` bound the two operators that
choose the distance. `MaxRetired`, the bound that makes the run finite, may be any number:
a run of the theorems has as many chunks as it likes, and its coarsened transactions may
outlive their period. The invariant was checked on `fence` first.

`TaskClockNotify` adds, for every finite set of threads and every bound:

| theorem | states | in a group |
|---|---|---|
| `NotificationNeverLost` | `NotificationInFlight` | `NoSelfActivation` |
| `SomeoneAlwaysAwake` | `SomeoneAwake` | `NoSelfActivation` |
| `SingleAlwaysAlone` | `SingleActiveIsAlone` | `NoSelfActivation` |
| `FlagGoesToLowest` | `FlagRaisedForLowest` | `NoSelfActivation` |
| `WaitingLowestAlwaysLowest` | `WaitingLowestIsLowest` | `Steady` |

`NoSelfActivation` says that a thread other than the first enters the group only by
being activated by one that is in its turn, at creation or, after a halt, when it is
signalled. That is the use of the library its comment describes (`determ_clock.c:315`);
threads may halt, sleep, reset and get signals. It is needed: see section 5.
`Steady` also leaves out halts, resets and an early spawn.
The invariant `NInv` follows a notification from the search under the lock to `poll()`.
Its core is `LowestIsTold` (the thread that is named and asleep has a waker, unless
`notification_needed` says that somebody still owes it one) with what keeps that true:
a thread in its chunk that is named owes the notification (`RunningOwes`), no waiter
is below the thread named when nothing is owed (`NoLowerWaiter`), an irq work that
finds nobody named still has `nmi_new_low` (`IrqTells`). Of the actions only four *kinds of step*
matter: `Calm` (changes neither who is named nor the members), `Decided` (the search
under the lock), and the two activations. `EveryStepHasAKind` is the lemma that sorts the
actions, and each conjunct of `NInv` is proved for the kinds.

`ListArrayProof`: for every `MaxSize`, `ListTypeCorrect`, `ForeachCorrect`,
`BackwardCorrect`, `ScanCorrect` and `ListRefinement` (`ImplementsActiveSet`). The
invariant says that there is a sequence of distinct indices which `next` links forwards and
`prev` backwards; an insertion appends to it and a removal takes one element out,
so the abstract list is that sequence. That `Walk` returns it is `WalkIs`; as `At` is
recursive and induction is not at hand, the lemmas use a smallest index at which two
functions differ.

`LogicalClockProof` and `TransactionsProof`: for every width, period, skid and initial
clock, `ClockTypeCorrect` (`TypeOK`), `StoppedIsExact` (`StoppedClockExact`),
`RunningLags` (`RunningClockLags`), `CoarseReadingsExact` (`CoarseReadingExact`),
and `SizesExact` (`TxSizeExact`). That `Transactions` implements `LogicalClock` holds by the
way it is built, every action of it being one of the clock's and more; the lemma
`TransactionsRefinesClock` says so and carries the clock's theorems over. The hypotheses:
- `Quiet`: no NMI at the three places where it does damage (`latenmi` and section 5);
- `Roomy`: four times the longest period fits the counter (2^31 in a counter of 48 bits);
- `ShortTransactions`, assumed of the behaviour: a coarsened transaction ends before its
  ticks or the lower half of the counter wrap, which is a use of the library its period
  of `2^31 - 1` presupposes. `ShortRunsAreShort` proves it of every run that is shorter
  than this period if no NMI comes at `"maxed"` either; TLC finds it true on `clock`
  with six instructions, where one may come.

The invariant `LInv` says at each place of a call where the instructions are that
`ticks` does not have yet (`Exact`): between `prev_count` and the counter, in the
difference just computed, in `event->count`, or in the coarsened block; and how far the counter can
be from its overflow (`HwNear`, `PrevNear`, `LeftNear`), so that no signed difference
wraps. `Marks` adds what the library has read when a block begins.

`TxEstimateProof`: for a ring, a table and sizes of any size, `EstimateTypeCorrect`
(`TypeOK`), `GuessCovers` (`GuessCoversMean`) and `SteadyGuess` (`SteadyGuessExact`),
when the ring is full by the first guess (`FullRing`; both constants are ten) and
its deviations fit 64 bits (`Wide`; ten against 2^33). `Rings` is the invariant: an
identifier that has its entry for itself finds there, at `counter` minus `i` in the ring, what
it observed `i` calls ago. The lemmas `SumExists` to `SumShift` derive from the
recursive equation what the proofs need of a sum (a bound, a replaced element, a shift),
by `Induction` over a set of numbers.

The assumptions on the constants are the `ASSUME`s of the modules, which TLC evaluates
on every run. Only model-checked: liveness (`WaiterGetsTurn` in `live`, the findings `sleeploop` and
`starve`), which is beyond the prover. The theorems about notifications say
nothing of groups that threads enter by activating themselves. There `NotificationInFlight`
is false of four threads (section 5), and `SomeoneAwake` is checked for two (`pair`) and,
once, for three: whether it holds for more is open. A search that started from the four threads of section 5
met no violation in 18 million states and was not finished.

## 5. Findings

Each is a run that ends in a counterexample to what a comment of the code says.
- `lateflag`: a wake-up delayed after the unlock ends a later wait of its thread.
- `reactivate`: an activated thread is told it is the lowest when a third is.
- `sleeploop`: the loop of `task_clock_entry_sleep` spins under the lock for ever
  while the only awake thread needs the lock.
- `starve`: `nmi_new_low` stays set and overflows no longer notify anyone.
- `latenmi`: an overflow between the reads of the counter and of `prev_count` adds
  a period that was never executed.

Seen while modelling, without a run: the counter is written before `prev_count` in
`logical_clock_set_perf_counter` (place `"written"`), and an exchange of
`prev_count` may succeed although an NMI rewrote it with the same value (place
`"swap"`); both break `RunningClockLags`. `lowest_tid`, read again after the unlock
(`clock_main.c:247`), is -1 when the thread to wake has halted and nobody waits any
more: `user_status_arr[-1]` is written (`WakeFlag` drops this write). A parent's
`activate_other` between the test of `initialized` in its child's init and the write
that follows loses the clock it gave the child (`ClockMonotone` excepts this step).
A signal in `poll()` makes `is_lowest_wait` return without the turn. The size of a
thread's first block includes the clock its creator gave it (`TxSizeExact` excepts
it). `single_active_thread` stays set when a thread enters the group by
activating itself. Two threads may be in their turns at once
(a consequence of `lateflag` and `reactivate`). `tests/simple.c` activates no thread and halts
before any activation (line 33), which the `BUG_ON` at `listarray.h:97` stops. With four threads `NotificationInFlight`
is false when one activates itself (found on a scripted order of their calls): it names itself in `lowest_tid` and clears
`notification_needed`, although a notification is still owed to a blocked thread; when a delayed
irq work then names that thread, nobody tells it (`clock_main.c:252-281`, `612-644`). This is why
the theorems about notifications exclude self-activation. An overflow that is pending
between the two writes of `logical_clock_set_perf_counter_max` (place `"maxed"`) takes a
negative difference for a count, and may set the counter up to twice the
longest period before its overflow: the block is then exact only while the lower
half of the counter does not wrap.

## 6. Not modelled

The mapping of the status page and of the perf ring buffer (page tables and I/O),
the debug buffers, the module's callback table, the empty
`logical_clock_no_ticks.h`, the vendored `determ_perf_event.h`,
`task_clock_entry_stop_no_notify` (the library never calls it),
`begin_bounded_memory_fence` outside an NMI (a halt near the end of a chunk: whose
registers it gets depends on the patched kernel), and NMIs that reach kernel code with
the bounded fence on. The NMI's scan of the entries is one step, although other threads'
clocks may move while it goes on: what it finds only decides whether the irq work,
which searches again under the lock, is queued. Tids stay below the 128 slots of
`thread_arr`.

The status page mapping is arithmetic on the size of a record and a page: no step
interleaves with it, and what it gets wrong (tids beyond the page) is listed as a
hazard.

## 7. Plan

Done: the list and its abstract set; the turn protocol with signals and the race of
init, and its liveness; the counter and the blocks the library measures; the estimator;
the bounded fence. Every invariant and action property that a passing run checks
is a theorem, with the hypotheses of section 4. Next, in this order:
1. `ShortRunsAreShort` with NMIs at `"maxed"`, for periods that keep the counter's
   lower half from wrapping.
2. `TaskClockNotify` for groups whose threads activate themselves: what remains true of
   `NotificationInFlight` until the irq work runs.
3. `TaskClockLive`: `SingleActiveIsAlone` and the safety part of `WaiterGetsTurn`
   through its refinement of `TaskClock`.
