------------------------------ MODULE TxEstimate ------------------------------
(***************************************************************************)
(* tx_estimate.h: the library's guess of the length of a thread's next     *)
(* transaction, from the lengths of the transactions before it.  Each      *)
(* thread has its own estimator.                                           *)
(***************************************************************************)
EXTENDS Integers, Sequences

CONSTANTS Slots,            \* TX_ESTIMATE_TOTAL_OBSERVVATIONS
          MinObservations,  \* TX_ESTIMATE_MIN_OBSERVATIONS
          Entries,          \* TX_ESTIMATE_TOTAL_ENTRIES
          Half,             \* an int goes from -Half to Half - 1 (2^31)
          Identifiers,      \* the program's transactions: rest, byte1 and byte2
          Sizes,            \* the ticks a transaction may take
          MaxObservations   \* bound: observations in a run

(* A byte is the set of its bits. *)
NoIdentifier == [rest |-> {}, byte1 |-> {}, byte2 |-> {}]

ASSUME SlotsAssumption == Slots \in Nat \ {0} /\ MinObservations \in Nat
ASSUME EntriesAssumption == Entries \in Nat /\ Entries > 1
ASSUME SizesAssumption == Half \in Nat \ {0} /\ Sizes \subseteq Nat
ASSUME MaxObservationsAssumption == MaxObservations \in Nat

VARIABLES entries,  \* txe->entries: ewma, observations and counter
          recent    \* what each identifier observed last, newest first
vars == <<entries, recent>>

-----------------------------------------------------------------------------
(* f[0] + ... + f[n - 1], as a loop adds it up. *)
Sum(f, n) ==
    LET sum[k \in 0 .. n] == IF k = 0 THEN 0 ELSE sum[k - 1] + f[k - 1]
    IN  sum[n]

Byte(bits) ==
    LET Bit(b) == IF b \in bits THEN 1 ELSE 0
    IN  Bit(0) + 2 * Bit(1) + 4 * Bit(2) + 8 * Bit(3) + 16 * Bit(4) + 32 * Bit(5) + 64 * Bit(6) + 128 * Bit(7)

(* Broken: the entry of the default identifier is used for others too.       *)
EntryShared(id) == Byte(id.byte1 \cap id.byte2) % Entries

(* __tx_get_entry *)
Entry(id) ==
    IF id = NoIdentifier THEN 0 ELSE (Byte(id.byte1 \cap id.byte2) % (Entries - 1)) + 1

(* Broken: the new observation is weighted with the wrong sign. *)
EwmaSigned(e, ticks) == (4 * e - ticks) \div 5

(* A fifth of the new observation and four of the old average, truncated: in *)
(* float, but exactly this as long as both are small.                        *)
Ewma(e, ticks) == (ticks + 4 * e) \div 5

(* Broken: one slot too few is used before the ring wraps. *)
ObservedShort(e, ticks) ==
    [ewma |-> Ewma(e.ewma, ticks),
     observations |-> [e.observations EXCEPT ![e.counter % (Slots - 1)] = ticks],
     counter |-> e.counter + 1]

Observed(e, ticks) ==
    [ewma |-> Ewma(e.ewma, ticks),
     observations |-> [e.observations EXCEPT ![e.counter % Slots] = ticks],
     counter |-> e.counter + 1]

(* tx_estimate_add_observation *)
AddObservation(id, ticks) ==
    /\ Sum([n \in 0 .. Entries - 1 |-> entries[n].counter], Entries) < MaxObservations
    /\ entries' = [entries EXCEPT ![Entry(id)] = Observed(@, ticks)]
    /\ recent' = [recent EXCEPT ![id] =
                     [i \in 1 .. IF Len(@) < Slots THEN Len(@) + 1 ELSE Slots |->
                         IF i = 1 THEN ticks ELSE @[i - 1]]]

(* abs() of a difference that is cut to an int; that of -Half is -Half.      *)
AbsInt(d) == LET i == ((d + Half) % (2 * Half)) - Half IN IF i < 0 /\ i # -Half THEN -i ELSE i

NoGuess == -1

(* Broken: the average alone. *)
GuessAverage(e) == IF e.counter > MinObservations THEN e.ewma ELSE NoGuess

(* tx_estimate_next_observation_guess: the average and the mean deviation    *)
(* from it, summed up in 64 bits.                                            *)
GuessOf(e) ==
    LET total == Sum([i \in 0 .. Slots - 1 |-> AbsInt(e.observations[i] - e.ewma)], Slots)
    IN  IF e.counter > MinObservations
        THEN e.ewma + (total % (4 * Half * Half)) \div Slots
        ELSE NoGuess

(* determ_task_clock_estimate_next_tx *)
Guess(id) == GuessOf(entries[Entry(id)])

-----------------------------------------------------------------------------
(* tx_estimate_init *)
Init ==
    /\ entries = [n \in 0 .. Entries - 1 |->
                     [ewma |-> 0, observations |-> [i \in 0 .. Slots - 1 |-> 0], counter |-> 0]]
    /\ recent = [id \in Identifiers |-> <<>>]

Next == \E id \in Identifiers, ticks \in Sizes : AddObservation(id, ticks)

Spec == Init /\ [][Next]_vars

-----------------------------------------------------------------------------
TypeOK ==
    /\ entries \in [0 .. Entries - 1 -> [ewma : Nat, observations : [0 .. Slots - 1 -> Sizes \cup {0}],
                                         counter : 0 .. MaxObservations]]
    /\ \A id \in Identifiers : Len(recent[id]) <= Slots

(* No other transaction of the program shares id's entry; by intention none  *)
(* ever shares that of the default identifier.                               *)
Alone(id) ==
    \/ id = NoIdentifier
    \/ \A other \in Identifiers \ {id} : Entry(other) # Entry(id)

(* The identifiers that are alone and have a guess based on int differences. *)
Guessed ==
    {id \in Identifiers :
        /\ Alone(id) /\ Guess(id) # NoGuess
        /\ \A i \in DOMAIN recent[id] :
              recent[id][i] - entries[Entry(id)].ewma \in 1 - Half .. Half - 1}

(* A guess is never below the mean of the transaction's last observations,   *)
(* rounded down: a thread that sizes its work by it does not run past it on  *)
(* average.  This relates the ring, its wrapping counter and the hash to     *)
(* what the program observed.                                                *)
GuessCoversMean ==
    \A id \in Guessed :
        Slots * (Guess(id) + 1)
          > Sum([i \in 0 .. Len(recent[id]) - 1 |-> recent[id][i + 1]], Len(recent[id]))

(* When the last observations were all equal and the average has not been    *)
(* above them, the guess is exact, although the truncated average never gets *)
(* there: the deviation makes up for what truncation loses.                  *)
SteadyGuessExact ==
    \A id \in Guessed :
        LET v == recent[id][1]
        IN  (\A i \in 1 .. Slots : recent[id][i] = v) /\ entries[Entry(id)].ewma <= v => Guess(id) = v
=============================================================================
