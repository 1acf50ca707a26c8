\* A ring of two, so that it wraps twice; the largest transaction is further from
\* the others than an int reaches.
CONSTANTS
  Slots = 2
  MinObservations = 2
  Entries = 4
  Half = 16
  Identifiers <- Program
  Sizes = {1, 9, 40}
  MaxObservations = 7
SPECIFICATION Spec
INVARIANTS TypeOK GuessCoversMean SteadyGuessExact
\* The program makes a finite number of transactions.
CHECK_DEADLOCK FALSE
