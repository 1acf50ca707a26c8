\* Two threads and every library call: all orders of init, activation, halt,
\* reset and turn taking.
CONSTANTS
  Threads <- Two
  Main = 0
  MaxTicks = 2
  Ops <- AllOps
SPECIFICATION Spec
INVARIANTS TypeOK ActiveIsSearchable LowestTidActive SleepingMeansBlocked CountingNotWaiting WaiterIsVisible SomeoneAwake
PROPERTIES ClockMonotone LowestActivationReported
