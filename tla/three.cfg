\* Three threads that never leave the group, so that clocks only enter above
\* their creator's; two ticks let every order of the three clocks occur.
CONSTANTS
  Threads <- Three
  Main = 0
  MaxTicks = 2
  Ops <- SteadyOps
SPECIFICATION Spec
INVARIANTS NotificationInFlight WaitingLowestIsLowest
PROPERTY FlagRaisedForLowest
