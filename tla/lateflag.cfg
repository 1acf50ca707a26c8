\* A wake-up that arrives after its thread has run another chunk.
CONSTANTS
  Threads <- Two
  Main = 0
  MaxTicks = 3
  Ops <- NoOps
SPECIFICATION Spec
INVARIANT TurnIsLowest
