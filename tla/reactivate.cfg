\* A halted thread activates itself while an older clock runs.
CONSTANTS
  Threads <- Three
  Main = 0
  MaxTicks = 2
  Ops <- HaltOps
SPECIFICATION Spec
PROPERTY ActivateFlagsLowest
