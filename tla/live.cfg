\* Three threads that work, wait for their turns and halt; one of them polls.
\* (With two, the loop of run sleeploop can occur.)
CONSTANTS
  Threads <- Three
  Main = 0
  MaxTicks = 2
  Sleepers = {0}
  Ops <- SleepOps
SPECIFICATION LiveSpec
INVARIANT SingleActiveIsAlone
PROPERTY WaiterGetsTurn
\* The program is finite: the group ends with every thread halted.
CHECK_DEADLOCK FALSE
