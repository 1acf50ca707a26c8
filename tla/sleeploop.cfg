\* Two threads, the second going to sleep while the first wakes up.
CONSTANTS
  Threads <- Two
  Main = 0
  MaxTicks = 2
  Sleepers = {0, 1}
  Ops <- SleepOps
SPECIFICATION LiveSpec
PROPERTY SleepLoopEnds
\* The program is finite: the group ends with every thread halted.
CHECK_DEADLOCK FALSE
