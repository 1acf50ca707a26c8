\* Three threads of which some may compute for ever.
CONSTANTS
  Threads <- Three
  Main = 0
  MaxTicks = 2
  Sleepers = {}
  Ops <- SpinOps
SPECIFICATION EndlessSpec
PROPERTY PassedWaiterGetsTurn
\* The program is finite: the group ends with every thread halted.
CHECK_DEADLOCK FALSE
