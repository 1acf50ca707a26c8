\* A chunk of ten instructions, the last three stepped; two chunks and a half, so
\* that a chunk follows a fence, an early end or a coarsened transaction, also one
\* that was so long that its period of twelve overflowed.
SPECIFICATION Spec
CONSTANTS
    Chunk = 10
    Buffer = 3
    MinPeriod = 2
    MaxPeriod = 6
    Growth = 3
    Margin = 1
    MaxVal = 12
    Wrap = 100
    Skid = 1
    Ahead = {0, 2, 4}
    MaxRetired = 24
INVARIANTS TypeOK FenceOnTime FencedClockExact TrapOnlyWhileStepping EveryTrapClaimed OverflowInReach
