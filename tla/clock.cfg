\* Chunks and coarsened transactions of up to eight instructions, four overflows
\* of a period of two or three.  An NMI arrives anywhere but between the read of
\* the counter and the exchange of prev_count (run latenmi) and between the
\* counter's write and prev_count's in logical_clock_set_perf_counter.
CONSTANTS
  Width = 128
  Low = 32
  MaxVal = 15
  Periods = {2, 3}
  Skid = 2
  NmiAt = {"user", "coarse", "rdmsr", "off", "sum", "zero", "clear", "enable", "write", "max", "maxed", "ignore"}
  MaxRetired = 8
  Base = 3
SPECIFICATION TxSpec
INVARIANTS TypeOK StoppedClockExact RunningClockLags CoarseReadingExact TxSizeExact
