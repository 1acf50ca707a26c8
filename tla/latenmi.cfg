\* An overflow arrives after the counter was read and before prev_count is.
CONSTANTS
  Width = 64
  Low = 32
  MaxVal = 15
  Periods = {2, 3}
  Skid = 2
  NmiAt = {"user", "prev"}
  MaxRetired = 8
SPECIFICATION Spec
INVARIANT StoppedClockExact
