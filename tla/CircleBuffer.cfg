SPECIFICATION Spec
CONSTANTS
  N = 4
  Durations <- MCDurations
  MaxTimeout = 2
INVARIANTS
  CopyStable
PROPERTIES
  FifoSpec
  GetReturns
