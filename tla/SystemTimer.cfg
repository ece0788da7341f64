SPECIFICATION Spec
CONSTANTS
  R = 4
  K = 2
  W = 7
  Delays <- MCDelays
  MaxPeriods = 3
CHECK_DEADLOCK FALSE
INVARIANTS
  PeriodsCounted
  TimeInv
  PulseWidth
  NeverEarly
