SPECIFICATION Spec
CONSTANTS
  Proc = {p1, p2}
  Key = {k1, k2}
  None = None
  MaxEdges = 3
INVARIANTS SleepsOnlyIdle
CHECK_DEADLOCK FALSE
