SPECIFICATION Spec
CONSTANTS
  Proc = {p1, p2}
  Key = {k1, k2}
  None = None
  MaxEdges = 3
INVARIANTS OneOpenFile NoRepeat SleepersTold Debounced
PROPERTIES EdgeIsRead
CHECK_DEADLOCK FALSE
