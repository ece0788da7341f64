SPECIFICATION Spec
CONSTANTS
  N = 2
  M = 2
  Positions <- MCPositions
  MaxMoves = 4
INVARIANTS NoTornRead ModeInv PointInRange ReleaseIsReal
PROPERTIES ReportOfOneTouch TouchRead
CHECK_DEADLOCK FALSE
