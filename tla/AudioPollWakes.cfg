SPECIFICATION Spec
CONSTANTS
  Geometry <- MCGeometry
  DefaultGeometry <- MCDefault
  MaxUnits = 5
PROPERTY PollWakes
CHECK_DEADLOCK FALSE
