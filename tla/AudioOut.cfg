SPECIFICATION Spec
CONSTANTS
  Geometry <- MCGeometry
  DefaultGeometry <- MCDefault
  MaxUnits = 9
INVARIANTS OwnerInv PlayedInOrder SyncComplete
PROPERTY CallReturns
CHECK_DEADLOCK FALSE
