SPECIFICATION Spec
CONSTANTS
  M = 3
  WriteLens <- MCWriteLens
  ReadLens <- MCReadLens
INVARIANTS
  TransferInv
  WaitCoversTransfer
  WriteOutcome
  ReadDelivers
PROPERTIES
  SlaveReleasedAtStop
  CallReturns
