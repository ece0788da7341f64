SPECIFICATION Spec
CONSTANTS
  M = 3
  WriteLens <- MCWriteLens
  ReadLens <- MCReadLens
INVARIANTS
  ReadComplete
