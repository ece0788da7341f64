SPECIFICATION Spec
CONSTANTS
  p1 = p1
  p2 = p2
  d1 = d1
  d2 = d2
  Proc = {p1, p2}
  Dev = {d1, d2}
  Opens <- MCOpens
  Signalled = {p1}
  Size = 2
  Lens = {2}
  Val = {v1}
  Empty = Empty
  MaxFaults <- MCMaxFaults
INVARIANTS SemAccount CopyWhole
PROPERTIES SleeperServed
