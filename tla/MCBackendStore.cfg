CONSTANTS
  c1 = c1
  c2 = c2
  i1 = i1
  k1 = k1
  k2 = k2
  v1 = v1
  v2 = v2
  Cols = {c1, c2}
  Ids = {i1}
  Vals = {v1, v2}
  Absent = Absent
  Clients = {k1, k2}
  Idle = Idle
  Backends <- AllBackends
  IndexNames <- OneIndex
  MaxLate = 1
SPECIFICATION Spec
SYMMETRY Symmetry
INVARIANT TypeOK
INVARIANT SettledReads
INVARIANT PlaceholderGone
PROPERTY KeepsContract
CHECK_DEADLOCK FALSE
