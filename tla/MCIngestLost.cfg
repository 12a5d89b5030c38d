CONSTANTS
  i1 = i1
  i2 = i2
  Items = {i1, i2}
  Backends <- AllBackends
  Receivers <- OnlySQS
  Inputs <- AllInputs
  Chunk = 2
  ReceiveMax = 2
  MaxRuns = 1
  MaxCount = 3
SPECIFICATION Spec
INVARIANT DeletedIsStored
CHECK_DEADLOCK FALSE
