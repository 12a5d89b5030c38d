CONSTANTS
  i1 = i1
  i2 = i2
  Items = {i1, i2}
  Backends <- AllBackends
  Receivers <- AllReceivers
  Inputs <- AllInputs
  Chunk = 2
  ReceiveMax = 2
  MaxRuns = 1
  MaxCount = 3
SPECIFICATION FairSpec
INVARIANT TypeOK
INVARIANT EveryPairCounted
INVARIANT EveryItemAnswered
INVARIANT SuccessMeansStored
INVARIANT LossIsPartOfAChunk
PROPERTY InputIsRead
PROPERTY InterruptEnds
CHECK_DEADLOCK FALSE
