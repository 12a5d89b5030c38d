CONSTANTS
  c1 = c1
  c2 = c2
  Keys <- FourKeys
  MaxVal = 2
  MaxExact = 1
  MaxGot = 4
  Sorts <- AllSorts
  Limits = {1, 2}
  Bounds <- AllBounds
SPECIFICATION FairSpec
INVARIANT TypeOK
INVARIANT KeysetWalk
INVARIANT OffsetWalk
PROPERTY WalkEnds
CHECK_DEADLOCK FALSE
