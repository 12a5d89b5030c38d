CONSTANTS
  Workers = {w1, w2}
  NumCols = 2
  NPages <- PagesResume
  TrailingToken <- Trailing
  Requested <- NoCols
  ListLimit = 1000
  SaveEvery = 1
  Resume = TRUE
  SampleVerify = TRUE
  MaxRuns = 3
SPECIFICATION Spec
SYMMETRY Symmetry
INVARIANT TypeOK
INVARIANT NilMeansHandled
INVARIANT CountsMatch
INVARIANT SkipNoticed
PROPERTY CursorKept
PROPERTY KeepsContract
CHECK_DEADLOCK FALSE
