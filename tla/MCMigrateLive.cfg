CONSTANTS
  Workers = {w1, w2}
  NumCols = 1
  NPages <- PagesLong
  TrailingToken <- Trailing
  Requested <- NoCols
  ListLimit = 1000
  SaveEvery = 5
  Resume = TRUE
  SampleVerify = FALSE
  MaxRuns = 1
SPECIFICATION FairSpec
INVARIANT LossWindow
PROPERTY InterruptEnds
PROPERTY RunEnds
CHECK_DEADLOCK FALSE
