CONSTANTS
  BlockSize = 2
  MaxIndex = 3
  Size <- MCSize
  MaxImages = 3
  KeepsReplies = FALSE
  Depth = 1
  RunOptions <- AllOptions
  MaxRuns = 1
  MaxFaults = 1
SPECIFICATION FairSpec
PROPERTY StrictFailsOnMismatch
CHECK_DEADLOCK FALSE
