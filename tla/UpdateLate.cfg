CONSTANTS
  BlockSize = 2
  MaxIndex = 3
  Size <- MCSize
  MaxImages = 4
  KeepsReplies = TRUE
  Depth = 2
  RunOptions <- StrictOptions
  MaxRuns = 3
  MaxFaults = 3
SPECIFICATION Spec
INVARIANT SuccessMeansInstalled
CHECK_DEADLOCK FALSE
