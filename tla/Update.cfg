CONSTANTS
  BlockSize = 2
  MaxIndex = 3
  Size <- MCSize
  MaxImages = 3
  KeepsReplies = FALSE
  Depth = 1
  RunOptions <- AllOptions
  MaxRuns = 1
  MaxFaults = 2
SPECIFICATION FairSpec
INVARIANTS EraseFirst OnlyTailLost IInv
PROPERTIES RunEnds ImplementsInstall
CHECK_DEADLOCK FALSE
