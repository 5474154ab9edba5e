CONSTANTS
  BlockSize = 2
  MaxIndex = 2
  Size <- MCLargeExt
  MaxImages = 2
  KeepsReplies = FALSE
  Depth = 1
  RunOptions <- RetryOptions
  MaxRuns = 2
  MaxFaults = 2
SPECIFICATION FairSpec
INVARIANTS TypeOK UploadAgrees
PROPERTIES FinishOnlyWhole HostKeepsProtocol CleanRunSucceeds
CHECK_DEADLOCK FALSE
