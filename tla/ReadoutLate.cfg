CONSTANTS
  BlockSize = 2
  MaxIndex = 3
  AddrMod = 16
  Candidates <- MCCandidates
  FeedbackOffset = 6
  FeedbackBlocks = 2
  DtcOffset = 2
  DtcBlocks = 1
  FlashSizes <- MCFlashSizes
  KeepsReplies = TRUE
  Depth = 2
  Jobs <- MCJobs
  MaxRuns = 1
  MaxFaults = 4
SPECIFICATION Spec
INVARIANTS NeverTooLarge AsksInside
CHECK_DEADLOCK FALSE
