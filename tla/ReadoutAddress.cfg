CONSTANTS
  BlockSize = 2
  MaxIndex = 3
  AddrMod = 16
  Candidates <- MCCandidates
  FeedbackOffset = 6
  FeedbackBlocks = 2
  DtcOffset = 2
  DtcBlocks = 1
  FlashSizes <- MCFlashSizes
  KeepsReplies = FALSE
  Depth = 1
  Jobs <- FarReads
  MaxRuns = 1
  MaxFaults = 0
SPECIFICATION FairSpec
INVARIANT DumpFromAddress
CHECK_DEADLOCK FALSE
