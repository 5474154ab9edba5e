CONSTANTS
  BlockSize = 2
  MaxIndex = 3
  AddrMod = 16
  Candidates <- MCCandidates
  FeedbackOffset = 6
  FeedbackBlocks = 2
  DtcOffset = 2
  DtcBlocks = 1
  FlashSizes <- MCFlashSizes
  KeepsReplies = FALSE
  Depth = 1
  Jobs <- MCJobs
  MaxRuns = 2
  MaxFaults = 2
SPECIFICATION FairSpec
INVARIANTS TypeOK SizeRight DumpInPlace VerdictRight
PROPERTIES ReadoutEnds CleanReadSucceeds
CHECK_DEADLOCK FALSE
