SPECIFICATION HostSpec
CONSTANTS
  Known <- MCKnown
  Dm100 = {100}
  Simulated <- MCSimulated
  BlockSize = 16
  HostRuns <- MCHostRuns
INVARIANTS
  FileErrorSeen
CHECK_DEADLOCK FALSE
