SPECIFICATION CommandsSpec
CONSTANTS
  MaxCmds = 2
  KindCap = 2
  BlockMax = 40
  MessageCap = 9
  Stride = 24
  MaxTables = 3
  MaxModRecords = 2
  MaxItems = 6
  NameMax = 48
  TextIds <- MCTextIds
  Configs <- MCConfigs
  Commands <- MCCommands
  Scans <- MCScans
  Pairs <- MCPairs
  Keys = {0, 3, 6, 8, 9, 12, 15, 16}
  EvNames <- MCEvNames
  DtcWords <- MCWords
  Addresses = {1, 3, 24576, 5}
  ProcIds = {61441, 61443, 7}
  Wanted <- MCWanted
  Steps = {0, 1, 2, 3}
  Word = 64
  Sizes = {4, 12, 20, 48}
  TableFiles <- MCTables
  Ids = {0, 1, 2, 4, 7, 8}
  MaxDepth = 4
  MaxArgs = 3
  MaxStatements = 8
  TextMax = 6
  OpenTexts = {"[A(]"}
  Literals <- MCLiterals
  Variables <- MCVariables
  HexWords <- MCHexWords
  Names <- MCNames
  Texts <- MCTexts
  Trees <- MCTrees
  Records <- MCRecords
  Inputs <- MCInputs
  Known <- MCKnown
  Dm100 = {100}
  Simulated <- MCSimulated
  BlockSize = 16
  Flashes <- MCFlashes
  FileNames <- MCFileNames
  NoFlash <- MCNoFlash
  ModuleType = "TYPE1"
  HostRuns <- MCHostRuns
INVARIANTS
  CleanExit
  ExitCodeRight
  RightImages
  ReportRight
  Meaning
  WithinText
  ErrorKept
  FindRight
  InsideFile
  DatabaseRead
  EvFound
  OpenedRight
CHECK_DEADLOCK FALSE
