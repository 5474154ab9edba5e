SPECIFICATION Spec
CONSTANTS
  Ids <- MCIds
  Captions <- MCCaptions
  StringFiles <- NoFiles
  MaxLangs = 3
  MenuNodes <- NoNodes
  SpFuncs <- MCSpFuncs
  Scans <- MCScans
  ModuleNames <- MCModuleNames
  FuncRecords <- NoNodes
  Rows = 2
INVARIANT
  CursorShown
