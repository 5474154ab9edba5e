SPECIFICATION FairSpec
CONSTANTS
  Ids <- MCIds
  Captions <- MCCaptions
  StringFiles <- MCStringFiles
  MaxLangs = 3
  MenuNodes <- MCMenuNodes
  SpFuncs <- MCSpFuncs
  Scans <- MCScans
  ModuleNames <- MCModuleNames
  FuncRecords <- MCFuncRecords
  Rows = 2
INVARIANTS
  TypeOK
  CursorShown
  TitlesCurrent
  Breadcrumbs
  StackBounded
PROPERTIES
  LanguageByChoice
  SameRowAgain
  QuitEnds
