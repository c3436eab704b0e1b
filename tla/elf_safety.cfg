CONSTANTS
  PageSize <- MCPageSize
  OatDataSizes <- MCOatDataSizes
  OatExecSizes <- MCOatExecSizes
  Paths <- MCPaths
  DebugInfos <- MCDebugInfos
  Isas <- MCIsas
  NoDebug = NoDebug
SPECIFICATION Spec
INVARIANTS TypeOK LayoutDisjoint SegmentsCoverAlloc SymbolsResolve WriteSound CFIDecodes
