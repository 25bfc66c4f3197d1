CONSTANTS
  FuncNames <- MCFuncNames
  VarNames <- MCVarNames
  Programs <- MCPrograms
  Limit = 8
SPECIFICATION AnalyzerSpec
INVARIANTS
  AnalyzerTypeOK
  ScopeBalanced
  BoundOnce
  LocalsAtHome
  ScopesReady
  TableInv
PROPERTIES
  SymbolsPersist
