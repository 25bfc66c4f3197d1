CONSTANTS
  FuncNames <- MCFuncNames
  VarNames <- MCVarNames
  Programs <- MCPrograms
  Limit = 8
SPECIFICATION AnalyzerSpec
INVARIANTS
  AnalyzerInv
  BindingsHold
  AllBound
  ResolutionInv
PROPERTIES
  ImplementsNameRules
