CONSTANTS
  FuncNames <- MCFuncNames
  VarNames <- MCVarNames
  Programs <- MCPrograms
  Limit = 8
SPECIFICATION AnalyzerSpec
INVARIANTS
  InvocationsValid
