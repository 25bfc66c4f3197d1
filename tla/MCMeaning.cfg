CONSTANTS
  FuncNames <- MCFuncNames
  VarNames <- MCVarNames
  Programs <- MCPrograms
  Limit = 8
SPECIFICATION CompilerSpec
INVARIANTS
  CodeMeans
  CodeEvaluates
  MeaningInv
