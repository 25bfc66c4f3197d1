CONSTANTS
  FuncNames <- MCFuncNames
  VarNames <- MCVarNames
  Programs <- MCPrograms
  Limit = 8
SPECIFICATION CompilerSpec
INVARIANTS
  GeneratorTypeOK
  GeneratorInv
  CodeInv
  NeverThrows
  OneBodyEach
  CallsReachBody
  CodeValid
  NothingDangles
  CrashesForeseen
  ReturnsInCode
  NameMeansSymbol
PROPERTIES
  ImplementsCompileRules
