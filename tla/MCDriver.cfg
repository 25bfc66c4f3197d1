CONSTANTS
  p = p
  q = q
  Runs = {p, q}
  FuncNames <- MCFuncNames
  VarNames <- MCVarNames
  Programs <- MCPrograms
  Limit = 8
  Commands <- MCCommands
  Stems <- MCStems
  Disks <- MCDisks
SPECIFICATION DriverSpec
INVARIANTS
  DriverInv
  ErrorsKeepOutputs
  SuccessMeansModule
  SourcesKept
PROPERTIES
  RunsEnd
