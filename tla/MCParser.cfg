CONSTANTS
  Letters <- MCLetters
  FuncNames <- MCNames
  VarNames <- MCNames
  Programs = {}
  Limit = 8
  Words <- MCWords
  Numerals <- MCNumerals
  ValueOf <- MCValueOf
  MaxTokens = 12
  Spellings <- MCSpellings
SPECIFICATION Spec
INVARIANTS
  ParserTypeOK
  FollowsGrammar
  LocationsTrue
