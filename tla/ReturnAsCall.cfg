CONSTANTS
  Letters <- MCLetters
  FuncNames <- MCNames
  VarNames <- MCNames
  Programs = {}
  Limit = 8
  Words <- MCWords
  Numerals <- MCNumerals
  ValueOf <- MCValueOf
  MaxTokens = 11
  Spellings <- SpacedSentences
SPECIFICATION Spec
INVARIANT SentencesGetTheirTrees
