CONSTANTS
  Letters <- MCLetters
  FuncNames <- MCNames
  VarNames <- MCNames
  Programs = {}
  Limit = 8
  Words <- MCWords
  Numerals <- MCNumerals
  ValueOf <- MCValueOf
  MaxTokens = 8
  Spellings <- StarredSentences
SPECIFICATION Spec
INVARIANT SentencesAreParsed
