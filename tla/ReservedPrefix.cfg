CONSTANTS
  Letters <- MCLetters
  FuncNames <- MCNames
  VarNames <- MCNames
  Programs = {}
  Limit = 8
  Words <- IntWords
  Numerals <- MCNumerals
  ValueOf <- MCValueOf
  MaxTokens = 9
  Spellings <- PlainSentences
SPECIFICATION Spec
INVARIANT SentencesAreParsed
