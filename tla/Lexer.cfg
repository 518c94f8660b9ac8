SPECIFICATION FairSpec
CONSTANTS
  Alphabet <- MCAlphabet
  NonAscii <- MCNonAscii
  Texts <- MCTexts
  Options <- MCOptions
  KeywordTexts <- MCKeywords
INVARIANTS
  TypeOK
  TokensInOrder
  NothingLost
  FailuresTold
  StopsAtError
  TokensMaximal
  DelimitersMatched
  LinesAgree
PROPERTY
  LexerFinishes
