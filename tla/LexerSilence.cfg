SPECIFICATION FairSpec
CONSTANTS
  Alphabet <- MCAlphabet
  NonAscii <- MCNonAscii
  Texts <- MCTexts
  Options <- MCOptions
  KeywordTexts <- MCKeywords
INVARIANT
  EveryErrorReported
