SPECIFICATION FairSpec
CONSTANTS
  Texts <- MCTexts
  Configurations <- MCConfigurations
  Grammatical <- MCGrammatical
INVARIANTS
  TypeOK
  TreeDerived
  GrammarAccepted
  PrecedenceRespected
  TreesOwned
  SpansHonest
  TreePrinted
PROPERTY
  StuckOnlyAtDeclarations
