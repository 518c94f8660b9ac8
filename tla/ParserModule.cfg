SPECIFICATION FairSpec
CONSTANTS
  Texts <- MCModuleBody
  Configurations <- MCDefaults
  Grammatical <- MCNone
PROPERTY
  ParseReturns
