SPECIFICATION FairSpec
CONSTANTS
  Texts <- MCTexts
  ArgumentVectors <- MCArgumentVectors
  Environments <- MCEnvironments
  Policies <- MCPolicies
INVARIANTS
  TypeOK
  SuccessIsClean
  HeldIsShown
  FailureExplained
  ArgumentsUnderstood
  OptimizationAgrees
PROPERTY
  RunReturns
