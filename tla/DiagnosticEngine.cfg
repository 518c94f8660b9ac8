SPECIFICATION Spec
CONSTANTS
  Builders = {b1}
  Parts = {"note"}
  Policies <- MCPolicies
  MaxStored = 3
INVARIANTS
  TypeOK
  CountsMatchStore
  NoErrorLostSilently
  PromotedWarningsFail
  LimitsHold
  HandedOnce
PROPERTY
  StopIsSticky
