SPECIFICATION Spec
CONSTANTS
  Texts <- MCTexts
  ArgumentVectors <- MCArgumentVectors
  Environments <- MCEnvironments
  Policies <- MCPolicies
INVARIANT
  RefusedSettingFails
