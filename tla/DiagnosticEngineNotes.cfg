SPECIFICATION Spec
CONSTANTS
  Builders = {b1}
  Parts = {"note"}
  Policies <- MCPolicies
  MaxStored = 3
INVARIANT
  SecondaryMessagesFiltered
