CONSTANTS
  Keys = {k1}
  Operators = {o1, o2}
  Defaults <- MCDefaults
  FlagSets <- MCFewFlagSets
  Requests = {r1, r2}
  Capacity = 1
  InputCounts = {1}
  BudgetCap = 1
  MaxTokens = 0
  MaxSpent = 1
SPECIFICATION FairGatewaySpec
PROPERTIES
  ImplementsAccess
  RevokedKeyDrains
  RequestsEnd
  RevokedShutOut
