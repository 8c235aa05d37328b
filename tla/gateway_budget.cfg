CONSTANTS
  Keys = {k1}
  Operators = {o1}
  Defaults <- MCDefaults
  FlagSets <- MCFlagSets
  Requests = {r1, r2}
  Capacity = 1
  InputCounts = {0, 1, 2}
  BudgetCap = 2
  MaxTokens = 1
  MaxSpent = 3
SPECIFICATION GatewaySpec
SYMMETRY Symmetry
INVARIANTS
  GatewayTypeOK
  
  SlotsCoverCalls
