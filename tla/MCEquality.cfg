CONSTANTS
  Nothing = Nothing
  FunIds <- MCFunIds
  FunSize <- MCFunSize
  PredIds <- MCPredIds
SPECIFICATION Spec
INVARIANTS KeepsValidity Justified ValidatorExact
CHECK_DEADLOCK FALSE
