CONSTANTS
  Nothing = Nothing
  FunIds <- MCFunIds
  FunSize <- MCFunSize
  MaxVars = 2
  MaxSteps = 3
  Pool <- MCPool
  Constraints <- MCConstraints
SPECIFICATION Spec
INVARIANTS Exact Ordered
CHECK_DEADLOCK FALSE
