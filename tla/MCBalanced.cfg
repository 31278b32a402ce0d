CONSTANTS
  MaxLimit = 8
  Cuts = {FALSE, TRUE}
  Task <- MCTask
  Val <- MCVal
  Run <- MCRun
  Need <- MCNeed
  Starts <- MCStarts
  StartVals <- MCStartVals
  Limits = {1, 3, 4, 5, 8}
  IsGoal <- MCIsGoal
  Kids <- MCKids
  Cost <- MCCost
  Constraint <- MCConstraint
  Asks <- MCAsks
  Solvable <- MCSolvable
  Sub <- MCSub
  Closings <- MCClosings
SPECIFICATION FairTreeSpec
INVARIANTS RoomLeft NoAlias Committed NothingTwice Sound NothingSkipped
PROPERTY Terminates
CHECK_DEADLOCK FALSE
