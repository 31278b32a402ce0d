CONSTANTS
  Nothing = Nothing
  FunIds <- MCFunIds
  PredIds <- MCPredIds
  FunSize <- MCFunSize
  Problems <- MCProblems
  MaxDepth = 4
  Task <- Frames
  Val <- Vals
  Run <- FrameRun
  Need <- FrameNeed
  Starts <- StartFrames
  StartVals = {}
  Limits <- MCLimits
  MaxLimit = 6
  Cuts = {FALSE, TRUE}
  Inputs <- ProblemNumbers
  StartTask <- Start
  StartVal <- InitialVal
  MaxCost <- ProblemCost
  Output <- ProofAndVal
SPECIFICATION FairScheduleSpec
INVARIANTS ProofSound FrameFits Paid NoCycles StartsAfresh UsesItsTime NothingMissed
PROPERTIES Returns
CHECK_DEADLOCK FALSE
