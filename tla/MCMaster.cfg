CONSTANTS
  p1 = p1
  p2 = p2
  p3 = p3
  w1 = w1
  w2 = w2
  Problem <- MCProblem
  Server <- MCServer
  HasEquality <- MCHasEquality
  Revision = {"old", "new"}
  Commit = "new"
  MaxFaults = 1
  MaxInFlight = 2
  MaxProcess = 1
  ChanSize = 1
  NoCase = NoCase
SPECIFICATION FairSpec
INVARIANTS OneProver Throttled ReportWhole OneRevision
PROPERTY Ends
CHECK_DEADLOCK FALSE
