CONSTANTS
  outer = outer
  inner = inner
  Context <- MCContext
  NoBase = NoBase
  Input = 4
  Output = 4
  PipeSize = 1
SPECIFICATION FairSubprocess
INVARIANTS OutputWhole KilledInTime
PROPERTY CallEnds
CHECK_DEADLOCK FALSE
