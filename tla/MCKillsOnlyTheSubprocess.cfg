CONSTANTS
  outer = outer
  inner = inner
  Context <- MCContext
  NoBase = NoBase
  Input = 4
  Output = 4
  PipeSize = 1
SPECIFICATION SubprocessSpec
INVARIANT KillsOnlyTheSubprocess
CHECK_DEADLOCK FALSE
