CONSTANTS
  t1 = t1
  t2 = t2
  Thread <- MCThread
  Context <- MCContext
  NoBase = 0
  NoActor = NoActor
SPECIFICATION CtxSpec
INVARIANTS Alive Reaches NoDeadlock
PROPERTY Implements
CHECK_DEADLOCK FALSE
SYMMETRY MCSymmetry
