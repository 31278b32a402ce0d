CONSTANTS
  e1 = e1
  e2 = e2
  Elem <- MCElem
  Nothing = Nothing
  MaxSize = 4
  MaxSaves = 3
SPECIFICATION Spec
INVARIANTS LogExact SavesNested
PROPERTY ImplementsSnapshots
