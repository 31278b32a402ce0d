CONSTANTS
  BLOCK = 3
  Sizes <- MCSizes
  MaxBlocks = 3
  MaxSaves = 3
SPECIFICATION Spec
INVARIANTS Disjoint SavesKeep
