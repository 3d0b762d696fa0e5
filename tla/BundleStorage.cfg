SPECIFICATION Spec
CONSTANTS
  w1 = w1
  w2 = w2
  x = x
  y = y
  None = None
  Workers <- MCWorkers
  Contents <- MCContents
  Inodes <- MCInodes
  Size = 2
  MaxEdits = 3
  MaxFaults = 1
SYMMETRY MCSymmetry
INVARIANTS RestIsWhole StoredIsCurrent LoadIsOwn
CHECK_DEADLOCK FALSE
PROPERTY CellHolds
