SPECIFICATION Spec
CONSTANTS
  b1 = b1
  c1 = c1
  c2 = c2
  x = x
  y = y
  None = None
  BDs <- MCOne
  CMs <- MCCMs
  Data <- MCData
  Clashing <- MCClashing
  MaxWrites = 4
SYMMETRY MCSymmetry
INVARIANTS TypeOK ReferencedIsImmutable RestIsCurrent
PROPERTIES ContentIsStable
CHECK_DEADLOCK FALSE
