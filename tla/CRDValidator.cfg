SPECIFICATION Spec
CONSTANTS
  v1 = v1
  v2 = v2
  v3 = v3
  x = x
  NoCRD = NoCRD
  Versions <- MCVersions
  Values <- MCValues
  Schemas <- MCSchemas
  MaxVersions = 2
SYMMETRY MCSymmetry
INVARIANTS DenialsAreJustified
PROPERTIES UpgradesAreSafe
