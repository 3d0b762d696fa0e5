SPECIFICATION FairSpec
CONSTANTS
  o1 = o1
  o2 = o2
  o3 = o3
  g1 = g1
  g2 = g2
  Objects <- MCObjects
  GVKs <- MCGVKs
  Kind <- MCKind
  MaxDrift = 2
  MaxFaults = 1
  HealthGate = TRUE
INVARIANTS TypeOK RestIsWatched DriftIsNoticed RestIsReported
PROPERTIES EventuallyRepaired
