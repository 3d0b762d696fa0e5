SPECIFICATION Spec
CONSTANTS
  s1 = s1
  s2 = s2
  s3 = s3
  NoContent = NoContent
  Sources <- MCGood
  BadSources = {}
  Unsafe = {}
  MaxGen = 1
  MaxFaults = 0
  HealthGate = TRUE
PROPERTIES FinalizedMeansClean
CHECK_DEADLOCK FALSE
