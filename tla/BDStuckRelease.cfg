SPECIFICATION FairSpec
CONSTANTS
  s1 = s1
  s2 = s2
  s3 = s3
  NoContent = NoContent
  Sources <- MCGood
  BadSources = {}
  Unsafe = {}
  MaxGen = 1
  MaxFaults = 1
  HealthGate = TRUE
PROPERTIES ContentEventuallyAvailable
CHECK_DEADLOCK FALSE
