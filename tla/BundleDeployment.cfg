SPECIFICATION FairSpec
CONSTANTS
  s1 = s1
  s2 = s2
  s3 = s3
  NoContent = NoContent
  Sources <- MCAll
  BadSources <- MCBad
  Unsafe <- MCUnsafe
  MaxGen = 2
  MaxFaults = 2
  HealthGate = TRUE
INVARIANTS TypeOK ReadyIsTruthful RestsOnlyWhenDone
PROPERTIES StatusIsCurrent RolloutHolds Converges DeletionCompletes
CHECK_DEADLOCK FALSE
