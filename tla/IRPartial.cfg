SPECIFICATION Spec
CONSTANTS
  d1 = d1
  d2 = d2
  plain = plain
  registry = registry
  Tag = Tag
  Git = Git
  BadRef = BadRef
  None = None
  Digests <- MCDigests
  Workers <- MCOne
  Layers = 2
  MaxEdits = 0
  MaxSwitches = 0
  MaxMoves = 0
  MaxFaults = 0
  MaxCrashes = 1
  MaxTotal = 1
INVARIANTS BundleIsFull
CHECK_DEADLOCK FALSE
