SPECIFICATION FairSpec
CONSTANTS
  d1 = d1
  d2 = d2
  plain = plain
  registry = registry
  Tag = Tag
  Git = Git
  BadRef = BadRef
  None = None
  Digests <- MCDigests
  Workers <- MCTwo
  Layers = 2
  MaxEdits = 1
  MaxSwitches = 1
  MaxMoves = 1
  MaxFaults = 2
  MaxCrashes = 1
  MaxTotal = 3
INVARIANTS IInv OneImageInCache UnpackedIsWhole SettlesOnCurrentRef
PROPERTIES EventuallyUnpacked
CHECK_DEADLOCK FALSE
