SPECIFICATION FairSpec
CONSTANTS
  x = x
  y = y
  c1 = c1
  c2 = c2
  c3 = c3
  main = main
  v1 = v1
  a1 = a1
  a2 = a2
  sec = sec
  None = None
  NotAHash = NotAHash
  Garbage = Garbage
  BDs <- MCBDs
  Initial <- MCInitial
  SourcesOf <- MCSourcesOf
  Commits <- MCCommits
  History <- MCHistory
  Branches = {main}
  Default = main
  Tags = {v1}
  Archives = {a1, a2}
  Secrets = {sec}
  Private = {"http"}
  Chars <- MCChars
  MaxEdits = 1
  MaxChanges = 1
  MaxFaults = 1
INVARIANTS UnpackedIsAsked ResolvedReproduces
PROPERTIES Served
CHECK_DEADLOCK FALSE
