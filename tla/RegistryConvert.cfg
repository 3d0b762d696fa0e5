SPECIFICATION Spec
CONSTANTS
  n1 = n1
  n2 = n2
  sys = sys
  sa1 = sa1
  a = a
  b = b
  r1 = r1
  r2 = r2
  Default = Default
  Empty = Empty
  SystemNS = sys
  Namespaces <- MCNamespaces
  SAs <- MCSAs
  Names <- MCNames
  Policies <- MCPolicies
  ReadNamespaces = r2
  Inputs <- MCInputs
INVARIANTS KeysAreDistinct AccessIsAsked NothingDangles ScopeIsConfined
CHECK_DEADLOCK FALSE
