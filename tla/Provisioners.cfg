SPECIFICATION FairSpec
CONSTANTS
  plain = plain
  registry = registry
  helm = helm
  core = core
  helmProc = helmProc
  b1 = b1
  b2 = b2
  p1 = p1
  p2 = p2
  r1 = r1
  h1 = h1
  crd = crd
  v1 = v1
  v2 = v2
  kc = kc
  kp = kp
  kr = kr
  kh = kh
  Rejected = Rejected
  Nothing = Nothing
  Helm <- helm
  Classes <- MCClasses
  Processes <- MCProcesses
  Process <- MCProcess
  Guarded <- MCGuarded
  Bundles <- MCBundles
  Specs <- MCSpecs
  Manifests <- MCManifests
  Render <- MCRender
  Archive <- MCArchive
  Kinds <- MCKinds
  KindsOf <- MCKindsOf
  CRDs <- MCCRDs
  CRDsOf <- MCCRDsOf
  Present <- MCPresent
  UnsafeCRD <- MCUnsafe
  MaxGen = 2
  MaxFaults = 2
  Chunks = 2
INVARIANTS LetGo LoadedIsWhole
PROPERTIES GuardedUpgradesAreSafe LoadEnds Settles
CHECK_DEADLOCK FALSE
