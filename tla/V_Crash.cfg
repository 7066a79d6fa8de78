SPECIFICATION FairSpec
CONSTANTS
  Nodes = {n1}
  Shims = {s1}
  RuntimeClasses <- ClassNames
  ShimSpecs <- OneSpec
  Platform <- AllAmd64
  NoObj = NoObj
  NoLocation = NoLocation
  NoDigest = NoDigest
  NoArtifact = NoArtifact
  MaxLag = 1
  MaxBudget = 2
  EnvOps = {"create", "restart"}
PROPERTY EventuallyProvisioned
CHECK_DEADLOCK FALSE
