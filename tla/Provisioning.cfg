SPECIFICATION FairSpec
CONSTANTS
  Nodes = {n1, n2}
  Shims = {s1}
  RuntimeClasses <- ClassNames
  ShimSpecs <- MixedSpec
  Platform <- Mixed
  NoObj = NoObj
  NoLocation = NoLocation
  NoDigest = NoDigest
  NoArtifact = NoArtifact
  MaxLag = 1
  MaxBudget = 2
  EnvOps = {"create", "touch", "fault"}
PROPERTY EventuallyProvisioned
CHECK_DEADLOCK FALSE
