SPECIFICATION FairSpecQuiet
CONSTANTS
  Nodes = {n1}
  Shims = {s1}
  RuntimeClasses <- ClassNames
  ShimSpecs <- OddSpecs
  Platform <- AllAmd64
  NoObj = NoObj
  NoLocation = NoLocation
  NoDigest = NoDigest
  NoArtifact = NoArtifact
  MaxLag = 1
  MaxBudget = 3
  EnvOps = {"create", "edit", "label", "fail", "fault", "restart"}
INVARIANT ProvisionedMeansInstalled
PROPERTY StatusConverges
CHECK_DEADLOCK FALSE
