SPECIFICATION FairSpecInstalled
CONSTANTS
  Nodes = {}
  Shims = {s1, s2}
  RuntimeClasses <- ClassNames
  ShimSpecs <- OneSpec
  Platform <- AllAmd64
  NoObj = NoObj
  NoLocation = NoLocation
  NoDigest = NoDigest
  NoArtifact = NoArtifact
  MaxLag = 1
  MaxBudget = 2
  EnvOps = {"delete", "create"}
PROPERTY RuntimeClassRestored
CHECK_DEADLOCK FALSE
