SPECIFICATION Spec
CONSTANTS
  v1 = v1
  v2 = v2
  Nodes = {n1}
  Shims = {s1}
  RuntimeClasses <- ClassNames
  ShimSpecs <- Versioned
  Platform <- AllAmd64
  NoObj = NoObj
  NoLocation = NoLocation
  NoDigest = NoDigest
  NoArtifact = NoArtifact
  MaxLag = 1
  MaxBudget = 2
  EnvOps = {"create", "delete", "edit", "label", "restart", "nodeGone", "nodeAdd", "fault", "expire"}
INVARIANTS TypeOK CopiesAgreeWithLive
PROPERTIES ControllersKeepForeignLabels LifecycleSpec
CHECK_DEADLOCK FALSE
SYMMETRY Symmetric
