SPECIFICATION Spec
CONSTANTS
  Shims = {s1, s2}
  Contents = {"v1", "v2"}
  Scenes <- AllScenes
  Mentions <- OwnNames
  Empty = Empty
  Partial = Partial
  ErrorPage = ErrorPage
  NoDigest = NoDigest
  None = None
  MaxPods = 2
  NumRetry = 1
INVARIANT TypeOK
PROPERTIES InstallerContract UninstallLeavesNothing KubeletRuntimeReloaded DigestEnforced
CHECK_DEADLOCK FALSE
SYMMETRY Symmetric
