SPECIFICATION Spec
CONSTANTS
  Shims = {s1}
  Contents = {"v1", "v2"}
  Scenes <- OneJobScenes
  Mentions <- OwnNames
  Empty = Empty
  Partial = Partial
  ErrorPage = ErrorPage
  NoDigest = NoDigest
  None = None
  MaxPods = 2
  NumRetry = 1
INVARIANT CompletedInstallIsLoaded
CHECK_DEADLOCK FALSE
