SPECIFICATION Spec
CONSTANTS
  Shims = {s1, s2}
  Contents = {"v1", "v2"}
  Scenes <- QuietScenes
  Mentions <- OwnNames
  Empty = Empty
  Partial = Partial
  ErrorPage = ErrorPage
  NoDigest = NoDigest
  None = None
  MaxPods = 2
  NumRetry = 1
INVARIANT NoEntryMeansNotInstalled
CHECK_DEADLOCK FALSE
