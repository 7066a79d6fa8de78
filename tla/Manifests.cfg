SPECIFICATION Spec
CONSTANTS
  NoLocation = NoLocation
  NoDigest = NoDigest
  NoArtifact = NoArtifact
  MaxPlatforms = 3
  MaxNameLength = 3
  K8sNameMaxLength = 7
  INSTALL <- Install
  UNINSTALL <- Uninstall
INVARIANTS FirstFittingEntry AnonHTTPOnlyWithoutPlatforms JobNameIdentifies UninstallJobIsAnother
