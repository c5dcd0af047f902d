SPECIFICATION FairSpec
CONSTANTS
  Containers = {"app", "api", "raw", "two"}
  Names = {"web", "ops"}
  Ports = {"80", "443"}
  Protos = {"http", "tcp"}
  HTTPProtos = {"http"}
  Paths = {"/", "/api"}
  NoPath = "-"
  LooksLike <- MCLooksLike
  Addrs = {"a1", "a2"}
  None = "none"
  Labels <- MCLabels
  Ignored = {"ops"}
  Preconfigured <- OpsServed
  APISync = TRUE
  SkipShutdownCleanup = FALSE
  MaxChanges = 3
  MaxFaults = 1
INVARIANTS TypeOK SuccessMeansServedUnlessCleared IgnoredUntouched CleanupComplete
PROPERTIES FrozenUnlessSiblingRefused DefinedBeforeAdvertised Converges
