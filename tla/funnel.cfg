SPECIFICATION FairSpec
CONSTANTS
  Containers = {"web", "copy", "api", "sql"}
  Endpoints = {"page", "hook", "db"}
  TCPEndpoints = {"db"}
  Addrs = {"a1", "a2"}
  None = "none"
  Unshown = "unshown"
  Label <- MCLabel
  SkipShutdownCleanup = FALSE
  MaxChanges = 3
  MaxFaults = 1
INVARIANTS TypeOK SuccessMeansFunnelled
PROPERTIES ForeignFunnelsKept FunnelsSettle
