SPECIFICATION Spec
CONSTANTS
  Containers = {"web"}
  Endpoints = {"page", "hook"}
  TCPEndpoints = {}
  Addrs = {"a1"}
  None = "none"
  Unshown = "unshown"
  Label <- MCLabel
  SkipShutdownCleanup = FALSE
  MaxChanges = 2
  MaxFaults = 0
INVARIANTS CleanupRemovesFunnels
