\* Safety and recovery of the watchdog; grace is 3 probes long.
SPECIFICATION FairWatchdogSpec
CONSTANTS
  ExitOnSocketLoss = TRUE
  Grace = 6
  Interval = 2
  StartupWait = 3
  MaxChanges = 5
INVARIANT WatchdogTypeOK
PROPERTIES
  ExitJustified
  StaleMountRecovers
