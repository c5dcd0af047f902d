SPECIFICATION FairSpec
CONSTANTS
  MaxFrames = 2
  Size <- MCSize
  MaxConns = 2
  SendBuffer = 1
  MaxEntries = 2
  MaxBytes = 3
  MaxAge = 0
  MaxTime = 1
  MaxConfigs = 1
  MaxCaptures = 1
PROPERTIES EverySignalSettles
CHECK_DEADLOCK FALSE
