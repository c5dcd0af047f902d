SPECIFICATION Spec
CONSTANTS
  MaxFrames = 3
  Size <- MCSize
  MaxConns = 2
  SendBuffer = 1
  MaxEntries = 2
  MaxBytes = 2
  MaxAge = 0
  MaxTime = 1
  MaxConfigs = 1
  MaxCaptures = 1
INVARIANTS TypeOK WaitingBounded OnlyFreshOvertakes
PROPERTIES ImplementsFailureSignals
CHECK_DEADLOCK FALSE
