SPECIFICATION FairSpec
CONSTANTS
  StaleAfter = 1
  Budget = 2
  SleepTime = 2
  CleanupTime = 2
  StopTimeout = 3
  CycleTail = 1
  MaxEvents = 2
INVARIANTS TypeOK HealthyJustified ChangeNotMissed
PROPERTIES KilledOnlyHeldUp BrokenIsReported EveryChangeRead
