SPECIFICATION FairSpec
CONSTANTS
  MinBackoff = 1
  MaxBackoff = 6
  Window = 2
  MaxMoods = 2
  MaxBreaks = 1
INVARIANTS TypeOK ParkedJustified
PROPERTIES SteadyCloudSettles
CHECK_DEADLOCK FALSE
