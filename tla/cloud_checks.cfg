SPECIFICATION FairSpec
CONSTANTS
  Keys = {1, 2}
  LabelOff = {}
  Changing = {1}
  Flaky = {1}
  Threshold = 2
  MaxConns = 2
  MaxEvents = 2
INVARIANTS TypeOK OnceUnlessTorn
PROPERTIES FailingIsNoticed
CHECK_DEADLOCK FALSE
