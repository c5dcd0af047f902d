SPECIFICATION Spec
CONSTANTS
  Keys = {1, 2}
  LabelOff = {1}
  Changing = {1}
  Flaky = {}
  Threshold = 2
  MaxConns = 1
  MaxEvents = 2
INVARIANT OptOutHonoured
CHECK_DEADLOCK FALSE
