SPECIFICATION Spec
CONSTANTS
  Calls = {c1, c2}
  Retries = 2
  Threshold = 4
  Interval = 1
  Timeout = 1
INVARIANTS AttemptsAreCapped
CHECK_DEADLOCK FALSE
