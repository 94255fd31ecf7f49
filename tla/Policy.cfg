SPECIFICATION FairSpec
CONSTANTS
  Calls = {c1, c2, c3}
  Retries = 3
  Threshold = 2
  Interval = 2
  Timeout = 1
INVARIANTS TypeOK AttemptsBounded AloneRetriesFully OpenCircuitSheds
PROPERTIES AloneKeepsRate CallsEnd
CHECK_DEADLOCK FALSE
