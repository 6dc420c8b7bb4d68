SPECIFICATION Spec
CONSTANTS
  MaxRetries = 2
  InitialDelay = 1
  MaxDelay = 2
  MaxRetryAfter = 3
  ServerDelays = {0, 2, 4}
  Total = 4
  MaxTime = 5
  MaxHops = 1
INVARIANTS
  ExecutedOnce
  FurthestTrue
PROPERTY
  ResentInTime
CHECK_DEADLOCK FALSE
