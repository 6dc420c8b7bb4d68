SPECIFICATION FairSpec
CONSTANTS
  lock = lock
  Callers = {c1, c2}
  Locks = {lock}
  LockOf <- MCLockOf
  Lifetime = 2
  Margin = 1
  MaxTime = 2
  MaxGrants = 2
  MaxCalls = 2
INVARIANTS
  NoReplacedSent
  ReplacedOnce
  SavedInOrder
PROPERTY
  CallsEnd
CHECK_DEADLOCK FALSE
