SPECIFICATION Spec
CONSTANTS
  d1 = d1
  d2 = d2
  Count = 2
  Dirs = {d1, d2}
  Chain <- MCDeep
  MaxFaults = 2
  MaxMoves = 2
INVARIANTS
  TypeOK
  NothingLost
  RolledBack
  PublishedAsPlanned
CHECK_DEADLOCK FALSE
