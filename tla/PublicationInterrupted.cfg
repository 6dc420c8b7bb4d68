SPECIFICATION Spec
CONSTANTS
  d1 = d1
  d2 = d2
  Count = 2
  Dirs = {d1}
  Chain <- MCFlat
  MaxFaults = 1
  MaxMoves = 0
INVARIANTS
  InterruptRollsBack
CHECK_DEADLOCK FALSE
