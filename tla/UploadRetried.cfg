SPECIFICATION Spec
CONSTANTS
  h1 = h1
  Handles = {h1}
  First = h1
  Nobody = Nobody
  Size = 3
  Chunk = 2
  PartialCommit = TRUE
  HasCompletion = TRUE
  Retries = 1
  Lengths <- MCLengths
  MaxFaults = 4
  MaxCompletions = 2
INVARIANT AppliedAtMostOnce
CHECK_DEADLOCK FALSE
