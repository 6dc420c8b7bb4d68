SPECIFICATION FairSpec
CONSTANTS
  h1 = h1
  Handles = {h1}
  First = h1
  Nobody = Nobody
  Size = 3
  Chunk = 2
  PartialCommit = TRUE
  HasCompletion = TRUE
  Retries = 0
  Lengths <- MCLengths
  MaxFaults = 4
  MaxCompletions = 5
INVARIANTS
  TypeOK
  CompleteIsDone
  CompletionAppliedOnce
  NoOffsetRefused
PROPERTY UploadEnds
CHECK_DEADLOCK FALSE
