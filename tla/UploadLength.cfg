SPECIFICATION Spec
CONSTANTS
  h1 = h1
  h2 = h2
  Handles = {h1, h2}
  First = h1
  Nobody = Nobody
  Size = 3
  Chunk = 2
  PartialCommit = FALSE
  HasCompletion = FALSE
  Retries = 0
  Lengths <- MCSameLength
  MaxFaults = 3
  MaxCompletions = 0
INVARIANTS
  ConfirmedIsHeld
  CompletionDeclared
PROPERTIES
  ImplementsService
CHECK_DEADLOCK FALSE
