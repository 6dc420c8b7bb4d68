SPECIFICATION FairSpec
CONSTANTS
  project = project
  input = input
  header = header
  child = child
  Files <- MCFiles
  Root <- MCRoot
  Project = project
  Input = input
  Options = {header}
  References = {child}
  Output = output
  Directory = directory
  Modes = {TRUE, FALSE}
  MaxEdits = 2
  MayFail = TRUE
INVARIANTS
  TypeOK
  NothingForgotten
  AcknowledgesRead
PROPERTIES
  CatchesUp
CHECK_DEADLOCK FALSE
