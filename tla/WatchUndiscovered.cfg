SPECIFICATION Spec
CONSTANTS
  project = project
  input = input
  header = header
  child = child
  Files <- MCFiles
  Root <- MCRoot
  Project = project
  Input = input
  Options = {header}
  References = {child}
  Output = output
  Directory = directory
  Modes = {FALSE}
  MaxEdits = 3
  MayFail = FALSE
INVARIANTS
  WatchedOnceRead
CHECK_DEADLOCK FALSE
