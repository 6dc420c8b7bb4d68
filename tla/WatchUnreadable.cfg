SPECIFICATION FairSpec
CONSTANTS
  project = project
  input = input
  header = header
  child = child
  Files <- MCFiles
  Root <- MCRoot
  Project = project
  Input = input
  Options = {header}
  References = {child}
  Output = output
  Directory = directory
  Modes = {TRUE}
  MaxEdits = 2
  MayFail = FALSE
PROPERTIES
  ComesToRest
CHECK_DEADLOCK FALSE
