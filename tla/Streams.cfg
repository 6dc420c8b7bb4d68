SPECIFICATION StreamSpec
CONSTANTS
  Events = 3
  Marks = {"own", "same", "cleared"}
  MaxReconnects = 2
  MaxResumes = 1
CHECK_DEADLOCK FALSE
INVARIANTS NoneSkipped RepeatedAfterCursor
