SPECIFICATION StreamSpec
CONSTANTS
  Events = 1
  Marks = {"own", "same", "cleared"}
  MaxReconnects = 2
  MaxResumes = 1
CHECK_DEADLOCK FALSE
INVARIANTS IdleNeverReconnects
