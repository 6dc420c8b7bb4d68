SPECIFICATION LockSpec
CONSTANTS
  a = a
  b = b
  Jobs = {1, 2}
  Requests = {a, b}
  Reads <- MCReads
  Locks = {l1, l2}
  SingleTarget = FALSE
  MaxBody = 1
  MaxChanges = 2
SYMMETRY MCSymmetry
PROPERTIES
  RecordsWhatWasRead
  PublishedAsLocked
  StaysVerified
