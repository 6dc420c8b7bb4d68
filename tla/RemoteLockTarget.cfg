SPECIFICATION LockSpec
CONSTANTS
  a = a
  b = b
  Jobs = {1}
  Requests = {a, b}
  Reads <- MCReads
  Locks = {l1, l2}
  SingleTarget = TRUE
  MaxBody = 1
  MaxChanges = 2
PROPERTY StaysVerified
