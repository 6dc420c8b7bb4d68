SPECIFICATION FairSpec
CONSTANTS
  t1 = t1
  t2 = t2
  Threads = {t1, t2}
  Nobody = Nobody
  Delays = {1, 2}
  MaxPolls = 2
  MaxWait = 1
  Totals <- MCTotals
  HasFetch = TRUE
  MaxFaults = 1
  MaxCancels = 1
INVARIANTS
  TypeOK
  OutcomeIsServers
  ReadTogether
  PollsBounded
PROPERTIES
  SettledStays
  NeverEarly
  WaitEnds
CHECK_DEADLOCK FALSE
