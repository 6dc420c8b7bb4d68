SPECIFICATION Spec
CONSTANTS
  Fetchers = {"f1", "f2"}
  Identities = {alice, bob}
  Variant <- MCTwoVariants
  MaxTTL <- MCTTL
  Nobody = Nobody
  MaxEntries = 1
  MaxAge = 2
  Upstream = 0
  MaxTime = 2
  MaxVersion = 1
  MaxFetches = 3
  MaxRenewals = 2
  Asks = {"any"}
  Kinds = {"fresh", "unstored"}
SYMMETRY MCSymmetry
INVARIANTS
  TypeOK
  NotBehind
PROPERTIES
  AnswersItsOwn
  CurrentEnough
CHECK_DEADLOCK FALSE
