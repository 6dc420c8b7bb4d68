SPECIFICATION Spec
CONSTANTS
  Fetchers = {"f1", "f2"}
  Identities = {alice}
  Variant <- MCOneVariant
  MaxTTL <- MCTTL
  Nobody = Nobody
  MaxEntries = 1
  MaxAge = 2
  Upstream = 0
  MaxTime = 1
  MaxVersion = 1
  MaxFetches = 3
  MaxRenewals = 1
  Asks = {"any"}
  Kinds = {"fresh", "validate", "unstored"}
PROPERTY
  SupersededAlways
CHECK_DEADLOCK FALSE
