SPECIFICATION Spec
CONSTANTS
  Branches = 2
  Sources <- SharedSources
  Alike <- SharedAlike
  Valid <- SharedValid
  Claims <- SharedClaims
  Listings <- SharedListings
  MaxSources = 2
  MaxDepth = 1
  Minimum = 1
  MayRaise = TRUE
  MaxDeaths = 0
CHECK_DEADLOCK FALSE
INVARIANT
  FailedBranchIsAGap
