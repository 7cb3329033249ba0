SPECIFICATION FairSpec
CONSTANTS
  Branches = 2
  Sources <- SharedSources
  Alike <- SharedAlike
  Valid <- SharedValid
  Claims <- SharedClaims
  Listings <- SharedListings
  MaxSources = 2
  MaxDepth = 2
  Minimum = 1
  MayRaise = TRUE
  MaxDeaths = 1
CHECK_DEADLOCK FALSE
INVARIANT
  HighestListingOwns
PROPERTIES
  JudgedOnce
  ImplementsCorpus
  CollectionEnds
