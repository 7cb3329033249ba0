SPECIFICATION FairSpec
CONSTANTS
  Keys <- TwinKeys
  SourceOf <- TwinSource
  NameOf <- TwinName
  Refused = {"b2"}
  Branches = 2
  BatchSize = 2
  MaxRetries = 2
  Lossy = TRUE
  MaxPolls = 2
  MaxDeaths = 1
CHECK_DEADLOCK FALSE
INVARIANTS
  OnePathPerSource
  CrossedMeansIndexed
PROPERTY
  IngestEnds
