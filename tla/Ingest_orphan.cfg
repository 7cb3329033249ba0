SPECIFICATION Spec
CONSTANTS
  Keys <- TwinKeys
  SourceOf <- TwinSource
  NameOf <- TwinName
  Refused = {}
  Branches = 1
  BatchSize = 2
  MaxRetries = 1
  Lossy = FALSE
  MaxPolls = 1
  MaxDeaths = 1
CHECK_DEADLOCK FALSE
INVARIANT
  SourceKnown
