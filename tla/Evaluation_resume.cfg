SPECIFICATION FairSpec
CONSTANTS
  Questions = 2
  Learned = {1, 2}
  Forbidden = {2}
  Arms = {"P0", "P1"}
  Repetitions = 1
  Kinds = {"fact"}
  StoreText = TRUE
  Pinning = TRUE
  Fleet = TRUE
  Listing = TRUE
  Wordless = FALSE
  MaxFaults = 1
  MaxMoves = 1
  MaxDeaths = 1
CHECK_DEADLOCK FALSE
INVARIANTS
  AskedOnce
  ResultOnFile
  BaselineSealed
  TreatedUnlessKilled
PROPERTY
  EvaluationEnds
