SPECIFICATION Spec
CONSTANTS
  Branches = 2
  Budget = 4
  MaxCall = 2
  Overrun = 1
  Fees = {1}
  MayRaise = TRUE
  MayCrash = TRUE
  MaxRestarts = 1
INVARIANTS
  ExposureBounded
  SpendAccounted
  TraceNeverAhead
