SPECIFICATION Spec
CONSTANTS
  Branches = 2
  Budget = 4
  MaxCall = 2
  Overrun = 0
  Fees = {}
  MayRaise = FALSE
  MayCrash = FALSE
  MaxRestarts = 0
INVARIANT HardBudget
