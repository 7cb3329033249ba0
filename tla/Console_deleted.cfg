SPECIFICATION FairSpec
CONSTANTS
  Launches = {l1}
  Runs = {r1, r2}
  NoRun = NoRun
  Kinds = {"pipeline"}
  MaxCrashes = 1
  Targets = {r1}
  Nothing = Nothing
  MaxRemovals = 1
  Editors = {browser, agent}
  Agents = {agent}
  Keys = {k1, k2}
  Values = {v1}
  Configs = {c1, c2}
  Unset = Unset
  MaxEdits = 1
  Docs = {d1}
  MaxEvents = 2
  MaxReceipts = 2
INVARIANTS NothingLiveDeleted
CHECK_DEADLOCK FALSE
