SPECIFICATION FairSpec
CONSTANTS
  Launches = {l1}
  Runs = {r1, r2}
  NoRun = NoRun
  Kinds = {"pipeline", "resume", "single"}
  MaxCrashes = 2
  Targets = {r1}
  Nothing = Nothing
  MaxRemovals = 2
  Editors = {browser, agent}
  Agents = {agent}
  Keys = {k1, k2}
  Values = {v1}
  Configs = {c1, c2}
  Unset = Unset
  MaxEdits = 3
  Docs = {d1, d2}
  MaxEvents = 5
  MaxReceipts = 3
CHECK_DEADLOCK FALSE
INVARIANTS
  UnstoppedIsOver
  OneRowEach
  EditsKept
  ScrubberNeverAhead
PROPERTY
  EndIsSeen
