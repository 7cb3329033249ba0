SPECIFICATION Spec
CONSTANTS
  Files = {"events", "answers"}
  Events = "events"
  Standing = {"events"}
  Buffered = {}
  MaxRecords = 2
  MaxCrashes = 2
  PowerCuts = TRUE
CHECK_DEADLOCK FALSE
INVARIANT CheckpointBacked
