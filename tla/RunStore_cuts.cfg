SPECIFICATION Spec
CONSTANTS
  Files = {"events", "answers"}
  Events = "events"
  Standing = {"events"}
  Buffered = {"events"}
  MaxRecords = 3
  MaxCrashes = 2
  PowerCuts = TRUE
CHECK_DEADLOCK FALSE
INVARIANTS
  NumbersUnbroken
  NothingBehindAFragment
PROPERTY
  DurableStays
