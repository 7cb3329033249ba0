\* Two supervisors acquire at the same time, and nobody dies.
CONSTANTS
  Procs = {p1, p2}
  NoProc = NoProc
  Overlap = TRUE
  MayDie = FALSE
SPECIFICATION Spec
INVARIANT
  OneSupervisor
