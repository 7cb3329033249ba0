\* Three supervisors that acquire in any order and may be killed anywhere.
CONSTANTS
  Procs = {p1, p2, p3}
  NoProc = NoProc
  Overlap = TRUE
  MayDie = TRUE
SPECIFICATION Spec
INVARIANT
  SoleDriver
