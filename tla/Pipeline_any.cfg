\* The supervisor that starts the run and one that resumes it, two attempts,
\* and one of the stages that follow the evaluation.
CONSTANTS
  Supervisors = {s1, s2}
  Creator = s1
  NoOne = NoOne
  Attempts = 2
  Trailing = 1
  MayDie = TRUE
  MayRefuse = TRUE
SPECIFICATION Spec
INVARIANTS
  BenchmarkCurrent
  FindingsReported
PROPERTY
  EverySupervisorEnds
