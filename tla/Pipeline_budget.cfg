\* One supervisor, one attempt, nothing dies.
CONSTANTS
  Supervisors = {s1}
  Creator = s1
  NoOne = NoOne
  Attempts = 1
  Trailing = 1
  MayDie = FALSE
  MayRefuse = FALSE
SPECIFICATION Spec
INVARIANT OneMeansCompleted
