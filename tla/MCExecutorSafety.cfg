\* Two workers, three requests, a socket queue of two, lossy state reports.
SPECIFICATION Spec
CONSTANTS
  r1 = r1
  r2 = r2
  r3 = r3
  Requests = {r1, r2, r3}
  N = 2
  Backlog = 2
  LossyHttp = TRUE
  None = None
SYMMETRY RequestSymmetry
INVARIANTS
  TypeOK
  WorkerAccounting
  AtMostOnce
PROPERTIES
  DropNeedsFullPool
  FinalStateIsFinal
  ImplementsTaskService
\* All requests are eventually served and every thread then waits.
CHECK_DEADLOCK FALSE
