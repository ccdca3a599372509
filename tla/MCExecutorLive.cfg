\* One worker, three requests, a server that can always be reached.
SPECIFICATION FairSpec
CONSTANTS
  r1 = r1
  r2 = r2
  r3 = r3
  Requests = {r1, r2, r3}
  N = 1
  Backlog = 1
  LossyHttp = FALSE
  None = None
PROPERTIES
  WorkerComesBack
  SentIsSettled
  AcceptedIsDecided
\* All requests are eventually served and every thread then waits.
CHECK_DEADLOCK FALSE
