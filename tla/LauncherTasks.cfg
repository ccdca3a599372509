\* Two tasks, two launches, of one task or of both, and garbage in between.
SPECIFICATION FairSpec
CONSTANTS
  t1 = t1
  t2 = t2
  Tasks = {t1, t2}
  Garbage = Garbage
  MaxLaunch = 2
  Garbled = TRUE
INVARIANTS
  TypeOK
  TerminatedIsGivenBack
  LookupIsFresh
PROPERTIES
  StatesMoveForward
  RequestedEnds
\* The graph master may be told to end, and launched processes end.
CHECK_DEADLOCK FALSE
