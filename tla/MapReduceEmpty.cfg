\* Fewer integers than targets: a file is empty.
SPECIFICATION Spec
CONSTANTS
  Values = {1, 2, 3}
  Sizes = {1}
  NumTargets = 2
INVARIANT ReadCounts
\* The graph of tasks ends.
CHECK_DEADLOCK FALSE
