\* An input the number of targets does not divide.
SPECIFICATION Spec
CONSTANTS
  Values = {1, 2, 3}
  Sizes = {3}
  NumTargets = 2
INVARIANT AllDelivered
\* The graph of tasks ends.
CHECK_DEADLOCK FALSE
