\* Processes are spawned one at a time: the only one spawned is the primary one.
SPECIFICATION FairSpec
CONSTANTS
  Procs = {1, 2, 3}
  Uses <- MCOneByOne
  MaxPsets = 3
PROPERTIES
  AckArrives
\* Every process ends.
CHECK_DEADLOCK FALSE
