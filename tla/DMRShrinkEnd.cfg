\* Two processes; the runtime may remove one at the end.
SPECIFICATION FairSpec
CONSTANTS
  Procs = {1, 2}
  NumOrig = 2
  Sizes = {1, 2}
  Steps = 1
  Size = 4
  MaxPsets = 2
PROPERTIES
  CancelReturns
CHECK_DEADLOCK FALSE
