\* A task of two processes grows to four, or shrinks to one, at most three times;
\* grow.c adds two.
SPECIFICATION MCSpec
CONSTANTS
  Procs = {1, 2, 3, 4, 5, 6}
  NumOrig = 2
  Sizes = {1, 2, 4}
  Steps = 3
  Size = 4
  MaxPsets = 4
  NumAdd = 2
  Programs = {"sleep", "grow"}
INVARIANTS
  TypeOK
  StepsAgree
  SetopsInOrder
  CommsAreDefined
  DataIsWhole
PROPERTIES
  NamesAreFresh
  EverybodyEnds
  ImplementsMalleable
\* Every process ends.
CHECK_DEADLOCK FALSE
