\* Every input of up to six integers out of three, on two targets.
SPECIFICATION Spec
CONSTANTS
  Values = {1, 2, 3}
  Sizes = {1, 2, 3, 4, 5, 6}
  NumTargets = 2
INVARIANTS
  TypeOK
  TaskSorts
  ReduceMerges
  GraphSorts
  MergeSortAgrees
  IterativeAgrees
\* The graph of tasks ends.
CHECK_DEADLOCK FALSE
