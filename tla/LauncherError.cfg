\* A failing task.
SPECIFICATION Spec
CONSTANTS
  t1 = t1
  Tasks = {t1}
  Garbage = Garbage
  MaxLaunch = 1
  Garbled = FALSE
PROPERTY ErrorIsKept
\* The graph master may be told to end, and launched processes end.
CHECK_DEADLOCK FALSE
