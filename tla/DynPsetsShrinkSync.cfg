\* Two processes lose one, and MPI_Comm_disconnect waits for all.
SPECIFICATION FairSpec
CONSTANTS
  Procs = {1, 2}
  Uses <- MCShrinkSync
  MaxPsets = 2
PROPERTIES
  AnnouncedIsFinalized
\* Every process ends.
CHECK_DEADLOCK FALSE
