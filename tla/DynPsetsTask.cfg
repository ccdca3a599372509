\* One process grows by pairs to five, or four processes lose one at a time.
SPECIFICATION FairSpec
CONSTANTS
  Procs = {1, 2, 3, 4, 5}
  Uses <- MCUses
  MaxPsets = 4
INVARIANTS
  TypeOK
  CollectivesMatch
  NoStrangerCreates
  SetopsInOrder
  IterationsAgree
PROPERTIES
  KeyIsFinal
  NobodyWaitsForever
  ImplementsMalleable
\* Every process comes to its end.
CHECK_DEADLOCK FALSE
