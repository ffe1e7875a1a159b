\* Three uploads for one slot, timeouts and failures anywhere.
\* No symmetry: the run checks liveness as well.
SPECIFICATION FairSpec
CONSTANTS
  Jobs = {j1, j2, j3}
  MaxConcurrent = 1
  MaxQueueSize = 3
  MayTimeOut = TRUE
INVARIANTS
  Capacity
  NoIdleSlot
  OldestFirst
  TimedOutNeverCompletes
PROPERTIES
  EveryJobEnds
CHECK_DEADLOCK FALSE
