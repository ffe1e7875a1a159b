\* Three sub-questions in batches of two, one slot and a retry.
SPECIFICATION PassFairSpec
CONSTANTS
  Main = main
  Subs = {s1, s2, s3}
  Callers = {main, s1, s2, s3}
  None = none
  MaxConcurrency = 1
  MaxAttempts = 2
  Parallel = 2
  MainCalls = 1
  SubCalls = 2
  MaxPassCalls = 2
INVARIANTS
  Ceiling
  NobodyWaitsInVain
  NoOrphanHandle
PROPERTIES
  PassEnds
CHECK_DEADLOCK FALSE
