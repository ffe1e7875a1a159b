\* One process; all writers of the document, failures, a timeout, a failing request, a reload.
SPECIFICATION EarlyFairSpec
CONSTANTS
  Questions = {q1, q2}
  None = None
  SeedRuns = TRUE
  UserSaves = TRUE
  MergeMayFail = TRUE
  StoreMayFail = TRUE
  StepsMayFail = TRUE
  MayTimeOut = TRUE
  Elsewhere = FALSE
  MaxFaults = 1
  MaxReloads = 1
CONSTRAINT OneDisturbance
INVARIANTS
  AskedOnce
  ReadyMeansUnderstood
  NeverFalselyFailed
  ContextHasNote
PROPERTIES
  RefiredAfterSave
  PollingEnds
CHECK_DEADLOCK FALSE
