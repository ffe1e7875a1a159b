\* The undisturbed upload with its seed: one question, nothing fails.
SPECIFICATION EarlyFairSpec
CONSTANTS
  Questions = {q1}
  None = None
  SeedRuns = TRUE
  UserSaves = FALSE
  MergeMayFail = FALSE
  StoreMayFail = FALSE
  StepsMayFail = FALSE
  MayTimeOut = FALSE
  Elsewhere = FALSE
  MaxFaults = 0
  MaxReloads = 0
PROPERTIES
  RefiredOnRows
CHECK_DEADLOCK FALSE
