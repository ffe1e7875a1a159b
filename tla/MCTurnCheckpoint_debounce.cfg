\* Three turns of two steps, in a row or at once, and a fault.
SPECIFICATION Spec
CONSTANTS
  Turns = {t1, t2, t3}
  None = none
  MaxSteps = 2
  MaxFaults = 1
INVARIANTS
  NoResurrection
  SnapshotKept
PROPERTIES
  SnapshotsAdvance
CHECK_DEADLOCK FALSE
