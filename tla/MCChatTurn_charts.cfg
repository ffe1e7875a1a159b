SPECIFICATION Spec
CONSTANTS
  t1 = t1
  t2 = t2
  t3 = t3
  i1 = i1
  i2 = i2
  Turns <- AllTurns
  home <- Home
  ChartTurns = {t3}
  Instances = {i1, i2}
  Questions = {q1, q2}
  Stamps = {0, 1}
  Window = 2
  MaxAttempts = 2
  None = None
  MaxFaults = 1
INVARIANTS
  SavedChartsHaveData
SYMMETRY TurnSymmetry
CHECK_DEADLOCK FALSE
