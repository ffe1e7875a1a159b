\* Calls on two sessions, nested in one order, with work left behind by a fn.
\* No symmetry: the run checks liveness and a refinement as well.
SPECIFICATION Spec
CONSTANTS
  Calls = {c1, c2, c3}
  s1 = s1
  s2 = s2
  Sessions = {s1, s2}
  None = None
  Nests <- OneWay
  Detaches = TRUE
INVARIANTS
  MutualExclusion
  ServedInOrder
  MapDrained
PROPERTIES
  EveryCallIsServed
  ImplementsMutex
CHECK_DEADLOCK FALSE
