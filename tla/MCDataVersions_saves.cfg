\* Three operations, one of the agent's tool and one of createColumn, a rebuild, a foreign edit, one failing call.
SPECIFICATION Spec
CONSTANTS
  Ops = {o1, o2, o3}
  Tools = {o3}
  Handlers = {o2}
  Rebuilds = {r1}
  p1 = p1
  Processes = {p1}
  Home <- OneHome
  None = None
  KeepVersions = 2
  MaxRetries = 2
  MaxEdits = 1
  MaxFaults = 1
INVARIANTS
  BlobIsCurrent
  HistoryEndsInCurrent
PROPERTIES
  ForeignFieldsKept
CHECK_DEADLOCK FALSE
