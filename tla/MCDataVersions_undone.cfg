\* One column is created, nothing fails.
SPECIFICATION FairSpec
CONSTANTS
  Ops = {o1}
  Tools = {}
  Handlers = {o1}
  Rebuilds = {}
  p1 = p1
  Processes = {p1}
  Home <- OneHome
  None = None
  KeepVersions = 2
  MaxRetries = 2
  MaxEdits = 0
  MaxFaults = 0
PROPERTIES
  SavedOpsStay
CHECK_DEADLOCK FALSE
