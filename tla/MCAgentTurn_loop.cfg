\* Two replans, retries, gap steps, a spent budget of calls, a client that leaves.
SPECIFICATION FairSpec
CONSTANTS
  MaxSteps = 4
  MaxToolCalls = 5
  MaxReplans = 2
  MaxLlmCalls = 7
  MaxPlan = 2
INVARIANTS
  Budgets
  PlansWalk
  EvidenceKept
PROPERTIES
  ImplementsOutline
CHECK_DEADLOCK FALSE
