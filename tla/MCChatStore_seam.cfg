\* The seam and readers in two instances, the seam and locked writers in one.
\* No symmetry: the run checks a refinement as well.
SPECIFICATION Spec
CONSTANTS
  Ops = {p1, p2, p3}
  i1 = i1
  i2 = i2
  Instances = {i1, i2}
  None = None
  Deployments <- SafeDeployments
  MaxRetries = 2
INVARIANTS
  NoLostUpdate
  RejectedLeavesNoTrace
PROPERTIES
  ImplementsAtomicDocument
CHECK_DEADLOCK FALSE
