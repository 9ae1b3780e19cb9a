\* No symmetry: liveness. The operator may rest for ever in a settled state: no deadlock check.
SPECIFICATION FairSpec
CONSTANTS
  Instances = {i1}
  Pods = {p1}
  None = None
  Env = {"podEnds"}
  MaxReplicas = 1
  MaxLag = 1
  MaxFaults = 0
PROPERTIES PendingIsInFlight
CHECK_DEADLOCK FALSE
