\* The operator may rest for ever in a settled state: no deadlock check.
SPECIFICATION Spec
CONSTANTS
  Instances = {i1}
  Pods = {p1, p2}
  None = None
  Env = {"podEnds", "evict", "crash", "claim"}
  MaxReplicas = 1
  MaxLag = 1
  MaxFaults = 1
SYMMETRY Names
INVARIANTS SettledInstancesMatchPods PodGoneIsGone
PROPERTIES KillsOnlyRetired RestIsStable
CHECK_DEADLOCK FALSE
