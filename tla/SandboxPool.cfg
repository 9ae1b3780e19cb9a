\* The operator may rest for ever in a settled state: no deadlock check.
SPECIFICATION Spec
CONSTANTS
  Pods = {p1, p2}
  Claims = {c1}
  None = None
  Env = {"template", "policy", "rescale", "deletePool", "evict", "crash", "error"}
  MaxReplicas = 2
  MaxLag = 1
  MaxFaults = 1
SYMMETRY Names
INVARIANTS SettledPoolIsAsOrdered PodsBehindPolicy
PROPERTIES RestIsStable
CHECK_DEADLOCK FALSE
