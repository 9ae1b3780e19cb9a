\* The operator may rest for ever in a settled state: no deadlock check.
SPECIFICATION Spec
CONSTANTS
  Instances = {i1, i2}
  Pods = {p1, p2}
  None = None
  Env = {}
  MaxReplicas = 1
  MaxLag = 1
  MaxFaults = 0
SYMMETRY Names
INVARIANTS NoRunaway
CHECK_DEADLOCK FALSE
