\* The operator may rest for ever in a settled state: no deadlock check.
SPECIFICATION Spec
CONSTANTS
  Pods = {p1, p2}
  Claims = {c1}
  None = None
  Env = {"claim"}
  MaxReplicas = 1
  MaxLag = 1
  MaxFaults = 0
SYMMETRY Names
INVARIANTS NoPodIsLeaked
CHECK_DEADLOCK FALSE
