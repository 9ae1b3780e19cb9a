\* The operator may rest for ever in a settled state: no deadlock check.
SPECIFICATION Spec
CONSTANTS
  Instances = {i1, i2}
  Pods = {p1, p2}
  None = None
  Env = {"claim", "error"}
  MaxReplicas = 3
  MaxLag = 1
  MaxFaults = 1
SYMMETRY Names
INVARIANTS TypeOK SettledPoolIsAsOrdered
PROPERTIES ScaleDownOnlyIdle ImplementsLifecycle
CHECK_DEADLOCK FALSE
