\* The operator may rest for ever in a settled state: no deadlock check.
SPECIFICATION Spec
CONSTANTS
  Pods = {p1}
  Claims = {c1}
  None = None
  Env = {"claim", "rescale"}
  MaxReplicas = 1
  MaxLag = 1
  MaxFaults = 0
SYMMETRY Names
PROPERTIES ScaleDownSparesClaimed
CHECK_DEADLOCK FALSE
