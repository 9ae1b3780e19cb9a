\* No symmetry: liveness. The operator may rest for ever in a settled state: no deadlock check.
SPECIFICATION FairSpec
CONSTANTS
  Instances = {i1}
  Pods = {p1}
  None = None
  Env = {"podEnds", "deletePool", "error", "rescale"}
  MaxReplicas = 1
  MaxLag = 1
  MaxFaults = 1
PROPERTIES RetiredIsRemoved DeadIsNoticed
CHECK_DEADLOCK FALSE
