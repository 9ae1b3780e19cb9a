\* No symmetry: liveness. The operator may rest for ever in a settled state: no deadlock check.
SPECIFICATION FairSpec
CONSTANTS
  Pods = {p1}
  Claims = {c1}
  None = None
  Env = {"claim", "ttl", "error", "podRuns", "crash"}
  MaxReplicas = 1
  MaxLag = 1
  MaxFaults = 1
PROPERTIES DeletedClaimGoes ImplementsLooseUse RestIsStable
CHECK_DEADLOCK FALSE
