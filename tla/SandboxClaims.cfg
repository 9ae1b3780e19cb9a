\* The operator may rest for ever in a settled state: no deadlock check.
SPECIFICATION CalmSpec
CONSTANTS
  Pods = {p1}
  Claims = {c1, c2}
  None = None
  Env = {"claim", "crash", "error"}
  MaxReplicas = 1
  MaxLag = 1
  MaxFaults = 1
SYMMETRY Names
INVARIANTS TypeOK SettledClaimsAreAnswered
PROPERTY ImplementsUse
CHECK_DEADLOCK FALSE
