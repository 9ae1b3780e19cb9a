\* No symmetry: liveness. The operator may rest for ever in a settled state: no deadlock check.
SPECIFICATION FairSpec
CONSTANTS
  a = a
  b = b
  Skills = {s1}
  Profiles = {p1}
  Images = {a, b}
  None = None
  SkillSpecs <- Runs
  ProfileSpecs <- Roles
  MaxConfigs = 1
  MaxEdits = 2
  MaxLag = 1
  MaxCrashes = 1
  MaxErrors = 1
INVARIANTS TypeOK SettledReadyIsTrue
PROPERTIES ReadyIsForThisSpec RestIsStable ComesToRest
CHECK_DEADLOCK FALSE
