SPECIFICATION Spec
CONSTANTS
  Procs = {p1, p2, p3}
  StaleAfter = 1
  Crashes = TRUE
  Timely = TRUE
  MaxClock = 0
  MaxMutations = 1
INVARIANTS
  MutualExclusion
CHECK_DEADLOCK FALSE
