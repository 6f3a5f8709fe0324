SPECIFICATION FairSpec
CONSTANTS
  Procs = {p1, p2}
  StaleAfter = 1
  Crashes = TRUE
  Timely = TRUE
  MaxClock = 3
  MaxMutations = 2
INVARIANTS
  OneHolder
PROPERTIES
  SavesAreAtomic
  DeadHolderIsReplaced
CHECK_DEADLOCK FALSE
