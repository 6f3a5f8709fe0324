SPECIFICATION Spec
CONSTANTS
  Receivers = {r1, r2}
  NoCid = 0
  PeriodSeconds = 1
  StartTime = 0
  EndTime = 2
  MaxTime = 3
  Deadlines = {3}
  Fundings = {1, 2}
  OwnIds = {}
  MaxDrafts = 2
INVARIANTS
  LegsNamedOnce
CHECK_DEADLOCK FALSE
