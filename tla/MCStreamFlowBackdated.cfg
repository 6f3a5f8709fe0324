SPECIFICATION Spec
CONSTANTS
  FlowRates = {1, 2}
  StartTimes = {0, 2}
  Fundings = {0, 3}
  TopUps = {5}
  Lags = {0, 1, 3}
  MaxElapsed = 100
  MaxTime = 5
  MaxPaused = 6
  MaxFunded = 8
INVARIANTS
  ClockExcludesEachPauseOnce
CHECK_DEADLOCK FALSE
