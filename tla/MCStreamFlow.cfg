SPECIFICATION FairSpec
CONSTANTS
  FlowRates = {1, 2}
  StartTimes = {0, 2}
  Fundings = {0, 3}
  TopUps = {2, 5}
  Lags = {0, 1, 3}
  MaxElapsed = 100
  MaxTime = 6
  MaxPaused = 5
  MaxFunded = 8
INVARIANTS
  DrawsOnlyItsOwn
  PromptClockIsExact
PROPERTIES
  ImplementsFundedPayment
  PauseFreezesAccrual
  EverythingIsClaimed
CHECK_DEADLOCK FALSE
