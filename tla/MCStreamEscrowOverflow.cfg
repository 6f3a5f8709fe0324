SPECIFICATION Spec
CONSTANTS
  MaxDecimal = 40
  Configs <- MCLargeConfigs
  Deposits = {2}
  EndTimes = {5}
  MaxTime = 5
  MaxRenewals = 1
INVARIANTS
  NeverUncomputable
CHECK_DEADLOCK FALSE
