SPECIFICATION LiveSpec
CONSTANTS
  s1 = s1
  s2 = s2
  alice = alice
  Streams = {s1, s2}
  recipient <- OneRecipient
  Curve <- MCCurve
  Configs <- BothConfigs
  MaxAttempts = 1
  Replaceable = {s1}
  Coordinated = TRUE
  MaxFaults = 2
  MaxTime = 2
INVARIANTS
  NeverPaidTwice
  TransfersAreTraceable
PROPERTIES
  EverythingIsWithdrawn
