SPECIFICATION Spec
CONSTANTS
  s1 = s1
  s2 = s2
  alice = alice
  Streams = {s1, s2}
  recipient <- OwnRecipients
  Curve <- MCCurve
  Configs <- HostWallet
  MaxAttempts = 1
  Replaceable = {s1}
  Coordinated = FALSE
  MaxFaults = 2
  MaxTime = 2
INVARIANTS
  NeverPaidTwice
