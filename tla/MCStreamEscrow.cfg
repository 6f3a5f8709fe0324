SPECIFICATION FairSpec
CONSTANTS
  MaxDecimal = 40
  Configs <- MCConfigs
  Deposits = {1, 3}
  EndTimes = {5, 6}
  MaxTime = 7
  MaxRenewals = 2
INVARIANTS
  FundsAccounted
  NeverOverpaid
PROPERTIES
  EntitlementNeverFalls
  ImplementsFundedPayment
  EventuallySettled
CHECK_DEADLOCK FALSE
