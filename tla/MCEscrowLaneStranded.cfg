SPECIFICATION Spec
CONSTANTS
  e1 = e1
  e2 = e2
  Escrows = {e1}
  Deposit <- Uneven
  Rate = 2
  Cadence = 1
  Window = 1
  DedupWindow = 9
  Cap = 0
  MaxStalls = 2
  Deliveries <- AnyDelivery
  DepositLands = {"direct"}
  DepositsBy = {"wallet"}
  AutoSweep = TRUE
  ReceiverRejects = FALSE
  Unreliable = FALSE
  MaxTime = 3
  MaxTransfers = 3
INVARIANTS
  RevertedReleaseReopens
CHECK_DEADLOCK FALSE
