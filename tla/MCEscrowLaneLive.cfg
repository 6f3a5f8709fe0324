SPECIFICATION LiveSpec
CONSTANTS
  e1 = e1
  e2 = e2
  Escrows = {e1, e2}
  Deposit <- Uneven
  Rate = 2
  Cadence = 1
  Window = 1
  DedupWindow = 9
  Cap = 0
  MaxStalls = 2
  Deliveries <- ByPreapproval
  DepositLands = {"direct"}
  DepositsBy = {"proxy"}
  AutoSweep = FALSE
  ReceiverRejects = TRUE
  Unreliable = FALSE
  MaxTime = 1
  MaxTransfers = 4
PROPERTIES
  DueCyclesAreReleased
  LapsedFundsComeBack
CHECK_DEADLOCK FALSE
