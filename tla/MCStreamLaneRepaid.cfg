SPECIFICATION LaneSpec
CONSTANTS
  s1 = s1
  s2 = s2
  Streams = {s1}
  Hosted = {s1}
  WithAdmin = {}
  CatchUp = {s1}
  Workers = {w1}
  LandsOf = {"direct"}
  RatePerPeriod <- MCRate
  Terms <- MCTerms
  Lands <- OnlyDirect
  TermEnd <- MCTermEnd
  Pair <- OwnPairs
  Window = 2
  DedupWindow = 9
  HistoryMax = 5
  Unreliable = TRUE
  Recovers = FALSE
  Forces = FALSE
  MaxTransfers = 3
  MaxPrepared = 1
  MaxNamed = 1
  MaxDecimal = 1000
  MaxTime = 2
INVARIANT PaidWithinAccrual
CHECK_DEADLOCK FALSE
