SPECIFICATION LaneSpec
CONSTANTS
  s1 = s1
  s2 = s2
  Streams = {s1, s2}
  Hosted = {s1}
  WithAdmin = {s1}
  CatchUp = {s2}
  Workers = {w1}
  LandsOf = {"offer"}
  RatePerPeriod <- MCRate
  Terms <- MCTerms
  Lands <- MCLands
  TermEnd <- MCTermEnd
  Pair <- OnePair
  Window = 2
  DedupWindow = 9
  HistoryMax = 5
  Unreliable = TRUE
  Recovers = TRUE
  Forces = FALSE
  MaxTransfers = 2
  MaxPrepared = 1
  MaxNamed = 1
  MaxDecimal = 1000
  MaxTime = 2
INVARIANT UpdateBacksOneCycle
SYMMETRY AnyWorker
CHECK_DEADLOCK FALSE
