SPECIFICATION LaneSpec
CONSTANTS
  s1 = s1
  s2 = s2
  Streams = {s1, s2}
  Hosted = {s1}
  WithAdmin = {s1}
  CatchUp = {s2}
  Workers = {w1, w2}
  LandsOf = {"direct"}
  RatePerPeriod <- MCRate
  Terms <- MCTerms
  Lands <- MCLands
  TermEnd <- MCTermEnd
  Pair <- OwnPairs
  Window = 2
  DedupWindow = 1
  HistoryMax = 5
  Unreliable = TRUE
  Recovers = TRUE
  Forces = FALSE
  MaxTransfers = 2
  MaxPrepared = 1
  MaxNamed = 1
  MaxDecimal = 1000
  MaxTime = 2
INVARIANTS
  RowsAreBacked
PROPERTIES
  NeverPaysAhead
  StopIsFinal
SYMMETRY AnyWorker
CHECK_DEADLOCK FALSE
