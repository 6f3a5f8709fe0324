SPECIFICATION Spec
CONSTANTS
  s1 = s1
  s2 = s2
  m1 = m1
  m2 = m2
  m3 = m3
  sender = sender
  recipient = recipient
  operator = operator
  trigger = trigger
  NoParty = NoParty
  MaxTime = 5
  MaxDecimal = 10
  Streams = {s1, s2}
  Terms <- MCTerms
  MaxIterations = 3
  Handlers = {h1, h2}
  FlowRate = 2
  FlowStart = 1
  InitialFunded = 2
  Amounts = {0, 2}
  MaxFunded = 4
  MaxVersions = 5
  RatePerCycle = 2
  CadenceSeconds = 2
  MaxTotal = 5
  MandateStart = 1
  MandateEnd = 5
  Milestones = {m1, m2, m3}
  MilestoneName <- MCName
  Worth <- MCWorth
  Cids = {1, 2}
  MaxBatch = 3
  Sender = sender
  Recipient = recipient
  RoleSets <- OperatorRoles
  Expiries = {2, 4}
  MaxTerms = 3
  States = {k1, k2}
  Actions = {withdraw, cancel}
  allowedActions = {withdraw}
  TargetStreams = {s1, s2}
  streamFilters = {s1}
  maxExecutionsPerPeriod = 2
  periodDuration = 3
  maxAmountPerExecution = 1
  cooldownInterval = 1
  expiresAt = 5
  MaxExecutions = 5
  f1 = f1
  f2 = f2
  a1 = a1
  a2 = a2
  l1 = l1
  l2 = l2
  l3 = l3
  Sessions = {f1, f2}
  Payers <- MCPayers
  Requests <- MCRequests
  PeriodRate = 1
  SettleWindow = 1
  MaxAllocations = 2
  MaxPeriods = 2
  Assets = {a1, a2}
  Loops = {l1, l2, l3}
  LogEnd = 1
  MaxEvents = 3
  Absent = Absent
  Empty = Empty
  Torn = Torn
  MaxDeposit = 7
  MaxInstant = 7
  Millisecond = 3
  Whole = 8
  Unit = 4
  Precise = 100
  MaxGross = 16
  MaxLegs = 3
INVARIANT UnifiedPromotesWhenAccepted
CHECK_DEADLOCK FALSE
