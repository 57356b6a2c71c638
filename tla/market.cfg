SPECIFICATION MCMarketSpec
CONSTANTS
  m1 = m1
  m2 = m2
  s1 = s1
  NoPoint = NoPoint
  NoWriter = NoWriter
  Genesis = Genesis
  Monitors <- MCMonitors
  Settlers <- MCSettlers
  SettlerTypes <- MCSettlerTypes
  Points <- MCPoints
  GasReadings <- MCGasReadings
  HistorySize = 2
  MinDataPoints = 2
  StaleAfter = 0
  MaxFeeds = 3
  MaxEntries = 2
  MaxTime = 1
  c1 = c1
  NoRecommendation = NoRecommendation
  Clients <- MCClients
  Transactions <- MCTransactions
  Depths <- MCDepths
  LargeValue = 3
  MaxPending = 3
  Thresholds <- MCThresholds
  Rules <- MCRules
SYMMETRY MCSymmetry
INVARIANTS
  ReportsSpanWindow
  AgeOfPricesUnlessOvertaken
  RebaseFromOneReport
  ChainVerifies
  RisksStayBelowHalf
PROPERTIES
  ImplementsLog
  ExecutedWasAcceptable
