\* Two ticks, so that commitments share an identifier or not.
SPECIFICATION MCComputeSpec
CONSTANTS
  llm = llm
  wal = wal
  Unavailable = Unavailable
  TaskIds <- MCTaskIds
  ComputeTypes <- MCTypes
  BaseReward <- MCReward
  SpeedBonuses <- MCBonuses
  RewardWallets <- MCWallets
  Units <- MCUnits
  Resources <- MCKinds
  Capacity <- MCCapacity
  UnitsPer <- MCUnitsPer
  DefaultReward = 1
  MaxSubmitted = 2
  MaxVerified = 3
  MaxLeaves = 4
  Word = 64
  MaxTime = 1
  dave = dave
  eve = eve
  feed_a = feed_a
  feed_b = feed_b
  NoFeeder = NoFeeder
  NoTrader = NoTrader
  Traders <- MCTraders
  Feeders <- MCFeeders
  Prices <- MCPrices
  InitialPrice <- MCInitialPrice
  Orders <- MCOrders
  CpuWeight = 3
  RamWeight = 2
  InitialIndex = 10
  MaxFeeds = 2
  MaxFutures = 2
SYMMETRY MCSymmetry
INVARIANTS
  VerifiedWerePaid
  FullTreeProofsVerify
  CapacityAccounted
  DistributedWithinPaid
  OracleSettled
  QuietOpensConsistent
PROPERTIES
  ClosedIsFinal
