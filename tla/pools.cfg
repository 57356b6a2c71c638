\* Rewards: two workers, two receipts, and a pool that cannot pay everything asked.
\* Reimbursements: one identifier chosen by callers next to those of the clock, costs
\* one of which exceeds the word when it is multiplied by the rate, and a pool that
\* may be initialized with less than is reserved in it.
SPECIFICATION MCPoolsSpec
CONSTANTS
  NoCall = NoCall
  Workers = {ann, ben}
  Inferrers = {ann, ben}
  ReceiptIds = {1, 2}
  Amounts = {1, 2}
  Rewards = {1}
  PoolDeposits = {1}
  MaxReceipts = 2
  MaxRewardPerReceipt = 2
  MaxRewardPerWorkerPerDay = 3
  MaxPoolBalance = 3
  Day = 1
  InitialPool = 2
  MaxFiled = 4
  GasWallets = {wal}
  CallerIds = {req_1}
  ReimbursableCosts = {1, 10}
  Pools = {main_pool}
  PoolFunds = {1, 3}
  TopUps = {1}
  RateBps = 2
  BonusBps = 0
  FullRate = 2
  MaxReimbursementPerTx = 2
  MinBalance = 1
  MaxRequests = 3
  MaxProcessed = 3
  MaxRejected = 1
  MaxPoolFunds = 4
  Word = 16
  MaxTime = 2
  MaxReimbursementTime = 1
INVARIANTS
  PoolConserved
  ClaimedWerePaid
  RewardsMatchReceipts
  ReimbursedCoversApproved
  AmountWithinGas
  ReservedIsHeld
PROPERTIES
  OnlyShrinkingOverreserves
CHECK_DEADLOCK FALSE
