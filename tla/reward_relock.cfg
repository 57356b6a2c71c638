\* Two workers, two receipts, and a pool that cannot pay everything asked.
SPECIFICATION RewardSystemSpec
CONSTANTS
  NoCall = NoCall
  Workers = {ann, ben}
  Inferrers = {ann, ben}
  ReceiptIds = {1, 2}
  Amounts = {1, 2}
  Rewards = {1}
  PoolDeposits = {1}
  MaxReceipts = 1
  Word = 16
  MaxTime = 1
  MaxRewardPerReceipt = 2
  MaxRewardPerWorkerPerDay = 2
  MaxPoolBalance = 3
  Day = 1
  InitialPool = 2
  MaxFiled = 4
PROPERTIES
  CreateReturns
CHECK_DEADLOCK FALSE
