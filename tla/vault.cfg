SPECIFICATION VaultSpec
CONSTANTS
  t1 = t1
  t2 = t2
  alice = alice
  bob = bob
  NoThread = NoThread
  NoWallet = NoWallet
  Threads <- MCThreads
  Wallets <- MCWallets
  Offers <- MCOffers
  GasCosts <- MCGasCosts
  Deposits <- MCDeposits
  Word = 16
  MaxTime = 1
  CreditGrantPerCore = 2
  RewardRate = 1
  MinStakeDuration = 1
  MaxGrants = 4
  MaxTx = 1
  InitialSol = 1
  MaxFunds = 2
INVARIANTS
  TotalsCoverActive
  BooksBalance
  CreditsBacked
  TxCountWithinCap
PROPERTIES
  MutexReleased
