\* One thread is enough.
SPECIFICATION VaultSpec
CONSTANTS
  t1 = t1
  t2 = t2
  alice = alice
  bob = bob
  NoThread = NoThread
  NoWallet = NoWallet
  Threads = {t1}
  Wallets = {alice}
  Offers <- MCOffers
  GasCosts = {1}
  Deposits = {1}
  Word = 16
  MaxTime = 1
  CreditGrantPerCore = 2
  RewardRate = 1
  MinStakeDuration = 1
  MaxGrants = 2
  MaxTx = 1
  InitialSol = 1
  MaxFunds = 2
INVARIANTS
  TxCountWithinMax
