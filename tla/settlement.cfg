SPECIFICATION SettlementSpec
CONSTANTS
  r1 = r1
  r2 = r2
  alice = alice
  bob = bob
  tx1 = tx1
  tx2 = tx2
  NoThread = NoThread
  NoWallet = NoWallet
  NoTx = NoTx
  Threads <- MCRelayers
  Wallets <- MCWallets
  Senders <- MCWallets
  Offers <- MCOffers
  GasCosts <- MCGasCosts
  Deposits <- MCDeposits
  Txs <- MCTxs
  Word = 16
  MaxTime = 1
  CreditGrantPerCore = 1
  RewardRate = 1
  MinStakeDuration = 1
  MaxGrants = 1
  MaxTx = 0
  InitialSol = 0
  MaxFunds = 1
  ClaimWindow = 1
  MaxIntents = 2
INVARIANTS
  ExclusiveClaim
  ChargesBackedByClaims
PROPERTIES
  EverySettlementEnds
  ImplementsLedger
