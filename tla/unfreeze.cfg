\* Two wallets and a balance on each side of the threshold.
SPECIFICATION StackSpec
CONSTANTS
  Wallets = {w1, w2}
  Balances = {1, 3}
  TransferAmounts = {1}
  RecoverableIds = {record_1}
  GovernedWallets = {w1}
  PreservationThreshold = 2
  CriticalThreshold = 1
  MaxCalls = 5
  Word = 16
  MaxTime = 1
INVARIANTS
  FrozenCanBeUnfrozen
CHECK_DEADLOCK FALSE
