------------------------- MODULE GasSettlementProofs -------------------------
(***************************************************************************)
(* Proofs about GasVault and about GasSettlement, for any number of        *)
(* threads or relayers, wallets, offers, intents and amounts: the          *)
(* invariant of the vault, its books, the invariant of the composition     *)
(* with the intents, and that it implements the abstract SettlementLedger. *)
(***************************************************************************)
EXTENDS GasSettlement, SumTheorems, TLAPS

\* A thread is inside pay_gas's critical section exactly when it holds mutex_,
\* and a thread inside pay_gas works for a wallet.
LockInv == \A t \in Threads : /\ pc[t] \in Critical <=> holder = t
                              /\ pc[t] # "idle" => user[t] \in Wallets

\* A thread past the rate check works for a user below the cap.
RateInv == /\ TxCountWithinCap
           /\ \A t \in Threads : pc[t] \in Critical => user_tx_counts[user[t]] <= MaxTx

\* An entry was filed in the past, and an unstaked one MinStakeDuration ago.
AgeInv == \A id \in DOMAIN stakes :
            /\ id[2] <= now
            /\ ~stakes[id].active => id[2] + MinStakeDuration <= now

\* The inductive invariant of the vault.
VaultInv == /\ VaultTypeOK
            /\ LockInv
            /\ BooksBalance
            /\ ReservesCoverDebit
            /\ RateInv
            /\ AgeInv

USE WordAssumption, MaxTimeAssumption, StakingAssumption, VaultAssumption

\* Every component starts in the invariant.
LEMMA VaultInitInv == StakingInit /\ ClockInit /\ VaultInit => VaultInv
  <1> SUFFICES ASSUME StakingInit, ClockInit, VaultInit PROVE VaultInv
    OBVIOUS
  <1> USE DEF StakingInit, ClockInit, VaultInit
  <1>1. VaultTypeOK
    BY DEF VaultTypeOK, StakingTypeOK, EmptyTable, Places, StakeId
  <1>2. LockInv
    BY DEF LockInv, Critical
  <1>3. BooksBalance
    BY DEF BooksBalance, InFlight
  <1>4. ReservesCoverDebit
    BY DEF ReservesCoverDebit, At
  <1>5. RateInv
    BY DEF RateInv, TxCountWithinCap, Critical
  <1>6. AgeInv
    BY DEF AgeInv, EmptyTable
  <1> QED
    BY <1>1, <1>2, <1>3, <1>4, <1>5, <1>6 DEF VaultInv

-----------------------------------------------------------------------------
\* The operations on the stakes, by whoever they are called, keep the type of
\* the stakes and their ages.
LEMMA StakeTypes ==
  ASSUME VaultInv,
         \/ StakingNext
         \/ \E t \in Threads : pc[t] = "consume" /\ ConsumeGasAllowance(user[t], gas[t]),
         UNCHANGED now
  PROVE  /\ StakingTypeOK'
         /\ AgeInv'
  <1> USE DEF VaultInv, VaultTypeOK
  <1>1. ASSUME NEW staker \in Wallets, NEW offer \in Offers, StakeCompute(staker, offer)
        PROVE  StakingTypeOK' /\ AgeInv'
    <2>1. /\ offer.cpu_cores \in Nat
          /\ offer.compute_units \in Nat
          /\ CreditGrant(offer) \in Nat
      BY DEF CreditGrant
    <2>2. NewStake(offer) \in ComputeStake
      BY <2>1 DEF NewStake, ComputeStake
    <2>3. StakingTypeOK'
      BY <1>1, <2>1, <2>2 DEF StakeCompute, StakingTypeOK, Put, StakeId
    <2>4. AgeInv'
      BY <1>1, <2>3 DEF StakeCompute, AgeInv, Put, NewStake, StakingTypeOK
    <2> QED
      BY <2>3, <2>4
  <1>2. ASSUME NEW id \in DOMAIN stakes, UnstakeCompute(id)
        PROVE  StakingTypeOK' /\ AgeInv'
    <2>1. id[2] \in Nat /\ stakes[id] \in ComputeStake
      BY DEF StakingTypeOK, StakeId
    <2>2. stakes[id].credit_grants_issued + TimeRewards(stakes[id], now - id[2]) \in Nat
      BY <1>2, <2>1 DEF UnstakeCompute, OldEnough, TimeRewards, ComputeStake
    <2>3. /\ Unstaked(stakes[id], now - id[2]) \in ComputeStake
          /\ ~Unstaked(stakes[id], now - id[2]).active
      BY <2>1, <2>2 DEF Unstaked, ComputeStake
    <2>4. stakes' = [stakes EXCEPT ![id] = Unstaked(stakes[id], now - id[2])]
      BY <1>2 DEF UnstakeCompute
    <2>5. StakingTypeOK'
      BY <1>2, <2>1, <2>3, <2>4 DEF UnstakeCompute, StakingTypeOK, ComputeStake, Minus
    <2>6. AgeInv'
      BY <1>2, <2>1, <2>4 DEF UnstakeCompute, OldEnough, AgeInv, StakingTypeOK
    <2> QED
      BY <2>5, <2>6
  <1>3. ASSUME NEW t \in Threads, pc[t] = "consume", ConsumeGasAllowance(user[t], gas[t])
        PROVE  StakingTypeOK' /\ AgeInv'
    <2>1. PICK id \in Covering(user[t], gas[t]) :
             /\ stakes' = [stakes EXCEPT ![id].gas_credit_allowance = @ - gas[t]]
             /\ UNCHANGED <<total_staked_compute, total_cpu_cores, total_credit_grants_issued>>
      BY <1>3 DEF ConsumeGasAllowance
    <2>2. /\ id \in DOMAIN stakes
          /\ stakes[id] \in ComputeStake
          /\ stakes[id].gas_credit_allowance - gas[t] \in Nat
      BY DEF Covering, StakingTypeOK, ComputeStake
    <2>3. stakes' \in [DOMAIN stakes -> ComputeStake]
      BY <2>1, <2>2 DEF StakingTypeOK, ComputeStake
    <2>4. StakingTypeOK'
      BY <2>1, <2>3 DEF StakingTypeOK
    <2>5. AgeInv'
      BY <2>1, <2>2, <2>3 DEF AgeInv, StakingTypeOK, ComputeStake
    <2> QED
      BY <2>4, <2>5
  <1> QED
    BY <1>1, <1>2, <1>3 DEF StakingNext

-----------------------------------------------------------------------------
\* What the operations on the stakes leave alone of the vault.
LEMMA StakingKeepsVault ==
  ASSUME VaultInv, StakingTypeOK', AgeInv', UNCHANGED <<now, vaultVars>>
  PROVE  VaultInv'
  BY DEF VaultInv, VaultTypeOK, LockInv, BooksBalance, InFlight, ReservesCoverDebit, At,
         RateInv, TxCountWithinCap, vaultVars, ledgerVars, threadVars

\* A statement of pay_gas that touches no stake preserves the invariant.
LEMMA VaultStepKeepsInv ==
  ASSUME VaultInv, NEW t \in Threads, VaultStep(t), UNCHANGED <<stakingVars, now>>
  PROVE  VaultInv'
  <1> USE DEF VaultInv
  <1>a. StakingTypeOK' /\ AgeInv'
    BY DEF stakingVars, StakingTypeOK, AgeInv, VaultTypeOK
  <1> USE DEF VaultTypeOK, ledgerVars, Goto, Critical, Places
  <1>1. ASSUME Acquire(t)
        PROVE  VaultInv'
    <2> USE <1>1 DEF Acquire
    <2>1. VaultTypeOK'
      BY <1>a
    <2>2. LockInv'
      BY DEF LockInv
    <2>3. BooksBalance'
      BY DEF BooksBalance, InFlight
    <2>4. ReservesCoverDebit'
      BY DEF ReservesCoverDebit, At
    <2>5. RateInv'
      BY DEF RateInv, TxCountWithinCap, RateLimited, LockInv
    <2> QED
      BY <1>a, <2>1, <2>2, <2>3, <2>4, <2>5
  <1>2. ASSUME RefuseRateLimited(t)
        PROVE  VaultInv'
    <2> USE <1>2 DEF RefuseRateLimited
    <2>1. VaultTypeOK' /\ LockInv'
      BY <1>a DEF LockInv
    <2>2. BooksBalance' /\ ReservesCoverDebit'
      BY DEF BooksBalance, InFlight, ReservesCoverDebit, At
    <2>3. RateInv'
      BY DEF RateInv, TxCountWithinCap
    <2> QED
      BY <1>a, <2>1, <2>2, <2>3
  <1>3. ASSUME NoAllowance(t)
        PROVE  VaultInv'
    <2> USE <1>3 DEF NoAllowance
    <2>1. VaultTypeOK' /\ LockInv'
      BY <1>a DEF LockInv
    <2>2. BooksBalance' /\ ReservesCoverDebit'
      BY DEF BooksBalance, InFlight, ReservesCoverDebit, At, LockInv
    <2>3. RateInv'
      BY DEF RateInv, TxCountWithinCap
    <2> QED
      BY <1>a, <2>1, <2>2, <2>3
  <1>4. ASSUME CountCompute(t)
        PROVE  VaultInv'
    <2> USE <1>4 DEF CountCompute
    <2>1. VaultTypeOK' /\ LockInv'
      BY <1>a DEF LockInv
    <2>2. holder = t /\ holder' = t
      BY DEF LockInv
    <2>3. BooksBalance'
      BY <2>2 DEF BooksBalance, InFlight
    <2>4. ReservesCoverDebit' /\ RateInv'
      BY DEF ReservesCoverDebit, At, RateInv, TxCountWithinCap
    <2> QED
      BY <1>a, <2>1, <2>3, <2>4
  <1>5. ASSUME ReservesCover(t)
        PROVE  VaultInv'
    <2> USE <1>5 DEF ReservesCover
    <2>1. VaultTypeOK' /\ LockInv'
      BY <1>a DEF LockInv
    <2>2. BooksBalance' /\ ReservesCoverDebit'
      BY DEF BooksBalance, InFlight, ReservesCoverDebit, At, LockInv
    <2>3. RateInv'
      BY DEF RateInv, TxCountWithinCap
    <2> QED
      BY <1>a, <2>1, <2>2, <2>3
  <1>6. ASSUME RefuseUnfunded(t)
        PROVE  VaultInv'
    <2> USE <1>6 DEF RefuseUnfunded, Unlock
    <2>1. VaultTypeOK' /\ LockInv'
      BY <1>a DEF LockInv
    <2>2. BooksBalance' /\ ReservesCoverDebit'
      BY DEF BooksBalance, InFlight, ReservesCoverDebit, At, LockInv
    <2>3. RateInv'
      BY DEF RateInv, TxCountWithinCap
    <2> QED
      BY <1>a, <2>1, <2>2, <2>3
  <1>7. ASSUME DebitReserves(t)
        PROVE  VaultInv'
    <2> USE <1>7 DEF DebitReserves
    <2>1. sol_reserves' = sol_reserves - gas[t] /\ sol_reserves' \in Nat
      BY DEF ReservesCoverDebit, At, Minus
    <2>2. VaultTypeOK' /\ LockInv'
      BY <1>a, <2>1 DEF LockInv
    <2>3. holder = t /\ holder' = t
      BY DEF LockInv
    <2>4. BooksBalance'
      BY <2>1, <2>3 DEF BooksBalance, InFlight
    <2>5. At("debit")' = {}
      BY <2>2, <2>3 DEF At, LockInv
    <2>6. ReservesCoverDebit' /\ RateInv'
      BY <2>5 DEF ReservesCoverDebit, RateInv, TxCountWithinCap
    <2> QED
      BY <1>a, <2>2, <2>4, <2>6
  <1>8. ASSUME Settle(t)
        PROVE  VaultInv'
    <2> USE <1>8 DEF Settle, Unlock
    <2>1. holder = t /\ user[t] \in Wallets
      BY DEF LockInv
    <2>2. VaultTypeOK' /\ LockInv'
      BY <1>a, <2>1 DEF LockInv
    <2>3. BooksBalance'
      BY <2>1 DEF BooksBalance, InFlight
    <2>4. ReservesCoverDebit'
      BY DEF ReservesCoverDebit, At
    <2>5. RateInv'
      BY <2>1, <2>2 DEF RateInv, TxCountWithinCap, LockInv
    <2> QED
      BY <1>a, <2>2, <2>3, <2>4, <2>5
  <1> QED
    BY <1>1, <1>2, <1>3, <1>4, <1>5, <1>6, <1>7, <1>8 DEF VaultStep

\* Every step of the vault and its surroundings preserves the invariant.
LEMMA VaultNextKeepsInv ==
  ASSUME VaultInv, [VaultNext]_vaultSystemVars
  PROVE  VaultInv'
  <1> USE DEF VaultInv
  <1>1. ASSUME NEW t \in Threads, ChargeAllowance(t), UNCHANGED now
        PROVE  VaultInv'
    <2> USE <1>1 DEF ChargeAllowance, Goto, ledgerVars, Critical, Places
    <2>1. StakingTypeOK' /\ AgeInv'
      BY StakeTypes
    <2>2. VaultTypeOK' /\ LockInv'
      BY <2>1 DEF VaultTypeOK, LockInv
    <2>3. BooksBalance' /\ ReservesCoverDebit'
      BY DEF BooksBalance, InFlight, ReservesCoverDebit, At, LockInv, VaultTypeOK
    <2>4. RateInv'
      BY DEF RateInv, TxCountWithinCap, VaultTypeOK
    <2> QED
      BY <2>1, <2>2, <2>3, <2>4
  <1>2. ASSUME NEW t \in Threads, VaultStep(t), UNCHANGED <<stakingVars, now>>
        PROVE  VaultInv'
    BY <1>2, VaultStepKeepsInv
  <1>a. ASSUME UNCHANGED <<stakingVars, now>>, VaultTypeOK
        PROVE  StakingTypeOK' /\ AgeInv'
    BY <1>a DEF stakingVars, StakingTypeOK, AgeInv, VaultTypeOK
  <1>3. ASSUME NEW t \in Threads, Return(t), UNCHANGED <<stakingVars, now>>
        PROVE  VaultInv'
    <2> USE <1>3 DEF Return, Goto, ledgerVars, Critical, Places
    <2>1. VaultTypeOK' /\ LockInv'
      BY <1>a DEF VaultTypeOK, LockInv
    <2>2. BooksBalance' /\ ReservesCoverDebit'
      BY DEF BooksBalance, InFlight, ReservesCoverDebit, At, LockInv, VaultTypeOK
    <2>3. RateInv'
      BY DEF RateInv, TxCountWithinCap, VaultTypeOK
    <2> QED
      BY <1>a, <2>1, <2>2, <2>3
  <1>4. ASSUME NEW t \in Threads, NEW u \in Wallets, NEW g \in GasCosts,
               PayGas(t, u, g), UNCHANGED <<stakingVars, now>>
        PROVE  VaultInv'
    <2> USE <1>4 DEF PayGas, Goto, ledgerVars, Critical, Places
    <2>1. VaultTypeOK' /\ LockInv'
      BY <1>a DEF VaultTypeOK, LockInv
    <2>2. BooksBalance' /\ ReservesCoverDebit'
      BY DEF BooksBalance, InFlight, ReservesCoverDebit, At, LockInv, VaultTypeOK
    <2>3. RateInv'
      BY DEF RateInv, TxCountWithinCap, VaultTypeOK
    <2> QED
      BY <1>a, <2>1, <2>2, <2>3
  <1>5. ASSUME NEW amount \in Deposits, DepositSol(amount), UNCHANGED <<stakingVars, now>>
        PROVE  VaultInv'
    <2> USE <1>5 DEF DepositSol, threadVars
    <2>1. VaultTypeOK' /\ LockInv'
      BY <1>a DEF VaultTypeOK, LockInv
    <2>2. BooksBalance' /\ ReservesCoverDebit'
      BY DEF BooksBalance, InFlight, ReservesCoverDebit, At, VaultTypeOK
    <2>3. RateInv'
      BY DEF RateInv, TxCountWithinCap
    <2> QED
      BY <1>a, <2>1, <2>2, <2>3
  <1>6. ASSUME StakingNext, UNCHANGED <<now, vaultVars>>
        PROVE  VaultInv'
    BY <1>6, StakeTypes, StakingKeepsVault
  <1>7. ASSUME Tick, UNCHANGED <<stakingVars, vaultVars>>
        PROVE  VaultInv'
    <2>1. VaultTypeOK' /\ AgeInv'
      BY <1>7 DEF Tick, AgeInv, VaultTypeOK, StakingTypeOK, StakeId, stakingVars, vaultVars,
                  ledgerVars, threadVars
    <2>2. (LockInv /\ BooksBalance /\ ReservesCoverDebit /\ RateInv)'
      BY <1>7 DEF LockInv, BooksBalance, InFlight, ReservesCoverDebit, At, RateInv,
                  TxCountWithinCap, vaultVars, ledgerVars, threadVars
    <2> QED
      BY <2>1, <2>2
  <1>8. CASE UNCHANGED vaultSystemVars
    <2>1. VaultTypeOK' /\ AgeInv'
      BY <1>8 DEF AgeInv, VaultTypeOK, StakingTypeOK, stakingVars, vaultVars, ledgerVars,
                  threadVars, vaultSystemVars
    <2> QED
      BY <1>8, <2>1, StakingKeepsVault DEF vaultSystemVars, VaultTypeOK
  <1> QED
    BY <1>1, <1>2, <1>3, <1>4, <1>5, <1>6, <1>7, <1>8
       DEF VaultNext, VaultEnvironment, PayGasStep

-----------------------------------------------------------------------------
\* The invariant holds in every reachable state of the vault.
THEOREM VaultInvariant == VaultSpec => []VaultInv
  <1>1. VaultSystemInit => VaultInv
    BY VaultInitInv DEF VaultSystemInit
  <1>2. VaultInv /\ [VaultNext]_vaultSystemVars => VaultInv'
    BY VaultNextKeepsInv
  <1> QED
    BY <1>1, <1>2, PTL DEF VaultSpec

\* Every variable of the vault and of the stakes keeps its type; the reserves
\* stay a natural number although DebitReserves computes modulo Word.
THEOREM VaultTypeCorrect == VaultSpec => []VaultTypeOK
  BY VaultInvariant, PTL DEF VaultInv

\* The counters of pay_gas agree but for the payment in flight, for any number
\* of threads, stakers and deposits.
THEOREM VaultBooksBalance == VaultSpec => []BooksBalance
  BY VaultInvariant, PTL DEF VaultInv

\* The debit of pay_gas never wraps the unsigned reserves.
THEOREM VaultReservesCoverDebit == VaultSpec => []ReservesCoverDebit
  BY VaultInvariant, PTL DEF VaultInv

\* The rate limit stops a user after MaxTx + 1 payments.
THEOREM VaultTxCountWithinCap == VaultSpec => []TxCountWithinCap
  BY VaultInvariant, PTL DEF VaultInv, RateInv

\* An unstaked entry is never charged, unstaked again or overwritten: its id
\* holds a time at least MinStakeDuration ago, and pay_gas takes active stakes.
THEOREM VaultUnstakedIsFinal == VaultSpec => UnstakedIsFinal
  <1> DEFINE Frozen == \A id \in DOMAIN stakes :
               ~stakes[id].active => id \in DOMAIN stakes' /\ stakes'[id] = stakes[id]
  <1>1. ASSUME VaultInv, [VaultNext]_vaultSystemVars
        PROVE  Frozen
    <2> SUFFICES ASSUME NEW id \in DOMAIN stakes, ~stakes[id].active
                 PROVE  id \in DOMAIN stakes' /\ stakes'[id] = stakes[id]
      OBVIOUS
    <2>1. CASE UNCHANGED stakes
      BY <2>1
    <2>2. ASSUME NEW staker \in Wallets, NEW offer \in Offers, StakeCompute(staker, offer)
          PROVE  id \in DOMAIN stakes' /\ stakes'[id] = stakes[id]
      <3>1. id # <<staker, now>>
        BY <1>1 DEF VaultInv, VaultTypeOK, StakingTypeOK, StakeId, AgeInv
      <3> QED
        BY <2>2, <3>1 DEF StakeCompute, Put
    <2>3. ASSUME NEW jd \in DOMAIN stakes, UnstakeCompute(jd)
          PROVE  id \in DOMAIN stakes' /\ stakes'[id] = stakes[id]
      BY <1>1, <2>3 DEF UnstakeCompute, VaultInv, VaultTypeOK, StakingTypeOK
    <2>4. ASSUME NEW t \in Threads, ConsumeGasAllowance(user[t], gas[t])
          PROVE  id \in DOMAIN stakes' /\ stakes'[id] = stakes[id]
      BY <1>1, <2>4 DEF ConsumeGasAllowance, Covering, VaultInv, VaultTypeOK, StakingTypeOK
    <2> QED
      BY <1>1, <2>1, <2>2, <2>3, <2>4
         DEF VaultNext, VaultEnvironment, StakingNext, PayGasStep, ChargeAllowance,
             stakingVars, vaultSystemVars
  <1>2. VaultInv /\ [VaultNext]_vaultSystemVars => [Frozen]_vaultSystemVars
    BY <1>1
  <1> QED
    BY <1>2, VaultInvariant, PTL DEF VaultSpec, UnstakedIsFinal

-----------------------------------------------------------------------------
\* What each stake counts in the totals, and in the unspent credits.
UnitsOf == [id \in Active |-> stakes[id].compute_units]
CoresOf == [id \in Active |-> stakes[id].cpu_cores]
AllowanceOf == [id \in DOMAIN stakes |-> stakes[id].gas_credit_allowance]
GasAt(place) == [t \in At(place) |-> gas[t]]

\* The books of the stakes and of the credits, for finitely many stakes.
CreditInv == /\ IsFiniteSet(DOMAIN stakes)
             /\ TotalsCoverActive
             /\ CreditsBacked

\* Every stake counts natural numbers, and finitely many count.
LEMMA StakesCount ==
  ASSUME StakingTypeOK, IsFiniteSet(DOMAIN stakes)
  PROVE  /\ IsFiniteSet(DOMAIN UnitsOf) /\ \A id \in DOMAIN UnitsOf : UnitsOf[id] \in Nat
         /\ IsFiniteSet(DOMAIN CoresOf) /\ \A id \in DOMAIN CoresOf : CoresOf[id] \in Nat
         /\ IsFiniteSet(DOMAIN AllowanceOf) /\ \A id \in DOMAIN AllowanceOf : AllowanceOf[id] \in Nat
         /\ SumFunction(UnitsOf) \in Nat
         /\ SumFunction(CoresOf) \in Nat
         /\ SumFunction(AllowanceOf) \in Nat
  <1>1. IsFiniteSet(Active)
    BY FS_Subset DEF Active
  <1>2. \A id \in DOMAIN stakes : /\ stakes[id].compute_units \in Nat
                                 /\ stakes[id].cpu_cores \in Nat
                                 /\ stakes[id].gas_credit_allowance \in Nat
    BY DEF StakingTypeOK, ComputeStake
  <1>3. /\ IsFiniteSet(DOMAIN UnitsOf) /\ \A id \in DOMAIN UnitsOf : UnitsOf[id] \in Nat
        /\ IsFiniteSet(DOMAIN CoresOf) /\ \A id \in DOMAIN CoresOf : CoresOf[id] \in Nat
        /\ IsFiniteSet(DOMAIN AllowanceOf) /\ \A id \in DOMAIN AllowanceOf : AllowanceOf[id] \in Nat
    BY <1>1, <1>2 DEF UnitsOf, CoresOf, AllowanceOf, Active
  <1> QED
    BY <1>3, TotalNat

\* The totals cover each active stake, so unstaking it does not wrap them.
LEMMA TotalsCoverEach ==
  ASSUME StakingTypeOK, IsFiniteSet(DOMAIN stakes), TotalsCoverActive, NEW id \in Active
  PROVE  /\ stakes[id].compute_units <= total_staked_compute
         /\ stakes[id].cpu_cores <= total_cpu_cores
  <1>1. /\ SumFunction(UnitsOf) \in Nat /\ SumFunction(UnitsOf) <= total_staked_compute
        /\ SumFunction(CoresOf) \in Nat /\ SumFunction(CoresOf) <= total_cpu_cores
    BY StakesCount DEF TotalsCoverActive, UnitsOf, CoresOf
  <1>2. /\ UnitsOf[id] \in Nat /\ UnitsOf[id] <= SumFunction(UnitsOf)
        /\ CoresOf[id] \in Nat /\ CoresOf[id] <= SumFunction(CoresOf)
    BY StakesCount, TotalNat DEF UnitsOf, CoresOf
  <1>3. UnitsOf[id] = stakes[id].compute_units /\ CoresOf[id] = stakes[id].cpu_cores
    BY DEF UnitsOf, CoresOf
  <1> QED
    BY <1>1, <1>2, <1>3 DEF StakingTypeOK

\* A stake is made: it counts in full, and a stake it replaces counts no more.
LEMMA StakeComputeBooks ==
  ASSUME StakingTypeOK, IsFiniteSet(DOMAIN stakes), TotalsCoverActive, now \in Nat,
         NEW staker \in Wallets, NEW offer \in Offers, StakeCompute(staker, offer)
  PROVE  /\ IsFiniteSet(DOMAIN stakes')
         /\ TotalsCoverActive'
         /\ UnspentCredits' \in Nat
         /\ UnspentCredits' - UnspentCredits
              <= total_credit_grants_issued' - total_credit_grants_issued
  <1> DEFINE id == <<staker, now>>
  <1>1. /\ offer.cpu_cores \in Nat
        /\ offer.compute_units \in Nat
        /\ CreditGrant(offer) \in Nat
        /\ CreditGrant(offer) = offer.cpu_cores * CreditGrantPerCore
    BY DEF CreditGrant
  <1>2. /\ DOMAIN stakes' = DOMAIN stakes \cup {id}
        /\ stakes'[id] = NewStake(offer)
        /\ \A jd \in DOMAIN stakes \ {id} : stakes'[jd] = stakes[jd]
    BY DEF StakeCompute, Put
  <1>3. Active' = Active \cup {id}
    BY <1>2 DEF Active, NewStake
  <1>4. /\ DOMAIN UnitsOf' = DOMAIN UnitsOf \cup {id}
        /\ UnitsOf'[id] = offer.compute_units
        /\ \A jd \in DOMAIN UnitsOf \ {id} : UnitsOf'[jd] = UnitsOf[jd]
    BY <1>2, <1>3 DEF UnitsOf, Active, NewStake
  <1>5. /\ DOMAIN CoresOf' = DOMAIN CoresOf \cup {id}
        /\ CoresOf'[id] = offer.cpu_cores
        /\ \A jd \in DOMAIN CoresOf \ {id} : CoresOf'[jd] = CoresOf[jd]
    BY <1>2, <1>3 DEF CoresOf, Active, NewStake
  <1>6. /\ DOMAIN AllowanceOf' = DOMAIN AllowanceOf \cup {id}
        /\ AllowanceOf'[id] = CreditGrant(offer)
        /\ \A jd \in DOMAIN AllowanceOf \ {id} : AllowanceOf'[jd] = AllowanceOf[jd]
    BY <1>2 DEF AllowanceOf, NewStake
  <1>7. /\ SumFunction(UnitsOf') \in Nat
        /\ SumFunction(UnitsOf') <= SumFunction(UnitsOf) + offer.compute_units
    BY <1>1, <1>4, StakesCount, TotalPut
  <1>8. /\ SumFunction(CoresOf') \in Nat
        /\ SumFunction(CoresOf') <= SumFunction(CoresOf) + offer.cpu_cores
    <2>1. IsFiniteSet(DOMAIN CoresOf) /\ \A jd \in DOMAIN CoresOf : CoresOf[jd] \in Nat
      BY StakesCount
    <2>2. offer.cpu_cores \in Nat
      BY <1>1
    <2> HIDE DEF id
    <2> QED
      BY <1>5, <2>1, <2>2, TotalPut
  <1>9. /\ IsFiniteSet(DOMAIN AllowanceOf')
        /\ SumFunction(AllowanceOf') \in Nat
        /\ SumFunction(AllowanceOf') <= SumFunction(AllowanceOf) + CreditGrant(offer)
    BY <1>1, <1>6, StakesCount, TotalPut
  <1>10. /\ total_staked_compute' = total_staked_compute + offer.compute_units
         /\ total_cpu_cores' = total_cpu_cores + offer.cpu_cores
         /\ total_credit_grants_issued' = total_credit_grants_issued + CreditGrant(offer)
    BY DEF StakeCompute
  <1>11. (total_cpu_cores + offer.cpu_cores) * CreditGrantPerCore
          = total_cpu_cores * CreditGrantPerCore + CreditGrant(offer)
    BY <1>1 DEF StakingTypeOK
  <1>12. /\ total_staked_compute' >= SumFunction(UnitsOf')
         /\ total_cpu_cores' >= SumFunction(CoresOf')
    BY <1>1, <1>7, <1>8, <1>10, StakesCount DEF TotalsCoverActive, UnitsOf, CoresOf, StakingTypeOK
  <1>13. total_cpu_cores' * CreditGrantPerCore <= total_credit_grants_issued'
    <2>1. total_cpu_cores * CreditGrantPerCore \in Int
      BY DEF StakingTypeOK
    <2> QED
      BY <1>1, <1>10, <1>11, <2>1 DEF TotalsCoverActive, StakingTypeOK
  <1>14. UnspentCredits = SumFunction(AllowanceOf) /\ UnspentCredits' = SumFunction(AllowanceOf')
    BY DEF UnspentCredits, AllowanceOf
  <1>15. IsFiniteSet(DOMAIN stakes')
    BY <1>9 DEF AllowanceOf
  <1>16. TotalsCoverActive'
    BY <1>12, <1>13 DEF TotalsCoverActive, UnitsOf, CoresOf
  <1> QED
    BY <1>1, <1>9, <1>10, <1>14, <1>15, <1>16, StakesCount DEF StakingTypeOK

\* A stake is given up: the totals lose what it counted, without wrapping, and
\* the credits in it stay.
LEMMA UnstakeBooks ==
  ASSUME StakingTypeOK, IsFiniteSet(DOMAIN stakes), TotalsCoverActive,
         NEW id \in DOMAIN stakes, UnstakeCompute(id)
  PROVE  /\ IsFiniteSet(DOMAIN stakes')
         /\ TotalsCoverActive'
         /\ UNCHANGED <<UnspentCredits, total_credit_grants_issued>>
  <1>1. /\ id \in Active
        /\ stakes[id].compute_units \in Nat /\ stakes[id].cpu_cores \in Nat
    BY DEF UnstakeCompute, Active, StakingTypeOK, ComputeStake
  <1>2. /\ DOMAIN stakes' = DOMAIN stakes
        /\ \A jd \in DOMAIN stakes : stakes'[jd].gas_credit_allowance = stakes[jd].gas_credit_allowance
        /\ ~stakes'[id].active
        /\ \A jd \in DOMAIN stakes \ {id} : stakes'[jd] = stakes[jd]
    BY DEF UnstakeCompute, Unstaked, StakingTypeOK, ComputeStake
  <1>3. Active' = Active \ {id}
    BY <1>2 DEF Active
  <1>4. /\ DOMAIN UnitsOf' = DOMAIN UnitsOf \ {id} /\ id \in DOMAIN UnitsOf
        /\ \A jd \in DOMAIN UnitsOf' : UnitsOf'[jd] = UnitsOf[jd]
        /\ UnitsOf[id] = stakes[id].compute_units
    BY <1>1, <1>2, <1>3 DEF UnitsOf, Active
  <1>5. /\ DOMAIN CoresOf' = DOMAIN CoresOf \ {id} /\ id \in DOMAIN CoresOf
        /\ \A jd \in DOMAIN CoresOf' : CoresOf'[jd] = CoresOf[jd]
        /\ CoresOf[id] = stakes[id].cpu_cores
    BY <1>1, <1>2, <1>3 DEF CoresOf, Active
  <1>6. SumFunction(UnitsOf') = SumFunction(UnitsOf) - stakes[id].compute_units
    BY <1>4, StakesCount, TotalDrop
  <1>7. SumFunction(CoresOf') = SumFunction(CoresOf) - stakes[id].cpu_cores
    BY <1>5, StakesCount, TotalDrop
  <1>8. /\ stakes[id].compute_units <= total_staked_compute
        /\ stakes[id].cpu_cores <= total_cpu_cores
    BY <1>1, TotalsCoverEach
  <1>9. /\ total_staked_compute' = total_staked_compute - stakes[id].compute_units
        /\ total_cpu_cores' = total_cpu_cores - stakes[id].cpu_cores
        /\ total_credit_grants_issued' = total_credit_grants_issued
    BY <1>8 DEF UnstakeCompute, Minus
  <1>10. /\ total_staked_compute' >= SumFunction(UnitsOf')
         /\ total_cpu_cores' >= SumFunction(CoresOf')
    BY <1>1, <1>6, <1>7, <1>9, StakesCount DEF TotalsCoverActive, UnitsOf, CoresOf, StakingTypeOK
  <1>11. total_cpu_cores' * CreditGrantPerCore <= total_credit_grants_issued'
    <2>1. /\ total_cpu_cores' * CreditGrantPerCore
               = total_cpu_cores * CreditGrantPerCore - stakes[id].cpu_cores * CreditGrantPerCore
          /\ stakes[id].cpu_cores * CreditGrantPerCore \in Nat
          /\ total_cpu_cores * CreditGrantPerCore \in Int
      BY <1>1, <1>9 DEF StakingTypeOK
    <2> QED
      BY <1>9, <2>1 DEF TotalsCoverActive, StakingTypeOK
  <1>12. TotalsCoverActive'
    BY <1>10, <1>11 DEF TotalsCoverActive, UnitsOf, CoresOf
  <1>13. UNCHANGED UnspentCredits
    BY <1>2 DEF UnspentCredits
  <1> QED
    BY <1>2, <1>9, <1>12, <1>13

\* A charge takes its gas from one stake, and changes no total.
LEMMA ConsumeBooks ==
  ASSUME StakingTypeOK, IsFiniteSet(DOMAIN stakes), TotalsCoverActive,
         NEW staker, NEW cost \in Nat, ConsumeGasAllowance(staker, cost)
  PROVE  /\ IsFiniteSet(DOMAIN stakes')
         /\ TotalsCoverActive'
         /\ UnspentCredits' \in Nat
         /\ UnspentCredits' = UnspentCredits - cost
         /\ UNCHANGED total_credit_grants_issued
  <1>1. PICK id \in Covering(staker, cost) :
           /\ stakes' = [stakes EXCEPT ![id].gas_credit_allowance = @ - cost]
           /\ UNCHANGED <<total_staked_compute, total_cpu_cores, total_credit_grants_issued>>
    BY DEF ConsumeGasAllowance
  <1>2. /\ id \in DOMAIN stakes
        /\ stakes[id].gas_credit_allowance \in Nat
        /\ stakes[id].gas_credit_allowance >= cost
    BY DEF Covering, StakingTypeOK, ComputeStake
  <1>3. /\ DOMAIN stakes' = DOMAIN stakes
        /\ stakes'[id].gas_credit_allowance = stakes[id].gas_credit_allowance - cost
        /\ \A jd \in DOMAIN stakes : /\ stakes'[jd].active = stakes[jd].active
                                     /\ stakes'[jd].compute_units = stakes[jd].compute_units
                                     /\ stakes'[jd].cpu_cores = stakes[jd].cpu_cores
        /\ \A jd \in DOMAIN stakes \ {id} : stakes'[jd] = stakes[jd]
    BY <1>1, <1>2 DEF StakingTypeOK, ComputeStake
  <1>4. /\ DOMAIN AllowanceOf' = DOMAIN AllowanceOf \cup {id} /\ id \in DOMAIN AllowanceOf
        /\ AllowanceOf[id] = stakes[id].gas_credit_allowance
        /\ AllowanceOf'[id] = stakes[id].gas_credit_allowance - cost
        /\ \A jd \in DOMAIN AllowanceOf \ {id} : AllowanceOf'[jd] = AllowanceOf[jd]
    BY <1>2, <1>3 DEF AllowanceOf
  <1>5. AllowanceOf'[id] \in Nat
    BY <1>2, <1>4
  <1>6. /\ SumFunction(AllowanceOf') \in Nat
        /\ SumFunction(AllowanceOf') = SumFunction(AllowanceOf) - AllowanceOf[id] + AllowanceOf'[id]
    BY <1>4, <1>5, StakesCount, TotalPut
  <1>7. UnspentCredits = SumFunction(AllowanceOf) /\ UnspentCredits' = SumFunction(AllowanceOf')
    BY DEF UnspentCredits, AllowanceOf
  <1>8. UnspentCredits' \in Nat /\ UnspentCredits' = UnspentCredits - cost
    BY <1>2, <1>4, <1>6, <1>7, StakesCount
  <1>9. UNCHANGED <<Active, UnitsOf, CoresOf>>
    <2>1. UNCHANGED Active
      BY <1>3 DEF Active
    <2> QED
      BY <1>3, <2>1 DEF UnitsOf, CoresOf, Active
  <1>10. TotalsCoverActive'
    BY <1>1, <1>9 DEF TotalsCoverActive, UnitsOf, CoresOf
  <1> QED
    BY <1>1, <1>3, <1>8, <1>10

\* The gas charged and not yet counted is that of the thread in the lock.
GasInLock == IF holder \in Threads /\ pc[holder] = "credit" THEN gas[holder] ELSE 0

LEMMA ChargedGas == VaultInv => SumFunction(GasAt("credit")) = GasInLock
  <1> SUFFICES ASSUME VaultInv PROVE SumFunction(GasAt("credit")) = GasInLock
    OBVIOUS
  <1> USE DEF GasInLock
  <1>1. At("credit") = IF holder \in Threads /\ pc[holder] = "credit" THEN {holder} ELSE {}
    BY DEF At, VaultInv, LockInv, Critical
  <1>2. CASE holder \in Threads /\ pc[holder] = "credit"
    <2>1. DOMAIN GasAt("credit") = {holder} /\ GasAt("credit")[holder] = gas[holder]
      BY <1>1, <1>2 DEF GasAt
    <2>2. gas[holder] \in Int
      BY <1>2 DEF VaultInv, VaultTypeOK
    <2>3. SumFunction(GasAt("credit")) = GasAt("credit")[holder]
      BY <2>1, <2>2, TotalSingle
    <2> QED
      BY <1>2, <2>1, <2>3
  <1>3. CASE ~(holder \in Threads /\ pc[holder] = "credit")
    <2>1. DOMAIN GasAt("credit") = {}
      BY <1>1, <1>3 DEF GasAt
    <2>2. IsFiniteSet(DOMAIN GasAt("credit"))
      BY <2>1, FS_EmptySet
    <2>3. SumFunction(GasAt("credit")) = 0
      BY <2>1, <2>2, TotalNat
    <2> QED
      BY <1>3, <2>3
  <1> QED
    BY <1>2, <1>3

\* The books of the stakes and credits are kept by every step of the vault.
LEMMA CreditNextKeepsInv ==
  ASSUME VaultInv, VaultInv', CreditInv, [VaultNext]_vaultSystemVars
  PROVE  CreditInv'
  <1> DEFINE charged == SumFunction(GasAt("credit"))
             inLock == GasInLock
  <1>1. StakingTypeOK /\ now \in Nat /\ gas_paid_by_compute \in Nat /\ gas \in [Threads -> Nat]
    BY DEF VaultInv, VaultTypeOK
  <1>2. /\ CreditsBacked <=>
              UnspentCredits + gas_paid_by_compute + charged <= total_credit_grants_issued
        /\ CreditsBacked' <=>
              UnspentCredits' + gas_paid_by_compute' + charged' <= total_credit_grants_issued'
    BY DEF CreditsBacked, GasAt
  <1>3. charged = inLock /\ charged' = inLock' /\ inLock \in Nat
    <2>1. VaultInv' => (SumFunction(GasAt("credit")) = GasInLock)'
      BY ChargedGas, PTL
    <2> QED
      BY <1>1, <2>1, ChargedGas DEF GasInLock
  <1> HIDE DEF charged
  <1> USE DEF GasInLock
  <1>4. UnspentCredits \in Nat
    BY <1>1, StakesCount DEF UnspentCredits, AllowanceOf, CreditInv
  <1>5. ASSUME UNCHANGED <<stakingVars, gas_paid_by_compute, charged>>
        PROVE  CreditInv'
    BY <1>2, <1>5 DEF CreditInv, stakingVars, TotalsCoverActive, UnspentCredits, Active
  <1>6. ASSUME NEW t \in Threads, ChargeAllowance(t), UNCHANGED now
        PROVE  CreditInv'
    <2> USE <1>6 DEF ChargeAllowance, Goto, ledgerVars
    <2>1. holder = t /\ gas[t] \in Nat
      BY <1>1 DEF VaultInv, LockInv, Critical
    <2>2. /\ IsFiniteSet(DOMAIN stakes')
          /\ TotalsCoverActive'
          /\ UnspentCredits' = UnspentCredits - gas[t]
          /\ UNCHANGED total_credit_grants_issued
      BY <1>1, <2>1, ConsumeBooks DEF CreditInv
    <2>3. charged = 0 /\ charged' = gas[t]
      BY <1>3, <2>1 DEF VaultInv, VaultTypeOK
    <2>4. CreditsBacked'
      BY <1>1, <1>2, <1>4, <2>1, <2>2, <2>3 DEF CreditInv
    <2> QED
      BY <2>2, <2>4 DEF CreditInv
  <1>7. ASSUME NEW t \in Threads, VaultStep(t), UNCHANGED <<stakingVars, now>>
        PROVE  CreditInv'
    <2> USE <1>7 DEF Goto, ledgerVars
    <2>1. CASE CountCompute(t)
      <3>1. holder = t /\ gas[t] \in Nat
        BY <1>1, <2>1 DEF VaultInv, LockInv, Critical, CountCompute
      <3>2. charged = gas[t] /\ charged' = 0 /\ gas_paid_by_compute' = gas_paid_by_compute + gas[t]
        BY <1>3, <2>1, <3>1 DEF VaultInv, VaultTypeOK, CountCompute
      <3>3. /\ IsFiniteSet(DOMAIN stakes') /\ TotalsCoverActive'
            /\ UNCHANGED <<UnspentCredits, total_credit_grants_issued>>
        BY DEF CreditInv, stakingVars, TotalsCoverActive, UnspentCredits, Active
      <3>4. CreditsBacked'
        BY <1>1, <1>2, <1>4, <3>1, <3>2, <3>3 DEF CreditInv
      <3> QED
        BY <3>3, <3>4 DEF CreditInv
    <2>2. CASE ~CountCompute(t)
      <3>1. gas_paid_by_compute' = gas_paid_by_compute
        BY <2>2 DEF VaultStep, Acquire, RefuseRateLimited, NoAllowance, ReservesCover,
                    RefuseUnfunded, DebitReserves, Settle
      <3>2. charged' = charged
        <4>1. \/ Acquire(t) \/ RefuseRateLimited(t) \/ NoAllowance(t) \/ ReservesCover(t)
              \/ RefuseUnfunded(t) \/ DebitReserves(t) \/ Settle(t)
          BY <2>2 DEF VaultStep
        <4>2. /\ pc[t] \in Critical <=> holder = t
              /\ NoThread \notin Threads
              /\ pc \in [Threads -> Places]
          BY DEF VaultInv, LockInv, VaultTypeOK
        <4>3. inLock = 0 /\ inLock' = 0
          BY <4>1, <4>2 DEF Acquire, RefuseRateLimited, NoAllowance, ReservesCover,
                            RefuseUnfunded, DebitReserves, Settle, Unlock, Critical
        <4> QED
          BY <1>3, <4>3
      <3> QED
        BY <1>5, <3>1, <3>2
    <2> QED
      BY <2>1, <2>2
  <1>8. ASSUME NEW t \in Threads, UNCHANGED <<stakingVars, now>>,
               Return(t) \/ \E u \in Wallets, g \in GasCosts : PayGas(t, u, g)
        PROVE  CreditInv'
    <2>1. UNCHANGED <<stakingVars, gas_paid_by_compute, holder>> /\ pc[t] \notin Critical
      BY <1>8 DEF Return, PayGas, ledgerVars, Critical
    <2>2. /\ holder # t
          /\ \A r \in Threads \ {t} : pc'[r] = pc[r] /\ gas'[r] = gas[r]
      BY <1>1, <1>8, <2>1 DEF VaultInv, LockInv, VaultTypeOK, Return, PayGas, Goto
    <2>3. inLock' = inLock
      BY <2>1, <2>2
    <2> QED
      BY <1>3, <1>5, <2>1, <2>3
  <1>9. ASSUME UNCHANGED <<stakingVars, gas_paid_by_compute, threadVars>>
        PROVE  CreditInv'
    BY <1>3, <1>5, <1>9 DEF threadVars
  <1>10. ASSUME StakingNext, UNCHANGED <<now, vaultVars>>
         PROVE  CreditInv'
    <2>1. UNCHANGED <<gas_paid_by_compute, charged>>
      BY <1>3, <1>10 DEF vaultVars, ledgerVars, threadVars
    <2>2. ASSUME NEW staker \in Wallets, NEW offer \in Offers, StakeCompute(staker, offer)
          PROVE  CreditInv'
      <3>1. /\ IsFiniteSet(DOMAIN stakes') /\ TotalsCoverActive'
            /\ UnspentCredits' \in Nat
            /\ UnspentCredits' - UnspentCredits
                  <= total_credit_grants_issued' - total_credit_grants_issued
        BY <1>1, <2>2, StakeComputeBooks DEF CreditInv
      <3>2. total_credit_grants_issued \in Nat /\ total_credit_grants_issued' \in Nat
        BY DEF VaultInv, VaultTypeOK, StakingTypeOK
      <3>3. charged \in Nat /\ charged' = charged /\ gas_paid_by_compute' = gas_paid_by_compute
        BY <1>3, <2>1
      <3>4. UnspentCredits + gas_paid_by_compute + charged <= total_credit_grants_issued
        BY <1>2 DEF CreditInv
      <3> HIDE DEF GasInLock
      <3>5. UnspentCredits' + gas_paid_by_compute' + charged' <= total_credit_grants_issued'
        <4>1. \A a, b, c, d, e, f \in Nat : a + c + d <= e /\ b - a <= f - e => b + c + d <= f
          OBVIOUS
        <4>2. UnspentCredits' \in Nat
              /\ UnspentCredits' - UnspentCredits <= total_credit_grants_issued' - total_credit_grants_issued
          BY <3>1
        <4> QED
          BY <1>1, <1>4, <3>2, <3>3, <3>4, <4>1, <4>2
      <3> QED
        BY <1>2, <3>1, <3>5 DEF CreditInv
    <2>3. ASSUME NEW id \in DOMAIN stakes, UnstakeCompute(id)
          PROVE  CreditInv'
      <3>1. /\ IsFiniteSet(DOMAIN stakes') /\ TotalsCoverActive'
            /\ UNCHANGED <<UnspentCredits, total_credit_grants_issued>>
        BY <1>1, <2>3, UnstakeBooks DEF CreditInv
      <3>2. CreditsBacked'
        BY <1>2, <2>1, <3>1 DEF CreditInv
      <3> QED
        BY <3>1, <3>2 DEF CreditInv
    <2> QED
      BY <1>10, <2>2, <2>3 DEF StakingNext
  <1>11. ASSUME NEW amount \in Deposits, DepositSol(amount), UNCHANGED <<stakingVars, now>>
         PROVE  CreditInv'
    BY <1>9, <1>11 DEF DepositSol
  <1>12. ASSUME Tick, UNCHANGED <<stakingVars, vaultVars>>
         PROVE  CreditInv'
    BY <1>9, <1>12 DEF vaultVars, ledgerVars
  <1>13. CASE UNCHANGED vaultSystemVars
    BY <1>9, <1>13 DEF vaultSystemVars, vaultVars, ledgerVars
  <1> QED
    BY <1>6, <1>7, <1>8, <1>10, <1>11, <1>12, <1>13 DEF VaultNext, VaultEnvironment, PayGasStep

\* The vault starts with empty books.
LEMMA CreditInitInv == VaultSystemInit => CreditInv
  <1> SUFFICES ASSUME VaultSystemInit PROVE CreditInv
    OBVIOUS
  <1> USE DEF VaultSystemInit, StakingInit, VaultInit
  <1>1. DOMAIN stakes = {} /\ Active = {} /\ At("credit") = {}
    BY DEF EmptyTable, Active, At
  <1>2. IsFiniteSet({})
    BY FS_EmptySet
  <1>3. DOMAIN UnitsOf = {} /\ DOMAIN CoresOf = {} /\ DOMAIN AllowanceOf = {} /\ DOMAIN GasAt("credit") = {}
    BY <1>1 DEF UnitsOf, CoresOf, AllowanceOf, GasAt
  <1>4. /\ SumFunction(UnitsOf) = 0 /\ SumFunction(CoresOf) = 0
        /\ SumFunction(AllowanceOf) = 0 /\ SumFunction(GasAt("credit")) = 0
    BY <1>2, <1>3, TotalNat
  <1>5. TotalsCoverActive
    BY <1>4 DEF TotalsCoverActive, UnitsOf, CoresOf
  <1>6. CreditsBacked
    BY <1>4 DEF CreditsBacked, UnspentCredits, AllowanceOf, GasAt
  <1> QED
    BY <1>1, <1>2, <1>5, <1>6 DEF CreditInv

\* The books of the stakes and of the credits hold in every reachable state.
THEOREM VaultCreditInvariant == VaultSpec => []CreditInv
  <1>1. VaultSystemInit => CreditInv
    BY CreditInitInv
  <1>2. VaultInv /\ VaultInv' /\ CreditInv /\ [VaultNext]_vaultSystemVars => CreditInv'
    BY CreditNextKeepsInv
  <1> QED
    BY <1>1, <1>2, VaultInvariant, PTL DEF VaultSpec

\* The totals of ComputeStaking cover the active stakes, so that its unsigned
\* subtractions never wrap, for any number of stakers and any offers.
THEOREM VaultTotalsCoverActive == VaultSpec => []TotalsCoverActive
  BY VaultCreditInvariant, PTL DEF CreditInv

\* What the stakes may still spend and what the vault counted as spent never
\* exceeds the grants, however payments, stakes and deposits interleave.
THEOREM VaultCreditsBacked == VaultSpec => []CreditsBacked
  BY VaultCreditInvariant, PTL DEF CreditInv

-----------------------------------------------------------------------------
\* A relayer calls pay_gas only for the sender of the intent it claimed.
JobInv == \A r \in Threads :
            pc[r] # "idle" => /\ job[r] # NoIntent
                              /\ user[r] = intents[job[r]].sender
                              /\ gas[r] \in GasCosts

USE IntentAssumption, SettlementAssumption

\* DOMAIN of a sequence is the interval of its indices.
LEMMA IntentDomain ==
  ASSUME IntentTypeOK
  PROVE  /\ DOMAIN intents = 1..Len(intents)
         /\ Len(intents) \in Nat
         /\ NoIntent \notin DOMAIN intents
         /\ \A i \in DOMAIN intents : intents[i] \in PaymentIntent
  BY DEF IntentTypeOK, NoIntent

\* What a relayer, a sender or the sweeper does is, for the vault, one of the
\* vault's own steps or none.
LEMMA SettlementStepsVault ==
  ASSUME SettlementTypeOK, [SettlementNext]_settlementVars
  PROVE  [VaultNext]_vaultSystemVars
  <1>1. ASSUME NEW r \in Threads, NEW g \in GasCosts, RelayerPay(r, g)
        PROVE  VaultNext
    <2>1. intents[job[r]].sender \in Wallets
      BY <1>1, IntentDomain DEF RelayerPay, SettlementTypeOK, PaymentIntent
    <2> QED
      BY <1>1, <2>1 DEF RelayerPay, VaultNext
  <1>2. ASSUME NEW r \in Threads, PayGasStep(r) \/ RelayerDone(r)
        PROVE  VaultNext
    BY <1>2 DEF VaultNext, RelayerDone
  <1> QED
    BY <1>1, <1>2 DEF SettlementNext, RelayerWork, RelayerClaim, VaultNext, settlementVars

\* The intents' own operations keep their type and their life cycle, and only
\* claimed intents have a settlement transaction.
IntentInv == /\ IntentTypeOK
             /\ \A i \in DOMAIN intents :
                  intents[i].settlement_tx # NoTx => intents[i].status = "CLAIMED"
             /\ NoncesInOrder

LEMMA IntentStep ==
  ASSUME IntentInv, now \in Nat,
         \/ IntentNext
         \/ \E i \in DOMAIN intents : ClaimIntent(i)
         \/ UNCHANGED intentVars
  PROVE  /\ IntentInv'
         /\ IntentLifecycle
  <1> USE DEF IntentInv
  <1>0. /\ DOMAIN intents = 1..Len(intents)
        /\ Len(intents) \in Nat
        /\ \A i \in DOMAIN intents : intents[i] \in PaymentIntent
    BY IntentDomain
  <1>1. ASSUME NEW sender \in Senders, CreateIntent(sender)
        PROVE  IntentInv' /\ IntentLifecycle
    <2> DEFINE new == [sender |-> sender, nonce |-> user_nonces[sender],
                       expires_at |-> now + ClaimWindow, status |-> "PENDING",
                       settlement_tx |-> NoTx]
    <2>1. new \in PaymentIntent
      BY DEF PaymentIntent, IntentStatus, IntentTypeOK
    <2>2. intents' = Append(intents, new)
      BY <1>1 DEF CreateIntent
    <2>3. IntentTypeOK'
      BY <1>1, <2>1, <2>2 DEF CreateIntent, IntentTypeOK
    <2>4. /\ DOMAIN intents' = DOMAIN intents \cup {Len(intents) + 1}
          /\ \A i \in DOMAIN intents : intents'[i] = intents[i]
          /\ intents'[Len(intents) + 1] = new
      BY <1>0, <2>1, <2>2 DEF IntentTypeOK
    <2>5. IntentLifecycle
      BY <1>0, <2>4 DEF IntentLifecycle
    <2>6. new.sender = sender /\ new.nonce = user_nonces[sender]
      OBVIOUS
    <2> HIDE DEF new
    <2>7. /\ user_nonces \in [Senders -> Nat]
          /\ user_nonces' = [user_nonces EXCEPT ![sender] = @ + 1]
          /\ \A i \in DOMAIN intents : /\ intents[i].sender \in Senders
                                       /\ intents[i].nonce \in Nat
      BY <1>0, <1>1 DEF CreateIntent, IntentTypeOK, PaymentIntent
    <2>8. \A i \in DOMAIN intents' : intents'[i].nonce < user_nonces'[intents'[i].sender]
      BY <2>4, <2>6, <2>7 DEF NoncesInOrder
    <2>9. ASSUME NEW i \in DOMAIN intents', NEW j \in DOMAIN intents',
                 i < j, intents'[i].sender = intents'[j].sender
          PROVE  intents'[i].nonce < intents'[j].nonce
      <3>1. i \in DOMAIN intents
        BY <1>0, <2>4, <2>9
      <3>2. CASE j \in DOMAIN intents
        BY <2>4, <2>9, <3>1, <3>2 DEF NoncesInOrder
      <3>3. CASE j = Len(intents) + 1
        BY <2>4, <2>6, <2>9, <3>1, <3>3 DEF NoncesInOrder
      <3> QED
        BY <2>4, <3>2, <3>3
    <2>10. NoncesInOrder'
      BY <2>8, <2>9 DEF NoncesInOrder
    <2>11. new.settlement_tx = NoTx
      BY DEF new
    <2> QED
      BY <2>3, <2>4, <2>5, <2>10, <2>11
  <1>2. ASSUME NEW i \in DOMAIN intents, NEW intent \in PaymentIntent,
               intents' = [intents EXCEPT ![i] = intent], UNCHANGED user_nonces,
               intent.sender = intents[i].sender, intent.nonce = intents[i].nonce,
               intent.expires_at = intents[i].expires_at,
               intents[i].status # "PENDING" => intent.status = intents[i].status,
               intent.settlement_tx # NoTx => intent.status = "CLAIMED"
        PROVE  IntentInv' /\ IntentLifecycle
    <2>1. IntentTypeOK'
      <3>1. /\ intents' \in [1..Len(intents) -> PaymentIntent]
            /\ Len(intents) \in Nat
        BY <1>0, <1>2
      <3> QED
        BY <1>2, <3>1 DEF IntentTypeOK
    <2>2. DOMAIN intents' = DOMAIN intents
      BY <1>2
    <2>3. NoncesInOrder'
      <3>1. \A j \in DOMAIN intents :
               /\ intents'[j].sender = intents[j].sender
               /\ intents'[j].nonce = intents[j].nonce
        BY <1>2
      <3> QED
        BY <1>2, <2>2, <3>1 DEF NoncesInOrder
    <2>4. IntentLifecycle
      BY <1>2, <2>2 DEF IntentLifecycle
    <2> QED
      BY <1>2, <2>1, <2>2, <2>3, <2>4
  <1>3. ASSUME NEW i \in DOMAIN intents, ClaimIntent(i)
        PROVE  IntentInv' /\ IntentLifecycle
    <2> DEFINE claimed == [intents[i] EXCEPT !.status = "CLAIMED"]
    <2>1. claimed \in PaymentIntent
      BY <1>0 DEF PaymentIntent, IntentStatus
    <2> QED
      BY <1>0, <1>2, <1>3, <2>1 DEF ClaimIntent, IsClaimable, PaymentIntent
  <1>4. ASSUME NEW i \in DOMAIN intents, NEW tx \in Txs, ConfirmSettlement(i, tx)
        PROVE  IntentInv' /\ IntentLifecycle
    <2> DEFINE settled == [intents[i] EXCEPT !.settlement_tx = tx]
    <2>1. settled \in PaymentIntent
      BY <1>0 DEF PaymentIntent
    <2> QED
      BY <1>0, <1>2, <1>4, <2>1 DEF ConfirmSettlement, PaymentIntent
  <1>5. ASSUME ExpireIntents
        PROVE  IntentInv' /\ IntentLifecycle
    <2>1. /\ DOMAIN intents' = DOMAIN intents
          /\ \A i \in DOMAIN intents :
               intents'[i] = IF i \in Overdue THEN [intents[i] EXCEPT !.status = "EXPIRED"]
                                              ELSE intents[i]
      BY <1>5 DEF ExpireIntents
    <2>2. \A i \in DOMAIN intents :
             /\ intents'[i] \in PaymentIntent
             /\ i \in Overdue => intents[i].status = "PENDING"
      <3>1. \A i \in Overdue : intents[i].status = "PENDING"
        BY DEF Overdue, With
      <3>2. ASSUME NEW i \in DOMAIN intents
            PROVE  [intents[i] EXCEPT !.status = "EXPIRED"] \in PaymentIntent
        BY <1>0, <3>2 DEF PaymentIntent, IntentStatus
      <3> QED
        BY <1>0, <2>1, <3>1, <3>2
    <2>3. IntentTypeOK'
      <3>1. intents' \in [1..Len(intents) -> PaymentIntent]
        BY <1>0, <1>5, <2>1, <2>2 DEF ExpireIntents
      <3> QED
        BY <1>0, <1>5, <3>1 DEF IntentTypeOK, ExpireIntents
    <2>4. \A i \in DOMAIN intents :
             /\ intents'[i].sender = intents[i].sender
             /\ intents'[i].nonce = intents[i].nonce
             /\ intents'[i].expires_at = intents[i].expires_at
             /\ intents'[i].settlement_tx = intents[i].settlement_tx
             /\ intents[i].status # "PENDING" => intents'[i].status = intents[i].status
      <3>1. ASSUME NEW i \in DOMAIN intents, i \in Overdue
            PROVE  /\ intents'[i].sender = intents[i].sender
                   /\ intents'[i].nonce = intents[i].nonce
                   /\ intents'[i].expires_at = intents[i].expires_at
                   /\ intents'[i].settlement_tx = intents[i].settlement_tx
                   /\ intents[i].status = "PENDING"
        <4>1. intents[i] \in PaymentIntent
          BY <1>0
        <4>2. intents'[i] = [intents[i] EXCEPT !.status = "EXPIRED"]
          BY <2>1, <3>1
        <4> QED
          BY <2>2, <3>1, <4>1, <4>2 DEF PaymentIntent
      <3>2. ASSUME NEW i \in DOMAIN intents, i \notin Overdue
            PROVE  intents'[i] = intents[i]
        BY <2>1, <3>2
      <3> QED
        BY <3>1, <3>2
    <2>5. NoncesInOrder'
      BY <1>5, <2>1, <2>4 DEF NoncesInOrder, ExpireIntents
    <2>6. IntentLifecycle
      BY <2>1, <2>2, <2>4 DEF IntentLifecycle
    <2> QED
      BY <2>1, <2>3, <2>4, <2>5, <2>6
  <1>6. CASE UNCHANGED intentVars
    BY <1>6 DEF intentVars, IntentTypeOK, NoncesInOrder, IntentLifecycle
  <1> QED
    BY <1>1, <1>3, <1>4, <1>5, <1>6 DEF IntentNext

-----------------------------------------------------------------------------
\* The inductive invariant of the composition.
SettlementInv == /\ VaultInv
                 /\ IntentInv
                 /\ job \in [Threads -> DOMAIN intents \cup {NoIntent}]
                 /\ JobInv
                 /\ ExclusiveClaim

LEMMA SettlementInitInv == SettlementInit => SettlementInv
  <1> SUFFICES ASSUME SettlementInit PROVE SettlementInv
    OBVIOUS
  <1>1. VaultInv
    BY VaultInitInv DEF SettlementInit
  <1>2. IntentInv
    BY DEF SettlementInit, IntentInit, IntentInv, IntentTypeOK, NoncesInOrder
  <1> QED
    BY <1>1, <1>2 DEF SettlementInit, VaultInit, IntentInit, SettlementInv, JobInv,
                      ExclusiveClaim, NoIntent

\* A statement of pay_gas moves one thread, which is not idle before or after,
\* and keeps its arguments.
LEMMA PayGasStepFrame ==
  ASSUME VaultTypeOK, NEW r \in Threads, PayGasStep(r)
  PROVE  /\ pc[r] # "idle"
         /\ pc'[r] # "idle"
         /\ \A t \in Threads \ {r} : pc'[t] = pc[t]
         /\ UNCHANGED <<user, gas, now>>
  BY DEF PayGasStep, ChargeAllowance, VaultStep, Acquire, RefuseRateLimited, NoAllowance,
         CountCompute, ReservesCover, RefuseUnfunded, DebitReserves, Settle, Goto, VaultTypeOK

\* Claimed intents stay with their relayers as long as the relayers keep them.
LEMMA JobsKept ==
  ASSUME SettlementInv, IntentInv', IntentLifecycle, UNCHANGED <<job, user, gas>>,
         \A r \in Threads : pc'[r] = pc[r] \/ pc[r] # "idle"
  PROVE  /\ job' \in [Threads -> DOMAIN intents' \cup {NoIntent}]
         /\ JobInv'
         /\ ExclusiveClaim'
  <1>1. \A r \in Threads : job[r] # NoIntent =>
           /\ job[r] \in DOMAIN intents /\ job[r] \in DOMAIN intents'
           /\ intents'[job[r]].sender = intents[job[r]].sender
           /\ intents[job[r]].status = "CLAIMED"
           /\ intents'[job[r]].status = "CLAIMED"
    BY DEF SettlementInv, ExclusiveClaim, IntentLifecycle
  <1>2. job' \in [Threads -> DOMAIN intents' \cup {NoIntent}]
    BY <1>1 DEF SettlementInv
  <1>3. JobInv'
    BY <1>1 DEF SettlementInv, JobInv
  <1>4. ExclusiveClaim'
    BY <1>1 DEF SettlementInv, ExclusiveClaim
  <1> QED
    BY <1>2, <1>3, <1>4

\* Every step of the composition preserves the invariant, and follows the life
\* cycle of the intents.
LEMMA SettlementNextKeepsInv ==
  ASSUME SettlementInv, [SettlementNext]_settlementVars
  PROVE  SettlementInv' /\ IntentLifecycle
  <1>1. SettlementTypeOK
    BY DEF SettlementInv, SettlementTypeOK, VaultInv, IntentInv
  <1>2. VaultInv'
    BY <1>1, SettlementStepsVault, VaultNextKeepsInv DEF SettlementInv
  <1>3. IntentInv' /\ IntentLifecycle
    BY IntentStep
       DEF SettlementInv, VaultInv, VaultTypeOK, SettlementNext, RelayerClaim, RelayerWork,
           RelayerPay, RelayerDone, settlementVars
  <1> USE DEF SettlementInv
  <1>4. VaultTypeOK /\ VaultTypeOK'
    BY <1>2 DEF VaultInv
  <1> SUFFICES /\ job' \in [Threads -> DOMAIN intents' \cup {NoIntent}]
               /\ JobInv'
               /\ ExclusiveClaim'
    BY <1>2, <1>3
  <1>5. ASSUME NEW r \in Threads, NEW i \in DOMAIN intents, RelayerClaim(r, i)
        PROVE  /\ job' \in [Threads -> DOMAIN intents' \cup {NoIntent}]
               /\ JobInv'
               /\ ExclusiveClaim'
    <2>1. /\ job' = [job EXCEPT ![r] = i]
          /\ DOMAIN intents' = DOMAIN intents
          /\ i # NoIntent
          /\ intents[i].status = "PENDING"
          /\ intents'[i].status = "CLAIMED"
          /\ UNCHANGED <<pc, user, gas>>
      BY <1>5, IntentDomain
         DEF RelayerClaim, ClaimIntent, IsClaimable, IntentInv, PaymentIntent,
             vaultSystemVars, vaultVars, threadVars
    <2>2. \A s \in Threads : job[s] # NoIntent => job[s] # i /\ intents'[job[s]].status = "CLAIMED"
      BY <1>3, <2>1 DEF ExclusiveClaim, IntentLifecycle
    <2>3. \A s \in Threads : job[s] # NoIntent =>
             /\ job[s] \in DOMAIN intents
             /\ intents'[job[s]].sender = intents[job[s]].sender
      BY <1>3 DEF IntentLifecycle
    <2>4. JobInv'
      BY <1>5, <2>1, <2>3 DEF JobInv, RelayerClaim
    <2>5. ExclusiveClaim'
      BY <2>1, <2>2 DEF ExclusiveClaim
    <2> QED
      BY <2>1, <2>4, <2>5
  <1>6. ASSUME NEW r \in Threads, NEW g \in GasCosts, RelayerPay(r, g)
        PROVE  JobInv' /\ UNCHANGED <<job, intents>>
    BY <1>4, <1>6 DEF RelayerPay, PayGas, Goto, JobInv, VaultTypeOK, intentVars
  <1>7. ASSUME NEW r \in Threads, PayGasStep(r), UNCHANGED <<intentVars, job>>
        PROVE  JobInv' /\ UNCHANGED <<job, intents>>
    BY <1>4, <1>7, PayGasStepFrame DEF JobInv, intentVars
  <1>8. ASSUME NEW r \in Threads, RelayerDone(r)
        PROVE  /\ job' \in [Threads -> DOMAIN intents' \cup {NoIntent}]
               /\ JobInv'
               /\ ExclusiveClaim'
    BY <1>4, <1>8 DEF RelayerDone, Return, Goto, JobInv, ExclusiveClaim, VaultTypeOK, intentVars
  <1>9. CASE IntentNext /\ UNCHANGED <<vaultSystemVars, job>>
    BY <1>3, <1>9, JobsKept DEF vaultSystemVars, vaultVars, threadVars
  <1>10. CASE VaultEnvironment /\ UNCHANGED <<intentVars, job>>
    BY <1>3, <1>10, JobsKept
       DEF VaultEnvironment, DepositSol, vaultVars, threadVars
  <1>11. CASE UNCHANGED settlementVars
    BY <1>3, <1>11, JobsKept DEF settlementVars, vaultSystemVars, vaultVars, threadVars
  <1>12. ASSUME UNCHANGED <<job, intents>>
         PROVE  job' \in [Threads -> DOMAIN intents' \cup {NoIntent}] /\ ExclusiveClaim'
    BY <1>12 DEF ExclusiveClaim
  <1> QED
    BY <1>5, <1>6, <1>7, <1>8, <1>9, <1>10, <1>11, <1>12 DEF SettlementNext, RelayerWork

-----------------------------------------------------------------------------
\* The invariant holds in every reachable state of the composition.
THEOREM SettlementInvariant == SettlementSpec => []SettlementInv
  <1>1. SettlementInit => SettlementInv
    BY SettlementInitInv
  <1>2. SettlementInv /\ [SettlementNext]_settlementVars => SettlementInv'
    BY SettlementNextKeepsInv
  <1> QED
    BY <1>1, <1>2, PTL DEF SettlementSpec

\* Type correctness of relayers, intents, vault and stakes together.
THEOREM SettlementTypeCorrect == SettlementSpec => []SettlementTypeOK
  <1>1. SettlementInv => SettlementTypeOK
    BY DEF SettlementInv, SettlementTypeOK, VaultInv, IntentInv
  <1> QED
    BY <1>1, SettlementInvariant, PTL

\* A claimed intent belongs to one relayer and never expires under it, for any
\* number of relayers racing for any number of intents.
THEOREM SettlementExclusiveClaim == SettlementSpec => []ExclusiveClaim
  BY SettlementInvariant, PTL DEF SettlementInv

\* Nonces are dealt in the order of the intents.
THEOREM SettlementNoncesInOrder == SettlementSpec => []NoncesInOrder
  BY SettlementInvariant, PTL DEF SettlementInv, IntentInv

\* What the vault alone guarantees, it guarantees to the relayers.
THEOREM SettlementKeepsBooks == SettlementSpec => [](BooksBalance /\ ReservesCoverDebit)
  BY SettlementInvariant, PTL DEF SettlementInv, VaultInv

\* CLAIMED and EXPIRED are final, and only claimed intents are settled.
THEOREM SettlementClaimsAreFinal == SettlementSpec => ClaimsAreFinal
  <1>1. SettlementInv /\ [SettlementNext]_settlementVars => [IntentLifecycle]_settlementVars
    BY SettlementNextKeepsInv
  <1> QED
    BY <1>1, SettlementInvariant, PTL DEF SettlementSpec, ClaimsAreFinal

-----------------------------------------------------------------------------
Tickets == {job[r] : r \in Undecided}

\* A decided payment gives back exactly the ticket of its relayer.
LEMMA TicketTaken ==
  ASSUME SettlementInv, NEW r \in Undecided, Undecided' = Undecided \ {r}, UNCHANGED job
  PROVE  job[r] \in Tickets /\ Tickets' = Tickets \ {job[r]}
  <1>1. \A s \in Undecided : s # r => job[s] # job[r]
    BY DEF SettlementInv, ExclusiveClaim, Undecided
  <1> QED
    BY <1>1 DEF Tickets

\* A step of pay_gas is the decision about a ticket, or invisible.
LEMMA PayGasStepImplements ==
  ASSUME SettlementInv, NEW r \in Threads, PayGasStep(r), UNCHANGED <<intentVars, job>>
  PROVE  [Ledger!LedgerNext]_(Ledger!ledger)
  <1> USE DEF SettlementInv
  <1>1. /\ pc[r] # "idle" /\ job[r] # NoIntent
        /\ \A t \in Threads \ {r} : pc'[t] = pc[t]
        /\ user[r] = intents[job[r]].sender
        /\ gas[r] \in GasCosts
        /\ job[r] \in DOMAIN intents
        /\ VaultTypeOK
    BY PayGasStepFrame DEF VaultInv, JobInv
  <1> DEFINE decided == pc'[r] \in {"paid", "refused"}
  <1>2. CASE pc[r] \notin {"paid", "refused"} /\ ~decided /\ UNCHANGED <<user_tx_counts, total_gas_paid>>
    <2>1. Undecided' = Undecided
      BY <1>1, <1>2 DEF Undecided
    <2> QED
      BY <1>2, <2>1 DEF Ledger!ledger, intentVars, With
  <1>3. CASE pc[r] \notin {"paid", "refused"} /\ decided
    <2>1. r \in Undecided /\ Undecided' = Undecided \ {r}
      BY <1>1, <1>3 DEF Undecided
    <2>2. job[r] \in Tickets /\ Tickets' = Tickets \ {job[r]}
      BY <2>1, TicketTaken
    <2>3. PICK i \in Tickets : i = job[r]
      BY <2>2
    <2>4. CASE UNCHANGED <<user_tx_counts, total_gas_paid>>
      <3>1. Ledger!Refuse(i)
        BY <2>2, <2>3, <2>4 DEF Ledger!Refuse, Tickets, intentVars, With
      <3> QED
        BY <3>1 DEF Ledger!LedgerNext, Tickets
    <2>5. CASE Settle(r)
      <3>1. PICK cost \in GasCosts : cost = gas[r]
        BY <1>1
      <3> DEFINE counts == [s \in Senders |-> user_tx_counts[s]]
                 owner  == [j \in DOMAIN intents |-> intents[j].sender]
      <3>2. i \in DOMAIN intents /\ owner[i] = user[r]
        BY <1>1, <2>3
      <3>3. counts' = [counts EXCEPT ![owner[i]] = @ + 1]
        BY <1>1, <2>5, <3>2 DEF Settle, VaultTypeOK
      <3>4. Ledger!Charge(i, cost)
        BY <2>2, <2>3, <2>5, <3>1, <3>3 DEF Ledger!Charge, Tickets, Settle, intentVars, With
      <3> QED
        BY <3>4 DEF Ledger!LedgerNext, Tickets
    <2> QED
      BY <1>1, <1>3, <2>4, <2>5
         DEF PayGasStep, ChargeAllowance, VaultStep, Acquire, RefuseRateLimited, NoAllowance,
             CountCompute, ReservesCover, RefuseUnfunded, DebitReserves, ledgerVars
  <1> QED
    BY <1>1, <1>2, <1>3
       DEF PayGasStep, ChargeAllowance, VaultStep, Acquire, RefuseRateLimited, NoAllowance,
           CountCompute, ReservesCover, RefuseUnfunded, DebitReserves, Settle, Goto,
           VaultTypeOK, ledgerVars

\* Every step of the composition is a step of the abstract ledger, or none.
LEMMA SettlementNextImplements ==
  ASSUME SettlementInv, [SettlementNext]_settlementVars
  PROVE  [Ledger!LedgerNext]_(Ledger!ledger)
  <1> USE DEF SettlementInv
  <1>0. VaultTypeOK /\ IntentTypeOK
    BY DEF VaultInv, IntentInv
  <1>a. /\ DOMAIN intents = 1..Len(intents)
        /\ Len(intents) \in Nat
        /\ \A i \in DOMAIN intents : intents[i] \in PaymentIntent
        /\ NoIntent \notin DOMAIN intents
    BY <1>0, IntentDomain
  <1>b. Tickets = {job[r] : r \in Undecided}
    BY DEF Tickets
  <1>1. ASSUME NEW r \in Threads, NEW i \in DOMAIN intents, RelayerClaim(r, i)
        PROVE  Ledger!LedgerNext
    <2>1. /\ intents[i].status = "PENDING"
          /\ intents' = [intents EXCEPT ![i].status = "CLAIMED"]
          /\ job[r] = NoIntent /\ job' = [job EXCEPT ![r] = i]
          /\ UNCHANGED <<pc, user_tx_counts, total_gas_paid>>
      BY <1>1 DEF RelayerClaim, ClaimIntent, IsClaimable, vaultSystemVars, vaultVars,
                  threadVars, ledgerVars
    <2>2. pc[r] = "idle"
      BY <2>1 DEF JobInv
    <2>3. Undecided' = Undecided \cup {r} /\ r \notin Undecided
      BY <1>a, <2>1, <2>2 DEF Undecided
    <2>4. Tickets' = Tickets \cup {i}
      BY <2>1, <2>3 DEF Tickets
    <2>5. /\ DOMAIN intents' = DOMAIN intents
          /\ \A j \in DOMAIN intents : /\ intents'[j].sender = intents[j].sender
                                       /\ j # i => intents'[j].status = intents[j].status
          /\ intents'[i].status = "CLAIMED"
      BY <1>a, <2>1 DEF PaymentIntent
    <2>6. i \in With("PENDING") /\ With("PENDING")' = With("PENDING") \ {i}
      BY <2>1, <2>5 DEF With
    <2>7. Ledger!Claim(i)
      BY <2>1, <2>4, <2>5, <2>6 DEF Ledger!Claim, Tickets
    <2> QED
      BY <2>6, <2>7 DEF Ledger!LedgerNext
  <1>2. ASSUME NEW r \in Threads, NEW g \in GasCosts, RelayerPay(r, g)
        PROVE  UNCHANGED (Ledger!ledger)
    <2>1. Undecided' = Undecided
      BY <1>0, <1>2 DEF RelayerPay, PayGas, Goto, Undecided, VaultTypeOK
    <2> QED
      BY <1>2, <2>1 DEF RelayerPay, PayGas, Ledger!ledger, With, intentVars, ledgerVars
  <1>3. ASSUME NEW r \in Threads, PayGasStep(r), UNCHANGED <<intentVars, job>>
        PROVE  [Ledger!LedgerNext]_(Ledger!ledger)
    BY <1>3, PayGasStepImplements
  <1>4. ASSUME NEW r \in Threads, RelayerDone(r)
        PROVE  UNCHANGED (Ledger!ledger)
    <2>1. Undecided' = Undecided /\ \A s \in Undecided : job'[s] = job[s]
      BY <1>0, <1>4 DEF RelayerDone, Return, Goto, Undecided, VaultTypeOK
    <2>2. {job'[s] : s \in Undecided'} = {job[s] : s \in Undecided}
      BY <2>1
    <2> QED
      BY <1>4, <2>2 DEF RelayerDone, Return, Ledger!ledger, With, intentVars, ledgerVars
  <1>c. ASSUME UNCHANGED vaultSystemVars \/ UNCHANGED <<threadVars, user_tx_counts, total_gas_paid>>,
               UNCHANGED job
        PROVE  /\ Undecided' = Undecided
               /\ Tickets' = Tickets
               /\ UNCHANGED <<user_tx_counts, total_gas_paid>>
    BY <1>c DEF Undecided, Tickets, vaultSystemVars, vaultVars, threadVars, ledgerVars
  <1>5. ASSUME NEW sender \in Senders, CreateIntent(sender), UNCHANGED <<vaultSystemVars, job>>
        PROVE  Ledger!LedgerNext
    <2>1. /\ DOMAIN intents' = DOMAIN intents \cup {Len(intents) + 1}
          /\ Len(intents') = Len(intents) + 1
          /\ \A i \in DOMAIN intents : intents'[i] = intents[i]
          /\ intents'[Len(intents) + 1].sender = sender
          /\ intents'[Len(intents) + 1].status = "PENDING"
      BY <1>0, <1>a, <1>5 DEF CreateIntent, IntentTypeOK
    <2>2. With("PENDING")' = With("PENDING") \cup {Len(intents) + 1}
      BY <1>a, <2>1 DEF With
    <2> DEFINE owner == [i \in DOMAIN intents |-> intents[i].sender]
    <2>3. owner \in Seq(Senders) /\ Len(owner) = Len(intents)
      BY <1>a DEF PaymentIntent
    <2>4. owner' = Append(owner, sender)
      BY <1>a, <2>1, <2>3
    <2>5. Ledger!Create(sender)
      BY <1>5, <1>c, <2>2, <2>3, <2>4 DEF Ledger!Create, Tickets
    <2> QED
      BY <2>5 DEF Ledger!LedgerNext
  <1>d. ASSUME \A i \in DOMAIN intents : intents'[i].sender = intents[i].sender,
               DOMAIN intents' = DOMAIN intents
        PROVE  UNCHANGED [i \in DOMAIN intents |-> intents[i].sender]
    BY <1>d
  <1>6. ASSUME NEW i \in DOMAIN intents, NEW tx \in Txs, ConfirmSettlement(i, tx),
               UNCHANGED <<vaultSystemVars, job>>
        PROVE  UNCHANGED (Ledger!ledger)
    <2>1. /\ DOMAIN intents' = DOMAIN intents
          /\ \A j \in DOMAIN intents : /\ intents'[j].sender = intents[j].sender
                                       /\ intents'[j].status = intents[j].status
      BY <1>a, <1>6 DEF ConfirmSettlement, PaymentIntent
    <2>2. With("PENDING")' = With("PENDING")
      BY <2>1 DEF With
    <2> QED
      BY <1>6, <1>c, <1>d, <2>1, <2>2 DEF Ledger!ledger, Tickets
  <1>7. ASSUME ExpireIntents, UNCHANGED <<vaultSystemVars, job>>
        PROVE  Ledger!LedgerNext
    <2>1. /\ DOMAIN intents' = DOMAIN intents
          /\ \A j \in DOMAIN intents :
               intents'[j] = IF j \in Overdue THEN [intents[j] EXCEPT !.status = "EXPIRED"]
                                              ELSE intents[j]
      BY <1>7 DEF ExpireIntents
    <2>2. \A j \in DOMAIN intents :
             /\ intents'[j].sender = intents[j].sender
             /\ intents'[j].status = "PENDING" => intents[j].status = "PENDING"
      BY <1>a, <2>1 DEF PaymentIntent
    <2>3. With("PENDING")' \subseteq With("PENDING")
      BY <2>1, <2>2 DEF With
    <2>4. Ledger!Expire
      BY <1>7, <1>c, <1>d, <2>1, <2>2, <2>3 DEF Ledger!Expire, Tickets
    <2> QED
      BY <2>4 DEF Ledger!LedgerNext
  <1>8. CASE VaultEnvironment /\ UNCHANGED <<intentVars, job>>
    <2>1. UNCHANGED <<threadVars, user_tx_counts, total_gas_paid>>
      BY <1>8 DEF VaultEnvironment, DepositSol, vaultVars, ledgerVars
    <2> QED
      BY <1>8, <1>c, <2>1 DEF Ledger!ledger, Tickets, With, intentVars
  <1>9. CASE UNCHANGED settlementVars
    BY <1>9, <1>c DEF settlementVars, Ledger!ledger, Tickets, With, intentVars
  <1> QED
    BY <1>1, <1>2, <1>3, <1>4, <1>5, <1>6, <1>7, <1>8, <1>9
       DEF SettlementNext, RelayerWork, IntentNext

\* The composition implements the abstract ledger: one charge at most for a
\* claim, one claim at most for an intent, and to the account of its sender.
THEOREM SettlementImplementsLedger == SettlementSpec => ImplementsLedger
  <1>1. SettlementInit => Ledger!LedgerInit
    BY DEF SettlementInit, VaultInit, IntentInit, Ledger!LedgerInit, With, Undecided, NoIntent
  <1>2. SettlementInv /\ [SettlementNext]_settlementVars
          => [Ledger!LedgerNext]_(Ledger!ledger)
    BY SettlementNextImplements
  <1> QED
    BY <1>1, <1>2, SettlementInvariant, PTL DEF SettlementSpec, ImplementsLedger, Ledger!LedgerSpec

-----------------------------------------------------------------------------
\* The sets that ChargesBackedByClaims counts are finite.
LEMMA CountedSetsFinite ==
  ASSUME SettlementInv, NEW u \in Wallets
  PROVE  /\ IsFiniteSet(ClaimedOf(u)) /\ Cardinality(ClaimedOf(u)) \in Nat
         /\ IsFiniteSet(UndecidedOf(u)) /\ Cardinality(UndecidedOf(u)) \in Nat
  <1>0. Len(intents) \in Int
    BY IntentDomain DEF SettlementInv, IntentInv
  <1>1. IsFiniteSet(1..Len(intents))
    BY <1>0, FS_Interval
  <1>2. ClaimedOf(u) \subseteq 1..Len(intents)
    BY IntentDomain DEF ClaimedOf, With, SettlementInv, IntentInv
  <1>3. UndecidedOf(u) \subseteq Threads
    BY DEF UndecidedOf, Undecided
  <1> QED
    BY <1>1, <1>2, <1>3, FS_Subset, FS_CardinalityType

\* A step that claims nothing: claimed intents stay claimed, and the payments
\* of a user grow only by a payment that was undecided.
LEMMA NoClaimBacked ==
  ASSUME SettlementInv, SettlementInv', ChargesBackedByClaims,
         NEW u \in Wallets,
         ClaimedOf(u)' = ClaimedOf(u),
         \/ UndecidedOf(u)' \subseteq UndecidedOf(u) /\ user_tx_counts'[u] = user_tx_counts[u]
         \/ \E r \in UndecidedOf(u) : /\ UndecidedOf(u)' = UndecidedOf(u) \ {r}
                                      /\ user_tx_counts'[u] = user_tx_counts[u] + 1
  PROVE  user_tx_counts'[u] + Cardinality(UndecidedOf(u)') <= Cardinality(ClaimedOf(u)')
  <1>1. /\ user_tx_counts[u] \in Nat
        /\ user_tx_counts[u] + Cardinality(UndecidedOf(u)) <= Cardinality(ClaimedOf(u))
    BY DEF ChargesBackedByClaims, SettlementInv, VaultInv, VaultTypeOK
  <1>2. /\ IsFiniteSet(UndecidedOf(u)) /\ Cardinality(UndecidedOf(u)) \in Nat
        /\ Cardinality(ClaimedOf(u)) \in Nat
    BY CountedSetsFinite
  <1>3. CASE UndecidedOf(u)' \subseteq UndecidedOf(u) /\ user_tx_counts'[u] = user_tx_counts[u]
    <2>1. /\ Cardinality(UndecidedOf(u)') <= Cardinality(UndecidedOf(u))
          /\ Cardinality(UndecidedOf(u)') \in Nat
      BY <1>2, <1>3, FS_Subset, FS_CardinalityType
    <2> QED
      BY <1>1, <1>2, <1>3, <2>1
  <1>4. ASSUME NEW r \in UndecidedOf(u), UndecidedOf(u)' = UndecidedOf(u) \ {r},
               user_tx_counts'[u] = user_tx_counts[u] + 1
        PROVE  user_tx_counts'[u] + Cardinality(UndecidedOf(u)') <= Cardinality(ClaimedOf(u)')
    <2>1. Cardinality(UndecidedOf(u)') = Cardinality(UndecidedOf(u)) - 1
      <3>1. Cardinality(UndecidedOf(u) \ {r}) = Cardinality(UndecidedOf(u)) - 1
        BY <1>2, FS_RemoveElement
      <3> QED
        BY <1>4, <3>1
    <2> QED
      BY <1>1, <1>2, <1>4, <2>1
  <1> QED
    BY <1>3, <1>4

\* Intents claimed by a step, or by none, keep the other claimed intents.
LEMMA ClaimedAfter ==
  ASSUME NEW u \in Wallets, NEW S,
         With("CLAIMED")' = With("CLAIMED") \cup S,
         \A i \in With("CLAIMED") \cup S : intents'[i].sender = intents[i].sender
  PROVE  ClaimedOf(u)' = ClaimedOf(u) \cup {i \in S : intents[i].sender = u}
  BY DEF ClaimedOf

\* The same for the payments under way.
LEMMA UndecidedAfter ==
  ASSUME NEW u \in Wallets, NEW S,
         Undecided' = Undecided \cup S,
         \A r \in Undecided \cup S : intents'[job'[r]].sender = intents[job'[r]].sender,
         \A r \in Undecided : job'[r] = job[r]
  PROVE  UndecidedOf(u)' = UndecidedOf(u) \cup {r \in S : intents[job'[r]].sender = u}
  BY DEF UndecidedOf

\* Senders, confirmations and the sweeper neither claim nor unclaim.
LEMMA IntentNextKeepsClaims ==
  ASSUME IntentInv, IntentNext, IntentLifecycle
  PROVE  With("CLAIMED")' = With("CLAIMED")
  <1>0. /\ DOMAIN intents = 1..Len(intents)
        /\ Len(intents) \in Nat
        /\ intents \in Seq(PaymentIntent)
        /\ \A i \in DOMAIN intents : intents[i] \in PaymentIntent
    BY IntentDomain DEF IntentInv, IntentTypeOK
  <1>1. \A i \in DOMAIN intents :
           /\ i \in DOMAIN intents'
           /\ intents[i].status = "CLAIMED" => intents'[i].status = "CLAIMED"
    BY DEF IntentLifecycle
  <1>2. \A i \in DOMAIN intents' :
           intents'[i].status = "CLAIMED" => /\ i \in DOMAIN intents
                                             /\ intents[i].status = "CLAIMED"
    <2>1. ASSUME NEW sender \in Senders, CreateIntent(sender)
          PROVE  \A i \in DOMAIN intents' :
                   intents'[i].status = "CLAIMED" => /\ i \in DOMAIN intents
                                                     /\ intents[i].status = "CLAIMED"
      BY <1>0, <2>1 DEF CreateIntent
    <2>2. ASSUME NEW i \in DOMAIN intents, NEW tx \in Txs, ConfirmSettlement(i, tx)
          PROVE  \A j \in DOMAIN intents' :
                   intents'[j].status = "CLAIMED" => /\ j \in DOMAIN intents
                                                     /\ intents[j].status = "CLAIMED"
      BY <1>0, <2>2 DEF ConfirmSettlement, PaymentIntent
    <2>3. CASE ExpireIntents
      BY <1>0, <2>3 DEF ExpireIntents, PaymentIntent
    <2> QED
      BY <2>1, <2>2, <2>3 DEF IntentNext
  <1> QED
    BY <1>1, <1>2 DEF With

LEMMA ChargesStayBacked ==
  ASSUME SettlementInv, SettlementInv', IntentLifecycle, ChargesBackedByClaims,
         [SettlementNext]_settlementVars
  PROVE  ChargesBackedByClaims'
  <1> SUFFICES ASSUME NEW u \in Wallets
               PROVE  user_tx_counts'[u] + Cardinality(UndecidedOf(u)')
                        <= Cardinality(ClaimedOf(u)')
    BY DEF ChargesBackedByClaims
  <1>0. /\ VaultTypeOK
        /\ DOMAIN intents = 1..Len(intents)
        /\ Len(intents) \in Nat
        /\ \A i \in DOMAIN intents : intents[i] \in PaymentIntent
        /\ NoIntent \notin DOMAIN intents
        /\ job \in [Threads -> DOMAIN intents \cup {NoIntent}]
        /\ JobInv /\ IntentInv
    BY IntentDomain DEF SettlementInv, VaultInv, IntentInv
  <1>j. \A r \in Undecided : job[r] \in DOMAIN intents
    BY <1>0 DEF Undecided
  <1>w. With("CLAIMED") \subseteq DOMAIN intents
    BY DEF With
  \* Steps of pay_gas and of the callers that claim nothing.
  <1>1. ASSUME UNCHANGED intents,
               \A r \in UndecidedOf(u)' : r \in Undecided /\ job'[r] = job[r],
               user_tx_counts'[u] = user_tx_counts[u]
        PROVE  /\ ClaimedOf(u)' = ClaimedOf(u)
               /\ UndecidedOf(u)' \subseteq UndecidedOf(u)
    BY <1>1 DEF ClaimedOf, With, UndecidedOf
  <1>2. ASSUME NEW r \in Threads, PayGasStep(r), UNCHANGED <<intentVars, job>>
        PROVE  /\ ClaimedOf(u)' = ClaimedOf(u)
               /\ \/ /\ UndecidedOf(u)' \subseteq UndecidedOf(u)
                     /\ user_tx_counts'[u] = user_tx_counts[u]
                  \/ \E s \in UndecidedOf(u) :
                       /\ UndecidedOf(u)' = UndecidedOf(u) \ {s}
                       /\ user_tx_counts'[u] = user_tx_counts[u] + 1
    <2>1. /\ pc[r] # "idle" /\ job[r] # NoIntent
          /\ \A t \in Threads \ {r} : pc'[t] = pc[t]
          /\ user[r] = intents[job[r]].sender
      BY <1>0, <1>2, PayGasStepFrame DEF JobInv
    <2>2. pc[r] \notin {"paid", "refused"}
      BY <1>2 DEF PayGasStep, ChargeAllowance, VaultStep, Acquire, RefuseRateLimited,
             NoAllowance, CountCompute, ReservesCover, RefuseUnfunded, DebitReserves, Settle
    <2>3. r \in Undecided /\ Undecided' \subseteq Undecided
      BY <1>2, <2>1, <2>2 DEF Undecided
    <2>4. ClaimedOf(u)' = ClaimedOf(u)
      BY <1>2 DEF ClaimedOf, With, intentVars
    <2>5. CASE Settle(r) /\ user[r] = u
      <3>1. Undecided' = Undecided \ {r}
        BY <1>0, <1>2, <2>1, <2>5 DEF Undecided, Settle, Goto, VaultTypeOK
      <3>2. r \in UndecidedOf(u) /\ UndecidedOf(u)' = UndecidedOf(u) \ {r}
        BY <1>2, <2>1, <2>3, <2>5, <3>1 DEF UndecidedOf, intentVars
      <3>3. user_tx_counts'[u] = user_tx_counts[u] + 1
        BY <1>0, <2>5 DEF Settle, VaultTypeOK
      <3> QED
        BY <2>4, <3>2, <3>3
    <2>6. CASE ~(Settle(r) /\ user[r] = u)
      <3>1. user_tx_counts'[u] = user_tx_counts[u]
        BY <1>0, <1>2, <2>6
           DEF PayGasStep, ChargeAllowance, VaultStep, Acquire, RefuseRateLimited, NoAllowance,
               CountCompute, ReservesCover, RefuseUnfunded, DebitReserves, Settle, ledgerVars,
               VaultTypeOK
      <3>2. UndecidedOf(u)' \subseteq UndecidedOf(u)
        BY <1>2, <2>3 DEF UndecidedOf, intentVars
      <3> QED
        BY <2>4, <3>1, <3>2
    <2> QED
      BY <2>5, <2>6
  <1>3. ASSUME NEW r \in Threads, NEW i \in DOMAIN intents, RelayerClaim(r, i)
        PROVE  user_tx_counts'[u] + Cardinality(UndecidedOf(u)') <= Cardinality(ClaimedOf(u)')
    <2>1. /\ intents[i].status = "PENDING"
          /\ intents' = [intents EXCEPT ![i].status = "CLAIMED"]
          /\ job[r] = NoIntent /\ job' = [job EXCEPT ![r] = i]
          /\ UNCHANGED <<pc, user_tx_counts>>
      BY <1>3 DEF RelayerClaim, ClaimIntent, IsClaimable, vaultSystemVars, vaultVars,
                  threadVars, ledgerVars
    <2>2. /\ DOMAIN intents' = DOMAIN intents
          /\ \A j \in DOMAIN intents : /\ intents'[j].sender = intents[j].sender
                                       /\ j # i => intents'[j].status = intents[j].status
          /\ intents'[i].status = "CLAIMED"
      BY <1>0, <2>1 DEF PaymentIntent
    <2>3. r \notin Undecided /\ Undecided' = Undecided \cup {r}
      BY <1>0, <2>1 DEF Undecided, JobInv
    <2>4. i \notin With("CLAIMED") /\ With("CLAIMED")' = With("CLAIMED") \cup {i}
      BY <2>1, <2>2 DEF With
    <2>5. /\ user_tx_counts[u] \in Nat
          /\ user_tx_counts[u] + Cardinality(UndecidedOf(u)) <= Cardinality(ClaimedOf(u))
          /\ IsFiniteSet(ClaimedOf(u)) /\ Cardinality(ClaimedOf(u)) \in Nat
          /\ IsFiniteSet(UndecidedOf(u)) /\ Cardinality(UndecidedOf(u)) \in Nat
      BY <1>0, CountedSetsFinite DEF ChargesBackedByClaims, VaultTypeOK
    <2>6. ClaimedOf(u)' = ClaimedOf(u) \cup {j \in {i} : intents[j].sender = u}
      <3>1. \A j \in With("CLAIMED") \cup {i} : intents'[j].sender = intents[j].sender
        BY <1>w, <2>2
      <3> QED
        BY <2>4, <3>1, ClaimedAfter
    <2>7. CASE intents[i].sender = u
      <3>1. ClaimedOf(u)' = ClaimedOf(u) \cup {i} /\ i \notin ClaimedOf(u)
        BY <2>4, <2>6, <2>7 DEF ClaimedOf
      <3>2. UndecidedOf(u)' = UndecidedOf(u) \cup {r} /\ r \notin UndecidedOf(u)
        BY <1>j, <2>1, <2>2, <2>3, <2>7 DEF UndecidedOf, Undecided
      <3>3. /\ Cardinality(ClaimedOf(u)') = Cardinality(ClaimedOf(u)) + 1
            /\ Cardinality(UndecidedOf(u)') = Cardinality(UndecidedOf(u)) + 1
        BY <2>5, <3>1, <3>2, FS_AddElement
      <3> QED
        BY <2>1, <2>5, <3>3
    <2>8. CASE intents[i].sender # u
      <3>1. ClaimedOf(u)' = ClaimedOf(u)
        BY <2>6, <2>8
      <3>2. UndecidedOf(u)' = UndecidedOf(u)
        BY <1>j, <2>1, <2>2, <2>3, <2>8 DEF UndecidedOf, Undecided
      <3> QED
        BY <2>1, <2>5, <3>1, <3>2
    <2> QED
      BY <2>7, <2>8
  <1>4. ASSUME NEW r \in Threads, \/ \E g \in GasCosts : RelayerPay(r, g)
                                  \/ RelayerDone(r)
        PROVE  /\ ClaimedOf(u)' = ClaimedOf(u)
               /\ UndecidedOf(u)' \subseteq UndecidedOf(u)
               /\ user_tx_counts'[u] = user_tx_counts[u]
    <2>1. /\ UNCHANGED <<intents, user_tx_counts>>
          /\ \A s \in Undecided' : s \in Undecided /\ job'[s] = job[s]
      BY <1>0, <1>4 DEF RelayerPay, PayGas, RelayerDone, Return, Goto, Undecided, VaultTypeOK,
             intentVars, ledgerVars
    <2> QED
      BY <1>1, <2>1 DEF UndecidedOf
  <1>5. ASSUME IntentNext, UNCHANGED <<vaultSystemVars, job>>
        PROVE  /\ ClaimedOf(u)' = ClaimedOf(u)
               /\ UndecidedOf(u)' = UndecidedOf(u)
               /\ user_tx_counts'[u] = user_tx_counts[u]
    <2>1. \A i \in DOMAIN intents : intents'[i].sender = intents[i].sender
      BY DEF IntentLifecycle
    <2>2. With("CLAIMED")' = With("CLAIMED") \cup {}
      BY <1>0, <1>5, IntentNextKeepsClaims
    <2>3. ClaimedOf(u)' = ClaimedOf(u) \cup {i \in {} : intents[i].sender = u}
      BY <1>w, <2>1, <2>2, ClaimedAfter
    <2>4. Undecided' = Undecided \cup {}
      BY <1>5 DEF Undecided, vaultSystemVars, vaultVars, threadVars
    <2>5. UndecidedOf(u)' = UndecidedOf(u) \cup {r \in {} : intents[job'[r]].sender = u}
      BY <1>5, <1>j, <2>1, <2>4, UndecidedAfter
    <2> QED
      BY <1>5, <2>3, <2>5 DEF vaultSystemVars, vaultVars, ledgerVars
  <1>6. ASSUME VaultEnvironment, UNCHANGED <<intentVars, job>>
        PROVE  /\ ClaimedOf(u)' = ClaimedOf(u)
               /\ UndecidedOf(u)' = UndecidedOf(u)
               /\ user_tx_counts'[u] = user_tx_counts[u]
    BY <1>6 DEF VaultEnvironment, DepositSol, vaultVars, ledgerVars, threadVars, intentVars,
           ClaimedOf, With, UndecidedOf, Undecided
  <1>7. ASSUME UNCHANGED settlementVars
        PROVE  /\ ClaimedOf(u)' = ClaimedOf(u)
               /\ UndecidedOf(u)' = UndecidedOf(u)
               /\ user_tx_counts'[u] = user_tx_counts[u]
    BY <1>7 DEF settlementVars, vaultSystemVars, vaultVars, ledgerVars, threadVars, intentVars,
           ClaimedOf, With, UndecidedOf, Undecided
  <1>8. CASE \E r \in Threads, i \in DOMAIN intents : RelayerClaim(r, i)
    BY <1>3, <1>8
  <1>9. CASE ~ \E r \in Threads, i \in DOMAIN intents : RelayerClaim(r, i)
    <2>1. /\ ClaimedOf(u)' = ClaimedOf(u)
          /\ \/ /\ UndecidedOf(u)' \subseteq UndecidedOf(u)
                /\ user_tx_counts'[u] = user_tx_counts[u]
             \/ \E s \in UndecidedOf(u) :
                  /\ UndecidedOf(u)' = UndecidedOf(u) \ {s}
                  /\ user_tx_counts'[u] = user_tx_counts[u] + 1
      BY <1>2, <1>4, <1>5, <1>6, <1>7, <1>9 DEF SettlementNext, RelayerWork
    <2> QED
      BY <2>1, NoClaimBacked
  <1> QED
    BY <1>8, <1>9

\* Charges never outrun claims, for any number of relayers and intents: the
\* payments of a user and those under way are at most their claimed intents.
THEOREM SettlementChargesBacked == SettlementSpec => []ChargesBackedByClaims
  <1>1. SettlementInit => ChargesBackedByClaims
    <2> SUFFICES ASSUME SettlementInit, NEW u \in Wallets
                 PROVE  user_tx_counts[u] + Cardinality(UndecidedOf(u)) <= Cardinality(ClaimedOf(u))
      BY DEF ChargesBackedByClaims
    <2>1. ClaimedOf(u) = {} /\ UndecidedOf(u) = {} /\ user_tx_counts[u] = 0
      BY DEF SettlementInit, IntentInit, VaultInit, ClaimedOf, With, UndecidedOf, Undecided
    <2> QED
      BY <2>1, FS_EmptySet
  <1>2. /\ SettlementInv /\ SettlementInv' /\ ChargesBackedByClaims
        /\ [SettlementNext]_settlementVars
        => ChargesBackedByClaims'
    BY ChargesStayBacked, SettlementNextKeepsInv
  <1> QED
    BY <1>1, <1>2, SettlementInvariant, PTL DEF SettlementSpec
=============================================================================
