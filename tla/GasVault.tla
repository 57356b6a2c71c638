------------------------------ MODULE GasVault ------------------------------
(***************************************************************************)
(* class GasVault (include/gas_vault.hpp) with the ComputeStaking it        *)
(* points to.  Threads call pay_gas; its critical section is split at each *)
(* atomic that deposit_sol and the lock-free getters can see between two   *)
(* statements.  deposit_sol takes no lock.                                 *)
(***************************************************************************)
EXTENDS ComputeStaking

CONSTANTS Threads,
          NoThread,      \* mutex_ is free
          NoWallet,      \* the argument of a thread outside pay_gas
          GasCosts,      \* the lamports a call of pay_gas may ask for
          MaxTx,         \* the 1000 of the rate limit
          InitialSol,    \* initial_sol_lamports
          Deposits,      \* amounts of deposit_sol
          MaxFunds       \* bound on the lamports ever put in the vault

ASSUME VaultAssumption ==
    /\ NoThread \notin Threads
    /\ NoWallet \notin Wallets
    /\ GasCosts \subseteq Nat
    /\ MaxTx \in Nat
    /\ InitialSol \in Nat
    /\ Deposits \subseteq Nat
    /\ MaxFunds \in Nat

VARIABLES sol_reserves, total_gas_paid, gas_paid_by_compute, user_tx_counts,
          holder,        \* the thread that holds mutex_, or NoThread
          pc, user, gas, \* where each thread is in pay_gas, and its arguments
          funded         \* history: lamports the vault was given so far

ledgerVars == <<sol_reserves, total_gas_paid, gas_paid_by_compute, user_tx_counts, funded>>
threadVars == <<holder, pc, user, gas>>
vaultVars  == <<ledgerVars, threadVars>>
vaultSystemVars == <<stakingVars, now, vaultVars>>

\* The places of a thread between acquiring mutex_ and returning.
Critical == {"consume", "credit", "reserve", "debit", "total"}
Places   == Critical \cup {"idle", "lock", "paid", "refused"}

VaultTypeOK == /\ StakingTypeOK
               /\ now \in Nat
               /\ sol_reserves \in Nat
               /\ total_gas_paid \in Nat
               /\ gas_paid_by_compute \in Nat
               /\ user_tx_counts \in [Wallets -> Nat]
               /\ funded \in Nat
               /\ holder \in Threads \cup {NoThread}
               /\ pc \in [Threads -> Places]
               /\ user \in [Threads -> Wallets \cup {NoWallet}]
               /\ gas \in [Threads -> Nat]

VaultInit == /\ sol_reserves = InitialSol
             /\ funded = InitialSol
             /\ total_gas_paid = 0
             /\ gas_paid_by_compute = 0
             /\ user_tx_counts = [u \in Wallets |-> 0]
             /\ holder = NoThread
             /\ pc = [t \in Threads |-> "idle"]
             /\ user = [t \in Threads |-> NoWallet]
             /\ gas = [t \in Threads |-> 0]

Goto(t, place) == pc' = [pc EXCEPT ![t] = place]

\* The lock_guard of pay_gas goes out of scope.
Unlock == holder' = NoThread

-----------------------------------------------------------------------------
\* deposit_sol: one atomic add, at any time.
DepositSol(amount) ==
    /\ funded + amount <= MaxFunds
    /\ sol_reserves' = sol_reserves + amount
    /\ funded' = funded + amount
    /\ UNCHANGED <<total_gas_paid, gas_paid_by_compute, user_tx_counts, threadVars>>

\* pay_gas is called and waits for mutex_.
PayGas(t, u, g) ==
    /\ pc[t] = "idle"
    /\ Goto(t, "lock")
    /\ user' = [user EXCEPT ![t] = u]
    /\ gas' = [gas EXCEPT ![t] = g]
    /\ UNCHANGED <<holder, ledgerVars>>

\* Mutated form: one more than the code allows.
RateLimited_OffByOne(u) == user_tx_counts[u] > MaxTx + 1

\* The test is strict: a user at the limit pays once more.
RateLimited(u) == user_tx_counts[u] > MaxTx

\* The rate check is the first thing done under the lock and reads what only
\* the lock holder writes.
Acquire(t) ==
    /\ pc[t] = "lock"
    /\ holder = NoThread
    /\ ~RateLimited(user[t])
    /\ holder' = t
    /\ Goto(t, "consume")
    /\ UNCHANGED <<user, gas, ledgerVars>>

RefuseRateLimited(t) ==
    /\ pc[t] = "lock"
    /\ holder = NoThread
    /\ RateLimited(user[t])
    /\ Goto(t, "refused")
    /\ UNCHANGED <<holder, user, gas, ledgerVars>>

\* consume_gas_allowance, under the mutex of ComputeStaking.
ChargeAllowance(t) ==
    /\ pc[t] = "consume"
    /\ ConsumeGasAllowance(user[t], gas[t])
    /\ Goto(t, "credit")
    /\ UNCHANGED <<holder, user, gas, ledgerVars>>

NoAllowance(t) ==
    /\ pc[t] = "consume"
    /\ Covering(user[t], gas[t]) = {}
    /\ Goto(t, "reserve")
    /\ UNCHANGED <<holder, user, gas, ledgerVars>>

\* Mutated form: returns before the total is counted.
CountCompute_EarlyReturn(t) ==
    /\ pc[t] = "credit"
    /\ gas_paid_by_compute' = gas_paid_by_compute + gas[t]
    /\ Unlock
    /\ Goto(t, "paid")
    /\ UNCHANGED <<sol_reserves, total_gas_paid, user_tx_counts, funded, user, gas>>

\* gas_paid_by_compute_ += gas
CountCompute(t) ==
    /\ pc[t] = "credit"
    /\ gas_paid_by_compute' = gas_paid_by_compute + gas[t]
    /\ Goto(t, "total")
    /\ UNCHANGED <<sol_reserves, total_gas_paid, user_tx_counts, funded, holder, user, gas>>

ReservesCover(t) ==
    /\ pc[t] = "reserve"
    /\ sol_reserves >= gas[t]
    /\ Goto(t, "debit")
    /\ UNCHANGED <<holder, user, gas, ledgerVars>>

\* Mutated form: an early return of a hand-written lock() forgets unlock().
RefuseUnfunded_Locked(t) ==
    /\ pc[t] = "reserve"
    /\ sol_reserves < gas[t]
    /\ Goto(t, "refused")
    /\ UNCHANGED <<holder, user, gas, ledgerVars>>

RefuseUnfunded(t) ==
    /\ pc[t] = "reserve"
    /\ sol_reserves < gas[t]
    /\ Unlock
    /\ Goto(t, "refused")
    /\ UNCHANGED <<user, gas, ledgerVars>>

\* sol_reserves_ -= gas, as one atomic operation; the value compared before is
\* not used again.
DebitReserves(t) ==
    /\ pc[t] = "debit"
    /\ sol_reserves' = Minus(sol_reserves, gas[t])
    /\ Goto(t, "total")
    /\ UNCHANGED <<total_gas_paid, gas_paid_by_compute, user_tx_counts, funded, holder, user, gas>>

\* total_gas_paid_ += gas; user_tx_counts_[user]++; return true.  The count is
\* only read under mutex_, so the three make one step.
Settle(t) ==
    /\ pc[t] = "total"
    /\ total_gas_paid' = total_gas_paid + gas[t]
    /\ user_tx_counts' = [user_tx_counts EXCEPT ![user[t]] = @ + 1]
    /\ Unlock
    /\ Goto(t, "paid")
    /\ UNCHANGED <<sol_reserves, gas_paid_by_compute, funded, user, gas>>

\* The caller has its answer.
Return(t) ==
    /\ pc[t] \in {"paid", "refused"}
    /\ Goto(t, "idle")
    /\ user' = [user EXCEPT ![t] = NoWallet]
    /\ gas' = [gas EXCEPT ![t] = 0]
    /\ UNCHANGED <<holder, ledgerVars>>

\* The statements of pay_gas between the call and the answer.
VaultStep(t) == \/ Acquire(t)
                \/ RefuseRateLimited(t)
                \/ NoAllowance(t)
                \/ CountCompute(t)
                \/ ReservesCover(t)
                \/ RefuseUnfunded(t)
                \/ DebitReserves(t)
                \/ Settle(t)

PayGasStep(t) == \/ ChargeAllowance(t) /\ UNCHANGED now
                 \/ VaultStep(t) /\ UNCHANGED <<stakingVars, now>>

\* What happens around a payment: deposits, stakers, time.
VaultEnvironment ==
    \/ \E amount \in Deposits : DepositSol(amount) /\ UNCHANGED <<stakingVars, now>>
    \/ StakingNext /\ UNCHANGED <<now, vaultVars>>
    \/ Tick /\ UNCHANGED <<stakingVars, vaultVars>>

VaultNext ==
    \/ \E t \in Threads : PayGasStep(t)
    \/ \E t \in Threads : Return(t) /\ UNCHANGED <<stakingVars, now>>
    \/ \E t \in Threads, u \in Wallets, g \in GasCosts :
          PayGas(t, u, g) /\ UNCHANGED <<stakingVars, now>>
    \/ VaultEnvironment

\* A running thread is eventually scheduled; nobody has to call or deposit.
VaultFairness == \A t \in Threads : WF_vaultSystemVars(PayGasStep(t))

VaultSystemInit == StakingInit /\ ClockInit /\ VaultInit

VaultSpec == VaultSystemInit /\ [][VaultNext]_vaultSystemVars /\ VaultFairness

-----------------------------------------------------------------------------
At(place) == {t \in Threads : pc[t] = place}

\* Gas already taken from a stake or from the reserves, and not yet in
\* total_gas_paid_.
InFlight == IF holder # NoThread /\ pc[holder] = "total" THEN gas[holder] ELSE 0

\* pay_gas keeps the vault's three counters consistent: what the credits paid
\* and what left the reserves is the total gas paid, except for the one
\* payment in flight, whatever deposits, stakes and other payments
\* interleave.
BooksBalance == gas_paid_by_compute + (funded - sol_reserves) = total_gas_paid + InFlight

\* Between the reserve check and the debit of pay_gas the reserves may only
\* grow, so that the unsigned subtraction never wraps.
ReservesCoverDebit == \A t \in At("debit") : sol_reserves >= gas[t]

\* The credits the vault accounts as spent, and those still in the stakes,
\* never exceed the grants ComputeStaking issued, even when a charge has left
\* the stake and is not yet counted by the vault.
CreditsBacked ==
    UnspentCredits + gas_paid_by_compute + SumFunction([t \in At("credit") |-> gas[t]])
        <= total_credit_grants_issued

\* "max 1000 txs per user" (gas_vault.hpp:54).  The code admits one more.
TxCountWithinMax == \A u \in Wallets : user_tx_counts[u] <= MaxTx

\* That one more is all: nobody gets more than MaxTx + 1 payments, however many
\* threads pay for one user at the same time.
TxCountWithinCap == \A u \in Wallets : user_tx_counts[u] <= MaxTx + 1

\* Once unstaked, an entry is frozen: pay_gas charges it no more, it is never
\* unstaked again, and no later stake is filed under its id.
UnstakedIsFinal ==
    [][\A id \in DOMAIN stakes :
         ~stakes[id].active => id \in DOMAIN stakes' /\ stakes'[id] = stakes[id]]_vaultSystemVars

\* Whatever branch pay_gas takes, the thread that locked mutex_ releases it.
MutexReleased == \A t \in Threads : holder = t ~> holder # t
=============================================================================
