--------------------------- MODULE ComputeStaking ---------------------------
(***************************************************************************)
(* class ComputeStaking (include/compute_staking.hpp).  Wallets lock CPU   *)
(* cores and get MEMBRA gas credits; GasVault spends the credits.  Every   *)
(* operation is one critical section of mutex_, hence one action.          *)
(* Abstracted: ram_gb (stored, never used), redeemable (always false).     *)
(***************************************************************************)
EXTENDS Tables, Clock, Functions

CONSTANTS Wallets,             \* staker addresses
          Offers,              \* the resources a call of stake_compute may lock
          CreditGrantPerCore,  \* CREDIT_GRANT_PER_CORE = GAS_CREDIT_ALLOWANCE_PER_CORE
          RewardRate,          \* GAS_CREDITS_PER_CORE_PER_SEC * REWARD_MULTIPLIER
          MinStakeDuration,    \* MIN_STAKE_DURATION_SEC, in ticks
          MaxGrants            \* bound on total_credit_grants_issued_

ASSUME StakingAssumption ==
    /\ Offers \subseteq [cpu_cores : Nat, compute_units : Nat]
    /\ CreditGrantPerCore \in Nat
    /\ RewardRate \in Nat
    /\ MinStakeDuration \in Nat \ {0}
    /\ MaxGrants \in Nat

VARIABLES stakes,                       \* stakes_, by <<staker, time of the call>>
          total_staked_compute,
          total_cpu_cores,
          total_credit_grants_issued

stakingVars == <<stakes, total_staked_compute, total_cpu_cores, total_credit_grants_issued>>

\* "stake_" + address + "_" + timestamp: equal for two calls in one tick.
StakeId == Wallets \X Nat

ComputeStake == [cpu_cores : Nat, compute_units : Nat, active : BOOLEAN,
                 unstaked_at : Nat, credit_grants_issued : Nat,
                 gas_credit_allowance : Nat]

StakingTypeOK == /\ stakes \in [DOMAIN stakes -> ComputeStake]
                 /\ DOMAIN stakes \subseteq StakeId
                 /\ total_staked_compute \in Int
                 /\ total_cpu_cores \in Int
                 /\ total_credit_grants_issued \in Nat

StakingInit == /\ stakes = EmptyTable
               /\ total_staked_compute = 0
               /\ total_cpu_cores = 0
               /\ total_credit_grants_issued = 0

-----------------------------------------------------------------------------
\* The grant of a stake, and the allowance it may spend.
CreditGrant(offer) == offer.cpu_cores * CreditGrantPerCore

NewStake(offer) == [cpu_cores |-> offer.cpu_cores,
                    compute_units |-> offer.compute_units,
                    active |-> TRUE,
                    unstaked_at |-> 0,
                    credit_grants_issued |-> CreditGrant(offer),
                    gas_credit_allowance |-> CreditGrant(offer)]

\* The stake already filed under this id, if any, is overwritten; the totals
\* grow all the same.
StakeCompute(staker, offer) ==
    /\ total_credit_grants_issued + CreditGrant(offer) <= MaxGrants
    /\ stakes' = Put(stakes, <<staker, now>>, NewStake(offer))
    /\ total_credit_grants_issued' = total_credit_grants_issued + CreditGrant(offer)
    /\ total_staked_compute' = total_staked_compute + offer.compute_units
    /\ total_cpu_cores' = total_cpu_cores + offer.cpu_cores

\* calculate_time_rewards
TimeRewards(stake, duration) == stake.compute_units * RewardRate * duration

Unstaked(stake, duration) ==
    [stake EXCEPT !.active = FALSE,
                  !.unstaked_at = now,
                  !.credit_grants_issued = @ + TimeRewards(stake, duration)]

\* id[2] is the time the stake was made.
OldEnough(id) == now - id[2] >= MinStakeDuration

\* Mutated form: the test of the active flag forgotten.
UnstakeCompute_Twice(id) ==
    /\ id \in DOMAIN stakes
    /\ OldEnough(id)
    /\ stakes' = [stakes EXCEPT ![id].active = FALSE, ![id].unstaked_at = now]
    /\ total_staked_compute' = Minus(total_staked_compute, stakes[id].compute_units)
    /\ total_cpu_cores' = Minus(total_cpu_cores, stakes[id].cpu_cores)
    /\ UNCHANGED total_credit_grants_issued

\* The remaining allowance stays in the entry; an inactive entry is never
\* charged again.
UnstakeCompute(id) ==
    /\ id \in DOMAIN stakes
    /\ stakes[id].active
    /\ OldEnough(id)
    /\ stakes' = [stakes EXCEPT ![id] = Unstaked(@, now - id[2])]
    /\ total_staked_compute' = Minus(total_staked_compute, stakes[id].compute_units)
    /\ total_cpu_cores' = Minus(total_cpu_cores, stakes[id].cpu_cores)
    /\ UNCHANGED total_credit_grants_issued

-----------------------------------------------------------------------------

\* The stakes that can cover a charge alone.  The loop of
\* consume_gas_allowance takes the first one in the order of the hash table,
\* which is any of them; two stakes are never combined.
Covering(staker, gas_cost) ==
    {id \in DOMAIN stakes : /\ id[1] = staker
                            /\ stakes[id].active
                            /\ stakes[id].gas_credit_allowance >= gas_cost}

\* Mutated form: the allowance is tested and not debited.
ConsumeGasAllowance_Undebited(staker, gas_cost) ==
    /\ Covering(staker, gas_cost) # {}
    /\ UNCHANGED stakingVars

\* consume_gas_allowance returning true.
ConsumeGasAllowance(staker, gas_cost) ==
    \E id \in Covering(staker, gas_cost) :
        /\ stakes' = [stakes EXCEPT ![id].gas_credit_allowance = @ - gas_cost]
        /\ UNCHANGED <<total_staked_compute, total_cpu_cores, total_credit_grants_issued>>

\* What the stakers and the operators of ComputeStaking do on their own.
StakingNext == \/ \E staker \in Wallets, offer \in Offers : StakeCompute(staker, offer)
               \/ \E id \in DOMAIN stakes : UnstakeCompute(id)

-----------------------------------------------------------------------------
Active == {id \in DOMAIN stakes : stakes[id].active}

UnspentCredits == SumFunction([id \in DOMAIN stakes |-> stakes[id].gas_credit_allowance])

\* The totals never fall below what the active stakes hold, so that the
\* unsigned subtractions of unstake_compute never wrap, even after two stakes
\* of one wallet were filed under the same id and the first one was lost; and
\* no more cores are counted than credits were granted for.
TotalsCoverActive ==
    /\ total_staked_compute >= SumFunction([id \in Active |-> stakes[id].compute_units])
    /\ total_cpu_cores >= SumFunction([id \in Active |-> stakes[id].cpu_cores])
    /\ total_cpu_cores * CreditGrantPerCore <= total_credit_grants_issued
=============================================================================
