------------------------------- MODULE GasPool -------------------------------
(***************************************************************************)
(* class GasPoolManager (src/gas_reimbursement.cpp): pools of lamports and *)
(* what is reserved of each.  One thread, one action per call.  Left out:  *)
(* the utilization ratio, a floating-point copy of two numbers kept here.  *)
(***************************************************************************)
EXTENDS Tables

CONSTANTS Pools,
          PoolFunds,       \* balances a pool is initialized with
          TopUps,          \* amounts of update_pool_balance
          MaxPoolFunds     \* bound on the balance of a pool

ASSUME PoolAssumption == PoolFunds \subseteq Nat /\ TopUps \subseteq Nat /\ MaxPoolFunds \in Nat

VARIABLES pool_configs,        \* balance of the pools, total and available alike
          reserved_amounts     \* 0 where the map has no entry yet

gasPoolVars == <<pool_configs, reserved_amounts>>

PoolTypeOK == /\ pool_configs \in [DOMAIN pool_configs -> Nat]
              /\ DOMAIN pool_configs \subseteq Pools
              /\ reserved_amounts \in [Pools -> Nat]

PoolInit == /\ pool_configs = EmptyTable
            /\ reserved_amounts = [p \in Pools |-> 0]

-----------------------------------------------------------------------------

\* initialize_pool: also of a pool in use, whose reservations stay.
InitializePool(p, funds) ==
    /\ pool_configs' = Put(pool_configs, p, funds)
    /\ UNCHANGED reserved_amounts

\* update_pool_balance returning true: both balances grow by the amount.
UpdatePoolBalance(p, amount) ==
    /\ p \in DOMAIN pool_configs
    /\ pool_configs[p] + amount <= MaxPoolFunds
    /\ pool_configs' = [pool_configs EXCEPT ![p] = @ + amount]
    /\ UNCHANGED reserved_amounts

\* Mutated form: what is reserved already is not taken off.
CheckAvailability_Gross(p, required) == p \in DOMAIN pool_configs /\ pool_configs[p] >= required

\* check_availability: the difference wraps once more is reserved than there is.
CheckAvailability(p, required) ==
    /\ p \in DOMAIN pool_configs
    /\ Minus(pool_configs[p], reserved_amounts[p]) >= required

\* reserve_funds returning true.
ReserveFunds(p, amount) ==
    /\ CheckAvailability(p, amount)
    /\ reserved_amounts' = [reserved_amounts EXCEPT ![p] = @ + amount]
    /\ UNCHANGED pool_configs

\* release_funds stops at zero.
ReleaseFunds(p, amount) ==
    /\ reserved_amounts' = [reserved_amounts EXCEPT ![p] = IF @ >= amount THEN @ - amount ELSE 0]
    /\ UNCHANGED pool_configs

-----------------------------------------------------------------------------
Overreserved(p) == p \in DOMAIN pool_configs /\ pool_configs[p] < reserved_amounts[p]

\* A pool comes to owe more than it has only where it is initialized with less
\* than it had: reservations alone never overdraw it.
OnlyShrinkingOverreserves ==
    [][\A p \in DOMAIN pool_configs :
          Overreserved(p)' /\ ~Overreserved(p) => pool_configs'[p] < pool_configs[p]]_gasPoolVars
=============================================================================
