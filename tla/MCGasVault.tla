----------------------------- MODULE MCGasVault -----------------------------
(***************************************************************************)
(* A small vault: two threads, a staker who pays with credits, and a user  *)
(* who can only pay from the reserves.                                     *)
(***************************************************************************)
EXTENDS GasVault

CONSTANTS t1, t2, alice, bob

MCThreads == {t1, t2}
MCWallets == {alice, bob}
MCOffers  == {[cpu_cores |-> 1, compute_units |-> 1]}
MCGasCosts == {1, 2}
MCDeposits == {1}

=============================================================================
