--------------------------- MODULE MCGasSettlement ---------------------------
(***************************************************************************)
(* Two relayers settle the intents of two senders; one core may be staked. *)
(***************************************************************************)
EXTENDS GasSettlement

CONSTANTS r1, r2, alice, bob, tx1, tx2

MCRelayers == {r1, r2}
MCWallets  == {alice, bob}
MCOffers   == {[cpu_cores |-> 1, compute_units |-> 1]}
MCGasCosts == {1}
MCDeposits == {1}
MCTxs      == {tx1, tx2}
=============================================================================
