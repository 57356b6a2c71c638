------------------------- MODULE MCReceiverPaidGas -------------------------
(***************************************************************************)
(* Two callers, one updater, and prices that make no published pair when   *)
(* they are mixed.                                                         *)
(***************************************************************************)
EXTENDS ReceiverPaidGas

CONSTANTS c1, c2, feed, rob, rae

MCCallers   == {c1, c2}
MCUpdaters  == {feed}
MCReceivers == {rob, rae}
MCFees      == {1}
MCInitialPrice == [sol |-> 1, membra |-> 1]
MCPrices    == {[sol |-> 2, membra |-> 3]}
=============================================================================
