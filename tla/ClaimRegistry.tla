---------------------------- MODULE ClaimRegistry ----------------------------
(***************************************************************************)
(* What a registry of unique artifacts promises: the first wallet to       *)
(* register a sample owns it for good, and nobody else ever does.          *)
(***************************************************************************)
VARIABLE claims      \* sample |-> wallet

ClaimInit == DOMAIN claims = {}

Claim == \E sample \in DOMAIN claims' \ DOMAIN claims :
            /\ DOMAIN claims' = DOMAIN claims \cup {sample}
            /\ \A s \in DOMAIN claims : claims'[s] = claims[s]

ClaimSpec == ClaimInit /\ [][Claim]_claims
=============================================================================
