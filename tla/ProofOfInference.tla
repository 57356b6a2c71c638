-------------------------- MODULE ProofOfInference --------------------------
(***************************************************************************)
(* class ProofOfInference (include/proof_of_inference.hpp): receipts for    *)
(* inference work.  Every operation is one critical section of its mutex_. *)
(* Abstracted: task, type, hashes and resource figures of a receipt; the   *)
(* signature is computed and verified by the class over fields nobody      *)
(* changes, so that verify_signature always agrees.                        *)
(***************************************************************************)
EXTENDS Integers, Sequences, Functions

CONSTANTS Inferrers,       \* worker addresses
          Rewards,         \* amounts passed to claim_reward
          MaxReceipts      \* bound on the receipts ever created

ASSUME InferenceAssumption == Rewards \subseteq Nat /\ MaxReceipts \in Nat

VARIABLES receipts,              \* receipts_; identifiers are dealt from a counter
          total_rewards_paid

inferenceVars == <<receipts, total_rewards_paid>>

InferenceReceipt == [worker_address : Inferrers, verified : BOOLEAN,
                     reward_lamports : Nat, reward_claimed : BOOLEAN]

InferenceTypeOK == /\ receipts \in Seq(InferenceReceipt)
                   /\ total_rewards_paid \in Nat

InferenceInit == receipts = << >> /\ total_rewards_paid = 0

-----------------------------------------------------------------------------
CreateReceipt(worker) ==
    /\ Len(receipts) < MaxReceipts
    /\ receipts' = Append(receipts, [worker_address |-> worker, verified |-> FALSE,
                                     reward_lamports |-> 0, reward_claimed |-> FALSE])
    /\ UNCHANGED total_rewards_paid

VerifyReceipt(i) ==
    /\ i \in DOMAIN receipts
    /\ receipts' = [receipts EXCEPT ![i].verified = TRUE]
    /\ UNCHANGED total_rewards_paid

\* Mutated form: verification is enough.
Unrewarded_Verified(i) == receipts[i].verified

Unrewarded(i) == receipts[i].verified /\ ~receipts[i].reward_claimed

\* claim_reward returning true; the caller names the amount.
ClaimInferenceReward(i, reward) ==
    /\ i \in DOMAIN receipts
    /\ Unrewarded(i)
    /\ receipts' = [receipts EXCEPT ![i].reward_lamports = reward, ![i].reward_claimed = TRUE]
    /\ total_rewards_paid' = total_rewards_paid + reward

\* is_replay
IsReplay(i) == i \in DOMAIN receipts /\ receipts[i].reward_claimed

-----------------------------------------------------------------------------
\* The rewards paid are those written in the claimed receipts, each counted
\* once: a replayed receipt adds nothing.
RewardsMatchReceipts ==
    total_rewards_paid =
        SumFunction([i \in {j \in DOMAIN receipts : IsReplay(j)} |-> receipts[i].reward_lamports])
=============================================================================
