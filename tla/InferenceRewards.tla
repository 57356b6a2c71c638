-------------------------- MODULE InferenceRewards --------------------------
(***************************************************************************)
(* A worker's way from an inference receipt to its reward, the end of main *)
(* (src/main.cpp): create the receipt, verify it, file an entry for it in  *)
(* the RewardVault and claim the entry.  The two classes share nothing but *)
(* the text of the receipt id; RewardVault asks ProofOfInference nothing.  *)
(***************************************************************************)
EXTENDS RewardVault, ProofOfInference

ASSUME RewardSystemAssumption == Inferrers \subseteq Workers /\ 1..MaxReceipts \subseteq ReceiptIds

rewardSystemVars == <<rewardVars, inferenceVars, now>>

RewardSystemTypeOK == RewardTypeOK /\ InferenceTypeOK

RewardSystemInit == RewardInit /\ InferenceInit /\ ClockInit

-----------------------------------------------------------------------------
\* main files an entry for a receipt whose verification it has just printed.
FileReward(i, amount) ==
    /\ i \in DOMAIN receipts
    /\ receipts[i].verified
    /\ CreateRewardEntry(receipts[i].worker_address, i, amount)

RewardStep ==
    \/ \E i \in DOMAIN receipts, amount \in Amounts : FileReward(i, amount)
    \/ RewardCallStep
    \/ \E id \in DOMAIN entries : ClaimReward(id)
    \/ \E amount \in PoolDeposits : DepositToPool(amount)

InferenceStep ==
    \/ \E worker \in Inferrers : CreateReceipt(worker)
    \/ \E i \in DOMAIN receipts : VerifyReceipt(i)
    \/ \E i \in DOMAIN receipts, reward \in Rewards : ClaimInferenceReward(i, reward)

RewardSystemNext ==
    \/ RewardStep /\ UNCHANGED <<inferenceVars, now>>
    \/ InferenceStep /\ UNCHANGED <<rewardVars, now>>
    \/ Tick /\ UNCHANGED <<rewardVars, inferenceVars>>

\* A caller inside create_reward_entry is eventually scheduled.
RewardFairness == WF_rewardSystemVars(RewardCallStep /\ UNCHANGED <<inferenceVars, now>>)

RewardSystemSpec ==
    RewardSystemInit /\ [][RewardSystemNext]_rewardSystemVars /\ RewardFairness

-----------------------------------------------------------------------------
\* tests/test_reward_vault.cpp creates an entry in a funded vault and goes on:
\* a call of create_reward_entry returns.
CreateReturns == creating # NoCall ~> creating = NoCall

=============================================================================
