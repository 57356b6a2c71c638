----------------------- MODULE InferenceRewardsProofs -----------------------
(***************************************************************************)
(* Proofs about InferenceRewards, for any number of workers, receipts and  *)
(* amounts: types, what becomes of the pool, and that what was paid is     *)
(* what entries and receipts show.                                         *)
(***************************************************************************)
EXTENDS InferenceRewards, SumTheorems, TLAPS

USE MaxTimeAssumption

\* All figures of the vault are whole numbers, and main passes receipts the
\* vault has a name for.
LEMMA Figures ==
  /\ Amounts \subseteq Nat
  /\ PoolDeposits \subseteq Nat
  /\ MaxRewardPerReceipt \in Nat
  /\ MaxPoolBalance \in Nat
  /\ InitialPool \in Nat
  /\ MaxFiled \in Nat
  /\ Rewards \subseteq Nat
  /\ MaxReceipts \in Nat
  /\ Inferrers \subseteq Workers
  /\ 1..MaxReceipts \subseteq ReceiptIds
  BY RewardAssumption, InferenceAssumption, RewardSystemAssumption

USE Figures

\* The inductive invariant of the vault and the receipts.
RewardInv == /\ RewardSystemTypeOK
             /\ now \in Nat
             /\ Len(receipts) <= MaxReceipts
             /\ PoolConserved
             /\ PoolWithinCap
             /\ creating # NoCall => creating \in Call /\ creating.amount <= MaxRewardPerReceipt

LEMMA RewardInitInv == RewardSystemInit => RewardInv
  <1> SUFFICES ASSUME RewardSystemInit PROVE RewardInv
    OBVIOUS
  <1> USE DEF RewardSystemInit, RewardInit, InferenceInit, ClockInit
  <1>1. RewardTypeOK
    BY DEF RewardTypeOK, EmptyTable
  <1>2. InferenceTypeOK
    BY DEF InferenceTypeOK
  <1>3. PoolConserved /\ PoolWithinCap
    BY DEF PoolConserved, PoolWithinCap
  <1> QED
    BY <1>1, <1>2, <1>3 DEF RewardInv, RewardSystemTypeOK

\* A claim takes from the pool what the entry says, and no more than is there.
LEMMA ClaimRewardInv ==
  ASSUME RewardInv, NEW id \in DOMAIN entries, ClaimReward(id), UNCHANGED <<inferenceVars, now>>
  PROVE  RewardInv'
  <1> DEFINE amount == entries[id].amount_lamports
  <1> USE DEF RewardInv, RewardSystemTypeOK
  <1>1. entries[id] \in RewardVaultEntry /\ amount \in Nat /\ amount <= pool_balance
    BY DEF RewardTypeOK, RewardVaultEntry, ClaimReward, Claimable
  <1>2. /\ pool_balance' = pool_balance - amount
        /\ total_rewards_claimed' = total_rewards_claimed + amount
        /\ UNCHANGED <<total_rewards_available, callVars, filed>>
    BY <1>1 DEF ClaimReward, Minus
  <1>3. entries' \in [DOMAIN entries -> RewardVaultEntry]
    BY <1>1 DEF ClaimReward, RewardTypeOK, RewardVaultEntry
  <1> HIDE DEF amount
  <1>4. RewardTypeOK'
    <2>1. pool_balance' \in Nat /\ total_rewards_claimed' \in Nat
      <3>1. pool_balance \in Nat /\ total_rewards_claimed \in Nat
        BY DEF RewardTypeOK
      <3> QED
        BY <1>1, <1>2, <3>1
    <2>2. DOMAIN entries' = DOMAIN entries
      BY <1>3
    <2>3. /\ DOMAIN entries' \subseteq Workers \X Nat
          /\ entries' \in [DOMAIN entries' -> RewardVaultEntry]
      BY <1>3, <2>2 DEF RewardTypeOK
    <2> QED
      BY <1>2, <2>1, <2>3 DEF RewardTypeOK, callVars
  <1>5. PoolConserved' /\ PoolWithinCap'
    <2>1. /\ pool_balance \in Nat /\ total_rewards_claimed \in Nat
          /\ total_rewards_available = pool_balance + total_rewards_claimed
          /\ pool_balance <= MaxPoolBalance \/ pool_balance <= InitialPool
      BY DEF RewardTypeOK, PoolConserved, PoolWithinCap
    <2>2. /\ total_rewards_available' = pool_balance' + total_rewards_claimed'
          /\ pool_balance' <= MaxPoolBalance \/ pool_balance' <= InitialPool
      BY <1>1, <1>2, <2>1
    <2> QED
      BY <2>2 DEF PoolConserved, PoolWithinCap
  <1> QED
    BY <1>2, <1>4, <1>5 DEF InferenceTypeOK, inferenceVars, callVars

\* Filing an entry moves no money.
LEMMA RelockReentersInv ==
  ASSUME RewardInv, RelockReenters, UNCHANGED <<inferenceVars, now>>
  PROVE  RewardInv'
  <1> USE DEF RewardInv, RewardSystemTypeOK
  <1>1. creating \in Call /\ creating' = NoCall /\ UNCHANGED <<poolVars, self_blocked>>
    BY DEF RelockReenters
  <1>2. /\ entries' \in [DOMAIN entries' -> RewardVaultEntry]
        /\ DOMAIN entries' \subseteq Workers \X Nat
        /\ filed' \in Nat
    <2>1. CASE Granted(creating) /\ FileEntry(creating)
      <3> DEFINE id    == <<creating.worker, now>>
                 entry == [receipt_id |-> creating.receipt_id, amount_lamports |-> creating.amount,
                           claimed |-> FALSE, claimed_at |-> 0]
      <3>1. /\ DOMAIN entries' = DOMAIN entries \cup {id}
            /\ entries' = [jd \in DOMAIN entries \cup {id} |->
                             IF jd = id THEN entry ELSE entries[jd]]
            /\ filed' = filed + creating.amount
        BY <2>1 DEF FileEntry, Put
      <3>2. /\ entry \in RewardVaultEntry
            /\ creating.amount \in Nat
            /\ id \in Workers \X Nat
        BY <1>1 DEF RewardVaultEntry, Call, RewardTypeOK
      <3>3. /\ entries \in [DOMAIN entries -> RewardVaultEntry]
            /\ DOMAIN entries \subseteq Workers \X Nat
            /\ filed \in Nat
        BY DEF RewardTypeOK
      <3>4. filed' \in Nat
        BY <3>1, <3>2, <3>3
      <3> HIDE DEF id, entry
      <3>5. /\ DOMAIN entries' \subseteq Workers \X Nat
            /\ entries' \in [DOMAIN entries' -> RewardVaultEntry]
        BY <3>1, <3>2, <3>3
      <3> QED
        BY <3>4, <3>5
    <2>2. CASE UNCHANGED <<entries, filed>>
      BY <2>2 DEF RewardTypeOK
    <2> QED
      BY <2>1, <2>2 DEF RelockReenters
  <1>3. RewardTypeOK'
    BY <1>1, <1>2 DEF RewardTypeOK, poolVars
  <1> QED
    BY <1>1, <1>3 DEF PoolConserved, PoolWithinCap, poolVars, InferenceTypeOK, inferenceVars

LEMMA RewardStepInv ==
  ASSUME RewardInv, RewardStep, UNCHANGED <<inferenceVars, now>>
  PROVE  RewardInv'
  <1> USE DEF RewardInv, RewardSystemTypeOK
  <1>1. ASSUME NEW i \in DOMAIN receipts, NEW amount \in Amounts, FileReward(i, amount)
        PROVE  RewardInv'
    <2>1. /\ creating' = [worker |-> receipts[i].worker_address, receipt_id |-> i, amount |-> amount]
          /\ amount <= MaxRewardPerReceipt
          /\ UNCHANGED <<entries, poolVars, self_blocked, filed>>
      BY <1>1 DEF FileReward, CreateRewardEntry
    <2>2. creating' \in Call
      <3>1. receipts[i] \in InferenceReceipt /\ i \in 1..MaxReceipts
        BY DEF InferenceTypeOK
      <3>2. receipts[i].worker_address \in Workers /\ i \in ReceiptIds
        BY <3>1 DEF InferenceReceipt
      <3> QED
        BY <2>1, <3>2 DEF Call
    <2> QED
      BY <2>1, <2>2 DEF RewardTypeOK, PoolConserved, PoolWithinCap, poolVars, InferenceTypeOK,
         inferenceVars
  <1>2. CASE RelockBlocks
    BY <1>2 DEF RelockBlocks, RewardTypeOK, PoolConserved, PoolWithinCap, poolVars,
       InferenceTypeOK, inferenceVars
  <1>3. CASE RelockReenters
    BY <1>3, RelockReentersInv
  <1>4. ASSUME NEW id \in DOMAIN entries, ClaimReward(id)
        PROVE  RewardInv'
    BY <1>4, ClaimRewardInv
  <1>5. ASSUME NEW amount \in PoolDeposits, DepositToPool(amount)
        PROVE  RewardInv'
    <2>1. /\ pool_balance' = pool_balance + amount
          /\ pool_balance' <= MaxPoolBalance
          /\ total_rewards_available' = total_rewards_available + amount
          /\ UNCHANGED <<entries, total_rewards_claimed, creating, self_blocked, filed>>
      BY <1>5 DEF DepositToPool, callVars
    <2>2. RewardTypeOK'
      <3>1. pool_balance' \in Nat /\ total_rewards_available' \in Nat
        BY <1>5, <2>1 DEF RewardTypeOK
      <3> QED
        BY <2>1, <3>1 DEF RewardTypeOK
    <2>3. PoolConserved' /\ PoolWithinCap'
      BY <2>1 DEF RewardTypeOK, PoolConserved, PoolWithinCap
    <2> QED
      BY <2>1, <2>2, <2>3 DEF InferenceTypeOK, inferenceVars
  <1> QED
    BY <1>1, <1>2, <1>3, <1>4, <1>5 DEF RewardStep, RewardCallStep

\* Neither the receipts nor the clock touch the pool.
LEMMA InferenceStepInv ==
  ASSUME RewardInv, InferenceStep, UNCHANGED <<rewardVars, now>>
  PROVE  RewardInv'
  <1> USE DEF RewardInv, RewardSystemTypeOK, InferenceTypeOK
  <1>1. InferenceTypeOK' /\ Len(receipts') <= MaxReceipts
    <2>1. ASSUME NEW worker \in Inferrers, CreateReceipt(worker)
          PROVE  InferenceTypeOK' /\ Len(receipts') <= MaxReceipts
      BY <2>1 DEF CreateReceipt, InferenceReceipt
    <2>2. ASSUME NEW i \in DOMAIN receipts, VerifyReceipt(i)
          PROVE  InferenceTypeOK' /\ Len(receipts') <= MaxReceipts
      <3> DEFINE r == [receipts[i] EXCEPT !.verified = TRUE]
      <3>1. receipts' = [receipts EXCEPT ![i] = r] /\ UNCHANGED total_rewards_paid
        BY <2>2 DEF VerifyReceipt
      <3>2. r \in InferenceReceipt
        <4>1. receipts[i] \in InferenceReceipt
          OBVIOUS
        <4> QED
          BY <4>1 DEF InferenceReceipt
      <3> HIDE DEF r
      <3> QED
        BY <3>1, <3>2
    <2>3. ASSUME NEW i \in DOMAIN receipts, NEW reward \in Rewards, ClaimInferenceReward(i, reward)
          PROVE  InferenceTypeOK' /\ Len(receipts') <= MaxReceipts
      <3> DEFINE r == [receipts[i] EXCEPT !.reward_lamports = reward, !.reward_claimed = TRUE]
      <3>1. /\ receipts' = [receipts EXCEPT ![i] = r]
            /\ total_rewards_paid' = total_rewards_paid + reward
        BY <2>3 DEF ClaimInferenceReward
      <3>2. r \in InferenceReceipt
        <4>1. receipts[i] \in InferenceReceipt /\ reward \in Nat
          OBVIOUS
        <4> QED
          BY <4>1 DEF InferenceReceipt
      <3> HIDE DEF r
      <3> QED
        BY <3>1, <3>2
    <2> QED
      BY <2>1, <2>2, <2>3 DEF InferenceStep
  <1> QED
    BY <1>1 DEF RewardTypeOK, PoolConserved, PoolWithinCap, rewardVars, poolVars, callVars

LEMMA RewardSystemStepInv ==
  ASSUME RewardInv, [RewardSystemNext]_rewardSystemVars
  PROVE  RewardInv'
  <1>1. CASE RewardStep /\ UNCHANGED <<inferenceVars, now>>
    BY <1>1, RewardStepInv
  <1>2. CASE InferenceStep /\ UNCHANGED <<rewardVars, now>>
    BY <1>2, InferenceStepInv
  <1>3. CASE UNCHANGED <<rewardVars, inferenceVars>> /\ (Tick \/ UNCHANGED now)
    <2>1. RewardTypeOK' /\ InferenceTypeOK' /\ now' \in Nat
      BY <1>3 DEF Tick, RewardInv, RewardSystemTypeOK, RewardTypeOK, InferenceTypeOK, rewardVars,
         poolVars, callVars, inferenceVars
    <2> QED
      BY <1>3, <2>1 DEF RewardInv, RewardSystemTypeOK, PoolConserved, PoolWithinCap, rewardVars,
         poolVars, callVars, inferenceVars
  <1> QED
    BY <1>1, <1>2, <1>3 DEF RewardSystemNext, rewardSystemVars

-----------------------------------------------------------------------------
\* The types of the vault and of the receipts.
THEOREM RewardTypeCorrect == RewardSystemSpec => []RewardSystemTypeOK
  <1>1. RewardInv => RewardSystemTypeOK
    BY DEF RewardInv
  <1> QED
    BY <1>1, RewardInitInv, RewardSystemStepInv, PTL DEF RewardSystemSpec

\* remaining_rewards is the pool, whatever is filed, replaced and claimed and
\* whether or not create_reward_entry ever returns: no subtraction wraps.
THEOREM RewardPoolConserved == RewardSystemSpec => []PoolConserved
  <1>1. RewardInv => PoolConserved
    BY DEF RewardInv
  <1> QED
    BY <1>1, RewardInitInv, RewardSystemStepInv, PTL DEF RewardSystemSpec

\* The pool never exceeds its cap, unless the vault was built above it.
THEOREM RewardPoolWithinCap == RewardSystemSpec => []PoolWithinCap
  <1>1. RewardInv => PoolWithinCap
    BY DEF RewardInv
  <1> QED
    BY <1>1, RewardInitInv, RewardSystemStepInv, PTL DEF RewardSystemSpec

-----------------------------------------------------------------------------
\* What the claimed entries and the claimed receipts count.
ClaimedIds == {id \in DOMAIN entries : entries[id].claimed}
ClaimedOf == [id \in ClaimedIds |-> entries[id].amount_lamports]
ReplayIds == {i \in DOMAIN receipts : IsReplay(i)}
RewardOf == [i \in ReplayIds |-> receipts[i].reward_lamports]

\* The books of entries and receipts, for finitely many entries.
PaidInv == /\ IsFiniteSet(DOMAIN entries)
           /\ ClaimedWerePaid
           /\ RewardsMatchReceipts

\* Both sums are over finitely many natural numbers.
LEMMA PaidCount ==
  ASSUME RewardInv, IsFiniteSet(DOMAIN entries)
  PROVE  /\ IsFiniteSet(DOMAIN ClaimedOf) /\ \A id \in DOMAIN ClaimedOf : ClaimedOf[id] \in Nat
         /\ IsFiniteSet(DOMAIN RewardOf) /\ \A i \in DOMAIN RewardOf : RewardOf[i] \in Nat
         /\ SumFunction(ClaimedOf) \in Nat
         /\ SumFunction(RewardOf) \in Nat
  <1>1. IsFiniteSet(ClaimedIds)
    BY FS_Subset DEF ClaimedIds
  <1>2. \A id \in ClaimedIds : entries[id].amount_lamports \in Nat
    BY DEF ClaimedIds, RewardInv, RewardSystemTypeOK, RewardTypeOK, RewardVaultEntry
  <1>3. IsFiniteSet(ReplayIds)
    <2>1. DOMAIN receipts = 1..Len(receipts) /\ Len(receipts) \in Nat
      BY DEF RewardInv, RewardSystemTypeOK, InferenceTypeOK
    <2>2. IsFiniteSet(DOMAIN receipts)
      BY <2>1, FS_Interval
    <2> QED
      BY <2>2, FS_Subset DEF ReplayIds
  <1>4. \A i \in ReplayIds : receipts[i].reward_lamports \in Nat
    <2>1. \A i \in DOMAIN receipts : receipts[i] \in InferenceReceipt
      BY DEF RewardInv, RewardSystemTypeOK, InferenceTypeOK
    <2> QED
      BY <2>1 DEF ReplayIds, InferenceReceipt
  <1>5. /\ IsFiniteSet(DOMAIN ClaimedOf) /\ \A id \in DOMAIN ClaimedOf : ClaimedOf[id] \in Nat
        /\ IsFiniteSet(DOMAIN RewardOf) /\ \A i \in DOMAIN RewardOf : RewardOf[i] \in Nat
    BY <1>1, <1>2, <1>3, <1>4 DEF ClaimedOf, RewardOf
  <1> QED
    BY <1>5, TotalNat

\* An entry that is filed is not claimed; one it replaces counts no more.
LEMMA FilingKeepsPaid ==
  ASSUME RewardInv, PaidInv, RelockReenters
  PROVE  IsFiniteSet(DOMAIN entries') /\ ClaimedWerePaid'
  <1>1. UNCHANGED total_rewards_claimed
    BY DEF RelockReenters, poolVars
  <1>2. CASE UNCHANGED entries
    BY <1>1, <1>2 DEF PaidInv, ClaimedWerePaid, LamportsOf
  <1>3. CASE FileEntry(creating)
    <2> DEFINE id == <<creating.worker, now>>
    <2>1. /\ DOMAIN entries' = DOMAIN entries \cup {id}
          /\ ~entries'[id].claimed
          /\ \A jd \in DOMAIN entries \ {id} : entries'[jd] = entries[jd]
      BY <1>3 DEF FileEntry, Put
    <2>2. IsFiniteSet(DOMAIN entries')
      BY <2>1, FS_AddElement DEF PaidInv
    <2>3. ClaimedIds' = ClaimedIds \ {id}
      BY <2>1 DEF ClaimedIds
    <2>4. /\ DOMAIN ClaimedOf' \subseteq DOMAIN ClaimedOf
          /\ \A jd \in DOMAIN ClaimedOf' : ClaimedOf'[jd] = ClaimedOf[jd]
      BY <2>1, <2>3 DEF ClaimedOf, ClaimedIds
    <2>5. \A jd \in DOMAIN ClaimedOf' : ClaimedOf'[jd] \in Nat /\ ClaimedOf'[jd] <= ClaimedOf[jd]
      BY <2>4, PaidCount DEF PaidInv
    <2>6. SumFunction(ClaimedOf') <= SumFunction(ClaimedOf)
      BY <2>4, <2>5, PaidCount, TotalMonotone DEF PaidInv
    <2>7. SumFunction(ClaimedOf') \in Nat
      <3>1. IsFiniteSet(DOMAIN ClaimedOf')
        BY <2>4, PaidCount, FS_Subset DEF PaidInv
      <3> QED
        BY <2>5, <3>1, TotalNat
    <2>8. SumFunction(ClaimedOf) <= total_rewards_claimed /\ total_rewards_claimed \in Nat
      BY DEF PaidInv, ClaimedWerePaid, LamportsOf, ClaimedOf, ClaimedIds, RewardInv,
         RewardSystemTypeOK, RewardTypeOK
    <2>9. SumFunction(ClaimedOf') <= total_rewards_claimed'
      BY <1>1, <2>6, <2>7, <2>8, PaidCount DEF PaidInv
    <2> QED
      BY <2>2, <2>9 DEF ClaimedWerePaid, LamportsOf, ClaimedOf, ClaimedIds
  <1> QED
    BY <1>2, <1>3 DEF RelockReenters

\* A claim counts what the entry shows.
LEMMA ClaimingKeepsPaid ==
  ASSUME RewardInv, PaidInv, NEW id \in DOMAIN entries, ClaimReward(id)
  PROVE  IsFiniteSet(DOMAIN entries') /\ ClaimedWerePaid'
  <1>1. /\ entries[id] \in RewardVaultEntry /\ entries[id].amount_lamports \in Nat
        /\ entries[id].claimed = FALSE
    BY DEF RewardInv, RewardSystemTypeOK, RewardTypeOK, RewardVaultEntry, ClaimReward, Claimable
  <1>2. /\ DOMAIN entries' = DOMAIN entries
        /\ entries'[id].claimed /\ entries'[id].amount_lamports = entries[id].amount_lamports
        /\ \A jd \in DOMAIN entries \ {id} : entries'[jd] = entries[jd]
    BY <1>1 DEF ClaimReward, RewardVaultEntry
  <1>3. ClaimedIds' = ClaimedIds \cup {id} /\ id \notin ClaimedIds
    BY <1>1, <1>2 DEF ClaimedIds
  <1>4. /\ DOMAIN ClaimedOf' = DOMAIN ClaimedOf \cup {id} /\ id \notin DOMAIN ClaimedOf
        /\ ClaimedOf'[id] = entries[id].amount_lamports
        /\ \A jd \in DOMAIN ClaimedOf \ {id} : ClaimedOf'[jd] = ClaimedOf[jd]
    BY <1>2, <1>3 DEF ClaimedOf, ClaimedIds
  <1>5. SumFunction(ClaimedOf') = SumFunction(ClaimedOf) + entries[id].amount_lamports
    BY <1>1, <1>4, PaidCount, TotalPut DEF PaidInv
  <1>6. SumFunction(ClaimedOf) <= total_rewards_claimed /\ total_rewards_claimed \in Nat
    BY DEF PaidInv, ClaimedWerePaid, LamportsOf, ClaimedOf, ClaimedIds, RewardInv,
       RewardSystemTypeOK, RewardTypeOK
  <1>7. total_rewards_claimed' = total_rewards_claimed + entries[id].amount_lamports
    BY DEF ClaimReward
  <1>8. SumFunction(ClaimedOf') <= total_rewards_claimed'
    BY <1>1, <1>5, <1>6, <1>7, PaidCount DEF PaidInv
  <1> QED
    BY <1>2, <1>8 DEF PaidInv, ClaimedWerePaid, LamportsOf, ClaimedOf, ClaimedIds

\* A receipt's reward is counted by the claim that marks it; making and
\* verifying receipts counts nothing.
LEMMA ReceiptsKeepPaid ==
  ASSUME RewardInv, PaidInv, InferenceStep
  PROVE  RewardsMatchReceipts'
  <1>1. /\ DOMAIN receipts = 1..Len(receipts) /\ Len(receipts) \in Nat
        /\ \A i \in DOMAIN receipts : receipts[i] \in InferenceReceipt
        /\ receipts \in Seq(InferenceReceipt)
        /\ total_rewards_paid \in Nat
    BY DEF RewardInv, RewardSystemTypeOK, InferenceTypeOK
  <1>2. total_rewards_paid = SumFunction(RewardOf)
    BY DEF PaidInv, RewardsMatchReceipts, RewardOf, ReplayIds
  <1>3. ASSUME UNCHANGED <<RewardOf, total_rewards_paid>>
        PROVE  RewardsMatchReceipts'
    BY <1>2, <1>3 DEF RewardsMatchReceipts, RewardOf, ReplayIds
  <1>4. ASSUME NEW worker \in Inferrers, CreateReceipt(worker)
        PROVE  RewardsMatchReceipts'
    <2>1. /\ DOMAIN receipts' = DOMAIN receipts \cup {Len(receipts) + 1}
          /\ receipts'[Len(receipts) + 1].reward_claimed = FALSE
          /\ \A i \in DOMAIN receipts : receipts'[i] = receipts[i]
          /\ UNCHANGED total_rewards_paid
      BY <1>1, <1>4 DEF CreateReceipt
    <2>2. ReplayIds' = ReplayIds
      BY <1>1, <2>1 DEF ReplayIds, IsReplay
    <2>3. RewardOf' = RewardOf
      BY <2>1, <2>2 DEF RewardOf, ReplayIds
    <2> QED
      BY <1>3, <2>1, <2>3
  <1>5. ASSUME NEW i \in DOMAIN receipts, VerifyReceipt(i)
        PROVE  RewardsMatchReceipts'
    <2>1. /\ DOMAIN receipts' = DOMAIN receipts
          /\ \A j \in DOMAIN receipts : /\ receipts'[j].reward_claimed = receipts[j].reward_claimed
                                       /\ receipts'[j].reward_lamports = receipts[j].reward_lamports
          /\ UNCHANGED total_rewards_paid
      BY <1>1, <1>5 DEF VerifyReceipt, InferenceReceipt
    <2>2. ReplayIds' = ReplayIds
      BY <2>1 DEF ReplayIds, IsReplay
    <2>3. RewardOf' = RewardOf
      BY <2>1, <2>2 DEF RewardOf, ReplayIds
    <2> QED
      BY <1>3, <2>1, <2>3
  <1>6. ASSUME NEW i \in DOMAIN receipts, NEW reward \in Rewards, ClaimInferenceReward(i, reward)
        PROVE  RewardsMatchReceipts'
    <2>1. /\ DOMAIN receipts' = DOMAIN receipts
          /\ receipts'[i].reward_claimed /\ receipts'[i].reward_lamports = reward
          /\ \A j \in DOMAIN receipts \ {i} : receipts'[j] = receipts[j]
          /\ ~receipts[i].reward_claimed
          /\ reward \in Nat
      BY <1>1, <1>6 DEF ClaimInferenceReward, Unrewarded, InferenceReceipt
    <2>2. ReplayIds' = ReplayIds \cup {i} /\ i \notin ReplayIds
      BY <2>1 DEF ReplayIds, IsReplay
    <2>3. /\ DOMAIN RewardOf' = DOMAIN RewardOf \cup {i} /\ i \notin DOMAIN RewardOf
          /\ RewardOf'[i] = reward
          /\ \A j \in DOMAIN RewardOf \ {i} : RewardOf'[j] = RewardOf[j]
      BY <2>1, <2>2 DEF RewardOf, ReplayIds
    <2>4. SumFunction(RewardOf') = SumFunction(RewardOf) + reward
      BY <2>1, <2>3, PaidCount, TotalPut DEF PaidInv
    <2>5. total_rewards_paid' = total_rewards_paid + reward
      BY <1>6 DEF ClaimInferenceReward
    <2> QED
      BY <1>2, <2>4, <2>5 DEF RewardsMatchReceipts, RewardOf, ReplayIds
  <1> QED
    BY <1>4, <1>5, <1>6 DEF InferenceStep

LEMMA PaidStepInv ==
  ASSUME RewardInv, PaidInv, [RewardSystemNext]_rewardSystemVars
  PROVE  PaidInv'
  <1>1. ASSUME UNCHANGED <<entries, total_rewards_claimed>>
        PROVE  IsFiniteSet(DOMAIN entries') /\ ClaimedWerePaid'
    BY <1>1 DEF PaidInv, ClaimedWerePaid, LamportsOf
  <1>2. ASSUME UNCHANGED inferenceVars
        PROVE  RewardsMatchReceipts'
    BY <1>2 DEF PaidInv, RewardsMatchReceipts, IsReplay, inferenceVars
  <1>3. CASE RewardStep /\ UNCHANGED <<inferenceVars, now>>
    <2>1. CASE RelockReenters
      BY <1>2, <1>3, <2>1, FilingKeepsPaid DEF PaidInv
    <2>2. CASE \E id \in DOMAIN entries : ClaimReward(id)
      BY <1>2, <1>3, <2>2, ClaimingKeepsPaid DEF PaidInv
    <2>3. CASE UNCHANGED <<entries, total_rewards_claimed>>
      BY <1>1, <1>2, <1>3, <2>3 DEF PaidInv
    <2> QED
      BY <1>3, <2>1, <2>2, <2>3 DEF RewardStep, RewardCallStep, FileReward, CreateRewardEntry,
         RelockBlocks, DepositToPool, poolVars
  <1>4. CASE InferenceStep /\ UNCHANGED <<rewardVars, now>>
    BY <1>1, <1>4, ReceiptsKeepPaid DEF PaidInv, rewardVars, poolVars
  <1>5. CASE UNCHANGED <<rewardVars, inferenceVars>>
    BY <1>1, <1>2, <1>5 DEF PaidInv, rewardVars, poolVars
  <1> QED
    BY <1>3, <1>4, <1>5 DEF RewardSystemNext, rewardSystemVars

LEMMA PaidInitInv == RewardSystemInit => PaidInv
  <1> SUFFICES ASSUME RewardSystemInit PROVE PaidInv
    OBVIOUS
  <1> USE DEF RewardSystemInit, RewardInit, InferenceInit
  <1>1. DOMAIN entries = {} /\ DOMAIN receipts = {}
    BY DEF EmptyTable
  <1>2. DOMAIN ClaimedOf = {} /\ DOMAIN RewardOf = {} /\ IsFiniteSet({})
    BY <1>1, FS_EmptySet DEF ClaimedOf, ClaimedIds, RewardOf, ReplayIds
  <1>3. SumFunction(ClaimedOf) = 0 /\ SumFunction(RewardOf) = 0
    BY <1>2, TotalNat
  <1>4. ClaimedWerePaid
    BY <1>3 DEF ClaimedWerePaid, LamportsOf, ClaimedOf, ClaimedIds
  <1>5. RewardsMatchReceipts
    BY <1>3 DEF RewardsMatchReceipts, RewardOf, ReplayIds
  <1> QED
    BY <1>1, <1>2, <1>4, <1>5 DEF PaidInv

\* Every claimed entry was paid from the pool, also when entries of one worker
\* and one second replace each other.
THEOREM RewardClaimedWerePaid == RewardSystemSpec => []ClaimedWerePaid
  <1>1. PaidInv => ClaimedWerePaid
    BY DEF PaidInv
  <1> QED
    BY <1>1, RewardInitInv, RewardSystemStepInv, PaidInitInv, PaidStepInv, PTL DEF RewardSystemSpec

\* The rewards paid are exactly those in the claimed receipts: none twice.
THEOREM RewardReceiptsMatch == RewardSystemSpec => []RewardsMatchReceipts
  <1>1. PaidInv => RewardsMatchReceipts
    BY DEF PaidInv
  <1> QED
    BY <1>1, RewardInitInv, RewardSystemStepInv, PaidInitInv, PaidStepInv, PTL DEF RewardSystemSpec
=============================================================================
