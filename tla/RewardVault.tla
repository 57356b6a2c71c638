----------------------------- MODULE RewardVault -----------------------------
(***************************************************************************)
(* class RewardVault (include/reward_vault.hpp): entries for the workers'  *)
(* rewards, claimed from a funded pool.                                    *)
(*                                                                         *)
(* create_reward_entry holds mutex_ when it calls get_worker_daily_claimed,*)
(* which locks mutex_ again.  Locking a std::mutex twice is undefined: the *)
(* caller may wait for itself for ever (libc++, libstdc++ with pthreads)   *)
(* or go on (a std::mutex that counts its owner's locks).  Both outcomes   *)
(* are steps of this module.  All other operations are one critical        *)
(* section, hence one action; calls that return early change nothing.      *)
(***************************************************************************)
EXTENDS Tables, Clock, Functions

CONSTANTS Workers,
          ReceiptIds,                \* what a caller may pass as receipt_id
          Amounts,                   \* amounts asked for
          MaxRewardPerReceipt,       \* MAX_REWARD_PER_RECEIPT
          MaxRewardPerWorkerPerDay,  \* MAX_REWARD_PER_WORKER_PER_DAY
          MaxPoolBalance,            \* MAX_POOL_BALANCE
          Day,                       \* 86400 seconds, in ticks
          InitialPool,               \* initial_pool_balance
          PoolDeposits,              \* amounts of deposit_to_pool
          NoCall,                    \* no create_reward_entry is under way
          MaxFiled                   \* bound on the lamports filed and deposited

ASSUME RewardAssumption ==
    /\ Amounts \subseteq Nat
    /\ PoolDeposits \subseteq Nat
    /\ {MaxRewardPerReceipt, MaxRewardPerWorkerPerDay, MaxPoolBalance} \subseteq Nat
    /\ {Day, InitialPool, MaxFiled} \subseteq Nat
    /\ NoCall \notin [worker : Workers, receipt_id : ReceiptIds, amount : Amounts]

VARIABLES entries,       \* entries_, by <<worker, time of the call>>
          pool_balance, total_rewards_available, total_rewards_claimed,
          creating,      \* the call of create_reward_entry that holds mutex_
          self_blocked,  \* that call waits for the mutex it holds
          filed          \* history: lamports of all entries ever filed

poolVars   == <<pool_balance, total_rewards_available, total_rewards_claimed>>
callVars   == <<creating, self_blocked>>
rewardVars == <<entries, poolVars, callVars, filed>>

Call == [worker : Workers, receipt_id : ReceiptIds, amount : Amounts]

RewardVaultEntry == [receipt_id : ReceiptIds, amount_lamports : Amounts,
                     claimed : BOOLEAN, claimed_at : Nat]

RewardTypeOK == /\ entries \in [DOMAIN entries -> RewardVaultEntry]
                /\ DOMAIN entries \subseteq Workers \X Nat
                /\ pool_balance \in Nat
                /\ total_rewards_available \in Nat
                /\ total_rewards_claimed \in Nat
                /\ creating \in Call \cup {NoCall}
                /\ self_blocked \in BOOLEAN
                /\ filed \in Nat

RewardInit == /\ entries = EmptyTable
              /\ pool_balance = InitialPool
              /\ total_rewards_available = InitialPool
              /\ total_rewards_claimed = 0
              /\ creating = NoCall
              /\ self_blocked = FALSE
              /\ filed = 0

MutexFree == creating = NoCall

-----------------------------------------------------------------------------

\* deposit_to_pool returning true.
DepositToPool(amount) ==
    /\ MutexFree
    /\ total_rewards_available + amount <= MaxFiled
    /\ pool_balance + amount <= MaxPoolBalance
    /\ pool_balance' = pool_balance + amount
    /\ total_rewards_available' = total_rewards_available + amount
    /\ UNCHANGED <<entries, total_rewards_claimed, callVars, filed>>

\* create_reward_entry up to the second lock.
CreateRewardEntry(worker, receipt_id, amount) ==
    /\ MutexFree
    /\ pool_balance # 0
    /\ amount <= MaxRewardPerReceipt
    /\ creating' = [worker |-> worker, receipt_id |-> receipt_id, amount |-> amount]
    /\ UNCHANGED <<entries, poolVars, self_blocked, filed>>

\* get_worker_daily_claimed waits for the caller's own lock.
RelockBlocks ==
    /\ creating # NoCall
    /\ ~self_blocked
    /\ self_blocked' = TRUE
    /\ UNCHANGED <<entries, poolVars, creating, filed>>

\* get_worker_daily_claimed: only claimed entries of the last day count.
ClaimedToday(worker) ==
    {id \in DOMAIN entries : /\ id[1] = worker
                             /\ entries[id].claimed
                             /\ entries[id].claimed_at >= now - Day}

LamportsOf(ids) == SumFunction([id \in ids |-> entries[id].amount_lamports])

\* The caps and the pool, checked once the second lock was granted.
Granted(call) ==
    /\ LamportsOf(ClaimedToday(call.worker)) + call.amount <= MaxRewardPerWorkerPerDay
    /\ call.amount <= pool_balance

\* Mutated form: an entry replaced by another keeps its claimed flag.
FileEntry_KeepsFlag(call) ==
    LET id == <<call.worker, now>>
    IN  /\ filed + call.amount <= MaxFiled
        /\ entries' = Put(entries, id,
                          [receipt_id |-> call.receipt_id, amount_lamports |-> call.amount,
                           claimed |-> id \in DOMAIN entries /\ entries[id].claimed,
                           claimed_at |-> now])
        /\ filed' = filed + call.amount

\* The entry filed for a call; one of the same worker and time is lost, be it
\* claimed or not.
FileEntry(call) ==
    /\ filed + call.amount <= MaxFiled
    /\ entries' = Put(entries, <<call.worker, now>>,
                      [receipt_id |-> call.receipt_id, amount_lamports |-> call.amount,
                       claimed |-> FALSE, claimed_at |-> 0])
    /\ filed' = filed + call.amount

\* The second lock is granted: the rest of create_reward_entry.
RelockReenters ==
    /\ creating # NoCall
    /\ ~self_blocked
    /\ \/ Granted(creating) /\ FileEntry(creating)
       \/ ~Granted(creating) /\ UNCHANGED <<entries, filed>>
    /\ creating' = NoCall
    /\ UNCHANGED <<poolVars, self_blocked>>

Claimable(id) == /\ ~entries[id].claimed
                 /\ pool_balance # 0
                 /\ entries[id].amount_lamports <= pool_balance

\* Mutated form: the pool balance is not tested, and wraps.
ClaimReward_Unfunded(id) ==
    /\ MutexFree
    /\ ~entries[id].claimed
    /\ pool_balance' = Minus(pool_balance, entries[id].amount_lamports)
    /\ total_rewards_claimed' = total_rewards_claimed + entries[id].amount_lamports
    /\ entries' = [entries EXCEPT ![id].claimed = TRUE, ![id].claimed_at = now]
    /\ UNCHANGED <<total_rewards_available, callVars, filed>>

\* claim_reward returning true.
ClaimReward(id) ==
    /\ MutexFree
    /\ Claimable(id)
    /\ pool_balance' = Minus(pool_balance, entries[id].amount_lamports)
    /\ total_rewards_claimed' = total_rewards_claimed + entries[id].amount_lamports
    /\ entries' = [entries EXCEPT ![id].claimed = TRUE, ![id].claimed_at = now]
    /\ UNCHANGED <<total_rewards_available, callVars, filed>>

RewardCallStep == RelockBlocks \/ RelockReenters

-----------------------------------------------------------------------------
\* What was put in the pool is in the pool or was claimed; remaining_rewards is
\* the pool, also after a claim, which subtracts unsigned numbers.
PoolConserved == total_rewards_available = pool_balance + total_rewards_claimed

\* Every claimed entry in the table was paid: the daily total shown to a worker
\* is never more than what left the pool.
ClaimedWerePaid ==
    LamportsOf({id \in DOMAIN entries : entries[id].claimed}) <= total_rewards_claimed

\* The cap on the pool holds unless the vault was constructed above it.
PoolWithinCap == pool_balance <= MaxPoolBalance \/ pool_balance <= InitialPool
=============================================================================
