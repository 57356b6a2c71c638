------------------------------- MODULE MCPools -------------------------------
(***************************************************************************)
(* Two pools that pay back what others spent: RewardVault with its         *)
(* receipts, and GasReimbursementPool with its manager.  They share        *)
(* nothing but the clock, so an interleaving of the two shows nothing: a   *)
(* behaviour is about one of them.                                         *)
(***************************************************************************)
EXTENDS InferenceRewards, ReimbursementStack

CONSTANT MaxReimbursementTime     \* bound: the clock in a behaviour about reimbursements

VARIABLE subject     \* the pool a behaviour is about

MCPoolsInit == /\ RewardInit /\ InferenceInit /\ ReimbursementInit /\ PoolInit /\ ClockInit
               /\ held = EmptyTable
               /\ subject \in {"rewards", "reimbursements"}

MCPoolsNext ==
    \/ /\ subject = "rewards"
       /\ RewardSystemNext
       /\ UNCHANGED <<reimbursementVars, gasPoolVars, held, subject>>
    \/ /\ subject = "reimbursements"
       /\ StackNext
       /\ now' <= MaxReimbursementTime
       /\ UNCHANGED <<rewardVars, inferenceVars, subject>>

MCPoolsSpec == MCPoolsInit /\ [][MCPoolsNext]_<<rewardSystemVars, stackVars, subject>>
=============================================================================
