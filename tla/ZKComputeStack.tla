--------------------------- MODULE ZKComputeStack ---------------------------
(***************************************************************************)
(* ZKComputeStack, used the way test_zk_compute_stack uses it: a client    *)
(* allocates resources, submits its task, has it verified, distributes the *)
(* reward and releases the resources.  Allocation may be refused, and the  *)
(* client goes on: the refused commitment is named "unavailable".  Each    *)
(* client has a task identifier of its own, as in the tests.               *)
(***************************************************************************)
EXTENDS ZKCompute, ResourceAllocator

CONSTANTS Units,          \* required_compute_units of a task
          Unavailable     \* the commitment_id "unavailable"

ASSUME ZKStackAssumption == Units \subseteq Nat /\ Unavailable \notin Nat

VARIABLES stage,          \* where each client is, by task
          commitment      \* the commitment_id it was given

clientVars  == <<stage, commitment>>
zkStackVars == <<managerVars, distributorVars, allocatorVars, clientVars, now>>

Stages == {"idle", "allocated", "submitted", "rewarded"}

ZKStackTypeOK == /\ ZKTypeOK
                 /\ AllocatorTypeOK
                 /\ now \in Nat
                 /\ stage \in [TaskIds -> Stages]
                 /\ commitment \in [TaskIds -> Nat \cup {Unavailable}]

ZKStackInit == /\ ZKInit
               /\ AllocatorInit
               /\ ClockInit
               /\ stage = [id \in TaskIds |-> "idle"]
               /\ commitment = [id \in TaskIds |-> Unavailable]

-----------------------------------------------------------------------------
MoveTo(id, place) == stage' = [stage EXCEPT ![id] = place]

\* allocate_resources, granted or refused.
ClientAllocates(id, units) ==
    /\ stage[id] = "idle"
    /\ MoveTo(id, "allocated")
    /\ \/ /\ AllocateResources(units)
          /\ commitment' = [commitment EXCEPT ![id] = CommitmentId]
       \/ /\ ~CheckAvailable(units)
          /\ commitment' = [commitment EXCEPT ![id] = Unavailable]
          /\ UNCHANGED allocatorVars
    /\ UNCHANGED <<managerVars, distributorVars>>

ClientSubmits(id, type, genuine) ==
    /\ stage[id] = "allocated"
    /\ MoveTo(id, "submitted")
    /\ SubmitTask(id, type, genuine)
    /\ UNCHANGED <<distributorVars, allocatorVars, commitment>>

ClientVerifies(id, bonus) ==
    /\ stage[id] = "submitted"
    /\ VerifyTaskCompletion(id, bonus)
    /\ UNCHANGED <<distributorVars, allocatorVars, clientVars>>

\* Mutated form: the client does not move on and distributes once more.
ClientDistributes_Again(id, wallet) ==
    /\ stage[id] = "submitted"
    /\ DistributeReward(id, wallet)
    /\ total_rewards_distributed < MaxVerified * MaxVerified
    /\ UNCHANGED <<managerVars, allocatorVars, clientVars>>

ClientDistributes(id, wallet) ==
    /\ stage[id] = "submitted"
    /\ MoveTo(id, "rewarded")
    /\ DistributeReward(id, wallet)
    /\ UNCHANGED <<managerVars, allocatorVars, commitment>>

\* The client releases its resources: rewarded, or because it gave up, or
\* because its proof does not verify.
ClientReleases(id) ==
    /\ stage[id] # "idle"
    /\ MoveTo(id, "idle")
    /\ ReleaseResources(commitment[id])
    /\ UNCHANGED <<managerVars, distributorVars, commitment>>

ZKStackNext ==
    \/ /\ \/ \E id \in TaskIds, units \in Units : ClientAllocates(id, units)
          \/ \E id \in TaskIds, type \in ComputeTypes, genuine \in BOOLEAN :
                 ClientSubmits(id, type, genuine)
          \/ \E id \in DOMAIN proofs, bonus \in SpeedBonuses : ClientVerifies(id, bonus)
          \/ \E id \in DOMAIN proofs, wallet \in RewardWallets : ClientDistributes(id, wallet)
          \/ \E id \in TaskIds : ClientReleases(id)
          \/ GenerateMerkleRoot /\ UNCHANGED <<distributorVars, allocatorVars, clientVars>>
       /\ UNCHANGED now
    \/ Tick /\ UNCHANGED <<managerVars, distributorVars, allocatorVars, clientVars>>

ZKStackSpec == ZKStackInit /\ [][ZKStackNext]_zkStackVars

-----------------------------------------------------------------------------
\* Clients that keep to their own tasks never get more than was counted as paid:
\* verifying again replaces a reward, submitting again withdraws it.
DistributedWithinPaid ==
    /\ total_rewards_distributed <= total_rewards_paid
    /\ total_rewards_distributed = SumFunction(reward_balances)
=============================================================================
