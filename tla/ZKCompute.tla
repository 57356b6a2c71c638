------------------------------ MODULE ZKCompute ------------------------------
(***************************************************************************)
(* ZKComputeManager with its ZKProver, and RewardDistributor               *)
(* (src/zk_compute.cpp).  Neither has a lock: one thread, one action per   *)
(* call.  A proof is genuine unless its hash starts with a zero byte,      *)
(* which the prover takes for an empty one; which task has such a hash is  *)
(* as good as arbitrary.  The time a verification takes, and with it the   *)
(* bonus, is drawn at random.  Left out: hashes, gas figures, averages.    *)
(***************************************************************************)
EXTENDS Tables, FiniteSetsExt, Functions, Merkle

CONSTANTS TaskIds,
          ComputeTypes,
          BaseReward,        \* reward of each type, before the bonus
          SpeedBonuses,      \* 1000 / verification_time_ms
          DefaultReward,     \* DEFAULT_REWARD_AMOUNT
          RewardWallets,
          MaxSubmitted, MaxVerified, MaxLeaves    \* bounds

ASSUME ZKAssumption ==
    /\ TaskIds \subseteq Nat
    /\ BaseReward \in [ComputeTypes -> Nat]
    /\ SpeedBonuses \subseteq Nat \ {0}
    /\ DefaultReward \in Nat
    /\ IsFiniteSet(RewardWallets)
    /\ {MaxSubmitted, MaxVerified, MaxLeaves} \subseteq Nat

VARIABLES proofs,                     \* proofs_
          total_tasks_submitted, total_tasks_verified, total_rewards_paid,
          leaves,                     \* merkle_builder_
          reward_balances, total_rewards_distributed

managerVars     == <<proofs, total_tasks_submitted, total_tasks_verified, total_rewards_paid, leaves>>
distributorVars == <<reward_balances, total_rewards_distributed>>

ZKComputeProof == [compute_type : ComputeTypes, genuine : BOOLEAN,
                   verification_status : {"pending", "verified"}, reward_amount : Nat]

ZKTypeOK == /\ proofs \in [DOMAIN proofs -> ZKComputeProof]
            /\ DOMAIN proofs \subseteq TaskIds
            /\ {total_tasks_submitted, total_tasks_verified, total_rewards_paid,
                total_rewards_distributed} \subseteq Nat
            /\ leaves \in Seq([task : TaskIds, compute_type : ComputeTypes])
            /\ reward_balances \in [RewardWallets -> Nat]

ZKInit == /\ proofs = EmptyTable
          /\ total_tasks_submitted = 0
          /\ total_tasks_verified = 0
          /\ total_rewards_paid = 0
          /\ leaves = << >>
          /\ reward_balances = [w \in RewardWallets |-> 0]
          /\ total_rewards_distributed = 0

-----------------------------------------------------------------------------
\* generate_proof.
NewProof(type, genuine) ==
    [compute_type |-> type, genuine |-> genuine, verification_status |-> "pending",
     reward_amount |-> DefaultReward]

\* submit_task: replaces a proof of the same task, verified or not.
SubmitTask(id, type, genuine) ==
    /\ total_tasks_submitted < MaxSubmitted
    /\ proofs' = Put(proofs, id, NewProof(type, genuine))
    /\ total_tasks_submitted' = total_tasks_submitted + 1
    /\ UNCHANGED <<total_tasks_verified, total_rewards_paid, leaves>>

\* calculate_reward, as verify_task_completion calls it: with a task of its own
\* whose 1000 units make the multiplier 1.
CalculateReward(type, bonus) == BaseReward[type] * bonus

\* Mutated form: the reward is counted the first time a task is verified.
VerifyTaskCompletion_CountOnce(id, bonus) ==
    LET reward == CalculateReward(proofs[id].compute_type, bonus)
    IN  /\ id \in DOMAIN proofs
        /\ proofs[id].genuine
        /\ total_tasks_verified < MaxVerified
        /\ proofs' = [proofs EXCEPT ![id].verification_status = "verified",
                                    ![id].reward_amount = reward]
        /\ total_tasks_verified' = total_tasks_verified + 1
        /\ total_rewards_paid' =
               IF proofs[id].verification_status = "verified" THEN total_rewards_paid
                                                              ELSE total_rewards_paid + reward
        /\ UNCHANGED <<total_tasks_submitted, leaves>>

\* verify_task_completion with success: may be repeated, each time with another
\* reward that is counted as paid.
VerifyTaskCompletion(id, bonus) ==
    LET reward == CalculateReward(proofs[id].compute_type, bonus)
    IN  /\ id \in DOMAIN proofs
        /\ proofs[id].genuine
        /\ total_tasks_verified < MaxVerified
        /\ proofs' = [proofs EXCEPT ![id].verification_status = "verified",
                                    ![id].reward_amount = reward]
        /\ total_tasks_verified' = total_tasks_verified + 1
        /\ total_rewards_paid' = total_rewards_paid + reward
        /\ UNCHANGED <<total_tasks_submitted, leaves>>

\* get_verified_proofs, in the order of the std::map.
VerifiedIds == {id \in DOMAIN proofs : proofs[id].verification_status = "verified"}

VerifiedLeaves ==
    LET nth(k) == CHOOSE id \in VerifiedIds :
                      Cardinality({before \in VerifiedIds : before < id}) = k - 1
    IN  [k \in 1..Cardinality(VerifiedIds) |->
            [task |-> nth(k), compute_type |-> proofs[nth(k)].compute_type]]

\* generate_merkle_root: adds the leaves of all verified proofs, those of the
\* calls before included, to a builder that is never emptied.
GenerateMerkleRoot ==
    /\ VerifiedIds # {}
    /\ Len(leaves) + Cardinality(VerifiedIds) <= MaxLeaves
    /\ leaves' = leaves \o VerifiedLeaves
    /\ UNCHANGED <<proofs, total_tasks_submitted, total_tasks_verified, total_rewards_paid>>

Payable(id) == id \in VerifiedIds

\* distribute_reward of the proof get_task_status returned.
DistributeReward(id, wallet) ==
    /\ Payable(id)
    /\ reward_balances' = [reward_balances EXCEPT ![wallet] = @ + proofs[id].reward_amount]
    /\ total_rewards_distributed' = total_rewards_distributed + proofs[id].reward_amount

-----------------------------------------------------------------------------
\* The rewards shown by the verified proofs were all counted as paid, though
\* tasks are submitted and verified again.
VerifiedWerePaid ==
    /\ SumFunction([id \in VerifiedIds |-> proofs[id].reward_amount]) <= total_rewards_paid
    /\ Cardinality(VerifiedIds) <= total_tasks_verified

\* tests/test_merkle_provenance.cpp verifies a proof in a tree of four leaves:
\* where no node is promoted, a leaf's proof verifies against the root, also
\* with leaves that repeat, and it does so of no other leaf.
FullTreeProofsVerify ==
    leaves # << >> /\ NothingPromoted(leaves) =>
        LET root == Root(leaves)
        IN  \A i \in 0..(Len(leaves) - 1) :
                LET siblings == Siblings(leaves, i)
                IN  \A leaf \in Range(leaves) :
                        VerifyProof(leaf, i, siblings, root) <=> leaf = leaves[i + 1]
=============================================================================
