--------------------------- MODULE MempoolGovernor ---------------------------
(***************************************************************************)
(* LLMMempoolGovernor and OvermanifoldPolicy                               *)
(* (src/llm_mempool_governor.cpp): the governor recommends a next action   *)
(* from a snapshot of the mempool, simulates it, and the policy decides    *)
(* whether it is executed, while thresholds and rules are set anew.        *)
(*                                                                         *)
(* The doubles between 0 and 1 are whole percents here.  A transaction is  *)
(* its value and whether its gas price is high; the pools of a snapshot    *)
(* are their total depth.  The order and multiplicity of the policy's      *)
(* rules change nothing and are left out.                                  *)
(***************************************************************************)
EXTENDS Integers, Sequences, FiniteSetsExt, Functions

CONSTANTS Clients,            \* callers of the governor
          Transactions,       \* [value, gas_price_high]
          Depths,             \* total liquidity depths of a snapshot
          LargeValue,         \* 1000000, above which a value is large
          MaxPending,         \* bound on the pending transactions of a snapshot
          Thresholds,         \* what set_risk_threshold may be given
          Rules,              \* [rule_id, max_risk] that may be added
          NoRecommendation

ASSUME GovernorAssumption ==
    /\ Transactions \subseteq [value : Nat, gas_price_high : BOOLEAN]
    /\ Depths \subseteq Nat
    /\ {LargeValue, MaxPending} \subseteq Nat
    /\ Thresholds \subseteq 0..100
    /\ Rules \subseteq [rule_id : STRING, max_risk : 0..100]

VARIABLES risk_threshold,     \* risk_threshold_ of the governor
          policy_rules,       \* policy_rules_ of the policy
          recommendation,     \* what a client was told last
          simulated           \* and whether its simulation succeeded

governorVars == <<risk_threshold, policy_rules, recommendation, simulated>>

\* The constructors.
SafetyRule == [rule_id |-> "safety_check", max_risk |-> 50]

GovernorInit ==
    /\ risk_threshold = 70
    /\ policy_rules = {SafetyRule}
    /\ recommendation = [c \in Clients |-> NoRecommendation]
    /\ simulated = [c \in Clients |-> FALSE]

-----------------------------------------------------------------------------
\* detect_arbitrage, detect_mev_risk
ArbitrageOpportunity(tx) == IF tx.value > LargeValue THEN 30 ELSE 10
MevRisk(tx) == IF tx.gas_price_high THEN 50 ELSE 10

\* Mutated form: the share is not capped.
PriceImpact_Uncapped(tx, depth) == IF depth > 0 THEN (100 * tx.value) \div depth ELSE 0

\* estimate_price_impact: the value's share of the pools, at most all of them.
PriceImpact(tx, depth) == IF depth > 0 THEN Min({(100 * tx.value) \div depth, 100}) ELSE 0

\* review_transaction: risk_score.
RiskScore(tx, depth) == (MevRisk(tx) * 4 + PriceImpact(tx, depth) * 3) \div 10

TotalArbitrage(pending) == SumFunction([i \in DOMAIN pending |-> ArbitrageOpportunity(pending[i])])
TotalRisk(pending, depth) == SumFunction([i \in DOMAIN pending |-> RiskScore(pending[i], depth)])

\* Mutated form: an action to block needs no approval.
NextAction_Unapproved(pending, total_risk) ==
    IF pending = << >> THEN [action |-> "UPDATE_ORACLE", requires_human_approval |-> FALSE]
    ELSE IF total_risk > risk_threshold * Len(pending)
         THEN [action |-> "BLOCK_UNSAFE_ACTION", requires_human_approval |-> FALSE]
         ELSE IF TotalArbitrage(pending) > 50
              THEN [action |-> "REROUTE_LIQUIDITY", requires_human_approval |-> FALSE]
              ELSE [action |-> "DO_NOTHING", requires_human_approval |-> FALSE]

\* compute_next_action: the choice.  The risk is compared as an average, the
\* arbitrage as a sum.
NextAction(pending, total_risk) ==
    IF pending = << >> THEN [action |-> "UPDATE_ORACLE", requires_human_approval |-> FALSE]
    ELSE IF total_risk > risk_threshold * Len(pending)
         THEN [action |-> "BLOCK_UNSAFE_ACTION", requires_human_approval |-> TRUE]
         ELSE IF TotalArbitrage(pending) > 50
              THEN [action |-> "REROUTE_LIQUIDITY", requires_human_approval |-> FALSE]
              ELSE [action |-> "DO_NOTHING", requires_human_approval |-> FALSE]

\* compute_next_action: the recommendation, with the threshold it was made
\* under as history.
Recommend(pending, depth) ==
    LET total_risk == TotalRisk(pending, depth)
        n          == Len(pending)
        next       == NextAction(pending, total_risk)
    IN  [action |-> next.action,
         requires_human_approval |-> next.requires_human_approval,
         confidence |-> IF n = 0 THEN 100 ELSE (100 * n - total_risk) \div n,
         risk_score |-> IF n = 0 THEN 0 ELSE total_risk \div n,
         threshold |-> risk_threshold]

\* simulate_action
SimulationSucceeds(action) ==
    action \in {"REROUTE_LIQUIDITY", "HEDGE_EXPOSURE", "BLOCK_UNSAFE_ACTION", "DO_NOTHING"}

\* is_action_safe, is_within_risk_limits, has_required_approvals
IsActionSafe(r) == r.action \in {"BLOCK_UNSAFE_ACTION", "DO_NOTHING"} \/ r.confidence > 50
IsWithinRiskLimits(r) == \A rule \in policy_rules : r.risk_score <= rule.max_risk
HasRequiredApprovals(r) == ~r.requires_human_approval

-----------------------------------------------------------------------------
SetRiskThreshold(threshold) ==
    /\ risk_threshold' = threshold
    /\ UNCHANGED <<policy_rules, recommendation, simulated>>

AddPolicyRule(rule) ==
    /\ policy_rules' = policy_rules \cup {rule}
    /\ UNCHANGED <<risk_threshold, recommendation, simulated>>

RemovePolicyRule(id) ==
    /\ policy_rules' = {rule \in policy_rules : rule.rule_id # id}
    /\ UNCHANGED <<risk_threshold, recommendation, simulated>>

ComputeNextAction(c, pending, depth) ==
    /\ recommendation' = [recommendation EXCEPT ![c] = Recommend(pending, depth)]
    /\ simulated' = [simulated EXCEPT ![c] = FALSE]
    /\ UNCHANGED <<risk_threshold, policy_rules>>

SimulateAction(c) ==
    /\ recommendation[c] # NoRecommendation
    /\ simulated' = [simulated EXCEPT ![c] = SimulationSucceeds(recommendation[c].action)]
    /\ UNCHANGED <<risk_threshold, policy_rules, recommendation>>

\* execute_action returns true; when it returns false, nothing changes.
ExecuteAction(c) ==
    LET r == recommendation[c]
    IN  /\ r # NoRecommendation
        /\ IsActionSafe(r)
        /\ IsWithinRiskLimits(r)
        /\ HasRequiredApprovals(r)
        /\ simulated[c]
        /\ recommendation' = [recommendation EXCEPT ![c] = NoRecommendation]
        /\ simulated' = [simulated EXCEPT ![c] = FALSE]
        /\ UNCHANGED <<risk_threshold, policy_rules>>

Snapshots == UNION {[1..n -> Transactions] : n \in 0..MaxPending}

GovernorNext ==
    \/ \E threshold \in Thresholds : SetRiskThreshold(threshold)
    \/ \E rule \in Rules : AddPolicyRule(rule)
    \/ \E rule \in policy_rules : RemovePolicyRule(rule.rule_id)
    \/ \E c \in Clients, pending \in Snapshots, depth \in Depths :
          ComputeNextAction(c, pending, depth)
    \/ \E c \in Clients : SimulateAction(c) \/ ExecuteAction(c)

GovernorSpec == GovernorInit /\ [][GovernorNext]_governorVars

-----------------------------------------------------------------------------
\* Thresholds and rules change between the computation of an action and its
\* execution.  What was too risky when it was computed is never executed,
\* whatever the governor and the policy say by then, nor is anything but a
\* rerouting or doing nothing.
ExecutedWasAcceptable ==
    [][\A c \in Clients : ExecuteAction(c) =>
           /\ recommendation[c].action \in {"REROUTE_LIQUIDITY", "DO_NOTHING"}
           /\ recommendation[c].risk_score <= recommendation[c].threshold]_governorVars

\* Confidence and risk are complementary percents that fit their bytes, and a
\* risk is never above 50: the weights of a transaction's risk leave the
\* default threshold of 70 out of reach, so that an action is blocked only
\* under a threshold set below 50.
RisksStayBelowHalf ==
    \A c \in Clients : recommendation[c] # NoRecommendation =>
        LET r == recommendation[c]
        IN  /\ r.risk_score \in 0..50
            /\ r.confidence \in {100 - r.risk_score, 99 - r.risk_score}
            /\ r.action = "BLOCK_UNSAFE_ACTION" => r.threshold < 50
=============================================================================
