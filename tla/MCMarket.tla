------------------------------ MODULE MCMarket ------------------------------
(***************************************************************************)
(* The volatility oracle with the proof book, and the governor of the      *)
(* mempool.  They share no state: a behaviour is about one of them.        *)
(*                                                                         *)
(* Two monitors and a settler; a ring of two slots that wraps around at    *)
(* the third price.  One client of the governor: clients share only the    *)
(* thresholds and rules, which change at any time.  Pools of no depth,     *)
(* smaller than a transaction and larger.                                  *)
(***************************************************************************)
EXTENDS VolatilityLog, MempoolGovernor, TLC

CONSTANTS m1, m2, s1, c1

MCMonitors == {m1, m2}
MCSymmetry == Permutations(MCMonitors)
MCSettlers == {s1}
MCSettlerTypes == {"GOVERNANCE"}
MCGasReadings == {FALSE}
MCPoints == {[price |-> 100, volume |-> 0], [price |-> 102, volume |-> 3]}

MCClients == {c1}
MCTransactions == [value : {1, 4}, gas_price_high : BOOLEAN]
MCDepths == {0, 3, 8}
MCThresholds == {0, 30, 49, 70}
MCRules == {SafetyRule, [rule_id |-> "strict", max_risk |-> 20]}

VARIABLE subject     \* what a behaviour is about

MCMarketInit == /\ VolatilityLogInit
                /\ GovernorInit
                /\ subject \in {"volatility", "mempool"}

MCMarketNext ==
    \/ /\ subject = "volatility"
       /\ VolatilityLogNext
       /\ UNCHANGED <<governorVars, subject>>
    \/ /\ subject = "mempool"
       /\ GovernorNext
       /\ UNCHANGED <<volatilityLogVars, subject>>

MCMarketSpec == MCMarketInit /\ [][MCMarketNext]_<<volatilityLogVars, governorVars, subject>>
=============================================================================
