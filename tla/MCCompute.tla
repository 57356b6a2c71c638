------------------------------ MODULE MCCompute ------------------------------
(***************************************************************************)
(* Verified compute and the futures on compute.  The two share no state:   *)
(* a behaviour is about one of them.                                       *)
(*                                                                         *)
(* Verified compute: two clients on a node with one core; a task of one    *)
(* unit takes no core but memory, a task of two units takes both.          *)
(* Futures: two traders and two feeders; a leveraged long that a fall of   *)
(* the price liquidates, a short that a rise liquidates, and a forward.    *)
(***************************************************************************)
EXTENDS ZKComputeStack, ComputeFutures, TLC

CONSTANTS llm, wal, dave, eve, feed_a, feed_b

MCTaskIds  == 1..2
MCTypes    == {llm}
MCReward   == [t \in MCTypes |-> 1]
MCBonuses  == {1, 2}
MCWallets  == {wal}
MCUnits    == {1, 2}
MCKinds    == {"cores", "memory"}
MCCapacity == [r \in MCKinds |-> IF r = "cores" THEN 1 ELSE 3]
MCUnitsPer == [r \in MCKinds |-> IF r = "cores" THEN 2 ELSE 1]

MCTraders == {dave, eve}
MCFeeders == {feed_a, feed_b}
MCSymmetry == Permutations(MCTraders) \cup Permutations(MCFeeders)
MCPrices  == {1, 2}
MCInitialPrice == [cpu |-> 1, ram |-> 2]
MCOrders  == {[type |-> "long", cpu_cores |-> 1, ram_gb |-> 1, leverage |-> 2, collateral |-> 12],
              [type |-> "forward", cpu_cores |-> 1, ram_gb |-> 0, leverage |-> 1, collateral |-> 3],
              [type |-> "short", cpu_cores |-> 0, ram_gb |-> 1, leverage |-> 3, collateral |-> 14]}

VARIABLE subject     \* what a behaviour is about

MCComputeInit == /\ ZKStackInit
                 /\ MarketInit
                 /\ subject \in {"tasks", "futures"}

MCComputeNext ==
    \/ /\ subject = "tasks"
       /\ ZKStackNext
       /\ UNCHANGED <<futuresVars, subject>>
    \/ /\ subject = "futures"
       /\ FuturesNext
       /\ UNCHANGED <<zkStackVars, subject>>

MCComputeSpec == MCComputeInit /\ [][MCComputeNext]_<<zkStackVars, futuresVars, subject>>
=============================================================================
