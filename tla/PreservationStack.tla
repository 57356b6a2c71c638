------------------------- MODULE PreservationStack -------------------------
(***************************************************************************)
(* PreservationStack (src/zero_balance_preservation.cpp): the manager, the *)
(* recovery service and the governance, called by one thread in any order. *)
(* None of them calls another: a completed recovery restores nothing and   *)
(* an approval permits nothing, they share the clock and the names of      *)
(* records.                                                                *)
(***************************************************************************)
EXTENDS WalletPreservation, WalletRecovery

CONSTANT MaxCalls        \* bound on the calls to the three services

ASSUME CallsAssumption == MaxCalls \in Nat /\ MaxCalls < Word

VARIABLE calls           \* history: calls so far

stackVars == <<walletVars, recoveryVars, now, calls>>

StackInit == /\ PreservationInit
             /\ RecoveryInit
             /\ ClockInit
             /\ calls = 0

Call == /\ calls < MaxCalls
        /\ calls' = calls + 1
        /\ \/ ManagerNext /\ UNCHANGED recoveryVars
           \/ RecoveryNext /\ UNCHANGED walletVars
        /\ UNCHANGED now

StackNext ==
    \/ Call
    \/ Tick /\ UNCHANGED <<walletVars, recoveryVars, calls>>

StackSpec == StackInit /\ [][StackNext]_stackVars

StackTypeOK == PreservationTypeOK /\ RecoveryTypeOK /\ {now, calls} \subseteq Nat
=============================================================================
