-------------------------------- MODULE Clock --------------------------------
(***************************************************************************)
(* std::chrono::system_clock as the components read it.  One tick is the   *)
(* resolution of the timestamps the code builds identifiers from, so two   *)
(* calls may well read the same value.  The clock never goes back: a       *)
(* clock stepped by hand is outside this model.                            *)
(***************************************************************************)
EXTENDS Integers

CONSTANT MaxTime        \* bound: the model stops the clock here

ASSUME MaxTimeAssumption == MaxTime \in Nat

VARIABLE now

ClockInit == now = 0

Tick == /\ now < MaxTime
        /\ now' = now + 1
=============================================================================
