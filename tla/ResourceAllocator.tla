-------------------------- MODULE ResourceAllocator --------------------------
(***************************************************************************)
(* class ComputeResourceAllocator (src/zk_compute.cpp), with the one node  *)
(* its constructor knows; any other node is refused.  That node has a GPU, *)
(* so the GPU never decides.  A commitment is named by a hash of node and  *)
(* milliseconds, hence by the tick of the clock.                           *)
(***************************************************************************)
EXTENDS Tables, Clock, FiniteSets, Functions

CONSTANTS Resources,      \* cores and memory
          Capacity,       \* what the node has of each
          UnitsPer        \* compute units that call for one of each

ASSUME AllocatorAssumption ==
    /\ Capacity \in [Resources -> Nat]
    /\ UnitsPer \in [Resources -> Nat \ {0}]

VARIABLES available,      \* available_cpu_cores, available_memory_mb
          active_tasks,
          commitments,    \* commitments_
          lost            \* history: what replaced commitments had, and how many

allocatorVars == <<available, active_tasks, commitments, lost>>

Bundle == [Resources -> Nat]

AllocatorTypeOK == /\ available \in Bundle
                   /\ active_tasks \in Nat
                   /\ commitments \in [DOMAIN commitments -> Bundle]
                   /\ DOMAIN commitments \subseteq Nat
                   /\ lost \in [bundle : Bundle, count : Nat]

AllocatorInit == /\ available = Capacity
                 /\ active_tasks = 0
                 /\ commitments = EmptyTable
                 /\ lost = [bundle |-> [r \in Resources |-> 0], count |-> 0]

-----------------------------------------------------------------------------
Need(units) == [r \in Resources |-> units \div UnitsPer[r]]

\* check_availability
CheckAvailable(units) == \A r \in Resources : available[r] >= Need(units)[r]

Less(bundle, other) == [r \in Resources |-> Minus(bundle[r], other[r])]
More(bundle, other) == [r \in Resources |-> bundle[r] + other[r]]

CommitmentId == now

\* allocate_resources: a commitment of the same millisecond is replaced, and
\* what it had is never given back.
AllocateResources(units) ==
    /\ CheckAvailable(units)
    /\ commitments' = Put(commitments, CommitmentId, Need(units))
    /\ available' = Less(available, Need(units))
    /\ active_tasks' = active_tasks + 1
    /\ lost' = IF CommitmentId \in DOMAIN commitments
               THEN [bundle |-> More(lost.bundle, commitments[CommitmentId]),
                     count |-> lost.count + 1]
               ELSE lost

\* Mutated form: the commitment is not erased.
ReleaseResources_Kept(id) ==
    /\ available' = IF id \in DOMAIN commitments THEN More(available, commitments[id]) ELSE available
    /\ active_tasks' = IF id \in DOMAIN commitments THEN Minus(active_tasks, 1) ELSE active_tasks
    /\ UNCHANGED <<commitments, lost>>

\* release_resources: an unknown commitment changes nothing.
ReleaseResources(id) ==
    IF id \in DOMAIN commitments
    THEN /\ available' = More(available, commitments[id])
         /\ active_tasks' = Minus(active_tasks, 1)
         /\ commitments' = [c \in DOMAIN commitments \ {id} |-> commitments[c]]
         /\ UNCHANGED lost
    ELSE UNCHANGED allocatorVars

-----------------------------------------------------------------------------
\* Nothing is handed out twice and nothing given back twice: what is free, what
\* is committed and what replaced commitments left behind is the whole node, and
\* active_tasks counts them, also when two clients hold one commitment id.
CapacityAccounted ==
    /\ \A r \in Resources :
           available[r] + SumFunction([id \in DOMAIN commitments |-> commitments[id][r]])
               + lost.bundle[r] = Capacity[r]
    /\ active_tasks = Cardinality(DOMAIN commitments) + lost.count
=============================================================================
