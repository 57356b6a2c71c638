------------------------- MODULE ReimbursementStack -------------------------
(***************************************************************************)
(* GasReimbursementStack, used the way its tests use it: a request is      *)
(* submitted, processed and approved, its amount is reserved in a pool and *)
(* released when it was paid out.  Manager and pools do not know of each   *)
(* other: the caller carries the amount from one to the other.             *)
(***************************************************************************)
EXTENDS GasReimbursement, GasPool

VARIABLE held    \* reservations a caller has made and not released: by request

stackVars == <<reimbursementVars, gasPoolVars, held, now>>

StackInit == /\ ReimbursementInit
             /\ PoolInit
             /\ ClockInit
             /\ held = EmptyTable

-----------------------------------------------------------------------------
\* The caller of an approved request reserves the amount the record shows.
ReserveApproved(id, p) ==
    /\ id \in DOMAIN records
    /\ records[id].status = "approved"
    /\ id \notin DOMAIN held
    /\ ReserveFunds(p, records[id].total_amount)
    /\ held' = Put(held, id, [pool |-> p, amount |-> records[id].total_amount])

\* Mutated form: the caller reads the record again, which may have changed.
ReleaseHeld_Reread(id) ==
    /\ id \in DOMAIN held
    /\ ReleaseFunds(held[id].pool, records[id].total_amount)
    /\ held' = [x \in DOMAIN held \ {id} |-> held[x]]

\* The caller releases the amount of the copy it kept.
ReleaseHeld(id) ==
    /\ id \in DOMAIN held
    /\ ReleaseFunds(held[id].pool, held[id].amount)
    /\ held' = [x \in DOMAIN held \ {id} |-> held[x]]

PoolNext ==
    \/ \E p \in Pools, funds \in PoolFunds : InitializePool(p, funds) /\ UNCHANGED held
    \/ \E p \in Pools, amount \in TopUps : UpdatePoolBalance(p, amount) /\ UNCHANGED held
    \/ \E id \in DOMAIN records, p \in Pools : ReserveApproved(id, p)
    \/ \E id \in DOMAIN held : ReleaseHeld(id)

StackNext ==
    \/ ReimbursementNext /\ UNCHANGED <<gasPoolVars, held, now>>
    \/ PoolNext /\ UNCHANGED <<reimbursementVars, now>>
    \/ Tick /\ UNCHANGED <<reimbursementVars, gasPoolVars, held>>

StackSpec == StackInit /\ [][StackNext]_stackVars

-----------------------------------------------------------------------------
StackTypeOK == /\ ReimbursementTypeOK
               /\ PoolTypeOK
               /\ now \in Nat
               /\ held \in [DOMAIN held -> [pool : Pools, amount : Nat]]

HeldOf(p) == {id \in DOMAIN held : held[id].pool = p}

\* A pool's reservations are those its callers still hold: none is lost when the
\* pool is initialized again, and none is given back but by its holder, also
\* when the request was replaced or processed again meanwhile.
ReservedIsHeld ==
    \A p \in Pools :
        reserved_amounts[p] = SumFunction([id \in HeldOf(p) |-> held[id].amount])
=============================================================================
