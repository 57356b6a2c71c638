-------------------------- MODULE GasReimbursement --------------------------
(***************************************************************************)
(* class GasReimbursementManager (src/gas_reimbursement.cpp).  The class   *)
(* has no lock: one thread calls it, each call is one action.  requests_   *)
(* and records_ are written together by submit_request and a record keeps  *)
(* the wallet and the cost of its request, so one table stands for both.   *)
(* Amounts come from a GasPoolConfig process_request constructs itself:    *)
(* the rate and the caps below are its defaults, and its bonus rate is 0.  *)
(***************************************************************************)
EXTENDS Tables, Clock, Functions

CONSTANTS GasWallets,
          CallerIds,                 \* identifiers callers choose themselves
          ReimbursableCosts,         \* gas_cost of a request
          RateBps,                   \* reimbursement_rate_bps
          BonusBps,                  \* bonus_rate_bps
          FullRate,                  \* the 10000 basis points
          MaxReimbursementPerTx,     \* max_reimbursement_per_tx
          MinBalance,                \* MIN_BALANCE_LAMPORTS
          MaxRequests, MaxProcessed, MaxRejected    \* bounds on the calls

ASSUME ReimbursementAssumption ==
    /\ ReimbursableCosts \subseteq Nat
    /\ {RateBps, BonusBps, MaxReimbursementPerTx, MinBalance} \subseteq Nat
    /\ FullRate \in Nat \ {0}
    /\ RateBps <= FullRate /\ BonusBps = 0      \* the defaults of GasPoolConfig
    /\ {MaxRequests, MaxProcessed, MaxRejected} \subseteq Nat

VARIABLES records,          \* records_ with requests_
          wallet_states,    \* pending_reimbursements of the wallets ever seen
          total_requests, total_approved, total_rejected, total_reimbursed,
          processed         \* history: calls of process_request so far

reimbursementVars == <<records, wallet_states, total_requests, total_approved,
                       total_rejected, total_reimbursed, processed>>

Statuses == {"pending", "pending_approval", "approved", "rejected"}

ReimbursementRecord == [wallet : GasWallets, gas_cost : ReimbursableCosts,
                        total_amount : Nat, status : Statuses]

ReimbursementTypeOK == /\ records \in [DOMAIN records -> ReimbursementRecord]
                       /\ DOMAIN records \subseteq CallerIds \cup Nat
                       /\ wallet_states \in [DOMAIN wallet_states -> Nat]
                       /\ {total_requests, total_approved, total_rejected,
                           total_reimbursed, processed} \subseteq Nat

ReimbursementInit == /\ records = EmptyTable
                     /\ wallet_states = EmptyTable
                     /\ total_requests = 0
                     /\ total_approved = 0
                     /\ total_rejected = 0
                     /\ total_reimbursed = 0
                     /\ processed = 0

-----------------------------------------------------------------------------
\* generate_request_id: the clock in milliseconds, for requests without a name
\* of their own.
FreshId == now

\* Mutated form: a request submitted again keeps what was computed for it.
NewRecord_Kept(id, wallet, cost) ==
    [wallet |-> wallet, gas_cost |-> cost, status |-> "pending",
     total_amount |-> IF id \in DOMAIN records THEN records[id].total_amount ELSE 0]

NewRecord(id, wallet, cost) ==
    [wallet |-> wallet, gas_cost |-> cost, total_amount |-> 0, status |-> "pending"]

\* update_wallet_state: only ever adds, nothing takes an amount off again.
PendingOf(wallet) == IF wallet \in DOMAIN wallet_states THEN wallet_states[wallet] ELSE 0

\* submit_request: replaces whatever the table holds under that identifier.
SubmitRequest(id, wallet, cost) ==
    /\ total_requests < MaxRequests
    /\ records' = Put(records, id, NewRecord(id, wallet, cost))
    /\ total_requests' = total_requests + 1
    /\ wallet_states' = Put(wallet_states, wallet, (PendingOf(wallet) + cost) % Word)
    /\ UNCHANGED <<total_approved, total_rejected, total_reimbursed, processed>>

Least(a, b) == IF a <= b THEN a ELSE b

\* calculate_reimbursement: the product may exceed 64 bits.
CalculateReimbursement(cost, success) ==
    IF success THEN Least(((cost * RateBps) % Word) \div FullRate, MaxReimbursementPerTx)
               ELSE 0

\* calculate_bonus: at most half the cost.
CalculateBonus(cost, success) ==
    IF success /\ BonusBps # 0
    THEN Least(((cost * BonusBps) % Word) \div FullRate, cost \div 2)
    ELSE 0

AmountFor(cost) == CalculateReimbursement(cost, TRUE) + CalculateBonus(cost, TRUE)

\* process_request: whatever the status, the record waits for approval again.
ProcessRequest(id) ==
    /\ id \in DOMAIN records
    /\ processed < MaxProcessed
    /\ records' = [records EXCEPT ![id].total_amount = AmountFor(records[id].gas_cost),
                                  ![id].status = "pending_approval"]
    /\ processed' = processed + 1
    /\ UNCHANGED <<wallet_states, total_requests, total_approved, total_rejected,
                   total_reimbursed>>

\* What approve_reimbursement accepts; get_pending_reimbursements lists these.
Open(id) == id \in DOMAIN records /\ records[id].status \in {"pending", "pending_approval"}

\* Mutated form: "=" for "+=".
ApproveReimbursement_Last(id) ==
    /\ Open(id)
    /\ records' = [records EXCEPT ![id].status = "approved"]
    /\ total_approved' = total_approved + 1
    /\ total_reimbursed' = records[id].total_amount
    /\ UNCHANGED <<wallet_states, total_requests, total_rejected, processed>>

\* approve_reimbursement: a request approved before it is processed counts 0.
ApproveReimbursement(id) ==
    /\ Open(id)
    /\ records' = [records EXCEPT ![id].status = "approved"]
    /\ total_approved' = total_approved + 1
    /\ total_reimbursed' = total_reimbursed + records[id].total_amount
    /\ UNCHANGED <<wallet_states, total_requests, total_rejected, processed>>

\* What reject_reimbursement accepts: a rejected request is rejected once more.
Rejectable(id) == id \in DOMAIN records /\ records[id].status # "approved"

RejectReimbursement(id) ==
    /\ Rejectable(id)
    /\ total_rejected < MaxRejected
    /\ records' = [records EXCEPT ![id].status = "rejected"]
    /\ total_rejected' = total_rejected + 1
    /\ UNCHANGED <<wallet_states, total_requests, total_approved, total_reimbursed, processed>>

\* check_wallet_balance: nothing ever sets current_balance, it stays 0, and 0
\* minus what is pending wraps.
CurrentBalance == 0

CheckWalletBalance(wallet, required) ==
    wallet \in DOMAIN wallet_states =>
        Minus(CurrentBalance, wallet_states[wallet]) >= (required + MinBalance) % Word

ReimbursementNext ==
    \/ \E id \in CallerIds \cup {FreshId}, wallet \in GasWallets, cost \in ReimbursableCosts :
           SubmitRequest(id, wallet, cost)
    \/ \E id \in DOMAIN records : ProcessRequest(id)
    \/ \E id \in DOMAIN records : ApproveReimbursement(id)
    \/ \E id \in DOMAIN records : RejectReimbursement(id)

-----------------------------------------------------------------------------
WithStatus(status) == {id \in DOMAIN records : records[id].status = status}

\* The statistics cover the table: every approved record was counted with the
\* amount it shows, though requests are replaced, processed and approved again.
ReimbursedCoversApproved ==
    SumFunction([id \in WithStatus("approved") |-> records[id].total_amount]) <= total_reimbursed

\* A record never shows more than its own request cost, also when a request of
\* another cost took over the identifier, and also when the product wraps.
AmountWithinGas == \A id \in DOMAIN records : records[id].total_amount <= records[id].gas_cost

=============================================================================
