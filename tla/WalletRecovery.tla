--------------------------- MODULE WalletRecovery ---------------------------
(***************************************************************************)
(* classes WalletRecoveryService and PreservationGovernance                *)
(* (src/zero_balance_preservation.cpp): two tables of requests, named by   *)
(* the clock.  A request is constructed without its last timestamp, which  *)
(* then holds any value until a later call sets it.  Keys, signatures and  *)
(* verification methods are left out but for the length of a key.          *)
(***************************************************************************)
EXTENDS Tables, Clock

CONSTANTS RecoverableIds,      \* record names a recovery may be asked for
          GovernedWallets

VARIABLES recovery_requests,
          approval_requests

recoveryVars == <<recovery_requests, approval_requests>>

Times == 0..MaxTime

RecoveryStatus == [record : RecoverableIds, status : {"pending", "verified", "completed"},
                   initiated_at : Times, completed_at : Times]

PreservationAction == {"RESTORE", "FREEZE"}    \* actions callers ask approval for

ApprovalStatus == [wallet : GovernedWallets, action : PreservationAction,
                   status : {"pending", "approved", "rejected"},
                   requested_at : Times, decided_at : Times]

RecoveryTypeOK == /\ recovery_requests \in [DOMAIN recovery_requests -> RecoveryStatus]
                  /\ approval_requests \in [DOMAIN approval_requests -> ApprovalStatus]
                  /\ DOMAIN recovery_requests \cup DOMAIN approval_requests \subseteq Times

RecoveryInit == /\ recovery_requests = EmptyTable
                /\ approval_requests = EmptyTable

-----------------------------------------------------------------------------
\* initiate_recovery: whether the record exists is not looked at.
InitiateRecovery(record) ==
    /\ \E garbage \in Times :
          recovery_requests' = Put(recovery_requests, now,
              [record |-> record, status |-> "pending",
               initiated_at |-> now, completed_at |-> garbage])
    /\ UNCHANGED approval_requests

\* verify_recovery_request: of a request in any status, a completed one too.
VerifyRecoveryRequest(r) ==
    /\ recovery_requests' = [recovery_requests EXCEPT
           ![r].status = "verified", ![r].completed_at = now]
    /\ UNCHANGED approval_requests

\* complete_recovery with a key of the right length; the record is not restored.
CompleteRecovery(r) ==
    /\ recovery_requests[r].status = "verified"
    /\ recovery_requests' = [recovery_requests EXCEPT
           ![r].status = "completed", ![r].completed_at = now]
    /\ UNCHANGED approval_requests

RequestApproval(w, action) ==
    /\ \E garbage \in Times :
          approval_requests' = Put(approval_requests, now,
              [wallet |-> w, action |-> action, status |-> "pending",
               requested_at |-> now, decided_at |-> garbage])
    /\ UNCHANGED recovery_requests

\* submit_decision: as often as it is called, the last decision stands.
SubmitDecision(r, approved) ==
    /\ approval_requests' = [approval_requests EXCEPT
           ![r].status = IF approved THEN "approved" ELSE "rejected",
           ![r].decided_at = now]
    /\ UNCHANGED recovery_requests

RecoveryNext ==
    \/ \E record \in RecoverableIds : InitiateRecovery(record)
    \/ \E r \in DOMAIN recovery_requests : VerifyRecoveryRequest(r) \/ CompleteRecovery(r)
    \/ \E w \in GovernedWallets, action \in PreservationAction : RequestApproval(w, action)
    \/ \E r \in DOMAIN approval_requests, approved \in BOOLEAN : SubmitDecision(r, approved)

-----------------------------------------------------------------------------
\* Once a request is verified, completed or decided, its last timestamp is one
\* of the clock, no earlier than the request: the value it was constructed with
\* is never shown for it, however requests replace each other within a tick.
StampsFollowRequests ==
    /\ \A r \in DOMAIN recovery_requests : recovery_requests[r].status # "pending" =>
          recovery_requests[r].completed_at \in recovery_requests[r].initiated_at..now
    /\ \A r \in DOMAIN approval_requests : approval_requests[r].status # "pending" =>
          approval_requests[r].decided_at \in approval_requests[r].requested_at..now
=============================================================================
