------------------------- MODULE WalletPreservation -------------------------
(***************************************************************************)
(* class WalletPreservationManager (src/zero_balance_preservation.cpp) and *)
(* the WalletPreservationMonitor it owns.  The monitor keeps the default   *)
(* policy, since nothing reaches the manager's own monitor to set another  *)
(* one, and has no exempt wallets.  A snapshot is the balance it records;  *)
(* its hash, its time and its metadata are left out.                       *)
(*                                                                         *)
(* No lock: one thread calls the manager, each call is one action.         *)
(* Records are named by the clock ("preserve_" in milliseconds,            *)
(* "gov_review_" in the clock's own unit), so a record made in the same    *)
(* tick replaces another.  Callers hold wallet addresses and the names of  *)
(* records.  No code sets recovery_key, hence restore_wallet takes the     *)
(* empty key and no other.                                                 *)
(***************************************************************************)
EXTENDS Tables, Clock, FiniteSets

CONSTANTS Wallets,
          PreservationThreshold, CriticalThreshold     \* the default policy

ASSUME ThresholdAssumption == /\ {PreservationThreshold, CriticalThreshold} \subseteq Nat
                              /\ CriticalThreshold < PreservationThreshold

VARIABLES wallet_snapshots,     \* wallet_snapshots_: the balance last recorded
          wallet_statuses       \* wallet_statuses_

monitorVars == <<wallet_snapshots, wallet_statuses>>

PreservationStatus == {"ACTIVE", "MONITORED", "PRESERVED", "RECOVERED",
                       "GOVERNANCE_LOCKED", "EMERGENCY_FROZEN"}

MonitorInit == /\ wallet_snapshots = EmptyTable
               /\ wallet_statuses = EmptyTable

-----------------------------------------------------------------------------
CheckWalletStatus(balance) ==
    CASE balance <= CriticalThreshold -> "TRANSFER_FUNDS"
      [] CriticalThreshold < balance /\ balance <= PreservationThreshold -> "NOTIFY_USER"
      [] OTHER -> "NONE"

\* update_wallet_state: the new balance alone decides the status.
UpdateWalletState(w, balance) ==
    /\ wallet_snapshots' = Put(wallet_snapshots, w, balance)
    /\ wallet_statuses' = Put(wallet_statuses, w,
           IF CheckWalletStatus(balance) = "NONE" THEN "ACTIVE" ELSE "MONITORED")

\* get_wallet_statuses()[name] = status: written directly by the manager, under
\* whatever name it was called with.
SetWalletStatus(name, status) ==
    /\ wallet_statuses' = Put(wallet_statuses, name, status)
    /\ UNCHANGED wallet_snapshots

\* get_wallet_status: a wallet never seen is active.
GetWalletStatus(w) == IF w \in DOMAIN wallet_statuses THEN wallet_statuses[w] ELSE "ACTIVE"

-----------------------------------------------------------------------------
\* class WalletPreservationManager.

CONSTANTS Balances,             \* balances callers report
          TransferAmounts

ASSUME PreservationAssumption == Balances \subseteq Nat /\ TransferAmounts \subseteq Nat

VARIABLES preservation_records,
          total_preservations, total_restorations,     \* stats_
          total_funds_transferred, total_frozen, active_preservations

managerVars == <<preservation_records, total_preservations, total_restorations,
                 total_funds_transferred, total_frozen, active_preservations>>

walletVars == <<monitorVars, managerVars>>

RecordIds == [kind : {"preserve", "gov_review"}, at : Nat]

\* No wallet's address reads like the name of a record.
ASSUME NamesAssumption == Wallets \cap RecordIds = {}

PreservationRecord == [wallet : Wallets, status : PreservationStatus, balance : Nat]

PreservationTypeOK ==
    /\ wallet_snapshots \in [DOMAIN wallet_snapshots -> Nat]
    /\ DOMAIN wallet_snapshots \subseteq Wallets
    /\ wallet_statuses \in [DOMAIN wallet_statuses -> PreservationStatus]
    /\ DOMAIN wallet_statuses \subseteq Wallets \cup RecordIds
    /\ preservation_records \in [DOMAIN preservation_records -> PreservationRecord]
    /\ DOMAIN preservation_records \subseteq RecordIds
    /\ {total_preservations, total_restorations, total_funds_transferred,
        total_frozen, active_preservations} \subseteq Nat

PreservationInit == /\ MonitorInit
                    /\ preservation_records = EmptyTable
                    /\ total_preservations = 0
                    /\ total_restorations = 0
                    /\ total_funds_transferred = 0
                    /\ total_frozen = 0
                    /\ active_preservations = 0

-----------------------------------------------------------------------------
\* generate_record_id.
FreshRecordId == [kind |-> "preserve", at |-> now]

\* Records with a status, as get_all_preserved lists the archived ones.
RecordsWith(status) ==
    {id \in DOMAIN preservation_records : preservation_records[id].status = status}

PreserveWallet(w, balance) ==
    /\ preservation_records' = Put(preservation_records, FreshRecordId,
           [wallet |-> w, status |-> "PRESERVED", balance |-> balance])
    /\ UpdateWalletState(w, balance)
    /\ total_preservations' = total_preservations + 1
    /\ active_preservations' = active_preservations + 1
    /\ UNCHANGED <<total_restorations, total_funds_transferred, total_frozen>>

\* Mutated form: the number of active preservations is left as it was.
RestoreWallet_StaysActive(id) ==
    /\ preservation_records' = [preservation_records EXCEPT ![id].status = "RECOVERED"]
    /\ UpdateWalletState(preservation_records[id].wallet, preservation_records[id].balance)
    /\ total_restorations' = total_restorations + 1
    /\ UNCHANGED <<total_preservations, total_funds_transferred, total_frozen,
                   active_preservations>>

\* restore_wallet returning true: a record of any status, as often as asked, and
\* the wallet is given the balance of the day it was archived.
RestoreWallet(id) ==
    /\ preservation_records' = [preservation_records EXCEPT ![id].status = "RECOVERED"]
    /\ UpdateWalletState(preservation_records[id].wallet, preservation_records[id].balance)
    /\ total_restorations' = total_restorations + 1
    /\ active_preservations' = Minus(active_preservations, 1)
    /\ UNCHANGED <<total_preservations, total_funds_transferred, total_frozen>>

\* Mutated form: the amount is recorded, the status is not looked at again.
TransferMaintenanceFunds_SnapshotOnly(w, amount) ==
    /\ wallet_snapshots' = Put(wallet_snapshots, w, amount)
    /\ wallet_statuses' = Put(wallet_statuses, w, GetWalletStatus(w))
    /\ total_funds_transferred' = total_funds_transferred + amount
    /\ UNCHANGED <<preservation_records, total_preservations, total_restorations,
                   total_frozen, active_preservations>>

\* transfer_maintenance_funds: the snapshot it takes to read the balance records
\* 0, so the amount replaces the balance instead of adding to it.
TransferMaintenanceFunds(w, amount) ==
    /\ UpdateWalletState(w, 0 + amount)
    /\ total_funds_transferred' = total_funds_transferred + amount
    /\ UNCHANGED <<preservation_records, total_preservations, total_restorations,
                   total_frozen, active_preservations>>

\* What freeze_wallet stores: records are found by their own name, so a wallet's
\* address finds none and a record is made, without a balance.
FrozenRecords(name) ==
    IF name \in DOMAIN preservation_records
    THEN [preservation_records EXCEPT ![name].status = "EMERGENCY_FROZEN"]
    ELSE Put(preservation_records, FreshRecordId,
             [wallet |-> name, status |-> "EMERGENCY_FROZEN", balance |-> 0])

FreezeWallet(name) ==
    /\ preservation_records' = FrozenRecords(name)
    /\ SetWalletStatus(name, "EMERGENCY_FROZEN")
    /\ total_frozen' = total_frozen + 1
    /\ UNCHANGED <<total_preservations, total_restorations, total_funds_transferred,
                   active_preservations>>

\* unfreeze_wallet returning true: never for an address, only for a record's
\* name, under which it also files the status.
UnfreezeWallet(name) ==
    /\ name \in DOMAIN preservation_records
    /\ preservation_records' = [preservation_records EXCEPT ![name].status = "ACTIVE"]
    /\ SetWalletStatus(name, "ACTIVE")
    /\ UNCHANGED <<total_preservations, total_restorations, total_funds_transferred,
                   total_frozen, active_preservations>>

RequestGovernanceReview(w) ==
    /\ preservation_records' = Put(preservation_records, [kind |-> "gov_review", at |-> now],
           [wallet |-> w, status |-> "GOVERNANCE_LOCKED", balance |-> 0])
    /\ UNCHANGED <<monitorVars, total_preservations, total_restorations,
                   total_funds_transferred, total_frozen, active_preservations>>

ManagerNext ==
    \/ \E w \in Wallets, balance \in Balances : PreserveWallet(w, balance)
    \/ \E id \in DOMAIN preservation_records : RestoreWallet(id)
    \/ \E w \in Wallets, amount \in TransferAmounts : TransferMaintenanceFunds(w, amount)
    \/ \E name \in Wallets \cup DOMAIN preservation_records : FreezeWallet(name)
    \/ \E name \in DOMAIN preservation_records : UnfreezeWallet(name)
    \/ \E w \in Wallets : RequestGovernanceReview(w)

-----------------------------------------------------------------------------
\* No statistic is below what the records show: as many archives, restorations
\* and freezes were counted as records are in that status, also after records
\* were replaced within a tick or frozen and restored by name.
StatsCoverRecords ==
    /\ Cardinality(RecordsWith("PRESERVED")) <= total_preservations
    /\ Cardinality(RecordsWith("RECOVERED")) <= total_restorations
    /\ Cardinality(RecordsWith("EMERGENCY_FROZEN")) <= total_frozen

\* active_preservations minus the archived records: 0 while they agree.
Drift == Minus(active_preservations, Cardinality(RecordsWith("PRESERVED")))

\* active_preservations departs from the number of archived records in three
\* ways only: a restore of a record that is not archived, an archive that takes
\* the name of an archived record, and a freeze or unfreeze of an archived one.
DriftOnlyByReuse ==
    [][Drift' # Drift =>
          \/ /\ total_preservations' + total_restorations' > total_preservations + total_restorations
             /\ RecordsWith("PRESERVED")' = RecordsWith("PRESERVED")
          \/ /\ UNCHANGED <<total_preservations, total_restorations>>
             /\ RecordsWith("PRESERVED")' \subseteq RecordsWith("PRESERVED")]_walletVars

\* "unfreeze_wallet(const std::string& wallet_address)" is announced as "Unfreeze
\* wallet operations" (zero_balance_preservation.hpp:192): for the address of a
\* frozen wallet it should succeed.  It looks the address up among record names.
FrozenCanBeUnfrozen ==
    \A w \in Wallets : GetWalletStatus(w) = "EMERGENCY_FROZEN" => ENABLED UnfreezeWallet(w)

\* The two tables agree on every wallet that is not frozen: it is monitored
\* exactly while the balance last recorded is at or below the threshold, and
\* no wallet with a snapshot is without a status.  Archiving, restoring, topping
\* up, freezing and the calls that take a record's name all write to them.
MonitorAgrees ==
    \A w \in Wallets :
        /\ w \in DOMAIN wallet_snapshots => w \in DOMAIN wallet_statuses
        /\ GetWalletStatus(w) \in {"ACTIVE", "MONITORED", "EMERGENCY_FROZEN"}
        /\ GetWalletStatus(w) = "MONITORED" =>
               w \in DOMAIN wallet_snapshots /\ wallet_snapshots[w] <= PreservationThreshold
        /\ w \in DOMAIN wallet_snapshots /\ wallet_snapshots[w] <= PreservationThreshold =>
               GetWalletStatus(w) # "ACTIVE"
=============================================================================
