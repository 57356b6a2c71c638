------------------------- MODULE PreservationProofs -------------------------
(***************************************************************************)
(* Proofs about PreservationStack, for any number of wallets, records and  *)
(* requests.                                                               *)
(***************************************************************************)
EXTENDS PreservationStack, FiniteSetTheorems, TLAPS

USE WordAssumption, MaxTimeAssumption, ThresholdAssumption, PreservationAssumption,
    NamesAssumption, CallsAssumption

\* There are finitely many records, and no more archives than calls.
CountInv == /\ IsFiniteSet(DOMAIN preservation_records)
            /\ total_preservations <= calls
            /\ calls <= MaxCalls

\* No request is of the future.
RequestAgeInv == /\ \A r \in DOMAIN recovery_requests : recovery_requests[r].initiated_at <= now
                 /\ \A r \in DOMAIN approval_requests : approval_requests[r].requested_at <= now

\* The inductive invariant of the services.
PreservationInv == /\ StackTypeOK
                   /\ now \in Times
                   /\ MonitorAgrees
                   /\ CountInv
                   /\ StatsCoverRecords
                   /\ RequestAgeInv
                   /\ StampsFollowRequests

-----------------------------------------------------------------------------
\* The status update_wallet_state gives is the one the balance calls for.
LEMMA StatusOfBalance ==
  ASSUME NEW balance \in Nat
  PROVE  CheckWalletStatus(balance) = "NONE" <=> balance > PreservationThreshold
  <1>1. CASE balance <= CriticalThreshold
    BY <1>1 DEF CheckWalletStatus
  <1>2. CASE CriticalThreshold < balance /\ balance <= PreservationThreshold
    BY <1>2 DEF CheckWalletStatus
  <1>3. CASE balance > PreservationThreshold
    BY <1>3 DEF CheckWalletStatus
  <1> QED
    BY <1>1, <1>2, <1>3

\* Recording a balance keeps the monitor's types and its agreement.
LEMMA UpdateAgrees ==
  ASSUME PreservationTypeOK, MonitorAgrees,
         NEW w \in Wallets, NEW balance \in Nat, UpdateWalletState(w, balance)
  PROVE  /\ wallet_snapshots' \in [DOMAIN wallet_snapshots' -> Nat]
         /\ DOMAIN wallet_snapshots' \subseteq Wallets
         /\ wallet_statuses' \in [DOMAIN wallet_statuses' -> PreservationStatus]
         /\ DOMAIN wallet_statuses' \subseteq Wallets \cup RecordIds
         /\ MonitorAgrees'
  <1> DEFINE status == IF CheckWalletStatus(balance) = "NONE" THEN "ACTIVE" ELSE "MONITORED"
  <1>1. /\ wallet_snapshots' = Put(wallet_snapshots, w, balance)
        /\ wallet_statuses' = Put(wallet_statuses, w, status)
    BY DEF UpdateWalletState
  <1>2. status \in PreservationStatus /\ status \in {"ACTIVE", "MONITORED"}
    BY DEF PreservationStatus
  <1>3. status = "MONITORED" <=> balance <= PreservationThreshold
    BY StatusOfBalance
  <1> HIDE DEF status
  <1>4. /\ wallet_snapshots' \in [DOMAIN wallet_snapshots' -> Nat]
        /\ DOMAIN wallet_snapshots' \subseteq Wallets
        /\ wallet_statuses' \in [DOMAIN wallet_statuses' -> PreservationStatus]
        /\ DOMAIN wallet_statuses' \subseteq Wallets \cup RecordIds
    BY <1>1, <1>2 DEF PreservationTypeOK, Put
  <1>5. ASSUME NEW v \in Wallets
        PROVE  /\ v \in DOMAIN wallet_snapshots' => v \in DOMAIN wallet_statuses'
               /\ GetWalletStatus(v)' \in {"ACTIVE", "MONITORED", "EMERGENCY_FROZEN"}
               /\ GetWalletStatus(v)' = "MONITORED" =>
                    v \in DOMAIN wallet_snapshots' /\ wallet_snapshots'[v] <= PreservationThreshold
               /\ v \in DOMAIN wallet_snapshots' /\ wallet_snapshots'[v] <= PreservationThreshold =>
                    GetWalletStatus(v)' # "ACTIVE"
    <2>1. CASE v = w
      BY <1>1, <1>2, <1>3, <2>1 DEF GetWalletStatus, Put
    <2>2. CASE v # w
      BY <1>1, <2>2 DEF MonitorAgrees, GetWalletStatus, Put
    <2> QED
      BY <2>1, <2>2
  <1> QED
    BY <1>4, <1>5 DEF MonitorAgrees

\* A status written under a name that is a wallet's only when it is frozen
\* keeps them as well.
LEMMA SetAgrees ==
  ASSUME PreservationTypeOK, MonitorAgrees,
         NEW name, NEW status, SetWalletStatus(name, status),
         \/ name \in Wallets \cup RecordIds /\ status = "EMERGENCY_FROZEN"
         \/ name \in RecordIds /\ status = "ACTIVE"
  PROVE  /\ wallet_snapshots' = wallet_snapshots
         /\ wallet_statuses' \in [DOMAIN wallet_statuses' -> PreservationStatus]
         /\ DOMAIN wallet_statuses' \subseteq Wallets \cup RecordIds
         /\ MonitorAgrees'
  <1>1. /\ wallet_snapshots' = wallet_snapshots
        /\ wallet_statuses' = Put(wallet_statuses, name, status)
    BY DEF SetWalletStatus
  <1>2. /\ wallet_statuses' \in [DOMAIN wallet_statuses' -> PreservationStatus]
        /\ DOMAIN wallet_statuses' \subseteq Wallets \cup RecordIds
    BY <1>1 DEF PreservationTypeOK, PreservationStatus, Put
  <1>3. ASSUME NEW v \in Wallets
        PROVE  /\ v \in DOMAIN wallet_snapshots' => v \in DOMAIN wallet_statuses'
               /\ GetWalletStatus(v)' \in {"ACTIVE", "MONITORED", "EMERGENCY_FROZEN"}
               /\ GetWalletStatus(v)' = "MONITORED" =>
                    v \in DOMAIN wallet_snapshots' /\ wallet_snapshots'[v] <= PreservationThreshold
               /\ v \in DOMAIN wallet_snapshots' /\ wallet_snapshots'[v] <= PreservationThreshold =>
                    GetWalletStatus(v)' # "ACTIVE"
    <2>1. CASE v = name
      <3>1. status = "EMERGENCY_FROZEN"
        BY <2>1
      <3> QED
        BY <1>1, <2>1, <3>1 DEF GetWalletStatus, Put
    <2>2. CASE v # name
      BY <1>1, <2>2 DEF MonitorAgrees, GetWalletStatus, Put
    <2> QED
      BY <2>1, <2>2
  <1> QED
    BY <1>1, <1>2, <1>3 DEF MonitorAgrees

-----------------------------------------------------------------------------
\* Filing a record puts it among those of its status and takes the one it
\* replaces from those of the other statuses.
LEMMA RecordFiled ==
  ASSUME NEW id, NEW r, NEW status,
         preservation_records' = Put(preservation_records, id, r)
  PROVE  /\ DOMAIN preservation_records' = DOMAIN preservation_records \cup {id}
         /\ RecordsWith(status)' = IF r.status = status THEN RecordsWith(status) \cup {id}
                                   ELSE RecordsWith(status) \ {id}
  BY DEF RecordsWith, Put

\* So does giving a record another status.
LEMMA RecordMarked ==
  ASSUME PreservationTypeOK, NEW id \in DOMAIN preservation_records,
         NEW new \in PreservationStatus, NEW status,
         preservation_records' = [preservation_records EXCEPT ![id].status = new]
  PROVE  /\ preservation_records' \in [DOMAIN preservation_records -> PreservationRecord]
         /\ DOMAIN preservation_records' = DOMAIN preservation_records
         /\ RecordsWith(status)' = IF new = status THEN RecordsWith(status) \cup {id}
                                   ELSE RecordsWith(status) \ {id}
  <1>1. preservation_records[id] \in PreservationRecord
    BY DEF PreservationTypeOK
  <1>2. /\ [preservation_records[id] EXCEPT !.status = new] \in PreservationRecord
        /\ [preservation_records[id] EXCEPT !.status = new].status = new
    BY <1>1 DEF PreservationRecord
  <1>3. /\ DOMAIN preservation_records' = DOMAIN preservation_records
        /\ preservation_records'[id] = [preservation_records[id] EXCEPT !.status = new]
        /\ \A x \in DOMAIN preservation_records \ {id} :
              preservation_records'[x] = preservation_records[x]
    OBVIOUS
  <1>4. preservation_records' \in [DOMAIN preservation_records -> PreservationRecord]
    BY <1>1, <1>2 DEF PreservationTypeOK
  <1>5. RecordsWith(status)' = IF new = status THEN RecordsWith(status) \cup {id}
                               ELSE RecordsWith(status) \ {id}
    BY <1>2, <1>3 DEF RecordsWith
  <1> QED
    BY <1>3, <1>4, <1>5

\* One element more or less changes a cardinality by one at most.
LEMMA OneMore ==
  ASSUME NEW S, IsFiniteSet(S), NEW x, NEW T, T = S \cup {x} \/ T = S \ {x} \/ T = S
  PROVE  /\ IsFiniteSet(T)
         /\ Cardinality(S) \in Nat /\ Cardinality(T) \in Nat
         /\ T = S \cup {x} =>
               Cardinality(T) = IF x \in S THEN Cardinality(S) ELSE Cardinality(S) + 1
         /\ T = S \ {x} =>
               Cardinality(T) = IF x \in S THEN Cardinality(S) - 1 ELSE Cardinality(S)
  <1>1. Cardinality(S) \in Nat
    BY FS_CardinalityType
  <1>2. /\ IsFiniteSet(S \cup {x})
        /\ Cardinality(S \cup {x}) = IF x \in S THEN Cardinality(S) ELSE Cardinality(S) + 1
    BY FS_AddElement
  <1>3. /\ IsFiniteSet(S \ {x})
        /\ Cardinality(S \ {x}) = IF x \in S THEN Cardinality(S) - 1 ELSE Cardinality(S)
    BY FS_RemoveElement
  <1>4. Cardinality(S \cup {x}) \in Nat /\ Cardinality(S \ {x}) \in Nat
    BY <1>2, <1>3, FS_CardinalityType
  <1> QED
    BY <1>1, <1>2, <1>3, <1>4

\* The records of a status are finitely many.
LEMMA RecordsFinite ==
  ASSUME IsFiniteSet(DOMAIN preservation_records), NEW status
  PROVE  /\ IsFiniteSet(RecordsWith(status))
         /\ Cardinality(RecordsWith(status)) \in Nat
  <1>1. RecordsWith(status) \subseteq DOMAIN preservation_records
    BY DEF RecordsWith
  <1> QED
    BY <1>1, FS_Subset, FS_CardinalityType

\* Whatever record a call files or marks, only the count of the status it
\* gives can grow, by one.
LEMMA RecordCounts ==
  ASSUME IsFiniteSet(DOMAIN preservation_records), NEW id, NEW new, NEW status,
         RecordsWith(status)' = IF new = status THEN RecordsWith(status) \cup {id}
                                ELSE RecordsWith(status) \ {id}
  PROVE  /\ Cardinality(RecordsWith(status))' \in Nat
         /\ Cardinality(RecordsWith(status))' <= Cardinality(RecordsWith(status)) + 1
         /\ new # status => Cardinality(RecordsWith(status))' <= Cardinality(RecordsWith(status))
  <1> DEFINE S == RecordsWith(status)
             T == RecordsWith(status)'
  <1>1. IsFiniteSet(S) /\ Cardinality(S) \in Nat
    BY RecordsFinite
  <1>2. /\ new = status => T = S \cup {id}
        /\ new # status => T = S \ {id}
    OBVIOUS
  <1>3. Cardinality(T) = Cardinality(RecordsWith(status))'
    OBVIOUS
  <1> HIDE DEF S, T
  <1>4. /\ Cardinality(T) \in Nat
        /\ Cardinality(T) <= Cardinality(S) + 1
        /\ new # status => Cardinality(T) <= Cardinality(S)
    BY <1>1, <1>2, OneMore
  <1> QED
    BY <1>3, <1>4 DEF S

-----------------------------------------------------------------------------
\* Filing a well-formed record keeps the type of the table, and marking one too.
LEMMA FiledType ==
  ASSUME PreservationTypeOK, NEW id \in RecordIds, NEW r \in PreservationRecord,
         preservation_records' = Put(preservation_records, id, r)
  PROVE  /\ preservation_records' \in [DOMAIN preservation_records' -> PreservationRecord]
         /\ DOMAIN preservation_records' \subseteq RecordIds
  BY DEF PreservationTypeOK, Put

\* A table with one record more is still finite.
LEMMA FiledFinite ==
  ASSUME CountInv, NEW id,
         DOMAIN preservation_records' = DOMAIN preservation_records \cup {id}
  PROVE  IsFiniteSet(DOMAIN preservation_records')
  BY FS_AddElement DEF CountInv

\* What a call does to the records is enough for the statistics to cover them.
LEMMA StatsKept ==
  ASSUME PreservationInv, NEW id, NEW new,
         \A status : RecordsWith(status)' = IF new = status THEN RecordsWith(status) \cup {id}
                                            ELSE RecordsWith(status) \ {id},
         {total_preservations', total_restorations', total_frozen'} \subseteq Nat,
         total_preservations' >= total_preservations + (IF new = "PRESERVED" THEN 1 ELSE 0),
         total_restorations' >= total_restorations + (IF new = "RECOVERED" THEN 1 ELSE 0),
         total_frozen' >= total_frozen + (IF new = "EMERGENCY_FROZEN" THEN 1 ELSE 0)
  PROVE  StatsCoverRecords'
  <1>1. IsFiniteSet(DOMAIN preservation_records)
    BY DEF PreservationInv, CountInv
  <1>2. ASSUME NEW status
        PROVE  /\ Cardinality(RecordsWith(status)) \in Nat
               /\ Cardinality(RecordsWith(status))' \in Nat
               /\ Cardinality(RecordsWith(status))' <= Cardinality(RecordsWith(status)) + 1
               /\ new # status =>
                    Cardinality(RecordsWith(status))' <= Cardinality(RecordsWith(status))
    <2>1. RecordsWith(status)' = IF new = status THEN RecordsWith(status) \cup {id}
                                 ELSE RecordsWith(status) \ {id}
      OBVIOUS
    <2> QED
      BY <1>1, <2>1, RecordCounts, RecordsFinite
  <1>3. {total_preservations, total_restorations, total_frozen} \subseteq Nat
    BY DEF PreservationInv, StackTypeOK, PreservationTypeOK
  <1>4. StatsCoverRecords
    BY DEF PreservationInv
  <1>5. Cardinality(RecordsWith("PRESERVED"))' <= total_preservations'
    BY <1>2, <1>3, <1>4 DEF StatsCoverRecords
  <1>6. Cardinality(RecordsWith("RECOVERED"))' <= total_restorations'
    BY <1>2, <1>3, <1>4 DEF StatsCoverRecords
  <1>7. Cardinality(RecordsWith("EMERGENCY_FROZEN"))' <= total_frozen'
    BY <1>2, <1>3, <1>4 DEF StatsCoverRecords
  <1> QED
    BY <1>5, <1>6, <1>7 DEF StatsCoverRecords

\* The manager's part of the invariant.
ManagerInv == /\ PreservationTypeOK
              /\ MonitorAgrees
              /\ IsFiniteSet(DOMAIN preservation_records)
              /\ StatsCoverRecords

LEMMA PreserveStep ==
  ASSUME PreservationInv, NEW w \in Wallets, NEW balance \in Balances,
         PreserveWallet(w, balance)
  PROVE  ManagerInv'
  <1> DEFINE r == [wallet |-> w, status |-> "PRESERVED", balance |-> balance]
  <1>1. /\ PreservationTypeOK /\ MonitorAgrees /\ CountInv
        /\ now \in Nat /\ balance \in Nat
    BY DEF PreservationInv, StackTypeOK
  <1>2. FreshRecordId \in RecordIds /\ r \in PreservationRecord
    BY <1>1 DEF FreshRecordId, RecordIds, PreservationRecord, PreservationStatus
  <1>3. preservation_records' = Put(preservation_records, FreshRecordId, r)
    BY DEF PreserveWallet
  <1>4. r.status = "PRESERVED"
    OBVIOUS
  <1> HIDE DEF r
  <1>5. /\ preservation_records' \in [DOMAIN preservation_records' -> PreservationRecord]
        /\ DOMAIN preservation_records' \subseteq RecordIds
    BY <1>1, <1>2, <1>3, FiledType
  <1>6. /\ wallet_snapshots' \in [DOMAIN wallet_snapshots' -> Nat]
        /\ DOMAIN wallet_snapshots' \subseteq Wallets
        /\ wallet_statuses' \in [DOMAIN wallet_statuses' -> PreservationStatus]
        /\ DOMAIN wallet_statuses' \subseteq Wallets \cup RecordIds
        /\ MonitorAgrees'
    <2>1. UpdateWalletState(w, balance)
      BY DEF PreserveWallet
    <2> QED
      BY <1>1, <2>1, UpdateAgrees
  <1>7. PreservationTypeOK'
    BY <1>1, <1>5, <1>6 DEF PreserveWallet, PreservationTypeOK
  <1>8. IsFiniteSet(DOMAIN preservation_records')
    BY <1>1, <1>3, RecordFiled, FiledFinite
  <1>9. StatsCoverRecords'
    <2>1. \A status : RecordsWith(status)' =
             IF r.status = status THEN RecordsWith(status) \cup {FreshRecordId}
             ELSE RecordsWith(status) \ {FreshRecordId}
      BY <1>3, RecordFiled
    <2> QED
      BY <1>1, <1>4, <2>1, StatsKept DEF PreserveWallet, PreservationTypeOK
  <1> QED
    BY <1>6, <1>7, <1>8, <1>9 DEF ManagerInv

LEMMA RestoreStep ==
  ASSUME PreservationInv, NEW id \in DOMAIN preservation_records, RestoreWallet(id)
  PROVE  ManagerInv'
  <1>1. /\ PreservationTypeOK /\ MonitorAgrees /\ CountInv
        /\ "RECOVERED" \in PreservationStatus
    BY DEF PreservationInv, StackTypeOK, PreservationStatus
  <1>2. preservation_records[id].wallet \in Wallets /\ preservation_records[id].balance \in Nat
    BY <1>1 DEF PreservationTypeOK, PreservationRecord
  <1>3. preservation_records' = [preservation_records EXCEPT ![id].status = "RECOVERED"]
    BY DEF RestoreWallet
  <1>4. /\ preservation_records' \in [DOMAIN preservation_records -> PreservationRecord]
        /\ DOMAIN preservation_records' = DOMAIN preservation_records
        /\ \A status : RecordsWith(status)' =
             IF "RECOVERED" = status THEN RecordsWith(status) \cup {id}
             ELSE RecordsWith(status) \ {id}
    BY <1>1, <1>3, RecordMarked
  <1>5. /\ wallet_snapshots' \in [DOMAIN wallet_snapshots' -> Nat]
        /\ DOMAIN wallet_snapshots' \subseteq Wallets
        /\ wallet_statuses' \in [DOMAIN wallet_statuses' -> PreservationStatus]
        /\ DOMAIN wallet_statuses' \subseteq Wallets \cup RecordIds
        /\ MonitorAgrees'
    <2>1. UpdateWalletState(preservation_records[id].wallet, preservation_records[id].balance)
      BY DEF RestoreWallet
    <2> QED
      BY <1>1, <1>2, <2>1, UpdateAgrees
  <1>6. PreservationTypeOK'
    <2>1. Minus(active_preservations, 1) \in Nat
      BY <1>1 DEF PreservationTypeOK, Minus
    <2> QED
      BY <1>1, <1>4, <1>5, <2>1 DEF RestoreWallet, PreservationTypeOK
  <1>7. IsFiniteSet(DOMAIN preservation_records')
    BY <1>1, <1>4 DEF CountInv
  <1>8. StatsCoverRecords'
    <2>1. /\ {total_preservations', total_restorations', total_frozen'} \subseteq Nat
          /\ total_preservations' >= total_preservations
          /\ total_restorations' >= total_restorations + 1
          /\ total_frozen' >= total_frozen
      BY <1>1 DEF RestoreWallet, PreservationTypeOK
    <2>2. \A status : RecordsWith(status)' =
             IF "RECOVERED" = status THEN RecordsWith(status) \cup {id}
             ELSE RecordsWith(status) \ {id}
      BY <1>4
    <2> DEFINE new == "RECOVERED"
    <2>3. /\ total_preservations' >= total_preservations + (IF new = "PRESERVED" THEN 1 ELSE 0)
          /\ total_restorations' >= total_restorations + (IF new = "RECOVERED" THEN 1 ELSE 0)
          /\ total_frozen' >= total_frozen + (IF new = "EMERGENCY_FROZEN" THEN 1 ELSE 0)
      BY <1>1, <2>1 DEF PreservationTypeOK
    <2> QED
      BY <2>1, <2>2, <2>3, StatsKept
  <1> QED
    BY <1>5, <1>6, <1>7, <1>8 DEF ManagerInv

LEMMA TransferStep ==
  ASSUME PreservationInv, NEW w \in Wallets, NEW amount \in TransferAmounts,
         TransferMaintenanceFunds(w, amount)
  PROVE  ManagerInv'
  <1>1. /\ PreservationTypeOK /\ MonitorAgrees /\ CountInv /\ StatsCoverRecords
        /\ 0 + amount \in Nat
    BY DEF PreservationInv, StackTypeOK
  <1>2. /\ wallet_snapshots' \in [DOMAIN wallet_snapshots' -> Nat]
        /\ DOMAIN wallet_snapshots' \subseteq Wallets
        /\ wallet_statuses' \in [DOMAIN wallet_statuses' -> PreservationStatus]
        /\ DOMAIN wallet_statuses' \subseteq Wallets \cup RecordIds
        /\ MonitorAgrees'
    <2>1. UpdateWalletState(w, 0 + amount)
      BY DEF TransferMaintenanceFunds
    <2> QED
      BY <1>1, <2>1, UpdateAgrees
  <1>3. PreservationTypeOK'
    BY <1>1, <1>2 DEF TransferMaintenanceFunds, PreservationTypeOK
  <1>4. StatsCoverRecords' /\ IsFiniteSet(DOMAIN preservation_records')
    BY <1>1 DEF TransferMaintenanceFunds, StatsCoverRecords, RecordsWith, CountInv
  <1> QED
    BY <1>2, <1>3, <1>4 DEF ManagerInv

\* A record's name is no wallet's, so the status filed under it is nobody's.
LEMMA FreezeStep ==
  ASSUME PreservationInv, NEW name \in Wallets \cup DOMAIN preservation_records,
         FreezeWallet(name)
  PROVE  ManagerInv'
  <1>1. /\ PreservationTypeOK /\ MonitorAgrees /\ CountInv /\ now \in Nat
        /\ name \in Wallets \cup RecordIds
        /\ "EMERGENCY_FROZEN" \in PreservationStatus
    BY DEF PreservationInv, StackTypeOK, PreservationTypeOK, PreservationStatus
  <1> DEFINE id == IF name \in DOMAIN preservation_records THEN name ELSE FreshRecordId
             r  == [wallet |-> name, status |-> "EMERGENCY_FROZEN", balance |-> 0]
  <1>2. /\ preservation_records' \in [DOMAIN preservation_records' -> PreservationRecord]
        /\ DOMAIN preservation_records' \subseteq RecordIds
        /\ IsFiniteSet(DOMAIN preservation_records')
        /\ \A status : RecordsWith(status)' =
             IF "EMERGENCY_FROZEN" = status THEN RecordsWith(status) \cup {id}
             ELSE RecordsWith(status) \ {id}
    <2>1. CASE name \in DOMAIN preservation_records
      <3>1. preservation_records' = [preservation_records EXCEPT ![name].status = "EMERGENCY_FROZEN"]
        BY <2>1 DEF FreezeWallet, FrozenRecords
      <3>2. /\ preservation_records' \in [DOMAIN preservation_records -> PreservationRecord]
            /\ DOMAIN preservation_records' = DOMAIN preservation_records
            /\ \A status : RecordsWith(status)' =
                 IF "EMERGENCY_FROZEN" = status THEN RecordsWith(status) \cup {name}
                 ELSE RecordsWith(status) \ {name}
        BY <1>1, <2>1, <3>1, RecordMarked
      <3> QED
        BY <1>1, <2>1, <3>2 DEF PreservationTypeOK, CountInv
    <2>2. CASE name \notin DOMAIN preservation_records
      <3>1. preservation_records' = Put(preservation_records, FreshRecordId, r)
        BY <2>2 DEF FreezeWallet, FrozenRecords
      <3>2. /\ FreshRecordId \in RecordIds
            /\ r \in PreservationRecord
            /\ r.status = "EMERGENCY_FROZEN"
        BY <1>1, <2>2 DEF FreshRecordId, RecordIds, PreservationRecord
      <3> HIDE DEF r
      <3>3. /\ preservation_records' \in [DOMAIN preservation_records' -> PreservationRecord]
            /\ DOMAIN preservation_records' \subseteq RecordIds
        BY <1>1, <3>1, <3>2, FiledType
      <3>4. IsFiniteSet(DOMAIN preservation_records')
        BY <1>1, <3>1, RecordFiled, FiledFinite
      <3>5. \A status : RecordsWith(status)' =
               IF "EMERGENCY_FROZEN" = status THEN RecordsWith(status) \cup {FreshRecordId}
               ELSE RecordsWith(status) \ {FreshRecordId}
        <4>1. \A status : RecordsWith(status)' =
                 IF r.status = status THEN RecordsWith(status) \cup {FreshRecordId}
                 ELSE RecordsWith(status) \ {FreshRecordId}
          BY <3>1, RecordFiled
        <4> QED
          BY <3>2, <4>1
      <3> QED
        BY <2>2, <3>3, <3>4, <3>5
    <2> QED
      BY <2>1, <2>2
  <1>3. /\ wallet_snapshots' = wallet_snapshots
        /\ wallet_statuses' \in [DOMAIN wallet_statuses' -> PreservationStatus]
        /\ DOMAIN wallet_statuses' \subseteq Wallets \cup RecordIds
        /\ MonitorAgrees'
    <2>1. SetWalletStatus(name, "EMERGENCY_FROZEN")
      BY DEF FreezeWallet
    <2> QED
      BY <1>1, <2>1, SetAgrees
  <1> HIDE DEF id, r
  <1>4. PreservationTypeOK'
    BY <1>1, <1>2, <1>3 DEF FreezeWallet, PreservationTypeOK
  <1>5. StatsCoverRecords'
    <2> DEFINE new == "EMERGENCY_FROZEN"
    <2>1. /\ {total_preservations', total_restorations', total_frozen'} \subseteq Nat
          /\ total_preservations' >= total_preservations + (IF new = "PRESERVED" THEN 1 ELSE 0)
          /\ total_restorations' >= total_restorations + (IF new = "RECOVERED" THEN 1 ELSE 0)
          /\ total_frozen' >= total_frozen + (IF new = "EMERGENCY_FROZEN" THEN 1 ELSE 0)
      BY <1>1 DEF FreezeWallet, PreservationTypeOK
    <2>2. \A status : RecordsWith(status)' = IF new = status THEN RecordsWith(status) \cup {id}
                                             ELSE RecordsWith(status) \ {id}
      BY <1>2
    <2> QED
      BY <2>1, <2>2, StatsKept
  <1> QED
    BY <1>2, <1>3, <1>4, <1>5 DEF ManagerInv

LEMMA UnfreezeStep ==
  ASSUME PreservationInv, NEW name \in DOMAIN preservation_records, UnfreezeWallet(name)
  PROVE  ManagerInv'
  <1> DEFINE new == "ACTIVE"
  <1>1. /\ PreservationTypeOK /\ MonitorAgrees /\ CountInv
        /\ name \in RecordIds
        /\ new \in PreservationStatus
    BY DEF PreservationInv, StackTypeOK, PreservationTypeOK, PreservationStatus
  <1>2. /\ preservation_records' \in [DOMAIN preservation_records -> PreservationRecord]
        /\ DOMAIN preservation_records' = DOMAIN preservation_records
        /\ \A status : RecordsWith(status)' = IF new = status THEN RecordsWith(status) \cup {name}
                                               ELSE RecordsWith(status) \ {name}
    <2>1. preservation_records' = [preservation_records EXCEPT ![name].status = "ACTIVE"]
      BY DEF UnfreezeWallet
    <2> QED
      BY <1>1, <2>1, RecordMarked
  <1>3. /\ wallet_snapshots' = wallet_snapshots
        /\ wallet_statuses' \in [DOMAIN wallet_statuses' -> PreservationStatus]
        /\ DOMAIN wallet_statuses' \subseteq Wallets \cup RecordIds
        /\ MonitorAgrees'
    <2>1. SetWalletStatus(name, "ACTIVE")
      BY DEF UnfreezeWallet
    <2> QED
      BY <1>1, <2>1, SetAgrees
  <1>4. PreservationTypeOK' /\ IsFiniteSet(DOMAIN preservation_records')
    BY <1>1, <1>2, <1>3 DEF UnfreezeWallet, PreservationTypeOK, CountInv
  <1>5. StatsCoverRecords'
    <2>1. /\ {total_preservations', total_restorations', total_frozen'} \subseteq Nat
          /\ total_preservations' >= total_preservations + (IF new = "PRESERVED" THEN 1 ELSE 0)
          /\ total_restorations' >= total_restorations + (IF new = "RECOVERED" THEN 1 ELSE 0)
          /\ total_frozen' >= total_frozen + (IF new = "EMERGENCY_FROZEN" THEN 1 ELSE 0)
      BY <1>1 DEF UnfreezeWallet, PreservationTypeOK
    <2> QED
      BY <1>2, <2>1, StatsKept
  <1> QED
    BY <1>3, <1>4, <1>5 DEF ManagerInv

LEMMA ReviewStep ==
  ASSUME PreservationInv, NEW w \in Wallets, RequestGovernanceReview(w)
  PROVE  ManagerInv'
  <1> DEFINE new == "GOVERNANCE_LOCKED"
             id  == [kind |-> "gov_review", at |-> now]
             r   == [wallet |-> w, status |-> new, balance |-> 0]
  <1>1. /\ PreservationTypeOK /\ MonitorAgrees /\ CountInv /\ now \in Nat
    BY DEF PreservationInv, StackTypeOK
  <1>2. id \in RecordIds /\ r \in PreservationRecord /\ r.status = new
    BY <1>1 DEF RecordIds, PreservationRecord, PreservationStatus
  <1>3. preservation_records' = Put(preservation_records, id, r)
    BY DEF RequestGovernanceReview
  <1> HIDE DEF id, r
  <1>4. /\ preservation_records' \in [DOMAIN preservation_records' -> PreservationRecord]
        /\ DOMAIN preservation_records' \subseteq RecordIds
    BY <1>1, <1>2, <1>3, FiledType
  <1>5. PreservationTypeOK' /\ MonitorAgrees'
    BY <1>1, <1>4 DEF RequestGovernanceReview, monitorVars, PreservationTypeOK, MonitorAgrees,
                      GetWalletStatus
  <1>6. IsFiniteSet(DOMAIN preservation_records')
    BY <1>1, <1>3, RecordFiled, FiledFinite
  <1>7. StatsCoverRecords'
    <2>1. \A status : RecordsWith(status)' = IF new = status THEN RecordsWith(status) \cup {id}
                                             ELSE RecordsWith(status) \ {id}
      <3>1. \A status : RecordsWith(status)' = IF r.status = status THEN RecordsWith(status) \cup {id}
                                               ELSE RecordsWith(status) \ {id}
        BY <1>3, RecordFiled
      <3> QED
        BY <1>2, <3>1
    <2>2. /\ {total_preservations', total_restorations', total_frozen'} \subseteq Nat
          /\ total_preservations' >= total_preservations + (IF new = "PRESERVED" THEN 1 ELSE 0)
          /\ total_restorations' >= total_restorations + (IF new = "RECOVERED" THEN 1 ELSE 0)
          /\ total_frozen' >= total_frozen + (IF new = "EMERGENCY_FROZEN" THEN 1 ELSE 0)
      BY <1>1 DEF RequestGovernanceReview, PreservationTypeOK
    <2> QED
      BY <2>1, <2>2, StatsKept
  <1> QED
    BY <1>5, <1>6, <1>7 DEF ManagerInv

LEMMA ManagerStep ==
  ASSUME PreservationInv, ManagerNext
  PROVE  /\ ManagerInv'
         /\ total_preservations' <= total_preservations + 1
  <1>1. total_preservations \in Nat
    BY DEF PreservationInv, StackTypeOK, PreservationTypeOK
  <1>2. ASSUME NEW w \in Wallets, NEW balance \in Balances, PreserveWallet(w, balance)
        PROVE  ManagerInv' /\ total_preservations' <= total_preservations + 1
    BY <1>1, <1>2, PreserveStep DEF PreserveWallet
  <1>3. ASSUME NEW id \in DOMAIN preservation_records, RestoreWallet(id)
        PROVE  ManagerInv' /\ total_preservations' <= total_preservations + 1
    <2>1. ManagerInv'
      BY <1>3, RestoreStep
    <2>2. total_preservations' <= total_preservations + 1
      BY <1>1, <1>3 DEF RestoreWallet
    <2> QED
      BY <2>1, <2>2
  <1>4. ASSUME NEW w \in Wallets, NEW amount \in TransferAmounts,
               TransferMaintenanceFunds(w, amount)
        PROVE  ManagerInv' /\ total_preservations' <= total_preservations + 1
    BY <1>1, <1>4, TransferStep DEF TransferMaintenanceFunds
  <1>5. ASSUME NEW name \in Wallets \cup DOMAIN preservation_records, FreezeWallet(name)
        PROVE  ManagerInv' /\ total_preservations' <= total_preservations + 1
    BY <1>1, <1>5, FreezeStep DEF FreezeWallet
  <1>6. ASSUME NEW name \in DOMAIN preservation_records, UnfreezeWallet(name)
        PROVE  ManagerInv' /\ total_preservations' <= total_preservations + 1
    <2>1. ManagerInv'
      BY <1>6, UnfreezeStep
    <2>2. total_preservations' <= total_preservations + 1
      BY <1>1, <1>6 DEF UnfreezeWallet
    <2> QED
      BY <2>1, <2>2
  <1>7. ASSUME NEW w \in Wallets, RequestGovernanceReview(w)
        PROVE  ManagerInv' /\ total_preservations' <= total_preservations + 1
    BY <1>1, <1>7, ReviewStep DEF RequestGovernanceReview
  <1> QED
    BY <1>2, <1>3, <1>4, <1>5, <1>6, <1>7 DEF ManagerNext

-----------------------------------------------------------------------------
\* The part of the two tables of requests.
RecoveryInv == RecoveryTypeOK /\ RequestAgeInv /\ StampsFollowRequests

\* Requests keep their types and their stamps.  A field set in one of the two
\* tables leaves the other fields of that request as they were.
LEMMA RecoveryStep ==
  ASSUME PreservationInv, RecoveryNext, UNCHANGED now
  PROVE  RecoveryInv'
  <1>1. /\ RecoveryTypeOK /\ RequestAgeInv /\ StampsFollowRequests
        /\ now \in Times /\ now' = now /\ now \in Nat
    BY DEF PreservationInv, StackTypeOK, Times
  <1>2. ASSUME NEW record \in RecoverableIds, InitiateRecovery(record)
        PROVE  RecoveryInv'
    <2>1. PICK garbage \in Times :
            recovery_requests' = Put(recovery_requests, now,
              [record |-> record, status |-> "pending",
               initiated_at |-> now, completed_at |-> garbage])
      BY <1>2 DEF InitiateRecovery
    <2>2. approval_requests' = approval_requests
      BY <1>2 DEF InitiateRecovery
    <2>3. RecoveryTypeOK'
      BY <1>1, <2>1, <2>2 DEF RecoveryTypeOK, RecoveryStatus, Put
    <2>4. RequestAgeInv' /\ StampsFollowRequests'
      BY <1>1, <2>1, <2>2 DEF RequestAgeInv, StampsFollowRequests, Put
    <2> QED
      BY <2>3, <2>4 DEF RecoveryInv
  <1>3. ASSUME NEW r \in DOMAIN recovery_requests, NEW status \in {"verified", "completed"},
               recovery_requests' = [recovery_requests EXCEPT
                  ![r].status = status, ![r].completed_at = now],
               approval_requests' = approval_requests
        PROVE  RecoveryInv'
    <2>1. recovery_requests[r] \in RecoveryStatus
      BY <1>1 DEF RecoveryTypeOK
    <2>2. /\ recovery_requests'[r] \in RecoveryStatus
          /\ recovery_requests'[r].initiated_at = recovery_requests[r].initiated_at
          /\ recovery_requests'[r].completed_at = now
          /\ DOMAIN recovery_requests' = DOMAIN recovery_requests
          /\ \A x \in DOMAIN recovery_requests \ {r} : recovery_requests'[x] = recovery_requests[x]
      BY <1>1, <1>3, <2>1 DEF RecoveryStatus
    <2>3. recovery_requests' \in [DOMAIN recovery_requests -> RecoveryStatus]
      BY <1>1, <1>3, <2>2 DEF RecoveryTypeOK
    <2>4. RecoveryTypeOK'
      BY <1>1, <1>3, <2>2, <2>3 DEF RecoveryTypeOK
    <2>5. recovery_requests[r].initiated_at \in Nat /\ recovery_requests[r].initiated_at <= now
      BY <1>1, <2>1 DEF RequestAgeInv, RecoveryStatus, Times
    <2>6. RequestAgeInv'
      BY <1>1, <1>3, <2>2, <2>5 DEF RequestAgeInv
    <2>7. StampsFollowRequests'
      BY <1>1, <1>3, <2>2, <2>5 DEF StampsFollowRequests
    <2> QED
      BY <2>4, <2>6, <2>7 DEF RecoveryInv
  <1>4. ASSUME NEW r \in DOMAIN recovery_requests,
               VerifyRecoveryRequest(r) \/ CompleteRecovery(r)
        PROVE  RecoveryInv'
    BY <1>3, <1>4 DEF VerifyRecoveryRequest, CompleteRecovery
  <1>5. ASSUME NEW w \in GovernedWallets, NEW action \in PreservationAction,
               RequestApproval(w, action)
        PROVE  RecoveryInv'
    <2>1. PICK garbage \in Times :
            approval_requests' = Put(approval_requests, now,
              [wallet |-> w, action |-> action, status |-> "pending",
               requested_at |-> now, decided_at |-> garbage])
      BY <1>5 DEF RequestApproval
    <2>2. recovery_requests' = recovery_requests
      BY <1>5 DEF RequestApproval
    <2>3. RecoveryTypeOK'
      BY <1>1, <2>1, <2>2 DEF RecoveryTypeOK, ApprovalStatus, Put
    <2>4. RequestAgeInv' /\ StampsFollowRequests'
      BY <1>1, <2>1, <2>2 DEF RequestAgeInv, StampsFollowRequests, Put
    <2> QED
      BY <2>3, <2>4 DEF RecoveryInv
  <1>6. ASSUME NEW r \in DOMAIN approval_requests, NEW approved \in BOOLEAN,
               SubmitDecision(r, approved)
        PROVE  RecoveryInv'
    <2>1. approval_requests[r] \in ApprovalStatus
      BY <1>1 DEF RecoveryTypeOK
    <2>2. PICK status \in {"approved", "rejected"} :
            approval_requests' = [approval_requests EXCEPT
               ![r].status = status, ![r].decided_at = now]
      BY <1>6 DEF SubmitDecision
    <2>3. recovery_requests' = recovery_requests
      BY <1>6 DEF SubmitDecision
    <2>4. /\ approval_requests'[r] \in ApprovalStatus
          /\ approval_requests'[r].requested_at = approval_requests[r].requested_at
          /\ approval_requests'[r].decided_at = now
          /\ DOMAIN approval_requests' = DOMAIN approval_requests
          /\ \A x \in DOMAIN approval_requests \ {r} : approval_requests'[x] = approval_requests[x]
      BY <1>1, <2>1, <2>2 DEF ApprovalStatus
    <2>5. approval_requests' \in [DOMAIN approval_requests -> ApprovalStatus]
      BY <1>1, <2>2, <2>4 DEF RecoveryTypeOK
    <2>6. RecoveryTypeOK'
      BY <1>1, <2>3, <2>4, <2>5 DEF RecoveryTypeOK
    <2>7. approval_requests[r].requested_at \in Nat /\ approval_requests[r].requested_at <= now
      BY <1>1, <2>1 DEF RequestAgeInv, ApprovalStatus, Times
    <2>8. RequestAgeInv' /\ StampsFollowRequests'
      BY <1>1, <2>3, <2>4, <2>7 DEF RequestAgeInv, StampsFollowRequests
    <2> QED
      BY <2>6, <2>8 DEF RecoveryInv
  <1> QED
    BY <1>2, <1>4, <1>5, <1>6 DEF RecoveryNext

-----------------------------------------------------------------------------
\* The services start in the invariant.
LEMMA PreservationInitInv == StackInit => PreservationInv
  <1> SUFFICES ASSUME StackInit PROVE PreservationInv
    OBVIOUS
  <1> USE DEF StackInit, PreservationInit, MonitorInit, RecoveryInit, ClockInit, EmptyTable
  <1>1. StackTypeOK /\ now \in Times
    BY DEF StackTypeOK, PreservationTypeOK, RecoveryTypeOK, Times
  <1>2. MonitorAgrees
    BY DEF MonitorAgrees, GetWalletStatus
  <1>3. CountInv
    <2>1. DOMAIN preservation_records = {}
      OBVIOUS
    <2> QED
      BY <2>1, FS_EmptySet DEF CountInv
  <1>4. StatsCoverRecords
    <2>1. \A status : RecordsWith(status) = {}
      BY DEF RecordsWith
    <2>2. Cardinality({}) = 0
      BY FS_EmptySet
    <2>3. \A status : Cardinality(RecordsWith(status)) = 0
      BY <2>1, <2>2
    <2> QED
      BY <2>3 DEF StatsCoverRecords
  <1>5. RequestAgeInv /\ StampsFollowRequests
    BY DEF RequestAgeInv, StampsFollowRequests
  <1> QED
    BY <1>1, <1>2, <1>3, <1>4, <1>5 DEF PreservationInv

\* Every step keeps it.
LEMMA PreservationStepInv == PreservationInv /\ [StackNext]_stackVars => PreservationInv'
  <1> SUFFICES ASSUME PreservationInv, [StackNext]_stackVars PROVE PreservationInv'
    OBVIOUS
  <1>1. CASE Call /\ ManagerNext /\ UNCHANGED recoveryVars
    <2>1. /\ ManagerInv'
          /\ total_preservations' <= total_preservations + 1
      BY <1>1, ManagerStep
    <2>2. /\ calls' = calls + 1 /\ calls < MaxCalls /\ now' = now
          /\ recovery_requests' = recovery_requests
          /\ approval_requests' = approval_requests
      BY <1>1 DEF Call, recoveryVars
    <2>3. total_preservations \in Nat /\ total_preservations' \in Nat /\ calls \in Nat
      BY <2>1 DEF ManagerInv, PreservationInv, StackTypeOK, PreservationTypeOK
    <2>4. CountInv'
      BY <2>1, <2>2, <2>3 DEF CountInv, ManagerInv, PreservationInv
    <2>5. RecoveryTypeOK' /\ RequestAgeInv' /\ StampsFollowRequests'
      BY <2>2 DEF PreservationInv, StackTypeOK, RecoveryTypeOK, RequestAgeInv, StampsFollowRequests
    <2>6. now' \in Times /\ now' \in Nat /\ calls' \in Nat
      BY <2>2, <2>3 DEF PreservationInv, StackTypeOK
    <2> QED
      BY <2>1, <2>4, <2>5, <2>6 DEF PreservationInv, ManagerInv, StackTypeOK
  <1>2. CASE Call /\ RecoveryNext /\ UNCHANGED walletVars
    <2>1. calls' = calls + 1 /\ calls < MaxCalls /\ now' = now
      BY <1>2 DEF Call
    <2>2. RecoveryInv'
      BY <1>2, <2>1, RecoveryStep
    <2>3. calls \in Nat /\ total_preservations \in Nat
      BY DEF PreservationInv, StackTypeOK, PreservationTypeOK
    <2>4. PreservationTypeOK' /\ MonitorAgrees' /\ StatsCoverRecords'
      BY <1>2 DEF PreservationInv, StackTypeOK, walletVars, managerVars, monitorVars,
                  PreservationTypeOK, MonitorAgrees, GetWalletStatus, StatsCoverRecords, RecordsWith
    <2>5. CountInv'
      BY <1>2, <2>1, <2>3 DEF PreservationInv, CountInv, walletVars, managerVars
    <2>6. now' \in Times /\ now' \in Nat /\ calls' \in Nat
      BY <2>1, <2>3 DEF PreservationInv, StackTypeOK
    <2> QED
      BY <2>2, <2>4, <2>5, <2>6 DEF PreservationInv, RecoveryInv, StackTypeOK
  <1>3. CASE (Tick \/ UNCHANGED now) /\ UNCHANGED <<walletVars, recoveryVars, calls>>
    <2>1. /\ now \in Nat /\ now \in Times /\ now' \in Times /\ now <= now'
      BY <1>3 DEF Tick, PreservationInv, StackTypeOK, Times
    <2>2. PreservationTypeOK' /\ MonitorAgrees' /\ StatsCoverRecords' /\ CountInv'
      BY <1>3 DEF PreservationInv, StackTypeOK, walletVars, managerVars, monitorVars, CountInv,
                  PreservationTypeOK, MonitorAgrees, GetWalletStatus, StatsCoverRecords, RecordsWith
    <2>3. RecoveryTypeOK' /\ calls' \in Nat /\ now' \in Nat
      BY <1>3, <2>1 DEF PreservationInv, StackTypeOK, RecoveryTypeOK, recoveryVars, Times
    <2>4. /\ recovery_requests' = recovery_requests
          /\ approval_requests' = approval_requests
          /\ \A r \in DOMAIN recovery_requests : recovery_requests[r] \in RecoveryStatus
          /\ \A r \in DOMAIN approval_requests : approval_requests[r] \in ApprovalStatus
      BY <1>3 DEF recoveryVars, PreservationInv, StackTypeOK, RecoveryTypeOK
    <2>5. RequestAgeInv'
      BY <2>1, <2>4 DEF PreservationInv, RequestAgeInv, RecoveryStatus, ApprovalStatus, Times
    <2>6. StampsFollowRequests'
      BY <2>1, <2>4 DEF PreservationInv, StampsFollowRequests, RecoveryStatus, ApprovalStatus, Times
    <2> QED
      BY <2>1, <2>2, <2>3, <2>5, <2>6 DEF PreservationInv, StackTypeOK
  <1> QED
    BY <1>1, <1>2, <1>3 DEF StackNext, Call, stackVars

\* The services' inductive invariant: types, agreement of the monitor's tables,
\* the counts of records and calls, the ages and stamps of requests.
THEOREM PreservationInvariant == StackSpec => []PreservationInv
  BY PreservationInitInv, PreservationStepInv, PTL DEF StackSpec

\* Type correctness of the three services.
THEOREM PreservationTypeCorrect == StackSpec => []StackTypeOK
  <1>1. PreservationInv => StackTypeOK
    BY DEF PreservationInv
  <1> QED
    BY <1>1, PreservationInvariant, PTL

\* A wallet that is not frozen has the status its last recorded balance calls
\* for, whichever calls wrote the two tables.
THEOREM PreservationMonitorAgrees == StackSpec => []MonitorAgrees
  <1>1. PreservationInv => MonitorAgrees
    BY DEF PreservationInv
  <1> QED
    BY <1>1, PreservationInvariant, PTL

\* The statistics are never below what the records show.
THEOREM PreservationStatsCover == StackSpec => []StatsCoverRecords
  <1>1. PreservationInv => StatsCoverRecords
    BY DEF PreservationInv
  <1> QED
    BY <1>1, PreservationInvariant, PTL

\* No request that was verified, completed or decided shows the value it was
\* constructed with as its last timestamp.
THEOREM PreservationStamps == StackSpec => []StampsFollowRequests
  <1>1. PreservationInv => StampsFollowRequests
    BY DEF PreservationInv
  <1> QED
    BY <1>1, PreservationInvariant, PTL

-----------------------------------------------------------------------------
\* The drift is the same when one archive is counted and one record more is
\* archived, and when one less is.
LEMMA DriftKept ==
  ASSUME NEW a \in Nat, NEW c \in Nat, c <= Word
  PROVE  /\ Minus(a + 1, c + 1) = Minus(a, c)
         /\ c > 0 => Minus(Minus(a, 1), c - 1) = Minus(a, c)
  <1>1. Minus(a + 1, c + 1) = Minus(a, c)
    BY DEF Minus
  <1>2. CASE c > 0 /\ a >= 1
    <2>1. Minus(a, 1) = a - 1
      BY <1>2 DEF Minus
    <2> QED
      BY <1>1, <1>2, <2>1 DEF Minus
  <1>3. CASE c > 0 /\ a = 0
    <2>1. Minus(a, 1) = Word - 1
      BY <1>3 DEF Minus
    <2> QED
      BY <1>1, <1>3, <2>1 DEF Minus
  <1> QED
    BY <1>1, <1>2, <1>3

\* What a step may do to the drift.
DriftStep ==
    Drift' # Drift =>
        \/ /\ total_preservations' + total_restorations' > total_preservations + total_restorations
           /\ RecordsWith("PRESERVED")' = RecordsWith("PRESERVED")
        \/ /\ UNCHANGED <<total_preservations, total_restorations>>
           /\ RecordsWith("PRESERVED")' \subseteq RecordsWith("PRESERVED")

LEMMA DriftOfManager ==
  ASSUME PreservationInv, ManagerNext
  PROVE  DriftStep
  <1> DEFINE P == RecordsWith("PRESERVED")
             Q == RecordsWith("PRESERVED")'
             c == Cardinality(P)
  <1>1. /\ PreservationTypeOK
        /\ {total_preservations, total_restorations, active_preservations} \subseteq Nat
    BY DEF PreservationInv, StackTypeOK, PreservationTypeOK
  <1>2. IsFiniteSet(P) /\ c \in Nat /\ c <= Word
    <2>1. IsFiniteSet(P) /\ c \in Nat
      BY RecordsFinite DEF PreservationInv, CountInv
    <2>2. c <= total_preservations /\ total_preservations <= calls /\ calls <= MaxCalls
      BY DEF PreservationInv, CountInv, StatsCoverRecords
    <2>3. calls \in Nat /\ MaxCalls \in Nat /\ MaxCalls < Word /\ Word \in Nat
      BY DEF PreservationInv, StackTypeOK
    <2> HIDE DEF P, c
    <2> QED
      BY <1>1, <2>1, <2>2, <2>3
  <1>3. Drift = Minus(active_preservations, c) /\ Drift' = Minus(active_preservations', Cardinality(Q))
    BY DEF Drift
  <1>4. ASSUME NEW w \in Wallets, NEW balance \in Balances, PreserveWallet(w, balance)
        PROVE  DriftStep
    <2> DEFINE r == [wallet |-> w, status |-> "PRESERVED", balance |-> balance]
    <2>1. /\ preservation_records' = Put(preservation_records, FreshRecordId, r)
          /\ total_preservations' = total_preservations + 1
          /\ total_restorations' = total_restorations
          /\ active_preservations' = active_preservations + 1
      BY <1>4 DEF PreserveWallet
    <2>2. Q = P \cup {FreshRecordId}
      <3>1. r.status = "PRESERVED"
        OBVIOUS
      <3>2. Q = IF r.status = "PRESERVED" THEN P \cup {FreshRecordId} ELSE P \ {FreshRecordId}
        BY <2>1, RecordFiled
      <3> QED
        BY <3>1, <3>2
    <2>3. total_preservations' + total_restorations' > total_preservations + total_restorations
      BY <1>1, <2>1
    <2>4. CASE FreshRecordId \in P
      <3>1. Q = P
        BY <2>2, <2>4
      <3> QED
        BY <2>3, <3>1 DEF DriftStep
    <2>5. CASE FreshRecordId \notin P
      <3> HIDE DEF P, Q, c
      <3>1. Cardinality(Q) = Cardinality(P) + 1
        BY <1>2, <2>2, <2>5, OneMore
      <3>2. Drift' = Drift
        BY <1>1, <1>2, <1>3, <2>1, <3>1, DriftKept DEF c
      <3> QED
        BY <3>2 DEF DriftStep
    <2> QED
      BY <2>4, <2>5
  <1>5. ASSUME NEW id \in DOMAIN preservation_records, RestoreWallet(id)
        PROVE  DriftStep
    <2>1. /\ preservation_records' = [preservation_records EXCEPT ![id].status = "RECOVERED"]
          /\ total_preservations' = total_preservations
          /\ total_restorations' = total_restorations + 1
          /\ active_preservations' = Minus(active_preservations, 1)
      BY <1>5 DEF RestoreWallet
    <2>2. Q = P \ {id}
      BY <1>1, <2>1, RecordMarked DEF PreservationStatus
    <2>3. total_preservations' + total_restorations' > total_preservations + total_restorations
      BY <1>1, <2>1
    <2>4. CASE id \notin P
      <3>1. Q = P
        BY <2>2, <2>4
      <3> QED
        BY <2>3, <3>1 DEF DriftStep
    <2>5. CASE id \in P
      <3> HIDE DEF P, Q, c
      <3>1. Cardinality(Q) = Cardinality(P) - 1 /\ Cardinality(Q) \in Nat
        BY <1>2, <2>2, <2>5, OneMore
      <3>2. Drift' = Drift
        BY <1>1, <1>2, <1>3, <2>1, <3>1, DriftKept DEF c
      <3> QED
        BY <3>2 DEF DriftStep
    <2> QED
      BY <2>4, <2>5
  <1>6. ASSUME UNCHANGED <<total_preservations, total_restorations>>, Q \subseteq P
        PROVE  DriftStep
    BY <1>6 DEF DriftStep
  <1>7. ASSUME NEW w \in Wallets, NEW amount \in TransferAmounts,
               TransferMaintenanceFunds(w, amount)
        PROVE  DriftStep
    BY <1>6, <1>7 DEF TransferMaintenanceFunds, RecordsWith
  <1>8. ASSUME NEW name \in Wallets \cup DOMAIN preservation_records, FreezeWallet(name)
        PROVE  DriftStep
    <2>1. UNCHANGED <<total_preservations, total_restorations>>
      BY <1>8 DEF FreezeWallet
    <2>2. Q \subseteq P
      BY <1>8 DEF FreezeWallet, FrozenRecords, RecordsWith, Put
    <2> QED
      BY <1>6, <2>1, <2>2
  <1>9. ASSUME NEW name \in DOMAIN preservation_records, UnfreezeWallet(name)
        PROVE  DriftStep
    <2>1. /\ UNCHANGED <<total_preservations, total_restorations>>
          /\ preservation_records' = [preservation_records EXCEPT ![name].status = "ACTIVE"]
      BY <1>9 DEF UnfreezeWallet
    <2>2. Q = P \ {name}
      BY <1>1, <2>1, RecordMarked DEF PreservationStatus
    <2> QED
      BY <1>6, <2>1, <2>2
  <1>10. ASSUME NEW w \in Wallets, RequestGovernanceReview(w)
         PROVE  DriftStep
    <2>1. UNCHANGED <<total_preservations, total_restorations>>
      BY <1>10 DEF RequestGovernanceReview
    <2>2. Q \subseteq P
      BY <1>10 DEF RequestGovernanceReview, RecordsWith, Put
    <2> QED
      BY <1>6, <2>1, <2>2
  <1> QED
    BY <1>4, <1>5, <1>7, <1>8, <1>9, <1>10 DEF ManagerNext

\* active_preservations and the archived records part in the stated ways only.
THEOREM PreservationDrift == StackSpec => DriftOnlyByReuse
  <1>1. ASSUME PreservationInv, [StackNext]_stackVars
        PROVE  [DriftStep]_walletVars
    <2>1. CASE ManagerNext
      BY <1>1, <2>1, DriftOfManager
    <2>2. CASE UNCHANGED walletVars
      BY <2>2
    <2> QED
      BY <1>1, <2>1, <2>2 DEF StackNext, Call, stackVars
  <1>2. PreservationInv /\ [StackNext]_stackVars => [DriftStep]_walletVars
    BY <1>1
  <1>3. StackSpec => [][DriftStep]_walletVars
    BY <1>2, PreservationInvariant, PTL DEF StackSpec
  <1> QED
    BY <1>3 DEF DriftOnlyByReuse, DriftStep
=============================================================================
