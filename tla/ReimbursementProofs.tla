------------------------- MODULE ReimbursementProofs -------------------------
(***************************************************************************)
(* Proofs about the two ways gas is given back.  First the stack of        *)
(* GasReimbursement and GasPool: the statistics, the amounts, and what the *)
(* pools reserve.  Then ReceiverPaidGas, for any number of callers,        *)
(* updaters, receipts and prices: types, the two locks, the prices of a    *)
(* quote, how often a receipt can be paid, and how far the daily cap can   *)
(* be overrun.                                                             *)
(***************************************************************************)
EXTENDS ReimbursementStack, ReceiverPaidGas, SumTheorems, TLAPS

-----------------------------------------------------------------------------
\* GasReimbursement and GasPool: what was approved is counted, no record shows
\* more than its gas, and what a pool reserves is held by somebody.

\* The parts of the three sums, one function each.
ApprovedAmounts == [id \in WithStatus("approved") |-> records[id].total_amount]
HeldAmounts(p)  == [id \in HeldOf(p) |-> held[id].amount]

\* The inductive invariant: the tables are those of finitely many calls.
StackInv == /\ StackTypeOK
            /\ IsFiniteSet(DOMAIN records) /\ IsFiniteSet(DOMAIN held)
            /\ ReimbursedCoversApproved
            /\ AmountWithinGas
            /\ ReservedIsHeld

\* A rate of at most all of the cost yields at most the cost, wrapped or not.
LEMMA AmountForBounded ==
  ASSUME NEW cost \in Nat
  PROVE  AmountFor(cost) \in Nat /\ AmountFor(cost) <= cost
  <1> DEFINE product == cost * RateBps
             kept    == product % Word
             base    == kept \div FullRate
  <1> USE ReimbursementAssumption, WordAssumption
  <1>1. product \in Nat /\ product <= cost * FullRate
    <2>1. \A a \in Nat, b \in Nat, c \in Nat : b <= c => a * b \in Nat /\ a * b <= a * c
      OBVIOUS
    <2> QED
      BY <2>1
  <1>2. kept \in Nat /\ kept <= product
    <2>1. \A a \in Nat, w \in Nat \ {0} : a % w \in Nat /\ a % w <= a
      OBVIOUS
    <2> HIDE DEF product
    <2> QED
      BY <1>1, <2>1
  <1>3. base \in Nat /\ base <= cost
    <2>1. \A a \in Nat, b \in Nat, d \in Nat \ {0} : a <= b * d => a \div d \in Nat /\ a \div d <= b
      OBVIOUS
    <2>2. cost * FullRate \in Nat
      OBVIOUS
    <2>3. kept <= cost * FullRate
      <3> HIDE DEF kept, product
      <3> QED
        BY <1>1, <1>2, <2>2
    <2> HIDE DEF kept
    <2> QED
      BY <1>2, <2>1, <2>3
  <1>4. CalculateBonus(cost, TRUE) = 0
    BY DEF CalculateBonus
  <1>5. CalculateReimbursement(cost, TRUE) = Least(base, MaxReimbursementPerTx)
    BY DEF CalculateReimbursement
  <1> HIDE DEF base
  <1>6. /\ Least(base, MaxReimbursementPerTx) \in Nat
        /\ Least(base, MaxReimbursementPerTx) <= cost
    BY <1>3 DEF Least
  <1>7. AmountFor(cost) = Least(base, MaxReimbursementPerTx) + 0
    BY <1>4, <1>5 DEF AmountFor
  <1>8. \A n \in Nat : n + 0 = n
    OBVIOUS
  <1> QED
    BY <1>6, <1>7, <1>8

LEMMA StackInitInv == StackInit => StackInv
  <1> SUFFICES ASSUME StackInit PROVE StackInv
    OBVIOUS
  <1> USE DEF StackInit, ReimbursementInit, PoolInit, ClockInit, EmptyTable
  <1>1. StackTypeOK
    BY DEF StackTypeOK, ReimbursementTypeOK, PoolTypeOK
  <1>2. IsFiniteSet(DOMAIN records) /\ IsFiniteSet(DOMAIN held)
    BY FS_EmptySet
  <1>3. AmountWithinGas
    BY DEF AmountWithinGas
  <1>4. ReimbursedCoversApproved
    <2>1. DOMAIN ApprovedAmounts = {} /\ IsFiniteSet({})
      BY FS_EmptySet DEF ApprovedAmounts, WithStatus
    <2>2. SumFunction(ApprovedAmounts) = 0
      BY <2>1, TotalNat
    <2> QED
      BY <2>2 DEF ReimbursedCoversApproved, ApprovedAmounts
  <1>5. ReservedIsHeld
    <2> SUFFICES ASSUME NEW p \in Pools PROVE reserved_amounts[p] = SumFunction(HeldAmounts(p))
      BY DEF ReservedIsHeld, HeldAmounts
    <2>1. DOMAIN HeldAmounts(p) = {} /\ IsFiniteSet({})
      BY FS_EmptySet DEF HeldAmounts, HeldOf
    <2>2. SumFunction(HeldAmounts(p)) = 0
      BY <2>1, TotalNat
    <2> QED
      BY <2>2
  <1> QED
    BY <1>1, <1>2, <1>3, <1>4, <1>5 DEF StackInv

-----------------------------------------------------------------------------
\* The manager.  Its steps leave the pools and what is held of them alone.
ManagerInv == /\ ReimbursementTypeOK
              /\ IsFiniteSet(DOMAIN records)
              /\ ReimbursedCoversApproved
              /\ AmountWithinGas

LEMMA RecordTyped ==
  ASSUME ReimbursementTypeOK, NEW id \in DOMAIN records
  PROVE  /\ records[id] \in ReimbursementRecord
         /\ records[id].wallet \in GasWallets
         /\ records[id].gas_cost \in ReimbursableCosts
         /\ records[id].gas_cost \in Nat
         /\ records[id].total_amount \in Nat
         /\ records[id].status \in Statuses
  <1>1. records[id] \in ReimbursementRecord
    BY DEF ReimbursementTypeOK
  <1> QED
    BY <1>1, ReimbursementAssumption DEF ReimbursementRecord

\* What is approved is summed over a finite set.
LEMMA ApprovedTyped ==
  ASSUME ReimbursementTypeOK, IsFiniteSet(DOMAIN records)
  PROVE  /\ DOMAIN ApprovedAmounts = WithStatus("approved")
         /\ IsFiniteSet(DOMAIN ApprovedAmounts)
         /\ \A id \in DOMAIN ApprovedAmounts : ApprovedAmounts[id] \in Nat
         /\ SumFunction(ApprovedAmounts) \in Nat
  <1>1. DOMAIN ApprovedAmounts = WithStatus("approved")
    BY DEF ApprovedAmounts
  <1>2. IsFiniteSet(WithStatus("approved"))
    BY FS_Subset DEF WithStatus
  <1>3. \A id \in DOMAIN ApprovedAmounts : ApprovedAmounts[id] \in Nat
    BY RecordTyped DEF ApprovedAmounts, WithStatus
  <1> QED
    BY <1>1, <1>2, <1>3, TotalNat

\* A record that is not approved now: the sum can only have lost it.
LEMMA NotApprovedNow ==
  ASSUME ManagerInv, ReimbursementTypeOK', NEW id,
         DOMAIN records' = DOMAIN records \cup {id},
         \A x \in DOMAIN records \ {id} : records'[x] = records[x],
         records'[id].status # "approved",
         records'[id].total_amount <= records'[id].gas_cost,
         total_reimbursed' = total_reimbursed
  PROVE  ManagerInv'
  <1> USE DEF ManagerInv
  <1>1. IsFiniteSet(DOMAIN records')
    BY FS_AddElement
  <1>2. AmountWithinGas'
    BY DEF AmountWithinGas
  <1>3. ReimbursedCoversApproved'
    <2>1. /\ DOMAIN ApprovedAmounts' \subseteq DOMAIN ApprovedAmounts
          /\ \A x \in DOMAIN ApprovedAmounts' : ApprovedAmounts'[x] = ApprovedAmounts[x]
      BY DEF ApprovedAmounts, WithStatus
    <2>2. SumFunction(ApprovedAmounts') <= SumFunction(ApprovedAmounts)
      BY <2>1, ApprovedTyped, TotalMonotone
    <2>3. SumFunction(ApprovedAmounts) <= total_reimbursed /\ total_reimbursed \in Nat
      BY DEF ReimbursedCoversApproved, ApprovedAmounts, ReimbursementTypeOK
    <2>4. SumFunction(ApprovedAmounts') \in Nat
      BY <2>1, ApprovedTyped, FS_Subset, TotalNat
    <2> QED
      BY <2>2, <2>3, <2>4, ApprovedTyped DEF ReimbursedCoversApproved, ApprovedAmounts
  <1> QED
    BY <1>1, <1>2, <1>3

\* submit_request, also under an identifier that is taken.
LEMMA SubmitKeeps ==
  ASSUME ManagerInv, now \in Nat, NEW id \in CallerIds \cup {FreshId}, NEW wallet \in GasWallets,
         NEW cost \in ReimbursableCosts, SubmitRequest(id, wallet, cost)
  PROVE  ManagerInv'
  <1> USE DEF SubmitRequest
  <1>1. NewRecord(id, wallet, cost) \in ReimbursementRecord
    BY DEF NewRecord, ReimbursementRecord, Statuses
  <1>2. /\ DOMAIN records' = DOMAIN records \cup {id}
        /\ records'[id] = NewRecord(id, wallet, cost)
        /\ \A x \in DOMAIN records \ {id} : records'[x] = records[x]
    BY DEF Put
  <1>3. ReimbursementTypeOK'
    <2>1. /\ records' \in [DOMAIN records' -> ReimbursementRecord]
          /\ DOMAIN records' \subseteq CallerIds \cup Nat
      BY <1>1, <1>2 DEF Put, ManagerInv, ReimbursementTypeOK, FreshId
    <2>2. wallet_states' \in [DOMAIN wallet_states' -> Nat]
      <3>1. cost \in Nat /\ PendingOf(wallet) \in Nat
        BY ReimbursementAssumption DEF PendingOf, ManagerInv, ReimbursementTypeOK
      <3>2. (PendingOf(wallet) + cost) % Word \in Nat
        BY <3>1, WordAssumption
      <3> QED
        BY <3>2 DEF Put, ManagerInv, ReimbursementTypeOK
    <2> QED
      BY <2>1, <2>2 DEF ManagerInv, ReimbursementTypeOK
  <1>4. records'[id].status # "approved" /\ records'[id].total_amount <= records'[id].gas_cost
    BY <1>2, ReimbursementAssumption DEF NewRecord
  <1> QED
    BY <1>2, <1>3, <1>4, NotApprovedNow

\* process_request, also of a record that was approved.
LEMMA ProcessKeeps ==
  ASSUME ManagerInv, NEW id \in DOMAIN records, ProcessRequest(id)
  PROVE  ManagerInv'
  <1> USE DEF ProcessRequest
  <1> DEFINE amount == AmountFor(records[id].gas_cost)
             record == [records[id] EXCEPT !.total_amount = amount, !.status = "pending_approval"]
  <1>1. /\ records[id] \in ReimbursementRecord
        /\ amount \in Nat /\ amount <= records[id].gas_cost
    BY RecordTyped, AmountForBounded DEF ManagerInv
  <1> HIDE DEF amount
  <1>2. /\ record \in ReimbursementRecord
        /\ record.status = "pending_approval"
        /\ record.total_amount = amount
        /\ record.gas_cost = records[id].gas_cost
    BY <1>1 DEF ReimbursementRecord, Statuses
  <1>3. records' = [records EXCEPT ![id] = record]
    BY DEF amount
  <1> HIDE DEF record
  <1>4. ReimbursementTypeOK'
    BY <1>2, <1>3 DEF ManagerInv, ReimbursementTypeOK
  <1>5. /\ DOMAIN records' = DOMAIN records \cup {id}
        /\ records'[id] = record
        /\ \A x \in DOMAIN records \ {id} : records'[x] = records[x]
    BY <1>3
  <1> QED
    BY <1>1, <1>2, <1>4, <1>5, NotApprovedNow

\* reject_reimbursement
LEMMA RejectKeeps ==
  ASSUME ManagerInv, NEW id \in DOMAIN records, RejectReimbursement(id)
  PROVE  ManagerInv'
  <1> USE DEF RejectReimbursement
  <1> DEFINE record == [records[id] EXCEPT !.status = "rejected"]
  <1>1. records[id] \in ReimbursementRecord /\ records[id].total_amount <= records[id].gas_cost
    BY RecordTyped DEF ManagerInv, AmountWithinGas
  <1>2. /\ record \in ReimbursementRecord
        /\ record.status = "rejected"
        /\ record.total_amount = records[id].total_amount
        /\ record.gas_cost = records[id].gas_cost
    BY <1>1 DEF ReimbursementRecord, Statuses
  <1>3. records' = [records EXCEPT ![id] = record]
    OBVIOUS
  <1> HIDE DEF record
  <1>4. ReimbursementTypeOK'
    BY <1>2, <1>3 DEF ManagerInv, ReimbursementTypeOK
  <1>5. /\ DOMAIN records' = DOMAIN records \cup {id}
        /\ records'[id] = record
        /\ \A x \in DOMAIN records \ {id} : records'[x] = records[x]
    BY <1>3
  <1> QED
    BY <1>1, <1>2, <1>4, <1>5, NotApprovedNow

\* approve_reimbursement: what it adds to the sum it adds to the statistics.
LEMMA ApproveKeeps ==
  ASSUME ManagerInv, NEW id \in DOMAIN records, ApproveReimbursement(id)
  PROVE  ManagerInv'
  <1> USE DEF ApproveReimbursement
  <1> DEFINE record == [records[id] EXCEPT !.status = "approved"]
  <1>1. /\ records[id] \in ReimbursementRecord
        /\ records[id].total_amount <= records[id].gas_cost
        /\ records[id].total_amount \in Nat
        /\ records[id].status # "approved"
    BY RecordTyped DEF ManagerInv, AmountWithinGas, Open
  <1>2. /\ record \in ReimbursementRecord
        /\ record.status = "approved"
        /\ record.total_amount = records[id].total_amount
        /\ record.gas_cost = records[id].gas_cost
    BY <1>1 DEF ReimbursementRecord, Statuses
  <1>3. records' = [records EXCEPT ![id] = record]
    OBVIOUS
  <1> HIDE DEF record
  <1>4. ReimbursementTypeOK'
    <2>1. total_approved \in Nat /\ total_reimbursed \in Nat
      BY DEF ManagerInv, ReimbursementTypeOK
    <2> QED
      BY <1>1, <1>2, <1>3, <2>1 DEF ManagerInv, ReimbursementTypeOK
  <1>5. AmountWithinGas'
    BY <1>1, <1>2, <1>3 DEF ManagerInv, AmountWithinGas
  <1>6. ReimbursedCoversApproved'
    <2>1. /\ DOMAIN ApprovedAmounts' = DOMAIN ApprovedAmounts \cup {id}
          /\ id \notin DOMAIN ApprovedAmounts
          /\ ApprovedAmounts'[id] = records[id].total_amount
          /\ \A x \in DOMAIN ApprovedAmounts : ApprovedAmounts'[x] = ApprovedAmounts[x]
      BY <1>1, <1>2, <1>3 DEF ApprovedAmounts, WithStatus
    <2>2. SumFunction(ApprovedAmounts') = SumFunction(ApprovedAmounts) + records[id].total_amount
      BY <1>1, <2>1, ApprovedTyped, TotalPut DEF ManagerInv
    <2>3. /\ SumFunction(ApprovedAmounts) <= total_reimbursed
          /\ total_reimbursed \in Nat
          /\ SumFunction(ApprovedAmounts) \in Nat
      BY ApprovedTyped DEF ManagerInv, ReimbursedCoversApproved, ApprovedAmounts, ReimbursementTypeOK
    <2>4. SumFunction(ApprovedAmounts') <= total_reimbursed'
      BY <1>1, <2>2, <2>3
    <2> QED
      BY <2>4 DEF ReimbursedCoversApproved, ApprovedAmounts
  <1> QED
    BY <1>3, <1>4, <1>5, <1>6 DEF ManagerInv

LEMMA ManagerStep ==
  ASSUME ManagerInv, now \in Nat, ReimbursementNext
  PROVE  ManagerInv'
  BY SubmitKeeps, ProcessKeeps, ApproveKeeps, RejectKeeps DEF ReimbursementNext

-----------------------------------------------------------------------------
\* The pools and who holds what of them.  The table of requests is only read.
PoolInv == /\ PoolTypeOK
           /\ held \in [DOMAIN held -> [pool : Pools, amount : Nat]]
           /\ IsFiniteSet(DOMAIN held)
           /\ \A p \in Pools : reserved_amounts[p] = SumFunction(HeldAmounts(p))

LEMMA HeldTyped ==
  ASSUME PoolInv, NEW p \in Pools
  PROVE  /\ DOMAIN HeldAmounts(p) = HeldOf(p)
         /\ IsFiniteSet(DOMAIN HeldAmounts(p))
         /\ \A id \in DOMAIN HeldAmounts(p) : HeldAmounts(p)[id] \in Nat
         /\ SumFunction(HeldAmounts(p)) \in Nat
         /\ \A id \in DOMAIN HeldAmounts(p) : HeldAmounts(p)[id] <= SumFunction(HeldAmounts(p))
  <1>1. DOMAIN HeldAmounts(p) = HeldOf(p)
    BY DEF HeldAmounts
  <1>2. IsFiniteSet(HeldOf(p))
    BY FS_Subset DEF HeldOf, PoolInv
  <1>3. \A id \in DOMAIN held : held[id] \in [pool : Pools, amount : Nat]
    BY DEF PoolInv
  <1>4. \A id \in DOMAIN HeldAmounts(p) : HeldAmounts(p)[id] \in Nat
    BY <1>3 DEF HeldAmounts, HeldOf
  <1> QED
    BY <1>1, <1>2, <1>4, TotalNat

\* A pool gets its balance, or a larger one, whatever is reserved of it.
LEMMA BalanceKeeps ==
  ASSUME PoolInv, PoolTypeOK', UNCHANGED <<reserved_amounts, held>>
  PROVE  PoolInv'
  BY DEF PoolInv, HeldAmounts, HeldOf

LEMMA InitializeKeeps ==
  ASSUME PoolInv, NEW p \in Pools, NEW funds \in PoolFunds, InitializePool(p, funds),
         UNCHANGED held
  PROVE  PoolInv'
  <1>1. PoolTypeOK'
    BY PoolAssumption DEF InitializePool, PoolInv, PoolTypeOK, Put
  <1> QED
    BY <1>1, BalanceKeeps DEF InitializePool

LEMMA TopUpKeeps ==
  ASSUME PoolInv, NEW p \in Pools, NEW amount \in TopUps, UpdatePoolBalance(p, amount),
         UNCHANGED held
  PROVE  PoolInv'
  <1>1. pool_configs[p] + amount \in Nat
    BY PoolAssumption DEF UpdatePoolBalance, PoolInv, PoolTypeOK
  <1>2. PoolTypeOK'
    BY <1>1 DEF UpdatePoolBalance, PoolInv, PoolTypeOK
  <1> QED
    BY <1>2, BalanceKeeps DEF UpdatePoolBalance

\* The caller of an approved request takes hold of what it reserves.
LEMMA ReserveKeeps ==
  ASSUME PoolInv, ReimbursementTypeOK, NEW id \in DOMAIN records, NEW p \in Pools,
         ReserveApproved(id, p)
  PROVE  PoolInv'
  <1> USE DEF ReserveApproved, ReserveFunds
  <1> DEFINE amount == records[id].total_amount
             holding == [pool |-> p, amount |-> amount]
  <1>1. amount \in Nat
    BY RecordTyped
  <1>2. holding \in [pool : Pools, amount : Nat] /\ holding.pool = p /\ holding.amount = amount
    BY <1>1
  <1> HIDE DEF amount
  <1>3. /\ reserved_amounts' = [reserved_amounts EXCEPT ![p] = reserved_amounts[p] + amount]
        /\ held' = Put(held, id, holding) /\ id \notin DOMAIN held
        /\ pool_configs' = pool_configs
    BY DEF amount
  <1> HIDE DEF holding, ReserveApproved
  <1>4. /\ DOMAIN held' = DOMAIN held \cup {id}
        /\ held'[id] = holding
        /\ \A x \in DOMAIN held : held'[x] = held[x]
    BY <1>3 DEF Put
  <1>5. /\ held' \in [DOMAIN held' -> [pool : Pools, amount : Nat]]
        /\ IsFiniteSet(DOMAIN held')
    BY <1>2, <1>3, <1>4, FS_AddElement DEF PoolInv, Put
  <1>6. PoolTypeOK'
    BY <1>1, <1>3 DEF PoolInv, PoolTypeOK
  <1>7. ASSUME NEW q \in Pools PROVE reserved_amounts'[q] = SumFunction(HeldAmounts(q)')
    <2>1. reserved_amounts[q] = SumFunction(HeldAmounts(q)) /\ reserved_amounts \in [Pools -> Nat]
      BY DEF PoolInv, PoolTypeOK
    <2>2. CASE q # p
      <3>1. HeldOf(q)' = HeldOf(q)
        BY <1>2, <1>4, <2>2 DEF HeldOf
      <3>2. HeldAmounts(q)' = HeldAmounts(q)
        BY <1>4, <3>1 DEF HeldAmounts, HeldOf
      <3> QED
        BY <1>3, <2>1, <2>2, <3>2
    <2>3. CASE q = p
      <3>1. HeldOf(p)' = HeldOf(p) \cup {id} /\ id \notin HeldOf(p)
        BY <1>2, <1>3, <1>4 DEF HeldOf
      <3>2. /\ DOMAIN HeldAmounts(p)' = DOMAIN HeldAmounts(p) \cup {id}
            /\ id \notin DOMAIN HeldAmounts(p)
            /\ HeldAmounts(p)'[id] = amount
            /\ \A x \in DOMAIN HeldAmounts(p) : HeldAmounts(p)'[x] = HeldAmounts(p)[x]
        BY <1>2, <1>4, <3>1 DEF HeldAmounts, HeldOf
      <3>3. SumFunction(HeldAmounts(p)') = SumFunction(HeldAmounts(p)) + amount
        BY <1>1, <3>2, HeldTyped, TotalPut
      <3> QED
        BY <1>3, <2>1, <2>3, <3>3
    <2> QED
      BY <2>2, <2>3
  <1> QED
    BY <1>5, <1>6, <1>7 DEF PoolInv

\* A reservation is given back in full: its pool still counts it.
LEMMA ReleaseKeeps ==
  ASSUME PoolInv, NEW id \in DOMAIN held, ReleaseHeld(id)
  PROVE  PoolInv'
  <1> USE DEF ReleaseHeld, ReleaseFunds
  <1> DEFINE p == held[id].pool
             amount == held[id].amount
  <1>1. p \in Pools /\ amount \in Nat
    <2>1. held[id] \in [pool : Pools, amount : Nat]
      BY DEF PoolInv
    <2> QED
      BY <2>1
  <1>2. id \in HeldOf(p) /\ HeldAmounts(p)[id] = amount
    BY DEF HeldOf, HeldAmounts
  <1>3. reserved_amounts[p] = SumFunction(HeldAmounts(p)) /\ reserved_amounts \in [Pools -> Nat]
    BY <1>1 DEF PoolInv, PoolTypeOK
  <1>4. amount <= reserved_amounts[p]
    <2>1. amount <= SumFunction(HeldAmounts(p))
      BY <1>1, <1>2, HeldTyped
    <2> QED
      BY <1>3, <2>1
  <1>5. /\ reserved_amounts' = [reserved_amounts EXCEPT ![p] = reserved_amounts[p] - amount]
        /\ held' = [x \in DOMAIN held \ {id} |-> held[x]]
        /\ pool_configs' = pool_configs
    BY <1>1, <1>3, <1>4
  <1>6. /\ DOMAIN held' = DOMAIN held \ {id}
        /\ \A x \in DOMAIN held' : held'[x] = held[x]
        /\ held' \in [DOMAIN held' -> [pool : Pools, amount : Nat]]
        /\ IsFiniteSet(DOMAIN held')
    BY <1>5, FS_Subset DEF PoolInv
  <1>7. reserved_amounts[p] - amount \in Nat
    BY <1>1, <1>3, <1>4
  <1>8. PoolTypeOK'
    BY <1>5, <1>7 DEF PoolInv, PoolTypeOK
  <1>9. ASSUME NEW q \in Pools PROVE reserved_amounts'[q] = SumFunction(HeldAmounts(q)')
    <2>1. reserved_amounts[q] = SumFunction(HeldAmounts(q))
      BY DEF PoolInv
    <2>2. CASE q # p
      <3>1. HeldOf(q)' = HeldOf(q)
        BY <1>6, <2>2 DEF HeldOf
      <3>2. HeldAmounts(q)' = HeldAmounts(q)
        BY <1>6, <3>1 DEF HeldAmounts, HeldOf
      <3> QED
        BY <1>3, <1>5, <2>1, <2>2, <3>2
    <2>3. CASE q = p
      <3> DEFINE f == HeldAmounts(q)
                 g == HeldAmounts(q)'
      <3>1. HeldOf(q)' = HeldOf(q) \ {id} /\ id \in HeldOf(q)
        BY <1>2, <1>6, <2>3 DEF HeldOf
      <3>2. /\ id \in DOMAIN f
            /\ f[id] = amount
            /\ DOMAIN g = DOMAIN f \ {id}
            /\ \A x \in DOMAIN g : g[x] = f[x]
        BY <1>6, <3>1 DEF HeldAmounts, HeldOf
      <3>3. IsFiniteSet(DOMAIN f) /\ \A x \in DOMAIN f : f[x] \in Nat
        BY HeldTyped
      <3> HIDE DEF f, g
      <3>4. SumFunction(g) = SumFunction(f) - f[id]
        BY <3>2, <3>3, TotalDrop
      <3>5. reserved_amounts'[q] = reserved_amounts[q] - amount
        BY <1>3, <1>5, <2>3
      <3> QED
        BY <2>1, <3>2, <3>4, <3>5 DEF f, g
    <2> QED
      BY <2>2, <2>3
  <1> QED
    BY <1>6, <1>8, <1>9 DEF PoolInv

LEMMA PoolStep ==
  ASSUME PoolInv, ReimbursementTypeOK, PoolNext
  PROVE  PoolInv'
  BY InitializeKeeps, TopUpKeeps, ReserveKeeps, ReleaseKeeps DEF PoolNext

-----------------------------------------------------------------------------
LEMMA StackInParts ==
  /\ StackInv => ManagerInv /\ PoolInv /\ now \in Nat
  /\ ManagerInv' /\ PoolInv' /\ now' \in Nat => StackInv'
  BY DEF StackInv, StackTypeOK, ManagerInv, PoolInv, ReservedIsHeld, HeldAmounts

LEMMA StackStepInv ==
  ASSUME StackInv, [StackNext]_stackVars
  PROVE  StackInv'
  <1>1. ManagerInv /\ PoolInv /\ now \in Nat /\ ReimbursementTypeOK
    BY StackInParts DEF ManagerInv
  <1>2. ASSUME UNCHANGED reimbursementVars PROVE ManagerInv'
    BY <1>1, <1>2 DEF ManagerInv, reimbursementVars, ReimbursementTypeOK, AmountWithinGas,
       ReimbursedCoversApproved, WithStatus
  <1>3. ASSUME UNCHANGED <<gasPoolVars, held>> PROVE PoolInv'
    BY <1>1, <1>3 DEF PoolInv, PoolTypeOK, gasPoolVars, HeldAmounts, HeldOf
  <1>4. CASE ReimbursementNext /\ UNCHANGED <<gasPoolVars, held, now>>
    BY <1>1, <1>3, <1>4, ManagerStep, StackInParts
  <1>5. CASE PoolNext /\ UNCHANGED <<reimbursementVars, now>>
    BY <1>1, <1>2, <1>5, PoolStep, StackInParts
  <1>6. CASE Tick /\ UNCHANGED <<reimbursementVars, gasPoolVars, held>>
    BY <1>1, <1>2, <1>3, <1>6, StackInParts DEF Tick
  <1>7. CASE UNCHANGED stackVars
    BY <1>1, <1>2, <1>3, <1>7, StackInParts DEF stackVars
  <1> QED
    BY <1>4, <1>5, <1>6, <1>7 DEF StackNext

\* The inductive invariant, the types among it.
THEOREM StackInvariant == StackSpec => []StackInv
  BY StackInitInv, StackStepInv, PTL DEF StackSpec

THEOREM StackTypeCorrect == StackSpec => []StackTypeOK
  <1>1. StackInv => StackTypeOK
    BY DEF StackInv
  <1> QED
    BY <1>1, StackInvariant, PTL

\* The statistics cover what the table shows as approved, whatever requests were
\* submitted, processed and approved again.
THEOREM StackReimbursedCovers == StackSpec => []ReimbursedCoversApproved
  <1>1. StackInv => ReimbursedCoversApproved
    BY DEF StackInv
  <1> QED
    BY <1>1, StackInvariant, PTL

\* No record shows more than the gas its request cost, products that wrap included.
THEOREM StackAmountWithinGas == StackSpec => []AmountWithinGas
  <1>1. StackInv => AmountWithinGas
    BY DEF StackInv
  <1> QED
    BY <1>1, StackInvariant, PTL

\* What a pool reserves is what its callers hold.
THEOREM StackReservedIsHeld == StackSpec => []ReservedIsHeld
  <1>1. StackInv => ReservedIsHeld
    BY DEF StackInv
  <1> QED
    BY <1>1, StackInvariant, PTL

\* A pool that becomes overdrawn was initialized with less than it had.
THEOREM StackOverreserves == StackSpec => OnlyShrinkingOverreserves
  <1> DEFINE Shrinks == \A p \in DOMAIN pool_configs :
                 Overreserved(p)' /\ ~Overreserved(p) => pool_configs'[p] < pool_configs[p]
  <1>1. ASSUME StackInv, [StackNext]_stackVars
        PROVE  [Shrinks]_gasPoolVars
    <2>1. SUFFICES ASSUME NEW p \in DOMAIN pool_configs, Overreserved(p)', ~Overreserved(p),
                          ~UNCHANGED gasPoolVars
                   PROVE  pool_configs'[p] < pool_configs[p]
      OBVIOUS
    <2>2. /\ p \in Pools /\ pool_configs[p] \in Nat
          /\ pool_configs \in [DOMAIN pool_configs -> Nat]
          /\ reserved_amounts \in [Pools -> Nat] /\ reserved_amounts[p] \in Nat
          /\ reserved_amounts[p] <= pool_configs[p]
      <3>1. /\ pool_configs \in [DOMAIN pool_configs -> Nat]
            /\ DOMAIN pool_configs \subseteq Pools
            /\ reserved_amounts \in [Pools -> Nat]
        BY <1>1 DEF StackInv, StackTypeOK, PoolTypeOK
      <3>2. /\ p \in Pools
            /\ pool_configs[p] \in Nat /\ reserved_amounts[p] \in Nat
        BY <3>1
      <3>3. ~(pool_configs[p] < reserved_amounts[p])
        BY <2>1 DEF Overreserved
      <3> QED
        BY <3>1, <3>2, <3>3
    <2>3. p \in DOMAIN pool_configs' /\ pool_configs'[p] < reserved_amounts'[p]
      BY <2>1 DEF Overreserved
    <2>4. PoolNext
      BY <1>1, <2>1 DEF StackNext, stackVars
    <2>5. ASSUME NEW q \in Pools, NEW funds \in PoolFunds, InitializePool(q, funds)
          PROVE  pool_configs'[p] < pool_configs[p]
      <3>1. reserved_amounts' = reserved_amounts /\ pool_configs'[p] \in Nat
        BY <2>2, <2>5, PoolAssumption DEF InitializePool, Put
      <3> QED
        BY <2>2, <2>3, <3>1
    <2>6. ASSUME NEW q \in Pools, NEW amount \in TopUps, UpdatePoolBalance(q, amount)
          PROVE  FALSE
      <3>1. reserved_amounts' = reserved_amounts /\ pool_configs'[p] >= pool_configs[p]
            /\ pool_configs'[p] \in Nat
        BY <2>2, <2>6, PoolAssumption DEF UpdatePoolBalance
      <3> QED
        BY <2>2, <2>3, <3>1
    <2>7. ASSUME NEW id \in DOMAIN records, NEW q \in Pools, ReserveApproved(id, q)
          PROVE  FALSE
      <3> DEFINE amount == records[id].total_amount
      <3>1. amount \in Nat
        BY <1>1, RecordTyped DEF StackInv, StackTypeOK
      <3> HIDE DEF amount
      <3>2. /\ pool_configs' = pool_configs
            /\ reserved_amounts' = [reserved_amounts EXCEPT ![q] = reserved_amounts[q] + amount]
            /\ Minus(pool_configs[q], reserved_amounts[q]) >= amount
        BY <2>7 DEF ReserveApproved, ReserveFunds, CheckAvailability, amount
      <3>3. CASE q # p
        BY <2>2, <2>3, <3>2, <3>3
      <3>4. CASE q = p
        <4>1. pool_configs[p] - reserved_amounts[p] >= amount
          BY <2>2, <3>2, <3>4 DEF Minus
        <4> QED
          BY <2>2, <2>3, <3>1, <3>2, <3>4, <4>1
      <3> QED
        BY <3>3, <3>4
    <2>8. ASSUME NEW id \in DOMAIN held, ReleaseHeld(id)
          PROVE  FALSE
      <3>1. held[id] \in [pool : Pools, amount : Nat]
        BY <1>1 DEF StackInv, StackTypeOK
      <3>2. held[id].amount \in Nat
        BY <3>1
      <3>3. pool_configs' = pool_configs /\ reserved_amounts'[p] <= reserved_amounts[p]
            /\ reserved_amounts'[p] \in Nat
        BY <2>2, <2>8, <3>2 DEF ReleaseHeld, ReleaseFunds
      <3> QED
        BY <2>2, <2>3, <3>3
    <2> QED
      BY <2>4, <2>5, <2>6, <2>7, <2>8 DEF PoolNext
  <1> QED
    BY <1>1, StackInvariant, PTL DEF StackSpec, OnlyShrinkingOverreserves

-----------------------------------------------------------------------------
\* ReceiverPaidGas.
USE MaxTimeAssumption, CompensationAssumption

Published == Prices \cup {InitialPrice}

\* The pair the oracle's two prices make.
OraclePair == [sol |-> sol_usd_twap, membra |-> membra_usd_twap]

\* Each lock is held by who is inside its critical section.
LockInv == /\ \A c \in Callers : pc[c] \in Quoting <=> holder = c
           /\ \A u \in Updaters : update_pc[u] # "idle" <=> oracle_holder = u

\* The oracle's prices were published together unless an updater is between
\* its two stores; then the first is of what it publishes.
PairInv == /\ (\A u \in Updaters : update_pc[u] # "membra") => OraclePair \in Published
           /\ \A u \in Updaters : update_pc[u] = "membra" => sol_usd_twap = update[u].sol

\* What a caller that no store overtook has read.
QuoteInv ==
    \A c \in Callers : ~overtaken[c] =>
        /\ pc[c] \in {"sol", "membra"} => OraclePair \in Published
        /\ pc[c] = "membra" => quoted[c].sol = sol_usd_twap
        /\ pc[c] = "granted" => quoted[c] \in Published

\* A receipt that is not marked was not paid.
PaidInv == \A i \in DOMAIN receipts : receipts[i].used_for_compensation \/ paid[i] = 0

\* The inductive invariant.
CompensationInv == /\ CompensationTypeOK
                   /\ LockInv
                   /\ PairInv
                   /\ QuoteInv
                   /\ PaidInv
                   /\ PaymentsBounded

-----------------------------------------------------------------------------
\* No more callers are in flight for a receipt than there are.
LEMMA PendingBounded ==
  ASSUME NEW i
  PROVE  /\ IsFiniteSet(InPayment(i))
         /\ Cardinality(InPayment(i)) \in Nat
         /\ Cardinality(InPayment(i)) <= Cardinality(Callers)
         /\ Cardinality(Callers) \in Nat
  <1>1. InPayment(i) \subseteq Callers
    BY DEF InPayment
  <1> QED
    BY <1>1, FS_Subset, FS_CardinalityType

LEMMA CompensationInitInv == CompensationInit => CompensationInv
  <1> SUFFICES ASSUME CompensationInit PROVE CompensationInv
    OBVIOUS
  <1> USE DEF CompensationInit, ClockInit
  <1>1. InitialPrice \in Price
    OBVIOUS
  <1>2. InitialPrice.sol \in Nat /\ InitialPrice.membra \in Nat \ {0}
    BY <1>1 DEF Price
  <1>3. CompensationTypeOK
    <2>1. receipts \in Seq(GasReceipt) /\ paid \in Seq(Nat) /\ DOMAIN paid = DOMAIN receipts
      OBVIOUS
    <2>2. /\ pc \in [Callers -> Quoting \cup {"idle", "granted"}]
          /\ receipt_of \in [Callers -> Nat]
          /\ \A c \in Callers : pc[c] # "idle" => receipt_of[c] \in DOMAIN receipts
          /\ overtaken \in [Callers -> BOOLEAN]
          /\ update_pc \in [Updaters -> {"idle", "sol", "membra", "stamp"}]
      OBVIOUS
    <2>3. quoted \in [Callers -> Price] /\ update \in [Updaters -> Prices \cup {InitialPrice}]
      BY <1>1
    <2> QED
      BY <1>2, <2>1, <2>2, <2>3 DEF CompensationTypeOK
  <1>4. LockInv
    BY DEF LockInv, Quoting
  <1>5. OraclePair = InitialPrice
    BY <1>1 DEF OraclePair, Price
  <1>6. PairInv /\ QuoteInv
    BY <1>5 DEF PairInv, QuoteInv, Published
  <1>7. PaidInv /\ PaymentsBounded
    BY DEF PaidInv, PaymentsBounded
  <1> QED
    BY <1>3, <1>4, <1>6, <1>7 DEF CompensationInv

-----------------------------------------------------------------------------
\* Operations of ReceiverPaidGas that no quote takes part in.
LEMMA CreateReceiptInv ==
  ASSUME CompensationInv, NEW r \in Receivers, NEW fee \in Fees, CreateReceipt(r, fee)
  PROVE  CompensationInv'
  <1> USE DEF CompensationInv, CreateReceipt
  <1> DEFINE receipt == [receiver_wallet |-> r, total_fee_lamports |-> fee,
                         used_for_compensation |-> FALSE, created_at |-> now]
  <1>1. /\ receipts \in Seq(GasReceipt)
        /\ receipt \in GasReceipt
        /\ receipts' = Append(receipts, receipt)
    BY DEF CompensationTypeOK, GasReceipt
  <1>2. /\ paid \in Seq(Nat)
        /\ paid' = Append(paid, 0)
        /\ Len(paid) = Len(receipts)
    BY DEF CompensationTypeOK
  <1> HIDE DEF receipt
  <1>3. CompensationTypeOK'
    BY <1>1, <1>2 DEF CompensationTypeOK, gasOracleVars, callerVars, updaterVars
  <1>4. LockInv' /\ PairInv' /\ QuoteInv'
    BY DEF LockInv, PairInv, QuoteInv, OraclePair, gasOracleVars, callerVars, updaterVars
  <1>5. PaidInv'
    BY <1>1, <1>2 DEF PaidInv
  <1>6. PaymentsBounded'
    <2> SUFFICES ASSUME NEW i \in DOMAIN receipts'
                 PROVE  paid'[i] + Cardinality(InPayment(i)') <= Cardinality(Callers)
      BY DEF PaymentsBounded, InPayment
    <2>1. InPayment(i)' = InPayment(i)
      BY DEF InPayment, callerVars
    <2>2. CASE i \in DOMAIN receipts
      BY <1>1, <1>2, <2>1, <2>2 DEF PaymentsBounded
    <2>3. CASE i \notin DOMAIN receipts
      BY <1>1, <1>2, <2>1, <2>3, PendingBounded
    <2> QED
      BY <2>2, <2>3
  <1> QED
    BY <1>3, <1>4, <1>5, <1>6

\* Nothing of a quote changes.
LEMMA QuotesUntouched ==
  ASSUME CompensationInv, UNCHANGED <<receipts, paid, callerVars>>
  PROVE  PaidInv' /\ PaymentsBounded'
  BY DEF CompensationInv, PaidInv, PaymentsBounded, InPayment, callerVars

LEMMA SetEnabledInv ==
  ASSUME CompensationInv, NEW enabled \in BOOLEAN, SetCompensationEnabled(enabled)
  PROVE  CompensationInv'
  <1>1. PaidInv' /\ PaymentsBounded'
    BY QuotesUntouched DEF SetCompensationEnabled
  <1> QED
    BY <1>1 DEF SetCompensationEnabled, CompensationInv, CompensationTypeOK, LockInv, PairInv,
       QuoteInv, OraclePair, gasOracleVars, callerVars, updaterVars

LEMMA TimePasses ==
  ASSUME CompensationInv, now' \in Nat,
         UNCHANGED <<receipts, compensation_enabled, gasOracleVars, holder, callerVars,
                     updaterVars, overtaken, paid>>
  PROVE  CompensationInv'
  <1>1. PaidInv' /\ PaymentsBounded'
    BY QuotesUntouched
  <1> QED
    BY <1>1 DEF CompensationInv, CompensationTypeOK, LockInv, PairInv, QuoteInv, OraclePair,
       gasOracleVars, callerVars, updaterVars

-----------------------------------------------------------------------------
\* update_oracle
LEMMA UpdaterInv ==
  ASSUME CompensationInv, NEW u \in Updaters,
         (\E price \in Prices : UpdateOracle(u, price)) \/ UpdaterStep(u)
  PROVE  CompensationInv'
  <1> USE DEF CompensationInv
  <1>1. update[u] \in Price /\ update[u].sol \in Nat /\ update[u].membra \in Nat \ {0}
    BY DEF CompensationTypeOK, Price
  <1>2. UNCHANGED <<receipts, paid, callerVars>>
    BY DEF UpdateOracle, UpdaterStep, StoreSol, StoreMembra, StoreStamp
  <1>3. PaidInv' /\ PaymentsBounded'
    BY <1>2, QuotesUntouched
  <1>4. ASSUME NEW price \in Prices, UpdateOracle(u, price)
        PROVE  CompensationInv'
    <2> USE <1>4 DEF UpdateOracle, UpdateTo
    <2>1. CompensationTypeOK'
      BY DEF CompensationTypeOK, gasOracleVars, callerVars
    <2>2. LockInv'
      BY DEF LockInv, CompensationTypeOK, callerVars
    <2>3. PairInv' /\ QuoteInv'
      BY DEF PairInv, QuoteInv, OraclePair, CompensationTypeOK, gasOracleVars, callerVars
    <2> QED
      BY <1>3, <2>1, <2>2, <2>3
  <1>5. CASE StoreSol(u)
    <2> USE <1>5 DEF StoreSol, UpdateTo
    <2>1. CompensationTypeOK'
      BY <1>1 DEF CompensationTypeOK, Overtake, callerVars
    <2>2. LockInv'
      BY DEF LockInv, CompensationTypeOK, callerVars
    <2>3. PairInv'
      BY DEF PairInv, LockInv, CompensationTypeOK
    <2>4. QuoteInv'
      BY DEF QuoteInv, Overtake, CompensationTypeOK, callerVars
    <2> QED
      BY <1>3, <2>1, <2>2, <2>3, <2>4
  <1>6. CASE StoreMembra(u)
    <2> USE <1>6 DEF StoreMembra, UpdateTo
    <2>1. CompensationTypeOK'
      BY <1>1 DEF CompensationTypeOK, Overtake, callerVars
    <2>2. LockInv'
      BY DEF LockInv, CompensationTypeOK, callerVars
    <2>3. OraclePair' = update[u] /\ update[u] \in Published
      BY <1>1 DEF PairInv, OraclePair, CompensationTypeOK, Price, Published
    <2>4. PairInv'
      BY <2>3 DEF PairInv, LockInv, CompensationTypeOK
    <2>5. QuoteInv'
      BY DEF QuoteInv, Overtake, CompensationTypeOK, callerVars
    <2> QED
      BY <1>3, <2>1, <2>2, <2>4, <2>5
  <1>7. CASE StoreStamp(u)
    <2> USE <1>7 DEF StoreStamp, UpdateTo
    <2>1. CompensationTypeOK'
      BY DEF CompensationTypeOK, callerVars
    <2>2. LockInv'
      BY DEF LockInv, CompensationTypeOK, callerVars
    <2>3. PairInv' /\ QuoteInv'
      BY DEF PairInv, QuoteInv, LockInv, OraclePair, CompensationTypeOK, callerVars
    <2> QED
      BY <1>3, <2>1, <2>2, <2>3
  <1> QED
    BY <1>4, <1>5, <1>6, <1>7 DEF UpdaterStep

-----------------------------------------------------------------------------
\* The steps of calculate_compensation that leave the receipts alone, and who
\* is between its tests and the mark.
LEMMA NobodyPasses ==
  ASSUME CompensationInv, NEW c \in Callers, UNCHANGED <<receipts, paid>>,
         pc[c] \in Passed <=> pc'[c] \in Passed,
         pc[c] \in Passed => receipt_of'[c] = receipt_of[c],
         \A d \in Callers \ {c} : pc'[d] = pc[d] /\ receipt_of'[d] = receipt_of[d]
  PROVE  PaidInv' /\ PaymentsBounded'
  <1>1. \A i : InPayment(i)' = InPayment(i)
    BY DEF InPayment
  <1> QED
    BY <1>1 DEF CompensationInv, PaidInv, PaymentsBounded

LEMMA CalculateInv ==
  ASSUME CompensationInv, NEW c \in Callers, NEW i \in DOMAIN receipts, CalculateCompensation(c, i)
  PROVE  CompensationInv'
  <1> USE DEF CompensationInv, CalculateCompensation, Goto
  <1>1. CompensationTypeOK'
    <2>1. i \in Nat
      BY DEF CompensationTypeOK
    <2> QED
      BY <2>1 DEF CompensationTypeOK, Quoting, gasOracleVars, updaterVars
  <1>2. LockInv'
    BY DEF LockInv, Quoting, CompensationTypeOK, updaterVars
  <1>3. PairInv' /\ QuoteInv'
    BY DEF PairInv, QuoteInv, OraclePair, CompensationTypeOK, gasOracleVars, updaterVars
  <1>4. PaidInv' /\ PaymentsBounded'
    BY NobodyPasses DEF CompensationTypeOK, Passed
  <1> QED
    BY <1>1, <1>2, <1>3, <1>4

\* Who passes the tests found the receipt unused, hence unpaid.
LEMMA PassTestsInv ==
  ASSUME CompensationInv, NEW c \in Callers, PassTests(c)
  PROVE  CompensationInv'
  <1> USE DEF CompensationInv, PassTests, Goto
  <1>1. CompensationTypeOK'
    BY DEF CompensationTypeOK, Quoting, gasOracleVars, updaterVars
  <1>2. LockInv'
    BY DEF LockInv, Quoting, CompensationTypeOK, updaterVars
  <1>3. OraclePair \in Published
    BY DEF LockInv, PairInv, CompensationTypeOK
  <1>4. PairInv' /\ QuoteInv'
    BY <1>3 DEF PairInv, QuoteInv, OraclePair, CompensationTypeOK, gasOracleVars, updaterVars
  <1>5. PaidInv'
    BY DEF PaidInv
  <1>6. PaymentsBounded'
    <2> SUFFICES ASSUME NEW i \in DOMAIN receipts
                 PROVE  paid[i] + Cardinality(InPayment(i)') <= Cardinality(Callers)
      BY DEF PaymentsBounded, InPayment
    <2>1. CASE i = receipt_of[c]
      <3>1. paid[i] = 0
        BY <2>1 DEF Compensable, PaidInv
      <3>2. InPayment(i)' \subseteq Callers
        BY DEF InPayment
      <3>3. /\ Cardinality(InPayment(i)') \in Nat
            /\ Cardinality(InPayment(i)') <= Cardinality(Callers)
        BY <3>2, FS_Subset, FS_CardinalityType
      <3> QED
        BY <3>1, <3>3
    <2>2. CASE i # receipt_of[c]
      <3>1. InPayment(i)' = InPayment(i)
        BY <2>2 DEF InPayment, CompensationTypeOK
      <3> QED
        BY <3>1 DEF PaymentsBounded
    <2> QED
      BY <2>1, <2>2
  <1> QED
    BY <1>1, <1>2, <1>4, <1>5, <1>6

LEMMA RefuseInv ==
  ASSUME CompensationInv, NEW c \in Callers, RefuseCompensation(c)
  PROVE  CompensationInv'
  <1> USE DEF CompensationInv, RefuseCompensation, Leave
  <1>1. CompensationTypeOK'
    BY DEF CompensationTypeOK, Price, gasOracleVars, updaterVars
  <1>2. LockInv'
    BY DEF LockInv, Quoting, CompensationTypeOK, updaterVars
  <1>3. PairInv' /\ QuoteInv'
    BY DEF PairInv, QuoteInv, OraclePair, CompensationTypeOK, gasOracleVars, updaterVars
  <1>4. PaidInv' /\ PaymentsBounded'
    BY NobodyPasses DEF CompensationTypeOK, Passed
  <1> QED
    BY <1>1, <1>2, <1>3, <1>4

LEMMA ReadSolInv ==
  ASSUME CompensationInv, NEW c \in Callers, ReadSol(c)
  PROVE  CompensationInv'
  <1> USE DEF CompensationInv, ReadSol, Goto
  <1>1. quoted[c] \in Price /\ [quoted[c] EXCEPT !.sol = sol_usd_twap] \in Price
    BY DEF CompensationTypeOK, Price
  <1>2. quoted' = [quoted EXCEPT ![c] = [quoted[c] EXCEPT !.sol = sol_usd_twap]]
    OBVIOUS
  <1>3. CompensationTypeOK'
    BY <1>1, <1>2 DEF CompensationTypeOK, Quoting, gasOracleVars, updaterVars
  <1>4. LockInv'
    BY DEF LockInv, Quoting, CompensationTypeOK, updaterVars
  <1>5. quoted'[c].sol = sol_usd_twap
    BY <1>1, <1>2 DEF CompensationTypeOK, Price
  <1>6. PairInv' /\ QuoteInv'
    BY <1>2, <1>5 DEF PairInv, QuoteInv, OraclePair, CompensationTypeOK, gasOracleVars, updaterVars
  <1>7. PaidInv' /\ PaymentsBounded'
    BY NobodyPasses DEF CompensationTypeOK, Passed
  <1> QED
    BY <1>3, <1>4, <1>6, <1>7

\* With the second reading the quote is the oracle's pair, if it was not overtaken.
LEMMA ReadMembraInv ==
  ASSUME CompensationInv, NEW c \in Callers, ReadMembra(c)
  PROVE  CompensationInv'
  <1> USE DEF CompensationInv, ReadMembra, Goto
  <1>1. /\ quoted[c] \in Price
        /\ [quoted[c] EXCEPT !.membra = membra_usd_twap] \in Price
    BY DEF CompensationTypeOK, Price
  <1>2. quoted' = [quoted EXCEPT ![c] = [quoted[c] EXCEPT !.membra = membra_usd_twap]]
    OBVIOUS
  <1>3. CompensationTypeOK'
    BY <1>1, <1>2 DEF CompensationTypeOK, Quoting, gasOracleVars, updaterVars
  <1>4. LockInv'
    BY DEF LockInv, Quoting, CompensationTypeOK, updaterVars
  <1>5. ~overtaken[c] => quoted'[c] \in Published
    <2> SUFFICES ASSUME ~overtaken[c] PROVE quoted'[c] \in Published
      OBVIOUS
    <2>1. quoted[c].sol = sol_usd_twap /\ OraclePair \in Published
      BY DEF QuoteInv
    <2>2. quoted'[c] = OraclePair
      BY <1>1, <1>2, <2>1 DEF CompensationTypeOK, Price, OraclePair
    <2> QED
      BY <2>1, <2>2
  <1>6. PairInv' /\ QuoteInv'
    BY <1>2, <1>5 DEF PairInv, QuoteInv, OraclePair, CompensationTypeOK, gasOracleVars, updaterVars
  <1>7. PaidInv' /\ PaymentsBounded'
    BY NobodyPasses DEF CompensationTypeOK, Passed
  <1> QED
    BY <1>3, <1>4, <1>6, <1>7

\* One caller fewer is in flight for the receipt, and one payment more is made.
LEMMA MarkInv ==
  ASSUME CompensationInv, NEW c \in Callers, MarkCompensated(c)
  PROVE  CompensationInv'
  <1> USE DEF CompensationInv, MarkCompensated, Leave
  <1> DEFINE marked == receipt_of[c]
             receipt == [receipts[marked] EXCEPT !.used_for_compensation = TRUE]
  <1>1. /\ marked \in DOMAIN receipts
        /\ receipts \in Seq(GasReceipt)
        /\ paid \in Seq(Nat)
        /\ DOMAIN paid = DOMAIN receipts
    BY DEF CompensationTypeOK
  <1>2. /\ receipts' = [receipts EXCEPT ![marked] = receipt]
        /\ paid' = [paid EXCEPT ![marked] = paid[marked] + 1]
    OBVIOUS
  <1>3. receipt \in GasReceipt /\ receipt.used_for_compensation
    <2>1. receipts[marked] \in GasReceipt
      BY <1>1
    <2> QED
      BY <2>1 DEF GasReceipt
  <1> HIDE DEF receipt
  <1>4. /\ receipts' \in Seq(GasReceipt)
        /\ paid' \in Seq(Nat)
        /\ DOMAIN paid' = DOMAIN receipts'
        /\ DOMAIN receipts' = DOMAIN receipts
    <2> HIDE DEF marked
    <2>1. receipts' \in Seq(GasReceipt) /\ DOMAIN receipts' = DOMAIN receipts
      BY <1>1, <1>2, <1>3
    <2>2. paid' \in Seq(Nat) /\ DOMAIN paid' = DOMAIN paid
      <3>1. paid[marked] + 1 \in Nat
        BY <1>1
      <3> QED
        BY <1>1, <1>2, <3>1
    <2> QED
      BY <1>1, <2>1, <2>2
  <1>5. CompensationTypeOK'
    BY <1>4 DEF CompensationTypeOK, Price, gasOracleVars, updaterVars
  <1>6. LockInv'
    BY DEF LockInv, Quoting, CompensationTypeOK, updaterVars
  <1>7. PairInv' /\ QuoteInv'
    BY DEF PairInv, QuoteInv, OraclePair, CompensationTypeOK, gasOracleVars, updaterVars
  <1>8. PaidInv'
    BY <1>1, <1>2, <1>3 DEF PaidInv
  <1>9. PaymentsBounded'
    <2> SUFFICES ASSUME NEW i \in DOMAIN receipts
                 PROVE  paid'[i] + Cardinality(InPayment(i)') <= Cardinality(Callers)
      BY <1>4 DEF PaymentsBounded, InPayment
    <2>1. CASE i = marked
      <3>1. c \in InPayment(i) /\ InPayment(i)' = InPayment(i) \ {c}
        BY <2>1 DEF InPayment, Passed, CompensationTypeOK
      <3>2. Cardinality(InPayment(i)') = Cardinality(InPayment(i)) - 1
        BY <3>1, PendingBounded, FS_RemoveElement
      <3>3. paid'[i] = paid[i] + 1 /\ paid[i] \in Nat
        BY <1>1, <1>2, <2>1
      <3>4. paid[i] + Cardinality(InPayment(i)) <= Cardinality(Callers)
        BY DEF PaymentsBounded
      <3> QED
        BY <3>2, <3>3, <3>4, PendingBounded
    <2>2. CASE i # marked
      <3>1. InPayment(i)' = InPayment(i)
        BY <2>2 DEF InPayment, Passed, CompensationTypeOK
      <3> QED
        BY <1>1, <1>2, <2>2, <3>1 DEF PaymentsBounded
    <2> QED
      BY <2>1, <2>2
  <1> QED
    BY <1>5, <1>6, <1>7, <1>8, <1>9

-----------------------------------------------------------------------------
LEMMA CompensationStepInv ==
  ASSUME CompensationInv, [CompensationNext]_compensationVars
  PROVE  CompensationInv'
  <1>1. CASE \E u \in Updaters : (\E price \in Prices : UpdateOracle(u, price)) \/ UpdaterStep(u)
    BY <1>1, UpdaterInv
  <1>2. CASE \E c \in Callers : CallerStep(c)
    BY <1>2, PassTestsInv, RefuseInv, ReadSolInv, ReadMembraInv, MarkInv DEF CallerStep
  <1>3. CASE /\ Tick
             /\ UNCHANGED <<receipts, compensation_enabled, gasOracleVars, holder, callerVars,
                            updaterVars, overtaken, paid>>
    <2>1. now' \in Nat
      BY <1>3 DEF Tick, CompensationInv, CompensationTypeOK
    <2> QED
      BY <1>3, <2>1, TimePasses
  <1>4. CASE UNCHANGED compensationVars
    BY <1>4, TimePasses DEF compensationVars, CompensationInv, CompensationTypeOK
  <1> QED
    BY <1>1, <1>2, <1>3, <1>4, CreateReceiptInv, SetEnabledInv, CalculateInv DEF CompensationNext

\* The types of the receipts, the oracle, both locks and every call.
THEOREM CompensationTypeCorrect == CompensationSpec => []CompensationTypeOK
  <1>1. CompensationInv => CompensationTypeOK
    BY DEF CompensationInv
  <1> QED
    BY <1>1, CompensationInitInv, CompensationStepInv, PTL DEF CompensationSpec

\* However many updaters store prices, a quote that no store overtook is of
\* prices that were published together.
THEOREM QuotesOfOnePublication == CompensationSpec => []QuoteUnlessOvertaken
  <1>1. CompensationInv => QuoteUnlessOvertaken
    BY DEF CompensationInv, QuoteInv, QuoteUnlessOvertaken, Published
  <1> QED
    BY <1>1, CompensationInitInv, CompensationStepInv, PTL DEF CompensationSpec

\* A receipt is paid no more often than there are callers.
THEOREM ReceiptsPaidByCallersOnce == CompensationSpec => []PaymentsBounded
  <1>1. CompensationInv => PaymentsBounded
    BY DEF CompensationInv
  <1> QED
    BY <1>1, CompensationInitInv, CompensationStepInv, PTL DEF CompensationSpec

-----------------------------------------------------------------------------
\* The daily cap.

\* What the receipts of a set of identifiers count, and what callers in flight do.
FeeOf(i)      == receipts[i].total_fee_lamports
CarriedBy(c)  == FeeOf(receipt_of[c])
CarriedFor(r) == SumFunction([c \in InFlight(r) |-> CarriedBy(c)])

\* The largest element of a finite set of numbers is one of its elements.
LEMMA MaxOfFinite ==
  ASSUME NEW S \in SUBSET Nat, IsFiniteSet(S), S # {}
  PROVE  Max(S) \in S /\ \A x \in S : x <= Max(S)
  <1> DEFINE Good == {T \in SUBSET S : T # {} => \E m \in T : \A x \in T : x <= m}
  <1>1. ASSUME NEW T \in SUBSET S, \A U \in SUBSET T : U # T => U \in Good
        PROVE  T \in Good
    <2>1. CASE T = {}
      BY <2>1
    <2>2. CASE T # {}
      <3>1. PICK a \in T : TRUE
        BY <2>2
      <3> DEFINE R == T \ {a}
      <3>2. R \in Good
        BY <1>1
      <3>3. R # {} => \E m \in R : \A x \in R : x <= m
        BY <3>2
      <3>4. CASE R = {}
        BY <3>4
      <3>5. CASE R # {}
        <4>1. PICK m \in R : \A x \in R : x <= m
          BY <3>3, <3>5
        <4>2. a <= m \/ m <= a
          OBVIOUS
        <4>3. CASE a <= m
          BY <4>1, <4>3
        <4>4. CASE m <= a
          <5>1. \A x \in T : x <= a
            BY <4>1, <4>4
          <5> QED
            BY <5>1
        <4> QED
          BY <4>2, <4>3, <4>4
      <3> QED
        BY <3>4, <3>5
    <2> QED
      BY <2>1, <2>2
  <1> HIDE DEF Good
  <1>2. S \in Good
    BY <1>1, SubsetInduction
  <1> QED
    BY <1>2 DEF Good, Max

LEMMA FeesAreWords ==
  /\ Max(Fees) \in Nat
  /\ \A fee \in Fees : fee \in Nat /\ fee <= Max(Fees)
  BY CapAssumption, MaxOfFinite

\* The sums of the cap are over finite sets of fees.
CapTyped ==
    /\ \A i \in DOMAIN receipts : /\ FeeOf(i) \in Fees
                                  /\ FeeOf(i) \in Nat
                                  /\ receipts[i].receiver_wallet \in Receivers
                                  /\ receipts[i].created_at \in Nat
    /\ \A r \in Receivers : /\ UsedToday(r) \subseteq DOMAIN receipts
                            /\ IsFiniteSet(UsedToday(r))
                            /\ FeesOf(UsedToday(r)) \in Nat
                            /\ IsFiniteSet(InFlight(r))
                            /\ CarriedFor(r) \in Nat
    /\ \A c \in Callers : pc[c] \in Passed => /\ receipt_of[c] \in DOMAIN receipts
                                              /\ CarriedBy(c) \in Nat
                                              /\ CarriedBy(c) <= Max(Fees)

LEMMA CapSums == CompensationTypeOK => CapTyped
  <1> SUFFICES ASSUME CompensationTypeOK PROVE CapTyped
    OBVIOUS
  <1>1. receipts \in Seq(GasReceipt)
    BY DEF CompensationTypeOK
  <1>2. \A i \in DOMAIN receipts : receipts[i] \in GasReceipt
    BY <1>1
  <1>3. \A i \in DOMAIN receipts : /\ FeeOf(i) \in Fees
                                   /\ receipts[i].receiver_wallet \in Receivers
                                   /\ receipts[i].created_at \in Nat
    BY <1>2 DEF GasReceipt, FeeOf
  <1>4. \A i \in DOMAIN receipts : FeeOf(i) \in Nat
    BY <1>3
  <1>5. \A c \in Callers : pc[c] \in Passed => /\ receipt_of[c] \in DOMAIN receipts
                                               /\ CarriedBy(c) \in Nat
                                               /\ CarriedBy(c) <= Max(Fees)
    <2>1. \A c \in Callers : pc[c] \in Passed => receipt_of[c] \in DOMAIN receipts
      BY DEF CompensationTypeOK, Passed
    <2> QED
      BY <1>3, <2>1, FeesAreWords DEF CarriedBy
  <1>6. ASSUME NEW r \in Receivers
        PROVE  /\ UsedToday(r) \subseteq DOMAIN receipts
               /\ IsFiniteSet(UsedToday(r))
               /\ FeesOf(UsedToday(r)) \in Nat
               /\ IsFiniteSet(InFlight(r))
               /\ CarriedFor(r) \in Nat
    <2>1. UsedToday(r) \subseteq DOMAIN receipts /\ InFlight(r) \subseteq Callers
      BY DEF UsedToday, InFlight
    <2>2. DOMAIN receipts = 1 .. Len(receipts) /\ Len(receipts) \in Nat
      BY <1>1
    <2>3. IsFiniteSet(UsedToday(r)) /\ IsFiniteSet(InFlight(r))
      <3>1. IsFiniteSet(DOMAIN receipts)
        BY <2>2, FS_Interval
      <3> QED
        BY <2>1, <3>1, FS_Subset
    <2> DEFINE f == [i \in UsedToday(r) |-> FeeOf(i)]
               g == [c \in InFlight(r) |-> CarriedBy(c)]
    <2>4. \A i \in DOMAIN f : f[i] \in Nat
      BY <1>4, <2>1
    <2>5. \A c \in DOMAIN g : g[c] \in Nat
      BY <1>5 DEF InFlight
    <2>6. IsFiniteSet(DOMAIN f) /\ IsFiniteSet(DOMAIN g)
      BY <2>3
    <2> HIDE DEF f, g
    <2>7. SumFunction(f) \in Nat /\ SumFunction(g) \in Nat
      BY <2>4, <2>5, <2>6, TotalNat
    <2> QED
      BY <2>1, <2>3, <2>7 DEF f, g, FeesOf, CarriedFor, FeeOf
  <1> QED
    BY <1>3, <1>4, <1>5, <1>6 DEF CapTyped

\* The bound of the property, and the property in these words.
CapBound == MaxPerDay + (Cardinality(Callers) - 1) * Max(Fees)

WithinBound(r) == FeesOf(UsedToday(r)) + CarriedFor(r) <= CapBound

LEMMA OverrunInWords ==
  /\ DailyOverrunBounded => \A r \in Receivers : WithinBound(r)
  /\ (\A r \in Receivers : WithinBound(r)') => DailyOverrunBounded'
  <1> USE DEF DailyOverrunBounded, WithinBound, CarriedFor, CarriedBy, FeeOf, CapBound
  <1>1. DailyOverrunBounded => \A r \in Receivers : WithinBound(r)
    OBVIOUS
  <1>2. (\A r \in Receivers : WithinBound(r)') => DailyOverrunBounded'
    OBVIOUS
  <1> QED
    BY <1>1, <1>2

LEMMA BoundIsPositive ==
  /\ Cardinality(Callers) \in Nat \ {0}
  /\ CapBound \in Nat
  /\ MaxPerDay <= CapBound
  <1>1. Cardinality(Callers) \in Nat \ {0}
    BY CapAssumption, FS_CardinalityType, FS_EmptySet
  <1>2. \A n \in Nat \ {0}, m \in Nat : (n - 1) * m \in Nat
    OBVIOUS
  <1>3. (Cardinality(Callers) - 1) * Max(Fees) \in Nat
    BY <1>1, <1>2, FeesAreWords
  <1> QED
    BY <1>1, <1>3 DEF CapBound

\* A step that marks nothing and lets nobody pass cannot raise the sum: receipts
\* are only appended, and leave the day.
LEMMA NothingMarked ==
  ASSUME CompensationTypeOK, CompensationTypeOK', DailyOverrunBounded, now' >= now,
         DOMAIN receipts \subseteq DOMAIN receipts',
         \A i \in DOMAIN receipts : receipts'[i] = receipts[i],
         \A i \in DOMAIN receipts' \ DOMAIN receipts : ~receipts'[i].used_for_compensation,
         \A c \in Callers : /\ pc'[c] \in Passed <=> pc[c] \in Passed
                            /\ pc[c] \in Passed => receipt_of'[c] = receipt_of[c]
  PROVE  DailyOverrunBounded'
  <1> SUFFICES ASSUME NEW r \in Receivers PROVE WithinBound(r)'
    BY OverrunInWords
  <1>1. now \in Nat /\ now' \in Nat
    BY DEF CompensationTypeOK
  <1>2. CapTyped /\ CapTyped'
    BY CapSums, PTL
  <1>3. UsedToday(r)' \subseteq UsedToday(r)
    <2> SUFFICES ASSUME NEW i \in UsedToday(r)' PROVE i \in UsedToday(r)
      OBVIOUS
    <2>1. i \in DOMAIN receipts /\ receipts'[i] = receipts[i]
      BY DEF UsedToday
    <2>2. receipts[i].created_at \in Nat
      BY <1>2, <2>1 DEF CapTyped
    <2> QED
      BY <1>1, <2>1, <2>2 DEF UsedToday
  <1>4. FeesOf(UsedToday(r))' <= FeesOf(UsedToday(r))
    <2> DEFINE f == [i \in UsedToday(r)' |-> FeeOf(i)']
               g == [i \in UsedToday(r) |-> FeeOf(i)]
    <2>1. \A i \in DOMAIN g : g[i] \in Nat
      BY <1>2 DEF CapTyped
    <2>2. \A i \in DOMAIN f : f[i] = g[i]
      BY <1>2, <1>3 DEF CapTyped, FeeOf
    <2>3. IsFiniteSet(DOMAIN g) /\ DOMAIN f \subseteq DOMAIN g
      BY <1>2, <1>3 DEF CapTyped
    <2> HIDE DEF f, g
    <2>4. SumFunction(f) <= SumFunction(g)
      BY <2>1, <2>2, <2>3, TotalMonotone
    <2> QED
      BY <2>4 DEF f, g, FeesOf, FeeOf
  <1>5. CarriedFor(r)' = CarriedFor(r)
    <2>1. InFlight(r)' = InFlight(r)
      BY <1>2 DEF InFlight, CapTyped
    <2>2. [c \in InFlight(r)' |-> CarriedBy(c)'] = [c \in InFlight(r) |-> CarriedBy(c)]
      BY <1>2, <2>1 DEF InFlight, CapTyped, CarriedBy, FeeOf
    <2> QED
      BY <2>2 DEF CarriedFor
  <1>6. WithinBound(r)
    BY OverrunInWords
  <1> QED
    BY <1>2, <1>4, <1>5, <1>6, BoundIsPositive DEF CapTyped, WithinBound, CapBound

\* Whoever passes the tests holds the mutex: the fees used today and its own fit
\* into the cap, and the others in flight carry one receipt each.
LEMMA PassingWithinBound ==
  ASSUME CompensationInv, CompensationInv', DailyOverrunBounded,
         NEW c \in Callers, PassTests(c)
  PROVE  DailyOverrunBounded'
  <1> SUFFICES ASSUME NEW r \in Receivers PROVE WithinBound(r)'
    BY OverrunInWords
  <1>1. CapTyped /\ CapTyped'
    BY CapSums, PTL DEF CompensationInv
  <1> DEFINE i == receipt_of[c]
  <1>2. /\ pc[c] = "oracle" /\ i \in DOMAIN receipts
        /\ pc' = [pc EXCEPT ![c] = "sol"] /\ pc \in [Callers -> Quoting \cup {"idle", "granted"}]
        /\ UNCHANGED <<receipts, now, receipt_of>>
    BY DEF PassTests, Goto, CompensationInv, CompensationTypeOK, updaterVars
  <1>3. UsedToday(r)' = UsedToday(r) /\ FeesOf(UsedToday(r))' = FeesOf(UsedToday(r))
    BY <1>2 DEF UsedToday, FeesOf
  <1>4. WithinBound(r)
    BY OverrunInWords
  <1>5. CASE receipts[i].receiver_wallet # r
    <2>1. InFlight(r)' = InFlight(r)
      BY <1>2, <1>5 DEF InFlight, Passed
    <2>2. CarriedFor(r)' = CarriedFor(r)
      BY <1>2, <2>1 DEF CarriedFor, CarriedBy, FeeOf
    <2> QED
      BY <1>3, <1>4, <2>2 DEF WithinBound, CapBound
  <1>6. CASE receipts[i].receiver_wallet = r
    <2>1. FeesOf(UsedToday(r)) + FeeOf(i) <= MaxPerDay
      BY <1>6 DEF PassTests, Compensable, WithinDailyCap, FeeOf
    <2>2. InFlight(r)' = InFlight(r) \cup {c} /\ c \notin InFlight(r)
      BY <1>2, <1>6 DEF InFlight, Passed
    <2> DEFINE f == [d \in InFlight(r) |-> CarriedBy(d)]
               g == [d \in InFlight(r)' |-> CarriedBy(d)']
    <2>3. /\ \A d \in DOMAIN f : f[d] \in Nat /\ f[d] <= Max(Fees) /\ g[d] = f[d]
          /\ g[c] = FeeOf(i) /\ FeeOf(i) \in Nat
          /\ DOMAIN g = DOMAIN f \cup {c} /\ c \notin DOMAIN f /\ IsFiniteSet(DOMAIN f)
      BY <1>1, <1>2, <2>2 DEF CapTyped, InFlight, CarriedBy, FeeOf
    <2>4. DOMAIN f \subseteq Callers \ {c}
      BY <2>2 DEF InFlight
    <2>5. CarriedFor(r)' = SumFunction(g)
      BY DEF CarriedFor
    <2> HIDE DEF f, g
    <2>6. SumFunction(g) = SumFunction(f) + FeeOf(i) /\ SumFunction(f) \in Nat
      BY <2>3, TotalPut
    <2>7. SumFunction(f) <= Max(Fees) * Cardinality(DOMAIN f)
      BY <2>3, SumBounded, FeesAreWords DEF SumFunction
    <2>8. /\ Cardinality(DOMAIN f) \in Nat
          /\ Cardinality(DOMAIN f) <= Cardinality(Callers) - 1
      <3>1. IsFiniteSet(Callers \ {c}) /\ Cardinality(Callers \ {c}) = Cardinality(Callers) - 1
        BY FS_RemoveElement
      <3> QED
        BY <2>4, <3>1, FS_Subset, FS_CardinalityType
    <2>9. \A m \in Nat, k \in Nat, n \in Nat \ {0} : k <= n - 1 => m * k <= (n - 1) * m
      OBVIOUS
    <2>10. SumFunction(f) <= (Cardinality(Callers) - 1) * Max(Fees)
      <3>1. Max(Fees) * Cardinality(DOMAIN f) <= (Cardinality(Callers) - 1) * Max(Fees)
        BY <2>8, <2>9, BoundIsPositive, FeesAreWords
      <3>2. \A m \in Nat, k \in Nat, n \in Nat \ {0} : m * k \in Nat /\ (n - 1) * m \in Nat
        OBVIOUS
      <3>3. /\ Max(Fees) * Cardinality(DOMAIN f) \in Nat
            /\ (Cardinality(Callers) - 1) * Max(Fees) \in Nat
        BY <2>8, <3>2, BoundIsPositive, FeesAreWords
      <3> QED
        BY <2>6, <2>7, <3>1, <3>3
    <2>11. \A u \in Nat, x \in Nat, y \in Nat, b \in Nat, z \in Int :
              u + y <= b /\ x <= z => u + (x + y) <= b + z
      OBVIOUS
    <2>12. (Cardinality(Callers) - 1) * Max(Fees) \in Int
      <3>1. \A m \in Nat, n \in Nat \ {0} : (n - 1) * m \in Int
        OBVIOUS
      <3> QED
        BY <3>1, BoundIsPositive, FeesAreWords
    <2>13. FeesOf(UsedToday(r)) \in Nat /\ FeeOf(i) \in Nat
      BY <1>1, <2>3 DEF CapTyped
    <2>14. FeesOf(UsedToday(r)) + (SumFunction(f) + FeeOf(i)) <= CapBound
      BY <2>1, <2>6, <2>10, <2>11, <2>12, <2>13 DEF CapBound
    <2> QED
      BY <1>3, <2>5, <2>6, <2>14 DEF WithinBound, CapBound
  <1> QED
    BY <1>5, <1>6

\* The fee that was in flight is used, if its receipt is of the day.
LEMMA MarkingWithinBound ==
  ASSUME CompensationInv, CompensationInv', DailyOverrunBounded,
         NEW c \in Callers, MarkCompensated(c)
  PROVE  DailyOverrunBounded'
  <1> SUFFICES ASSUME NEW r \in Receivers PROVE WithinBound(r)'
    BY OverrunInWords
  <1>1. CapTyped /\ CapTyped'
    BY CapSums, PTL DEF CompensationInv
  <1> DEFINE i == receipt_of[c]
             receipt == [receipts[i] EXCEPT !.used_for_compensation = TRUE]
  <1>2. /\ pc[c] = "granted" /\ i \in DOMAIN receipts
        /\ pc' = [pc EXCEPT ![c] = "idle"] /\ pc \in [Callers -> Quoting \cup {"idle", "granted"}]
        /\ receipt_of' = [receipt_of EXCEPT ![c] = 0] /\ receipt_of \in [Callers -> Nat]
        /\ receipts' = [receipts EXCEPT ![i] = receipt]
        /\ receipts[i] \in GasReceipt
        /\ now' = now
    <2>1. /\ pc[c] = "granted" /\ pc' = [pc EXCEPT ![c] = "idle"]
          /\ receipt_of' = [receipt_of EXCEPT ![c] = 0]
          /\ receipts' = [receipts EXCEPT ![i] = receipt]
          /\ now' = now
      BY DEF MarkCompensated, Leave
    <2>2. /\ pc \in [Callers -> Quoting \cup {"idle", "granted"}]
          /\ receipt_of \in [Callers -> Nat]
          /\ receipts \in Seq(GasReceipt)
          /\ pc[c] # "idle" => i \in DOMAIN receipts
      BY DEF CompensationInv, CompensationTypeOK
    <2>3. i \in DOMAIN receipts /\ receipts[i] \in GasReceipt
      BY <2>1, <2>2
    <2> QED
      BY <2>1, <2>2, <2>3
  <1>3. /\ receipt.receiver_wallet = receipts[i].receiver_wallet
        /\ receipt.total_fee_lamports = receipts[i].total_fee_lamports
        /\ receipt.created_at = receipts[i].created_at
    BY <1>2 DEF GasReceipt
  <1> HIDE DEF receipt
  <1>4. /\ DOMAIN receipts' = DOMAIN receipts
        /\ \A j \in DOMAIN receipts :
              /\ FeeOf(j)' = FeeOf(j)
              /\ receipts'[j].receiver_wallet = receipts[j].receiver_wallet
              /\ receipts'[j].created_at = receipts[j].created_at
              /\ j # i => receipts'[j] = receipts[j]
    BY <1>2, <1>3 DEF FeeOf
  <1>5. WithinBound(r)
    BY OverrunInWords
  <1>6. \A d \in Callers \ {c} : /\ pc'[d] = pc[d] /\ receipt_of'[d] = receipt_of[d]
                                 /\ pc[d] \in Passed => CarriedBy(d)' = CarriedBy(d)
    <2>1. \A d \in Callers \ {c} : pc'[d] = pc[d] /\ receipt_of'[d] = receipt_of[d]
      BY <1>2
    <2>2. \A d \in Callers : pc[d] \in Passed => receipt_of[d] \in DOMAIN receipts
      BY <1>1 DEF CapTyped
    <2> QED
      BY <1>4, <2>1, <2>2 DEF CarriedBy, FeeOf
  <1>7. pc'[c] \notin Passed /\ pc[c] \in Passed
    BY <1>2 DEF Passed
  <1>8. \A d \in Callers : pc[d] \in Passed => receipt_of[d] \in DOMAIN receipts
    BY <1>1 DEF CapTyped
  <1>9. InFlight(r)' = InFlight(r) \ {c}
    BY <1>4, <1>6, <1>7, <1>8 DEF InFlight
  <1> DEFINE f == [d \in InFlight(r) |-> CarriedBy(d)]
             g == [d \in InFlight(r)' |-> CarriedBy(d)']
             u == [j \in UsedToday(r) |-> FeeOf(j)]
             v == [j \in UsedToday(r)' |-> FeeOf(j)']
  <1>10. /\ \A d \in DOMAIN f : f[d] \in Nat
         /\ \A d \in DOMAIN g : g[d] = f[d]
         /\ DOMAIN g = DOMAIN f \ {c} /\ IsFiniteSet(DOMAIN f)
         /\ \A j \in DOMAIN u : u[j] \in Nat
         /\ IsFiniteSet(DOMAIN u) /\ IsFiniteSet(DOMAIN v)
         /\ \A j \in DOMAIN v : v[j] = FeeOf(j) /\ v[j] \in Nat
    <2>1. \A d \in DOMAIN g : g[d] = f[d]
      BY <1>6, <1>9 DEF InFlight
    <2>2. \A d \in DOMAIN f : f[d] \in Nat
      BY <1>1 DEF CapTyped, InFlight
    <2>3. \A j \in DOMAIN v : v[j] = FeeOf(j) /\ v[j] \in Nat
      BY <1>1, <1>4 DEF CapTyped
    <2> QED
      BY <1>1, <1>9, <2>1, <2>2, <2>3 DEF CapTyped
  <1>11. /\ CarriedFor(r) = SumFunction(f) /\ CarriedFor(r)' = SumFunction(g)
         /\ FeesOf(UsedToday(r)) = SumFunction(u) /\ FeesOf(UsedToday(r))' = SumFunction(v)
    BY DEF CarriedFor, FeesOf, FeeOf
  <1>12. /\ SumFunction(f) \in Nat /\ SumFunction(g) \in Nat
         /\ SumFunction(u) \in Nat /\ SumFunction(v) \in Nat
    BY <1>1, <1>11 DEF CapTyped
  <1>13. CASE receipts[i].receiver_wallet # r
    <2>1. InFlight(r)' = InFlight(r)
      BY <1>9, <1>13 DEF InFlight
    <2>2. f = g
      BY <1>10, <2>1
    <2>3. UsedToday(r)' = UsedToday(r)
      BY <1>2, <1>4, <1>13 DEF UsedToday
    <2>4. u = v
      BY <1>10, <2>3
    <2> QED
      BY <1>5, <1>11, <2>2, <2>4 DEF WithinBound, CapBound
  <1>14. CASE receipts[i].receiver_wallet = r
    <2>1. c \in DOMAIN f /\ f[c] = FeeOf(i)
      BY <1>2, <1>7, <1>14 DEF InFlight, CarriedBy
    <2>2. UsedToday(r) \subseteq UsedToday(r)' /\ UsedToday(r)' \subseteq UsedToday(r) \cup {i}
      <3>1. receipts'[i].used_for_compensation
        BY <1>2 DEF receipt, GasReceipt
      <3> QED
        BY <1>2, <1>4, <3>1 DEF UsedToday
    <2>3. DOMAIN u \subseteq DOMAIN v /\ DOMAIN v \subseteq DOMAIN u \cup {i}
      BY <2>2
    <2>4. FeeOf(i) \in Nat
      BY <1>1, <1>2 DEF CapTyped
    <2>5. \A j \in DOMAIN u : v[j] = u[j]
      BY <1>10, <2>3
    <2> HIDE DEF f, g, u, v
    <2>6. SumFunction(g) = SumFunction(f) - FeeOf(i)
      BY <1>10, <2>1, TotalDrop
    <2>7. SumFunction(v) <= SumFunction(u) + FeeOf(i)
      <3>1. CASE DOMAIN v = DOMAIN u
        <4>1. SumFunction(v) = SumFunction(u)
          <5>1. SumFunctionOnSet(v, DOMAIN u) = SumFunctionOnSet(u, DOMAIN u)
            BY <1>10, <2>5, SumSame
          <5> QED
            BY <3>1, <5>1 DEF SumFunction
        <4> QED
          BY <1>12, <2>4, <4>1
      <3>2. CASE DOMAIN v = DOMAIN u \cup {i}
        <4>1. v[i] = FeeOf(i) /\ v[i] \in Nat
          BY <1>10, <3>2
        <4>2. \A j \in DOMAIN u \ {i} : v[j] = u[j]
          BY <2>5
        <4>3. SumFunction(v) <= SumFunction(u) + v[i]
          BY <1>10, <3>2, <4>1, <4>2, TotalPut
        <4> QED
          BY <4>1, <4>3
      <3> QED
        BY <2>3, <3>1, <3>2
    <2>8. SumFunction(v) + SumFunction(g) <= SumFunction(u) + SumFunction(f)
      BY <1>12, <2>4, <2>6, <2>7
    <2>9. SumFunction(u) + SumFunction(f) <= CapBound
      BY <1>5, <1>11 DEF WithinBound
    <2>10. SumFunction(v) + SumFunction(g) <= CapBound
      BY <1>12, <2>8, <2>9, BoundIsPositive
    <2> QED
      BY <1>11, <2>10 DEF WithinBound, CapBound
  <1> QED
    BY <1>13, <1>14

LEMMA OverrunInit == CompensationInit => DailyOverrunBounded
  <1> SUFFICES ASSUME CompensationInit, NEW r \in Receivers PROVE WithinBound(r)
    BY DEF DailyOverrunBounded, WithinBound, CarriedFor, CarriedBy, FeeOf, CapBound
  <1>1. UsedToday(r) = {} /\ InFlight(r) = {}
    BY DEF CompensationInit, UsedToday, InFlight, Passed
  <1> DEFINE f == [i \in UsedToday(r) |-> receipts[i].total_fee_lamports]
             g == [c \in InFlight(r) |-> CarriedBy(c)]
  <1>2. DOMAIN f = {} /\ DOMAIN g = {} /\ IsFiniteSet({})
    BY <1>1, FS_EmptySet
  <1> HIDE DEF f, g
  <1>3. SumFunction(f) = 0 /\ SumFunction(g) = 0
    BY <1>2, TotalNat
  <1>4. FeesOf(UsedToday(r)) = 0 /\ CarriedFor(r) = 0
    BY <1>3 DEF f, g, FeesOf, CarriedFor
  <1> QED
    BY <1>4, BoundIsPositive DEF WithinBound

LEMMA OverrunStep ==
  ASSUME CompensationInv, CompensationInv', DailyOverrunBounded,
         [CompensationNext]_compensationVars
  PROVE  DailyOverrunBounded'
  <1>1. /\ CompensationTypeOK /\ CompensationTypeOK'
        /\ now \in Nat /\ pc \in [Callers -> Quoting \cup {"idle", "granted"}]
        /\ receipt_of \in [Callers -> Nat]
        /\ receipts \in Seq(GasReceipt)
    BY DEF CompensationInv, CompensationTypeOK
  <1>2. CASE \E c \in Callers : PassTests(c)
    BY <1>2, PassingWithinBound
  <1>3. CASE \E c \in Callers : MarkCompensated(c)
    BY <1>3, MarkingWithinBound
  <1>4. ASSUME NEW r \in Receivers, NEW fee \in Fees, CreateReceipt(r, fee)
        PROVE  DailyOverrunBounded'
    <2> DEFINE receipt == [receiver_wallet |-> r, total_fee_lamports |-> fee,
                           used_for_compensation |-> FALSE, created_at |-> now]
    <2>1. receipts' = Append(receipts, receipt) /\ UNCHANGED <<pc, receipt_of, now>>
      BY <1>4 DEF CreateReceipt, callerVars
    <2>2. receipt.used_for_compensation = FALSE
      OBVIOUS
    <2> HIDE DEF receipt
    <2>3. /\ DOMAIN receipts \subseteq DOMAIN receipts'
          /\ \A i \in DOMAIN receipts : receipts'[i] = receipts[i]
          /\ \A i \in DOMAIN receipts' \ DOMAIN receipts : ~receipts'[i].used_for_compensation
      BY <1>1, <2>1, <2>2
    <2> QED
      BY <1>1, <2>1, <2>3, NothingMarked
  <1>5. CASE \E c \in Callers : \/ \E i \in DOMAIN receipts : CalculateCompensation(c, i)
                                \/ RefuseCompensation(c) \/ ReadSol(c) \/ ReadMembra(c)
    <2>1. receipts' = receipts /\ now' = now
      BY <1>5 DEF CalculateCompensation, RefuseCompensation, ReadSol, ReadMembra
    <2>2. \A c \in Callers : /\ pc'[c] \in Passed <=> pc[c] \in Passed
                             /\ pc[c] \in Passed => receipt_of'[c] = receipt_of[c]
      BY <1>1, <1>5 DEF CalculateCompensation, RefuseCompensation, ReadSol, ReadMembra,
         Goto, Leave, Passed
    <2> QED
      BY <1>1, <2>1, <2>2, NothingMarked
  <1>6. CASE UNCHANGED <<receipts, pc, receipt_of>> /\ now' >= now
    BY <1>1, <1>6, NothingMarked
  <1>7. CASE /\ Tick
             /\ UNCHANGED <<receipts, compensation_enabled, gasOracleVars, holder, callerVars,
                            updaterVars, overtaken, paid>>
    BY <1>1, <1>6, <1>7 DEF Tick, callerVars
  <1>8. CASE UNCHANGED compensationVars
    BY <1>1, <1>6, <1>8 DEF compensationVars, callerVars
  <1>9. ASSUME \/ \E enabled \in BOOLEAN : SetCompensationEnabled(enabled)
               \/ \E u \in Updaters, price \in Prices : UpdateOracle(u, price)
               \/ \E u \in Updaters : UpdaterStep(u)
        PROVE  DailyOverrunBounded'
    BY <1>1, <1>6, <1>9 DEF SetCompensationEnabled, UpdateOracle, UpdaterStep, StoreSol,
       StoreMembra, StoreStamp, callerVars
  <1> QED
    BY <1>2, <1>3, <1>4, <1>5, <1>7, <1>8, <1>9 DEF CompensationNext, CallerStep

\* The daily cap of a receiver is overrun by no more than what the other callers
\* carried, however receipts, calls and the day's end interleave.
THEOREM OverrunOfDailyCap == CompensationSpec => []DailyOverrunBounded
  BY CompensationInitInv, CompensationStepInv, OverrunInit, OverrunStep, PTL
     DEF CompensationSpec
=============================================================================
