--------------------------- MODULE ReceiverPaidGas ---------------------------
(***************************************************************************)
(* class ReceiverPaidGas (include/receiver_paid_gas.hpp): receivers who    *)
(* paid for gas are compensated at the prices of an oracle.                *)
(*                                                                         *)
(* Compensation takes a caller two calls.  calculate_compensation holds    *)
(* mutex_, takes oracle_mutex_ for the staleness test alone and reads the  *)
(* two prices after giving it back, so each reading is a step here and so  *)
(* is each store of update_oracle.  mark_compensated comes later and locks *)
(* anew; between the two calls the caller pays.  Fees are totals, prices   *)
(* whole numbers; the amount computed from the two readings is left out,   *)
(* as are the gas averages of the oracle.                                  *)
(***************************************************************************)
EXTENDS Clock, Sequences, FiniteSetsExt, Functions

CONSTANTS Callers,           \* threads that compensate receivers
          Updaters,          \* threads that call update_oracle
          NoCaller,          \* mutex_ is free
          NoUpdater,         \* oracle_mutex_ is free
          Receivers,         \* receiver wallets
          Fees,              \* total fees of receipts
          Prices,            \* what update_oracle may publish
          InitialPrice,
          StaleAfter,        \* ORACLE_STALE_SECONDS, in ticks
          Day,               \* 86400 seconds, in ticks
          MaxPerDay,         \* max_compensation_per_wallet_per_day_
          MaxReceipts,       \* bound on the receipts created
          MaxUpdates         \* bound on the calls of update_oracle

Price == [sol : Nat, membra : Nat \ {0}]

ASSUME CompensationAssumption ==
    /\ NoCaller \notin Callers
    /\ NoUpdater \notin Updaters
    /\ IsFiniteSet(Callers)
    /\ Fees \subseteq Nat
    /\ Prices \cup {InitialPrice} \subseteq Price
    /\ {StaleAfter, Day, MaxPerDay, MaxReceipts, MaxUpdates} \subseteq Nat

\* There is a thread, and one fee is the largest: they are machine words.
ASSUME CapAssumption == Callers # {} /\ Fees # {} /\ IsFiniteSet(Fees)

VARIABLES receipts,                            \* receipts_, in the order of receipt_counter_
          compensation_enabled,
          sol_usd_twap, membra_usd_twap, last_updated_at,    \* oracle_state_
          holder, oracle_holder,               \* who holds mutex_, oracle_mutex_ across steps
          pc, receipt_of, quoted,              \* a caller's place, receipt, and prices read
          update_pc, update,                   \* an updater's place and argument
          overtaken,   \* history: an update touched the prices during the reading
          paid,        \* history: compensations paid for each receipt
          updates      \* history: calls of update_oracle

gasOracleVars == <<sol_usd_twap, membra_usd_twap, last_updated_at>>
callerVars    == <<pc, receipt_of, quoted>>
updaterVars   == <<oracle_holder, update_pc, update, updates>>
compensationVars == <<receipts, compensation_enabled, gasOracleVars, holder, callerVars,
                      updaterVars, overtaken, paid, now>>

GasReceipt == [receiver_wallet : Receivers, total_fee_lamports : Fees,
               used_for_compensation : BOOLEAN, created_at : Nat]

\* The places of a caller inside calculate_compensation.
Quoting == {"oracle", "sol", "membra"}
\* The places at which a caller has passed the tests and not marked yet.
Passed  == {"sol", "membra", "granted"}

CompensationTypeOK ==
    /\ receipts \in Seq(GasReceipt)
    /\ compensation_enabled \in BOOLEAN
    /\ sol_usd_twap \in Nat
    /\ membra_usd_twap \in Nat \ {0}
    /\ last_updated_at \in Nat
    /\ now \in Nat
    /\ holder \in Callers \cup {NoCaller}
    /\ oracle_holder \in Updaters \cup {NoUpdater}
    /\ pc \in [Callers -> Quoting \cup {"idle", "granted"}]
    /\ receipt_of \in [Callers -> Nat]
    /\ \A c \in Callers : pc[c] # "idle" => receipt_of[c] \in DOMAIN receipts
    /\ quoted \in [Callers -> Price]
    /\ update_pc \in [Updaters -> {"idle", "sol", "membra", "stamp"}]
    /\ update \in [Updaters -> Prices \cup {InitialPrice}]
    /\ overtaken \in [Callers -> BOOLEAN]
    /\ paid \in Seq(Nat)
    /\ DOMAIN paid = DOMAIN receipts
    /\ updates \in Nat

CompensationInit ==
    /\ ClockInit
    /\ receipts = << >>
    /\ compensation_enabled = FALSE
    /\ sol_usd_twap = InitialPrice.sol
    /\ membra_usd_twap = InitialPrice.membra
    /\ last_updated_at = now
    /\ holder = NoCaller
    /\ oracle_holder = NoUpdater
    /\ pc = [c \in Callers |-> "idle"]
    /\ receipt_of = [c \in Callers |-> 0]
    /\ quoted = [c \in Callers |-> InitialPrice]
    /\ update_pc = [u \in Updaters |-> "idle"]
    /\ update = [u \in Updaters |-> InitialPrice]
    /\ overtaken = [c \in Callers |-> FALSE]
    /\ paid = << >>
    /\ updates = 0

\* The call returns to a caller that has no further use for its answer: its
\* locals are gone.
Leave(c) == /\ pc' = [pc EXCEPT ![c] = "idle"]
            /\ receipt_of' = [receipt_of EXCEPT ![c] = 0]
            /\ quoted' = [quoted EXCEPT ![c] = InitialPrice]
            /\ overtaken' = [overtaken EXCEPT ![c] = FALSE]

Goto(c, place)     == pc' = [pc EXCEPT ![c] = place]
UpdateTo(u, place) == update_pc' = [update_pc EXCEPT ![u] = place]

-----------------------------------------------------------------------------
\* create_receipt: the identifier is the counter, unlike those of the vaults.
CreateReceipt(receiver, fee) ==
    /\ holder = NoCaller
    /\ Len(receipts) < MaxReceipts
    /\ receipts' = Append(receipts, [receiver_wallet |-> receiver, total_fee_lamports |-> fee,
                                     used_for_compensation |-> FALSE, created_at |-> now])
    /\ paid' = Append(paid, 0)
    /\ UNCHANGED <<compensation_enabled, gasOracleVars, holder, callerVars, updaterVars,
                   overtaken, now>>

\* set_compensation_enabled writes a plain bool, without a lock.
SetCompensationEnabled(enabled) ==
    /\ compensation_enabled' = enabled
    /\ UNCHANGED <<receipts, gasOracleVars, holder, callerVars, updaterVars, overtaken, paid, now>>

-----------------------------------------------------------------------------
\* update_oracle takes oracle_mutex_, then stores one field after the other.
UpdateOracle(u, price) ==
    /\ update_pc[u] = "idle"
    /\ oracle_holder = NoUpdater
    /\ updates < MaxUpdates
    /\ UpdateTo(u, "sol")
    /\ oracle_holder' = u
    /\ update' = [update EXCEPT ![u] = price]
    /\ updates' = updates + 1
    /\ UNCHANGED <<receipts, compensation_enabled, gasOracleVars, holder, callerVars,
                   overtaken, paid, now>>

\* Every caller past the staleness test is overtaken by a store.
Overtake == overtaken' = [c \in Callers |-> overtaken[c] \/ pc[c] \in {"sol", "membra"}]

StoreSol(u) ==
    /\ update_pc[u] = "sol"
    /\ UpdateTo(u, "membra")
    /\ sol_usd_twap' = update[u].sol
    /\ Overtake
    /\ UNCHANGED <<receipts, compensation_enabled, membra_usd_twap, last_updated_at, holder,
                   callerVars, oracle_holder, update, updates, paid, now>>

StoreMembra(u) ==
    /\ update_pc[u] = "membra"
    /\ UpdateTo(u, "stamp")
    /\ membra_usd_twap' = update[u].membra
    /\ Overtake
    /\ UNCHANGED <<receipts, compensation_enabled, sol_usd_twap, last_updated_at, holder,
                   callerVars, oracle_holder, update, updates, paid, now>>

\* Mutated form: the receipts are locked as well, to stamp them consistently.
StoreStamp_Locking(u) ==
    /\ update_pc[u] = "stamp"
    /\ holder = NoCaller
    /\ UpdateTo(u, "idle")
    /\ update' = [update EXCEPT ![u] = InitialPrice]
    /\ last_updated_at' = now
    /\ oracle_holder' = NoUpdater
    /\ UNCHANGED <<receipts, compensation_enabled, sol_usd_twap, membra_usd_twap, holder,
                   callerVars, updates, overtaken, paid, now>>

\* last_updated_at, after which oracle_mutex_ is released.
StoreStamp(u) ==
    /\ update_pc[u] = "stamp"
    /\ UpdateTo(u, "idle")
    /\ update' = [update EXCEPT ![u] = InitialPrice]
    /\ last_updated_at' = now
    /\ oracle_holder' = NoUpdater
    /\ UNCHANGED <<receipts, compensation_enabled, sol_usd_twap, membra_usd_twap, holder,
                   callerVars, updates, overtaken, paid, now>>

UpdaterStep(u) == StoreSol(u) \/ StoreMembra(u) \/ StoreStamp(u)

-----------------------------------------------------------------------------
\* get_wallet_daily_compensation
UsedToday(receiver) ==
    {i \in DOMAIN receipts : /\ receipts[i].receiver_wallet = receiver
                             /\ receipts[i].used_for_compensation
                             /\ receipts[i].created_at >= now - Day}

FeesOf(ids) == SumFunction([i \in ids |-> receipts[i].total_fee_lamports])

\* calculate_compensation up to the oracle's lock.
CalculateCompensation(c, i) ==
    /\ pc[c] = "idle"
    /\ holder = NoCaller
    /\ compensation_enabled
    /\ holder' = c
    /\ Goto(c, "oracle")
    /\ receipt_of' = [receipt_of EXCEPT ![c] = i]
    /\ UNCHANGED <<receipts, compensation_enabled, gasOracleVars, quoted, updaterVars,
                   overtaken, paid, now>>

IsStale == now - last_updated_at > StaleAfter

\* Mutated form: the daily cap is compared with the fee alone.
WithinDailyCap_FeeAlone(receipt) == receipt.total_fee_lamports <= MaxPerDay

WithinDailyCap(receipt) ==
    FeesOf(UsedToday(receipt.receiver_wallet)) + receipt.total_fee_lamports <= MaxPerDay

\* Mutated form: the receipt's flag is not looked at.
Compensable_Used(receipt) == ~IsStale /\ WithinDailyCap(receipt)

Compensable(receipt) == /\ ~IsStale
                        /\ ~receipt.used_for_compensation
                        /\ WithinDailyCap(receipt)

\* Mutated form: is_stale is called without oracle_mutex_.
PassTests_Unguarded(c) ==
    /\ pc[c] = "oracle"
    /\ Compensable(receipts[receipt_of[c]])
    /\ Goto(c, "sol")
    /\ overtaken' = [overtaken EXCEPT ![c] = FALSE]
    /\ UNCHANGED <<receipts, compensation_enabled, gasOracleVars, holder, receipt_of, quoted,
                   updaterVars, paid, now>>

\* The oracle is found fresh under its lock, the receipt unused and within the
\* cap under the caller's own.
PassTests(c) ==
    /\ pc[c] = "oracle"
    /\ oracle_holder = NoUpdater
    /\ Compensable(receipts[receipt_of[c]])
    /\ Goto(c, "sol")
    /\ overtaken' = [overtaken EXCEPT ![c] = FALSE]
    /\ UNCHANGED <<receipts, compensation_enabled, gasOracleVars, holder, receipt_of, quoted,
                   updaterVars, paid, now>>

\* can_compensate = false: both locks are released.
RefuseCompensation(c) ==
    /\ pc[c] = "oracle"
    /\ oracle_holder = NoUpdater
    /\ ~Compensable(receipts[receipt_of[c]])
    /\ Leave(c)
    /\ holder' = NoCaller
    /\ UNCHANGED <<receipts, compensation_enabled, gasOracleVars, updaterVars, paid, now>>

\* sol_usd_twap is read without oracle_mutex_.
ReadSol(c) ==
    /\ pc[c] = "sol"
    /\ Goto(c, "membra")
    /\ quoted' = [quoted EXCEPT ![c].sol = sol_usd_twap]
    /\ UNCHANGED <<receipts, compensation_enabled, gasOracleVars, holder, receipt_of,
                   updaterVars, overtaken, paid, now>>

\* So is membra_usd_twap; the compensation is computed from the two readings,
\* and calculate_compensation returns true and unlocks.
ReadMembra(c) ==
    /\ pc[c] = "membra"
    /\ Goto(c, "granted")
    /\ quoted' = [quoted EXCEPT ![c].membra = membra_usd_twap]
    /\ holder' = NoCaller
    /\ UNCHANGED <<receipts, compensation_enabled, gasOracleVars, receipt_of,
                   updaterVars, overtaken, paid, now>>

\* The caller has paid what it was told and calls mark_compensated, which
\* answers true for a receipt that is marked already, too.
MarkCompensated(c) ==
    /\ pc[c] = "granted"
    /\ holder = NoCaller
    /\ Leave(c)
    /\ receipts' = [receipts EXCEPT ![receipt_of[c]].used_for_compensation = TRUE]
    /\ paid' = [paid EXCEPT ![receipt_of[c]] = @ + 1]
    /\ UNCHANGED <<compensation_enabled, gasOracleVars, holder, updaterVars, now>>

CallerStep(c) == \/ PassTests(c) \/ RefuseCompensation(c)
                 \/ ReadSol(c) \/ ReadMembra(c) \/ MarkCompensated(c)

-----------------------------------------------------------------------------
CompensationNext ==
    \/ \E r \in Receivers, fee \in Fees : CreateReceipt(r, fee)
    \/ \E enabled \in BOOLEAN : SetCompensationEnabled(enabled)
    \/ \E u \in Updaters, price \in Prices : UpdateOracle(u, price)
    \/ \E u \in Updaters : UpdaterStep(u)
    \/ \E c \in Callers, i \in DOMAIN receipts : CalculateCompensation(c, i)
    \/ \E c \in Callers : CallerStep(c)
    \/ /\ Tick
       /\ UNCHANGED <<receipts, compensation_enabled, gasOracleVars, holder, callerVars,
                      updaterVars, overtaken, paid>>

\* Threads inside a call are scheduled; nobody has to call.
CompensationFairness == /\ \A c \in Callers : WF_compensationVars(CallerStep(c))
                        /\ \A u \in Updaters : WF_compensationVars(UpdaterStep(u))

CompensationSpec ==
    CompensationInit /\ [][CompensationNext]_compensationVars /\ CompensationFairness

-----------------------------------------------------------------------------
InFlight(receiver) ==
    {c \in Callers : pc[c] \in Passed /\ receipts[receipt_of[c]].receiver_wallet = receiver}

InPayment(i) == {c \in Callers : pc[c] \in Passed /\ receipt_of[c] = i}

\* "Max reward per wallet per day" (README.md:157), the cap set at
\* receiver_paid_gas.hpp:80.  It is tested by calculate_compensation and used up
\* by a later mark_compensated, so that two callers exceed it together.
DailyCapHolds == \A r \in Receivers : FeesOf(UsedToday(r)) <= MaxPerDay

\* "Each receipt can only be used once" (README.md:161).  Two callers that were
\* both granted a compensation before either marks the receipt both pay it.
ReceiptUsedOnce == \A i \in DOMAIN receipts : paid[i] <= 1

\* How far the daily cap is exceeded: by what the other callers had in flight,
\* at most one receipt each.
DailyOverrunBounded ==
    \A r \in Receivers :
        FeesOf(UsedToday(r))
            + SumFunction([c \in InFlight(r) |-> receipts[receipt_of[c]].total_fee_lamports])
            <= MaxPerDay + (Cardinality(Callers) - 1) * Max(Fees)

\* How often a receipt is paid: once by each caller at most, since nobody passes
\* the tests once one of them has marked it.  With one caller, once.
PaymentsBounded ==
    \A i \in DOMAIN receipts : paid[i] + Cardinality(InPayment(i)) <= Cardinality(Callers)

\* The prices of a quote were published together, unless an update overtook
\* the caller between its test under the oracle's lock and its readings.
QuoteUnlessOvertaken ==
    \A c \in Callers :
        pc[c] = "granted" /\ ~overtaken[c] => quoted[c] \in Prices \cup {InitialPrice}

\* calculate_compensation takes the oracle's lock while holding its own, and
\* update_oracle only takes the former: every call is answered.
EveryQuoteAnswered == \A c \in Callers : pc[c] \in Quoting ~> pc[c] \notin Quoting
=============================================================================
