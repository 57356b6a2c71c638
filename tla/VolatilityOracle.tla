--------------------------- MODULE VolatilityOracle ---------------------------
(***************************************************************************)
(* class VolatilityOracle (include/volatility_oracle.hpp): a ring of the   *)
(* last prices, and the assessment of their average and their change.      *)
(*                                                                         *)
(* price_mutex_ and gas_mutex_ are held within one step.  An assessment is *)
(* made of five: it reads the clock, computes under price_mutex_, reads    *)
(* last_oracle_update_ after the unlock, and publishes the average and the *)
(* change in two stores.  Averages and changes are kept as the pair of     *)
(* whole numbers whose quotient the code computes; of a slot's timestamp   *)
(* the code only asks whether it is set.                                   *)
(***************************************************************************)
EXTENDS Clock, Sequences, FiniteSetsExt, Functions

CONSTANTS Monitors,          \* threads that call assess
          Points,            \* prices fed, with their volume
          GasReadings,       \* what feed_gas may say of congestion
          NoPoint,           \* a slot of timestamp 0
          HistorySize,       \* PRICE_HISTORY_SIZE
          MinDataPoints,     \* MIN_DATA_POINTS
          StaleAfter,        \* ORACLE_STALE_SECONDS, in ticks
          MaxFeeds           \* bound on the prices fed

ASSUME VolatilityAssumption ==
    /\ Points \subseteq [price : Nat, volume : Nat]
    /\ NoPoint \notin Points
    /\ GasReadings \subseteq BOOLEAN
    /\ HistorySize \in Nat \ {0}
    /\ MinDataPoints \in 1..HistorySize
    /\ StaleAfter \in Nat
    /\ MaxFeeds \in Nat

VARIABLES price_history, price_index,
          last_oracle_update, last_twap, last_price_change,
          congested,                            \* of latest_gas_
          place, asked_at,                      \* an assessment's place and its clock reading
          twap, price_change, oracle_age, signal,
          fed, fed_at, \* history: all prices fed, and when the newest was
          seen,        \* history: how many of them an assessment saw
          priced_at,   \* history: when the newest of those was fed
          overtaken,   \* history: a price was fed since the clock reading
          mixed        \* history: the last publications overlapped

ringVars    == <<price_history, price_index, fed, fed_at>>
publishVars == <<last_twap, last_price_change, mixed>>
localVars   == <<asked_at, twap, price_change, oracle_age, signal, seen, priced_at, overtaken>>
oracleVars  == <<ringVars, publishVars, last_oracle_update, congested, place, localVars>>

Slots == 0..HistorySize - 1

\* 1970, a long time before any reading of the clock.
Epoch == 0 - StaleAfter - 1

\* An average is <<total price, total volume>>, a change <<first, last>>.
NoTwap   == <<0, 1>>
NoChange == <<1, 1>>

\* The places of assess from its clock reading to its return, in order.
Asked == {"asked", "priced", "aged", "twapped"}
\* Those at which the average and the change are computed.
Priced == Asked \ {"asked"}
\* Those at which the signal is decided.
Decided == Priced \ {"priced"}

OracleInit ==
    /\ price_history = [i \in Slots |-> NoPoint]
    /\ price_index = 0
    /\ last_oracle_update = Epoch
    /\ last_twap = NoTwap
    /\ last_price_change = NoChange
    /\ congested = FALSE
    /\ place = [m \in Monitors |-> "idle"]
    /\ asked_at = [m \in Monitors |-> 0]
    /\ twap = [m \in Monitors |-> NoTwap]
    /\ price_change = [m \in Monitors |-> NoChange]
    /\ oracle_age = [m \in Monitors |-> 0]
    /\ signal = [m \in Monitors |-> "none"]
    /\ fed = << >>
    /\ fed_at = Epoch
    /\ seen = [m \in Monitors |-> 0]
    /\ priced_at = [m \in Monitors |-> 0]
    /\ overtaken = [m \in Monitors |-> FALSE]
    /\ mixed = FALSE

Goto(m, p) == place' = [place EXCEPT ![m] = p]

\* assess returns its report; its locals are gone.
ReturnReport(m) ==
    /\ Goto(m, "reported")
    /\ asked_at' = [asked_at EXCEPT ![m] = 0]
    /\ twap' = [twap EXCEPT ![m] = NoTwap]
    /\ price_change' = [price_change EXCEPT ![m] = NoChange]
    /\ oracle_age' = [oracle_age EXCEPT ![m] = 0]
    /\ signal' = [signal EXCEPT ![m] = "none"]
    /\ seen' = [seen EXCEPT ![m] = 0]
    /\ priced_at' = [priced_at EXCEPT ![m] = 0]
    /\ overtaken' = [overtaken EXCEPT ![m] = FALSE]

-----------------------------------------------------------------------------
\* feed_price
FeedPrice(point) ==
    /\ Len(fed) < MaxFeeds
    /\ price_history' = [price_history EXCEPT ![price_index] = point]
    /\ price_index' = (price_index + 1) % HistorySize
    /\ last_oracle_update' = now
    /\ fed' = Append(fed, point)
    /\ fed_at' = now
    /\ overtaken' = [m \in Monitors |-> place[m] \in Asked]
    /\ UNCHANGED <<publishVars, congested, place, asked_at, twap, price_change, oracle_age,
                   signal, seen, priced_at, now>>

\* Mutated form: gas readings keep the oracle fresh, too.
FeedGas_Refreshing(is_congested) ==
    /\ congested' = is_congested
    /\ last_oracle_update' = now
    /\ UNCHANGED <<ringVars, publishVars, place, localVars, now>>

\* feed_gas writes latest_gas_, which no other function reads.
FeedGas(is_congested) ==
    /\ congested' = is_congested
    /\ UNCHANGED <<ringVars, publishVars, last_oracle_update, place, localVars, now>>

-----------------------------------------------------------------------------
Weight(point) == IF point.volume > 0 THEN point.volume ELSE 1

\* The slots written so far, which the first loop of compute_twap sums up.
ValidSlots == {i \in Slots : price_history[i] # NoPoint}

TotalPrice  == SumFunction([i \in ValidSlots |-> price_history[i].price * Weight(price_history[i])])
TotalVolume == SumFunction([i \in ValidSlots |-> Weight(price_history[i])])

\* Mutated form: the walk starts at the first slot of the vector.
Visited_FromZero(i) == i

\* The slot the second loop visits in step i: it starts at the one that is
\* overwritten next.
Visited(i) == (price_index + i) % HistorySize

\* The steps at which it finds a price: first_price and last_price are those
\* of the first and of the last of them.
ValidSteps == {i \in Slots : price_history[Visited(i)] # NoPoint}
FirstPrice == price_history[Visited(Min(ValidSteps))].price
LastPrice  == price_history[Visited(Max(ValidSteps))].price

Change(first_price, last_price) ==
    IF first_price > 0 THEN <<first_price, last_price>> ELSE NoChange

EnoughPoints == Cardinality(ValidSlots) >= MinDataPoints

ComputedTwap   == IF EnoughPoints THEN <<TotalPrice, TotalVolume>> ELSE NoTwap
ComputedChange == IF EnoughPoints THEN Change(FirstPrice, LastPrice) ELSE NoChange

\* |change| >= VOLATILITY_THRESHOLD, 2 %.
Volatile(change) == LET moved == change[2] - change[1]
                    IN  50 * (IF moved < 0 THEN -moved ELSE moved) >= change[1]

\* The branches of assess, in their order.
SignalFor(age, coverage_low, change) ==
    CASE age > StaleAfter -> "ORACLE_STALE"
      [] age <= StaleAfter /\ coverage_low -> "COVERAGE_WARNING"
      [] age <= StaleAfter /\ ~coverage_low /\ Volatile(change) -> "VOLATILITY_DETECTED"
      [] OTHER -> "VOLATILITY_PAUSED"

-----------------------------------------------------------------------------
\* assess reads the clock, before it locks.
Assess(m) ==
    /\ place[m] = "idle"
    /\ Goto(m, "asked")
    /\ asked_at' = [asked_at EXCEPT ![m] = now]
    /\ UNCHANGED <<ringVars, publishVars, last_oracle_update, congested, twap, price_change,
                   oracle_age, signal, seen, priced_at, overtaken, now>>

\* compute_twap, under price_mutex_.
ComputeTwap(m) ==
    /\ place[m] = "asked"
    /\ Goto(m, "priced")
    /\ twap' = [twap EXCEPT ![m] = ComputedTwap]
    /\ price_change' = [price_change EXCEPT ![m] = ComputedChange]
    /\ seen' = [seen EXCEPT ![m] = Len(fed)]
    /\ priced_at' = [priced_at EXCEPT ![m] = fed_at]
    /\ UNCHANGED <<ringVars, publishVars, last_oracle_update, congested, asked_at, oracle_age,
                   signal, overtaken, now>>

\* last_oracle_update_ is read after the unlock, and the signal decided.
DecideSignal(m, coverage_low) ==
    /\ place[m] = "priced"
    /\ Goto(m, "aged")
    /\ LET age == asked_at[m] - last_oracle_update
       IN  /\ oracle_age' = [oracle_age EXCEPT ![m] = age]
           /\ signal' = [signal EXCEPT ![m] = SignalFor(age, coverage_low, price_change[m])]
    /\ UNCHANGED <<ringVars, publishVars, last_oracle_update, congested, asked_at, twap,
                   price_change, seen, priced_at, overtaken, now>>

StoreTwap(m) ==
    /\ place[m] = "aged"
    /\ Goto(m, "twapped")
    /\ last_twap' = twap[m]
    /\ mixed' = \E other \in Monitors : place[other] = "twapped"
    /\ UNCHANGED <<ringVars, last_price_change, last_oracle_update, congested, localVars, now>>

\* Mutated form: a stale report does not move the published change.
StoreChange_UnlessStale(m) ==
    /\ place[m] = "twapped"
    /\ ReturnReport(m)
    /\ last_price_change' = IF signal[m] = "ORACLE_STALE" THEN last_price_change
                                                          ELSE price_change[m]
    /\ UNCHANGED <<ringVars, last_twap, mixed, last_oracle_update, congested, now>>

\* The second store, after which assess returns its report.
StoreChange(m) ==
    /\ place[m] = "twapped"
    /\ ReturnReport(m)
    /\ last_price_change' = price_change[m]
    /\ UNCHANGED <<ringVars, last_twap, mixed, last_oracle_update, congested, now>>

MonitorStep(m) == \/ ComputeTwap(m)
                  \/ \E coverage_low \in BOOLEAN : DecideSignal(m, coverage_low)
                  \/ StoreTwap(m) \/ StoreChange(m)

-----------------------------------------------------------------------------
\* The last HistorySize of the first k prices fed, oldest first, and what a
\* report about them should say.
Window(k) == SubSeq(fed, Max({1, k - HistorySize + 1}), k)

TwapOf(w) ==
    IF Len(w) < MinDataPoints THEN NoTwap
    ELSE <<SumFunction([i \in DOMAIN w |-> w[i].price * Weight(w[i])]),
           SumFunction([i \in DOMAIN w |-> Weight(w[i])])>>

ChangeOf(w) == IF Len(w) < MinDataPoints THEN NoChange ELSE Change(w[1].price, w[Len(w)].price)

\* A report is about the prices of one moment: its average and its change are
\* those of the last HistorySize prices fed, from the oldest to the newest,
\* wherever the ring's index stands and whatever is fed meanwhile.
ReportsSpanWindow ==
    \A m \in Monitors : place[m] \in Priced =>
        /\ twap[m] = TwapOf(Window(seen[m]))
        /\ price_change[m] = ChangeOf(Window(seen[m]))

\* The clock is read before the lock and the last update after it.  Unless a
\* price was fed in between, the age of a report is that of the newest price
\* it was computed from, never negative, and a report of old prices says so.
AgeOfPricesUnlessOvertaken ==
    \A m \in Monitors : place[m] \in Decided /\ ~overtaken[m] =>
        /\ oracle_age[m] >= 0
        /\ asked_at[m] - priced_at[m] = oracle_age[m]
        /\ Window(seen[m]) = << >> => signal[m] = "ORACLE_STALE"

\* The average and the change are published in two stores.  Once no
\* assessment is between them, and the last publications did not overlap, the
\* pair that last_twap and can_unlock_rebase read comes from one window.
RebaseFromOneReport ==
    (\A m \in Monitors : place[m] # "twapped") /\ ~mixed =>
        \E k \in 0..Len(fed) : /\ last_twap = TwapOf(Window(k))
                               /\ last_price_change = ChangeOf(Window(k))
=============================================================================
