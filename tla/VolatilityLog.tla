---------------------------- MODULE VolatilityLog ----------------------------
(***************************************************************************)
(* A VolatilityOracle and a ProofBook side by side, the way main.cpp       *)
(* builds them: monitors assess the oracle and append a report as an entry *)
(* of type VOLATILITY, while other threads feed it and append entries of   *)
(* their own, as step 5 of the demo does.  What an entry's data says is    *)
(* left out.                                                               *)
(***************************************************************************)
EXTENDS VolatilityOracle

CONSTANTS Settlers,       \* threads that append entries of other types
          SettlerTypes,   \* the types of those entries
          NoWriter, Genesis, MaxEntries

ASSUME VolatilityLogAssumption == NoWriter \notin Monitors \cup Settlers /\ MaxEntries \in Nat

VARIABLES entries, last_hash, book_holder

Book == INSTANCE ProofBook WITH Writers <- Monitors \cup Settlers

bookVars          == <<entries, last_hash, book_holder>>
volatilityLogVars == <<oracleVars, bookVars, now>>

VolatilityLogInit == ClockInit /\ OracleInit /\ Book!BookInit

\* A monitor appends its report and is idle once append has returned.
LogReport(m) ==
    /\ place[m] = "reported"
    /\ Goto(m, "logging")
    /\ Book!BeginAppend(m, "VOLATILITY", "report")
    /\ UNCHANGED <<ringVars, publishVars, last_oracle_update, congested, localVars, now>>

ReportLogged(m) ==
    /\ place[m] = "logging"
    /\ Goto(m, "idle")
    /\ Book!EndAppend(m)
    /\ UNCHANGED <<ringVars, publishVars, last_oracle_update, congested, localVars, now>>

SettlerAppends(w, type) == Book!BeginAppend(w, type, "settled") /\ UNCHANGED <<oracleVars, now>>
SettlerAppended(w)      == Book!EndAppend(w) /\ UNCHANGED <<oracleVars, now>>

VolatilityLogNext ==
    \/ \E point \in Points : FeedPrice(point) /\ UNCHANGED bookVars
    \/ \E is_congested \in GasReadings : FeedGas(is_congested) /\ UNCHANGED bookVars
    \/ \E m \in Monitors : Assess(m) /\ UNCHANGED bookVars
    \/ \E m \in Monitors : MonitorStep(m) /\ UNCHANGED bookVars
    \/ \E m \in Monitors : LogReport(m) \/ ReportLogged(m)
    \/ \E w \in Settlers : \E type \in SettlerTypes : SettlerAppends(w, type)
    \/ \E w \in Settlers : SettlerAppended(w)
    \/ Tick /\ UNCHANGED <<oracleVars, bookVars>>

VolatilityLogSpec == VolatilityLogInit /\ [][VolatilityLogNext]_volatilityLogVars

ChainVerifies == Book!ChainVerifies

\* The log the readers see: the entries last_hash_ accounts for.
Log == INSTANCE AppendOnlyLog WITH log <- Book!Published, tail <- last_hash

\* The proof book is a log that only grows, in the order of time, whose tail
\* hash is that of its last entry whenever nobody is inside append.
ImplementsLog == Log!LogSpec
=============================================================================
