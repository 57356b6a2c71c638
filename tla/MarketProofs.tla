---------------------------- MODULE MarketProofs ----------------------------
(***************************************************************************)
(* Proofs about what watches the market: the mempool governor              *)
(* (MempoolGovernor), the volatility oracle and the proof book its reports *)
(* are logged in (VolatilityOracle, ProofBook, VolatilityLog).  They hold  *)
(* for any number of clients, monitors, settlers, prices and entries, and  *)
(* for every size of the ring of prices.                                   *)
(***************************************************************************)
EXTENDS MempoolGovernor, VolatilityLog, SumTheorems, SequenceTheorems, TLAPS

\* Quotient and remainder of a division are determined by what they are for.
LEMMA DivisionUnique ==
  ASSUME NEW a \in Nat, NEW n \in Nat \ {0}, NEW q \in Nat, NEW r \in 0..n - 1, a = q * n + r
  PROVE  a \div n = q /\ a % n = r
  <1> DEFINE d == a \div n
             e == a % n
  <1>1. d \in Int /\ e \in 0..n - 1 /\ a = n * d + e
    OBVIOUS
  <1> HIDE DEF d, e
  <1>2. n * d + e = n * q + r
    BY <1>1
  <1>3. CASE d < q
    <2>1. n * q >= n * (d + 1)
      BY <1>1, <1>3
    <2>2. n * (d + 1) = n * d + n
      BY <1>1
    <2> QED
      BY <1>1, <1>2, <2>1, <2>2
  <1>4. CASE d > q
    <2>1. n * d >= n * (q + 1)
      BY <1>1, <1>4
    <2>2. n * (q + 1) = n * q + n
      OBVIOUS
    <2> QED
      BY <1>1, <1>2, <2>1, <2>2
  <1>5. d = q
    BY <1>1, <1>3, <1>4
  <1>6. e = r
    BY <1>1, <1>2, <1>5
  <1> QED
    BY <1>5, <1>6 DEF d, e

-----------------------------------------------------------------------------
\* MempoolGovernor: risks and confidences, and what can be executed.

Actions == {"UPDATE_ORACLE", "BLOCK_UNSAFE_ACTION", "REROUTE_LIQUIDITY", "DO_NOTHING"}

\* What every recommendation is like, under whatever threshold it was made.
Sound(r) ==
    /\ r.action \in Actions
    /\ r.risk_score \in 0..50
    /\ r.confidence \in {100 - r.risk_score, 99 - r.risk_score}
    /\ r.threshold \in 0..100
    /\ r.action = "BLOCK_UNSAFE_ACTION" => r.threshold < 50 /\ r.requires_human_approval
    /\ r.action \in {"REROUTE_LIQUIDITY", "DO_NOTHING"} => r.risk_score <= r.threshold

\* The inductive invariant: a simulation succeeds only of what can be executed.
GovernorInv ==
    /\ risk_threshold \in 0..100
    /\ recommendation = [c \in Clients |-> recommendation[c]]
    /\ simulated \in [Clients -> BOOLEAN]
    /\ \A c \in Clients : recommendation[c] # NoRecommendation => Sound(recommendation[c])
    /\ \A c \in Clients : simulated[c] /\ recommendation[c] # NoRecommendation =>
           SimulationSucceeds(recommendation[c].action)

\* An average of at most 50, and the average of what is missing to 100.
LEMMA AverageAndRest ==
  ASSUME NEW n \in Nat \ {0}, NEW total \in Nat, total <= 50 * n
  PROVE  /\ total \div n \in 0..50
         /\ (100 * n - total) \div n \in {100 - (total \div n), 99 - (total \div n)}
         /\ \A t \in Nat : total <= t * n => total \div n <= t
  <1> DEFINE q == total \div n
             r == total % n
  <1>1. q \in Nat /\ r \in 0..n - 1 /\ total = q * n + r
    OBVIOUS
  <1> HIDE DEF q, r
  <1>2. ASSUME NEW t \in Nat, total <= t * n
        PROVE  q <= t
    <2>1. CASE q > t
      <3>1. q * n >= (t + 1) * n
        BY <1>1, <2>1
      <3>2. (t + 1) * n = t * n + n
        OBVIOUS
      <3> QED
        BY <1>1, <1>2, <3>1, <3>2
    <2> QED
      BY <1>1, <2>1
  <1>3. q \in 0..50
    BY <1>1, <1>2
  <1>4. (100 * n - total) \div n \in {100 - q, 99 - q}
    <2>1. CASE r = 0
      <3>1. 100 * n - total = (100 - q) * n + 0 /\ 100 * n - total \in Nat
        BY <1>1, <2>1
      <3>2. (100 * n - total) \div n = 100 - q
        BY <1>1, <1>3, <3>1, DivisionUnique
      <3> QED
        BY <3>2
    <2>2. CASE r # 0
      <3>1. 100 * n - total = (99 - q) * n + (n - r) /\ 100 * n - total \in Nat
        BY <1>1
      <3>2. n - r \in 0..n - 1
        BY <1>1, <2>2
      <3>3. (100 * n - total) \div n = 99 - q
        BY <1>1, <1>3, <3>1, <3>2, DivisionUnique
      <3> QED
        BY <3>3
    <2> QED
      BY <2>1, <2>2
  <1> QED
    BY <1>2, <1>3, <1>4 DEF q

\* The weights of a risk: half of it at most.
LEMMA RiskScoreBounded ==
  ASSUME NEW tx \in Transactions, NEW depth \in Depths
  PROVE  RiskScore(tx, depth) \in 0..50
  <1>1. tx.value \in Nat /\ depth \in Nat
    BY GovernorAssumption
  <1>2. PriceImpact(tx, depth) \in 0..100
    <2>1. CASE depth > 0
      <3> DEFINE share == (100 * tx.value) \div depth
                 S == {share, 100}
      <3>1. share \in Nat
        <4>1. \A a \in Nat, d \in Nat \ {0} : a \div d \in Nat
          OBVIOUS
        <4> QED
          BY <1>1, <2>1, <4>1
      <3> HIDE DEF share
      <3>2. \E x \in S : \A y \in S : x <= y
        BY <3>1
      <3>3. Min(S) \in S /\ \A y \in S : Min(S) <= y
        BY <3>2 DEF Min
      <3>4. Min(S) \in 0..100
        BY <3>1, <3>3
      <3> QED
        BY <2>1, <3>4 DEF PriceImpact, share
    <2>2. CASE ~(depth > 0)
      BY <2>2 DEF PriceImpact
    <2> QED
      BY <2>1, <2>2
  <1>3. MevRisk(tx) \in 0..50
    BY DEF MevRisk
  <1>4. \A a \in 0..50, b \in 0..100 : (a * 4 + b * 3) \div 10 \in 0..50
    OBVIOUS
  <1> QED
    BY <1>2, <1>3, <1>4 DEF RiskScore

\* A snapshot's total risk is at most 50 for each of its transactions.
LEMMA TotalRiskBounded ==
  ASSUME NEW pending \in Snapshots, NEW depth \in Depths
  PROVE  /\ Len(pending) \in Nat
         /\ pending # << >> => Len(pending) \in Nat \ {0}
         /\ TotalRisk(pending, depth) \in Nat
         /\ TotalRisk(pending, depth) <= 50 * Len(pending)
  <1>1. PICK n \in 0..MaxPending : pending \in [1..n -> Transactions]
    BY DEF Snapshots
  <1>2. n \in Nat
    BY GovernorAssumption
  <1>3. pending \in Seq(Transactions)
    BY <1>1, <1>2, SeqDef
  <1>4. Len(pending) = n /\ DOMAIN pending = 1..n
    BY <1>1, <1>2, <1>3
  <1>5. pending # << >> => n # 0
    BY <1>3, <1>4
  <1> DEFINE f == [i \in DOMAIN pending |-> RiskScore(pending[i], depth)]
  <1>6. \A i \in DOMAIN f : f[i] \in Nat /\ f[i] \in Int /\ f[i] <= 50
    <2>1. ASSUME NEW i \in DOMAIN f PROVE f[i] \in 0..50
      <3>1. pending[i] \in Transactions
        BY <1>1, <1>4
      <3> QED
        BY <3>1, RiskScoreBounded
    <2> HIDE DEF f
    <2> QED
      BY <2>1
  <1>7. DOMAIN f = 1..n /\ IsFiniteSet(1..n) /\ Cardinality(1..n) = n
    BY <1>2, <1>4, FS_Interval
  <1> HIDE DEF f
  <1>8. SumFunction(f) \in Nat
    BY <1>6, <1>7, TotalNat
  <1>9. SumFunctionOnSet(f, 1..n) <= 50 * Cardinality(1..n)
    BY <1>6, <1>7, SumBounded
  <1>10. SumFunction(f) <= 50 * n
    BY <1>7, <1>9 DEF SumFunction
  <1> QED
    BY <1>2, <1>4, <1>5, <1>8, <1>10 DEF TotalRisk, f

LEMMA RecommendIsSound ==
  ASSUME risk_threshold \in 0..100, NEW pending \in Snapshots, NEW depth \in Depths
  PROVE  Sound(Recommend(pending, depth))
  <1> DEFINE total == TotalRisk(pending, depth)
             n     == Len(pending)
             next  == NextAction(pending, total)
             r     == Recommend(pending, depth)
  <1>1. /\ n \in Nat /\ total \in Nat /\ total <= 50 * n
        /\ pending # << >> => n \in Nat \ {0}
    BY TotalRiskBounded
  <1>2. /\ r.action = next.action
        /\ r.requires_human_approval = next.requires_human_approval
        /\ r.confidence = IF n = 0 THEN 100 ELSE (100 * n - total) \div n
        /\ r.risk_score = IF n = 0 THEN 0 ELSE total \div n
        /\ r.threshold = risk_threshold
    BY DEF Recommend
  <1>3. /\ next.action \in Actions
        /\ next.action = "UPDATE_ORACLE" <=> pending = << >>
        /\ next.action = "BLOCK_UNSAFE_ACTION" =>
              /\ next.requires_human_approval
              /\ total > risk_threshold * n
        /\ next.action \in {"REROUTE_LIQUIDITY", "DO_NOTHING"} => ~(total > risk_threshold * n)
    BY DEF NextAction, Actions
  <1>4. n = 0 <=> pending = << >>
    <2>1. Len(<< >>) = 0
      OBVIOUS
    <2> QED
      BY <1>1, <2>1
  <1> HIDE DEF total, n, next, r
  <1>5. ASSUME n = 0 PROVE Sound(r)
    BY <1>2, <1>3, <1>4, <1>5 DEF Sound
  <1>6. ASSUME n # 0 PROVE Sound(r)
    <2>1. /\ r.risk_score = total \div n
          /\ r.confidence = (100 * n - total) \div n
          /\ n \in Nat \ {0}
      BY <1>1, <1>2, <1>6
    <2>2. /\ r.risk_score \in 0..50
          /\ r.confidence \in {100 - r.risk_score, 99 - r.risk_score}
          /\ total <= risk_threshold * n => r.risk_score <= risk_threshold
      <3>1. risk_threshold \in Nat
        OBVIOUS
      <3>2. /\ total \div n \in 0..50
            /\ (100 * n - total) \div n \in {100 - (total \div n), 99 - (total \div n)}
            /\ total <= risk_threshold * n => total \div n <= risk_threshold
        BY <1>1, <2>1, <3>1, AverageAndRest
      <3> QED
        BY <2>1, <3>2
    <2>3. total > risk_threshold * n => risk_threshold < 50
      <3>1. \A t \in Nat, k \in Nat : t >= 50 => 50 * k <= t * k
        OBVIOUS
      <3>2. risk_threshold * n \in Nat
        BY <1>1
      <3> QED
        BY <1>1, <3>1, <3>2
    <2>4. ~(total > risk_threshold * n) => total <= risk_threshold * n
      <3>1. risk_threshold * n \in Nat
        BY <1>1
      <3> QED
        BY <1>1, <3>1
    <2>5. /\ r.action \in Actions
          /\ r.threshold \in 0..100
          /\ r.action = "BLOCK_UNSAFE_ACTION" => r.threshold < 50 /\ r.requires_human_approval
          /\ r.action \in {"REROUTE_LIQUIDITY", "DO_NOTHING"} => r.risk_score <= r.threshold
      BY <1>2, <1>3, <2>2, <2>3, <2>4
    <2> QED
      BY <2>2, <2>5 DEF Sound
  <1> QED
    BY <1>5, <1>6 DEF r

LEMMA GovernorInitInv == GovernorInit => GovernorInv
  BY DEF GovernorInit, GovernorInv

LEMMA GovernorStepInv ==
  ASSUME GovernorInv, [GovernorNext]_governorVars
  PROVE  GovernorInv'
  <1> USE DEF GovernorInv
  <1>1. ASSUME NEW threshold \in Thresholds, SetRiskThreshold(threshold)
        PROVE  GovernorInv'
    BY <1>1, GovernorAssumption DEF SetRiskThreshold
  <1>2. ASSUME UNCHANGED <<risk_threshold, recommendation, simulated>>
        PROVE  GovernorInv'
    BY <1>2
  <1>3. ASSUME NEW c \in Clients, NEW pending \in Snapshots, NEW depth \in Depths,
               ComputeNextAction(c, pending, depth)
        PROVE  GovernorInv'
    <2> DEFINE r == Recommend(pending, depth)
    <2>1. Sound(r)
      BY RecommendIsSound
    <2>2. /\ recommendation' = [recommendation EXCEPT ![c] = r]
          /\ simulated' = [simulated EXCEPT ![c] = FALSE]
          /\ risk_threshold' = risk_threshold
      BY <1>3 DEF ComputeNextAction
    <2> HIDE DEF r
    <2> QED
      BY <2>1, <2>2
  <1>4. ASSUME NEW c \in Clients, SimulateAction(c)
        PROVE  GovernorInv'
    <2> DEFINE s == SimulationSucceeds(recommendation[c].action)
    <2>1. s \in BOOLEAN
      BY DEF SimulationSucceeds
    <2>2. /\ simulated' = [simulated EXCEPT ![c] = s]
          /\ UNCHANGED <<risk_threshold, recommendation>>
      BY <1>4 DEF SimulateAction
    <2>3. \A d \in Clients : simulated'[d] => (d = c /\ s) \/ simulated[d]
      BY <2>2
    <2> QED
      BY <2>1, <2>2, <2>3
  <1>5. ASSUME NEW c \in Clients, ExecuteAction(c)
        PROVE  GovernorInv'
    BY <1>5 DEF ExecuteAction
  <1> QED
    BY <1>1, <1>2, <1>3, <1>4, <1>5 DEF GovernorNext, governorVars, AddPolicyRule, RemovePolicyRule

\* Risks stay below half, confidences complement them, and the default threshold
\* blocks nothing, for snapshots of any size.
THEOREM GovernorRisksBelowHalf == GovernorSpec => []RisksStayBelowHalf
  <1>1. GovernorInv => RisksStayBelowHalf
    BY DEF GovernorInv, RisksStayBelowHalf, Sound
  <1> QED
    BY <1>1, GovernorInitInv, GovernorStepInv, PTL DEF GovernorSpec

\* What was too risky when it was computed is never executed.
THEOREM GovernorExecutesAcceptable == GovernorSpec => ExecutedWasAcceptable
  <1>1. ASSUME GovernorInv, NEW c \in Clients, ExecuteAction(c)
        PROVE  /\ recommendation[c].action \in {"REROUTE_LIQUIDITY", "DO_NOTHING"}
               /\ recommendation[c].risk_score <= recommendation[c].threshold
    BY <1>1 DEF GovernorInv, ExecuteAction, Sound, Actions, SimulationSucceeds,
       HasRequiredApprovals
  <1>2. GovernorInv => \A c \in Clients : ExecuteAction(c) =>
           /\ recommendation[c].action \in {"REROUTE_LIQUIDITY", "DO_NOTHING"}
           /\ recommendation[c].risk_score <= recommendation[c].threshold
    BY <1>1
  <1> QED
    BY <1>2, GovernorInitInv, GovernorStepInv, PTL DEF GovernorSpec, ExecutedWasAcceptable

-----------------------------------------------------------------------------
\* VolatilityLog: the proof book, and the age of a report.

USE VolatilityLogAssumption, VolatilityAssumption, MaxTimeAssumption

\* The hash a reader of the first n entries should find in last_hash_.
TailHash(n) == IF n = 0 THEN Genesis ELSE entries[n].entry_hash

\* Entries are sealed in front of their predecessors, at the time of the clock.
EntriesChained ==
    /\ \E S : entries \in Seq(S)
    /\ ChainVerifies
    /\ \A i \in 1..Len(entries) : entries[i].timestamp \in Nat /\ entries[i].timestamp <= now
    /\ \A i \in 1..Len(entries) - 1 : entries[i].timestamp <= entries[i + 1].timestamp

\* last_hash_ is that of the last entry, or of the one before it while a writer
\* is inside append.
TailInv ==
    /\ book_holder \in Monitors \cup Settlers \cup {NoWriter}
    /\ book_holder = NoWriter => last_hash = TailHash(Len(entries))
    /\ book_holder # NoWriter => Len(entries) > 0 /\ last_hash = TailHash(Len(entries) - 1)

\* The inductive invariant of the book.
BookInv == now \in Nat /\ EntriesChained /\ TailInv

-----------------------------------------------------------------------------
\* A book that was just constructed.
LEMMA BookInitInv == VolatilityLogInit => BookInv
  <1> SUFFICES ASSUME VolatilityLogInit PROVE BookInv
    OBVIOUS
  <1>1. entries = << >> /\ last_hash = Genesis /\ book_holder = NoWriter /\ now = 0
    BY DEF VolatilityLogInit, Book!BookInit, ClockInit
  <1>2. entries \in Seq({})
    BY <1>1
  <1>3. EntriesChained
    BY <1>1, <1>2 DEF EntriesChained, ChainVerifies, Book!ChainVerifies, Book!VerifyChain
  <1>4. TailInv
    BY <1>1 DEF TailInv, TailHash
  <1> QED
    BY <1>1, <1>3, <1>4 DEF BookInv

\* What append adds is chained to what is there, whoever appends.
LEMMA BeginAppendInv ==
  ASSUME BookInv, NEW w \in Monitors \cup Settlers, NEW type, NEW data,
         Book!BeginAppend(w, type, data), UNCHANGED now
  PROVE  BookInv'
  <1> DEFINE e == Book!Sealed(type, data, last_hash)
             n == Len(entries)
  <1>1. /\ book_holder = NoWriter
        /\ book_holder' = w
        /\ entries' = Append(entries, e)
        /\ last_hash' = last_hash
        /\ now' = now
    BY DEF Book!BeginAppend
  <1>2. /\ e.timestamp = now
        /\ e.prev_hash = last_hash
        /\ e.entry_hash = Book!HashOf(e)
    BY DEF Book!Sealed, Book!HashOf
  <1>3. PICK S : entries \in Seq(S)
    BY DEF BookInv, EntriesChained
  <1>4. entries' \in Seq(S \cup {e})
    BY <1>1, <1>3
  <1>5. n \in Nat /\ DOMAIN entries = 1..n
    BY <1>3
  <1>6. /\ Len(entries') = n + 1
        /\ DOMAIN entries' = 1..(n + 1)
        /\ \A i \in 1..n : entries'[i] = entries[i]
        /\ entries'[n + 1] = e
    BY <1>1, <1>3
  <1> HIDE DEF e, n
  <1>7. last_hash = IF n = 0 THEN Genesis ELSE Book!HashOf(entries[n])
    BY <1>1, <1>5 DEF BookInv, TailInv, TailHash, EntriesChained, ChainVerifies, Book!ChainVerifies,
       Book!VerifyChain, n
  <1>8. ChainVerifies'
    <2> SUFFICES ASSUME NEW i \in 1..(n + 1)
                 PROVE  /\ entries'[i].prev_hash = Book!Expected(i)'
                        /\ entries'[i].entry_hash = Book!HashOf(entries'[i])
      BY <1>6 DEF ChainVerifies, Book!ChainVerifies, Book!VerifyChain, Book!HashOf
    <2>1. CASE i \in 1..n
      <3>1. /\ entries[i].prev_hash = Book!Expected(i)
            /\ entries[i].entry_hash = Book!HashOf(entries[i])
        BY <2>1, <1>5 DEF BookInv, EntriesChained, ChainVerifies, Book!ChainVerifies,
           Book!VerifyChain
      <3>2. entries'[i] = entries[i] /\ (i # 1 => i - 1 \in 1..n /\ entries'[i - 1] = entries[i - 1])
        BY <2>1, <1>5, <1>6
      <3> QED
        BY <3>1, <3>2 DEF Book!Expected, Book!HashOf
    <2>2. CASE i = n + 1
      BY <2>2, <1>2, <1>5, <1>6, <1>7 DEF Book!Expected, Book!HashOf
    <2> QED
      BY <2>1, <2>2, <1>5
  <1>9. EntriesChained'
    BY <1>1, <1>2, <1>4, <1>5, <1>6, <1>8 DEF BookInv, EntriesChained, n
  <1>10. TailInv'
    <2>1. last_hash = TailHash(n)
      BY <1>1 DEF BookInv, TailInv, n
    <2>2. last_hash = IF n = 0 THEN Genesis ELSE entries'[n].entry_hash
      BY <2>1, <1>5, <1>6 DEF TailHash
    <2>3. Len(entries') - 1 = n /\ Len(entries') > 0
      BY <1>5, <1>6
    <2>4. last_hash' = TailHash(Len(entries) - 1)'
      BY <2>2, <2>3, <1>1 DEF TailHash
    <2> QED
      BY <1>1, <2>3, <2>4 DEF TailInv
  <1> QED
    BY <1>1, <1>9, <1>10 DEF BookInv

\* last_hash_ catches up with the entry just pushed.
LEMMA EndAppendInv ==
  ASSUME BookInv, NEW w \in Monitors \cup Settlers, Book!EndAppend(w), UNCHANGED now
  PROVE  BookInv'
  <1>1. /\ book_holder = w
        /\ book_holder' = NoWriter
        /\ last_hash' = entries[Len(entries)].entry_hash
        /\ entries' = entries
        /\ now' = now
    BY DEF Book!EndAppend
  <1>2. EntriesChained'
    BY <1>1 DEF BookInv, EntriesChained, ChainVerifies, Book!ChainVerifies, Book!VerifyChain,
       Book!Expected, Book!HashOf
  <1>3. TailInv'
    BY <1>1 DEF BookInv, TailInv, TailHash
  <1> QED
    BY <1>1, <1>2, <1>3 DEF BookInv

\* Time passes, or something happens that the book is no part of.
LEMMA BookUntouched ==
  ASSUME BookInv, UNCHANGED bookVars, now' \in Nat, now <= now'
  PROVE  BookInv'
  BY DEF BookInv, bookVars, EntriesChained, ChainVerifies, Book!ChainVerifies, Book!VerifyChain,
     Book!Expected, Book!HashOf, TailInv, TailHash

-----------------------------------------------------------------------------
\* Every step of the system is one of three for the book.
BookStep ==
    \/ \E w \in Monitors \cup Settlers : \E type, data :
          Book!BeginAppend(w, type, data) /\ UNCHANGED now
    \/ \E w \in Monitors \cup Settlers : Book!EndAppend(w) /\ UNCHANGED now
    \/ UNCHANGED bookVars /\ now' \in Nat /\ now <= now'

LEMMA StepsOfBook ==
  ASSUME BookInv, [VolatilityLogNext]_volatilityLogVars
  PROVE  BookStep
  <1> USE DEF BookInv
  <1>1. ASSUME NEW point \in Points, FeedPrice(point), UNCHANGED bookVars
        PROVE  BookStep
    BY <1>1 DEF FeedPrice, BookStep
  <1>2. ASSUME NEW c \in GasReadings, FeedGas(c), UNCHANGED bookVars
        PROVE  BookStep
    BY <1>2 DEF FeedGas, BookStep
  <1>3. ASSUME NEW m \in Monitors, Assess(m), UNCHANGED bookVars
        PROVE  BookStep
    BY <1>3 DEF Assess, BookStep
  <1>4. ASSUME NEW m \in Monitors, MonitorStep(m), UNCHANGED bookVars
        PROVE  BookStep
    <2>1. UNCHANGED now
      BY <1>4, Zenon DEF MonitorStep, ComputeTwap, DecideSignal, StoreTwap, StoreChange
    <2> QED
      BY <1>4, <2>1 DEF BookStep
  <1>5. ASSUME NEW m \in Monitors, LogReport(m) \/ ReportLogged(m)
        PROVE  BookStep
    BY <1>5 DEF LogReport, ReportLogged, BookStep
  <1>6. ASSUME NEW w \in Settlers, NEW type \in SettlerTypes, SettlerAppends(w, type)
        PROVE  BookStep
    BY <1>6 DEF SettlerAppends, BookStep
  <1>7. ASSUME NEW w \in Settlers, SettlerAppended(w)
        PROVE  BookStep
    BY <1>7 DEF SettlerAppended, BookStep
  <1>8. ASSUME Tick, UNCHANGED bookVars
        PROVE  BookStep
    BY <1>8 DEF Tick, BookStep
  <1>9. ASSUME UNCHANGED volatilityLogVars
        PROVE  BookStep
    BY <1>9 DEF volatilityLogVars, bookVars, BookStep
  <1> QED
    BY <1>1, <1>2, <1>3, <1>4, <1>5, <1>6, <1>7, <1>8, <1>9 DEF VolatilityLogNext

LEMMA BookStepInv ==
  ASSUME BookInv, [VolatilityLogNext]_volatilityLogVars
  PROVE  BookInv'
  <1>1. BookStep
    BY StepsOfBook
  <1> QED
    BY <1>1, BeginAppendInv, EndAppendInv, BookUntouched DEF BookStep

\* The chain of the proof book is intact whenever it is verified, whoever
\* appends to it and when.
THEOREM BookChainVerifies == VolatilityLogSpec => []ChainVerifies
  <1>1. BookInv => ChainVerifies
    BY DEF BookInv, EntriesChained
  <1> QED
    BY <1>1, BookInitInv, BookStepInv, PTL DEF VolatilityLogSpec

-----------------------------------------------------------------------------
\* The log the readers see is a sequence without the entry being appended.
LEMMA PublishedIs ==
  ASSUME BookInv
  PROVE  LET n == IF book_holder = NoWriter THEN Len(entries) ELSE Len(entries) - 1
         IN  /\ n \in Nat
             /\ n <= Len(entries)
             /\ Book!Published = SubSeq(entries, 1, n)
             /\ last_hash = TailHash(n)
  <1>1. PICK S : entries \in Seq(S)
    BY DEF BookInv, EntriesChained
  <1>2. CASE book_holder = NoWriter
    <2>1. entries = SubSeq(entries, 1, Len(entries))
      BY <1>1
    <2> QED
      BY <1>1, <1>2, <2>1 DEF BookInv, TailInv, Book!Published
  <1>3. CASE book_holder # NoWriter
    BY <1>1, <1>3 DEF BookInv, TailInv, Book!Published
  <1> QED
    BY <1>2, <1>3

\* A book starts as an empty log.
LEMMA LogInitMaps == VolatilityLogInit => Log!LogInit
  BY DEF VolatilityLogInit, Book!BookInit, Book!Published, Log!LogInit

\* push_back is not seen: last_hash_ does not account for the entry yet.
LEMMA BeginAppendStutters ==
  ASSUME BookInv, NEW w \in Monitors \cup Settlers, NEW type, NEW data,
         Book!BeginAppend(w, type, data)
  PROVE  UNCHANGED <<Book!Published, last_hash>>
  <1> DEFINE e == Book!Sealed(type, data, last_hash)
  <1>1. /\ book_holder = NoWriter
        /\ book_holder' = w
        /\ entries' = Append(entries, e)
        /\ last_hash' = last_hash
    BY DEF Book!BeginAppend
  <1> HIDE DEF e
  <1>2. PICK S : entries \in Seq(S)
    BY DEF BookInv, EntriesChained
  <1>3. SubSeq(entries', 1, Len(entries') - 1) = entries
    BY <1>1, <1>2
  <1> QED
    BY <1>1, <1>3 DEF Book!Published

\* The store to last_hash_ adds the entry.
LEMMA EndAppendAdds ==
  ASSUME BookInv, NEW w \in Monitors \cup Settlers, Book!EndAppend(w)
  PROVE  Log!AddEntry
  <1> DEFINE n == Len(entries)
             old == Book!Published
  <1>1. PICK S : entries \in Seq(S)
    BY DEF BookInv, EntriesChained
  <1>2. /\ book_holder = w
        /\ book_holder' = NoWriter
        /\ last_hash' = entries[n].entry_hash
        /\ entries' = entries
    BY DEF Book!EndAppend
  <1>3. n \in Nat /\ n > 0
    BY <1>1, <1>2 DEF BookInv, TailInv
  <1>4. last_hash = TailHash(n - 1)
    BY <1>2 DEF BookInv, TailInv
  <1>5. old = SubSeq(entries, 1, n - 1) /\ Book!Published' = entries
    BY <1>2 DEF Book!Published
  <1>6. n = Len(entries)
    OBVIOUS
  <1>7. old = Book!Published
    OBVIOUS
  <1> HIDE DEF n, old
  <1>8. /\ Len(old) = n - 1
        /\ \A i \in 1..n - 1 : old[i] = entries[i]
    <2>1. \A i \in 1..n - 1 : entries[i] \in S
      BY <1>1, <1>3, <1>6
    <2>2. /\ Len(SubSeq(entries, 1, n - 1)) = IF 1 <= n - 1 THEN (n - 1) - 1 + 1 ELSE 0
          /\ \A i \in 1..(n - 1) - 1 + 1 : SubSeq(entries, 1, n - 1)[i] = entries[1 + i - 1]
      BY <2>1, <1>3, SubSeqProperties
    <2> QED
      BY <2>2, <1>3, <1>5
  <1>9. entries[n].prev_hash = last_hash
    <2>1. /\ entries[n].prev_hash = Book!Expected(n)
          /\ n > 1 => entries[n - 1].entry_hash = Book!HashOf(entries[n - 1])
      <3>1. n \in DOMAIN entries /\ (n > 1 => n - 1 \in DOMAIN entries)
        BY <1>1, <1>3, <1>6
      <3> QED
        BY <3>1 DEF BookInv, EntriesChained, ChainVerifies, Book!ChainVerifies, Book!VerifyChain
    <2>2. CASE n = 1
      BY <2>1, <2>2, <1>3, <1>4 DEF Book!Expected, TailHash
    <2>3. CASE n > 1
      BY <2>1, <2>3, <1>3, <1>4 DEF Book!Expected, TailHash
    <2>4. n = 1 \/ n > 1
      BY <1>3
    <2> QED
      BY <2>2, <2>3, <2>4
  <1>10. n > 1 => entries[n - 1].timestamp <= entries[n].timestamp
    BY <1>3, <1>6 DEF BookInv, EntriesChained
  <1>11. old # << >> => old[Len(old)].timestamp <= entries[n].timestamp
    BY <1>3, <1>8, <1>10
  <1> QED
    BY <1>2, <1>3, <1>5, <1>8, <1>9, <1>11, <1>6, <1>7 DEF Log!AddEntry

\* The proof book implements the log that only grows, in the order of time,
\* and whose tail hash is that of its last entry.
THEOREM BookImplementsLog == VolatilityLogSpec => ImplementsLog
  <1>1. BookInv /\ [VolatilityLogNext]_volatilityLogVars
           => [Log!AddEntry]_<<Book!Published, last_hash>>
    <2> SUFFICES ASSUME BookInv, [VolatilityLogNext]_volatilityLogVars
                 PROVE  [Log!AddEntry]_<<Book!Published, last_hash>>
      OBVIOUS
    <2>1. BookStep
      BY StepsOfBook
    <2>2. UNCHANGED bookVars => UNCHANGED <<Book!Published, last_hash>>
      BY DEF bookVars, Book!Published
    <2> QED
      BY <2>1, <2>2, BeginAppendStutters, EndAppendAdds DEF BookStep
  <1> QED
    BY <1>1, LogInitMaps, BookInitInv, BookStepInv, PTL
       DEF VolatilityLogSpec, ImplementsLog, Log!LogSpec

-----------------------------------------------------------------------------
\* Where a monitor can be, inside assess or after it.
Places == Asked \cup {"idle", "reported", "logging"}

ReportTypes ==
    /\ now \in Nat
    /\ fed \in Seq(Points)
    /\ place \in [Monitors -> Places]
    /\ asked_at \in [Monitors -> Nat]
    /\ priced_at \in [Monitors -> Int]
    /\ oracle_age \in [Monitors -> Int]
    /\ seen \in [Monitors -> Nat]
    /\ signal = [m \in Monitors |-> signal[m]]
    /\ overtaken \in [Monitors -> BOOLEAN]

\* last_oracle_update_ is the time of the newest price, which is not in the
\* future, and in 1970 as long as there is none.
FeedInv == /\ fed_at \in Int
           /\ fed_at <= now
           /\ last_oracle_update = fed_at
           /\ fed = << >> => fed_at = Epoch

\* What an assessment that no price overtook knows at each of its places.
ReportInv ==
    \A m \in Monitors : ~overtaken[m] =>
        /\ place[m] \in Asked => fed_at <= asked_at[m]
        /\ place[m] \in Priced => priced_at[m] = fed_at /\ seen[m] = Len(fed)
        /\ place[m] \in Decided => /\ oracle_age[m] = asked_at[m] - fed_at
                                   /\ fed = << >> => signal[m] = "ORACLE_STALE"

\* The inductive invariant of the assessments.
AssessInv == ReportTypes /\ FeedInv /\ ReportInv

LEMMA AssessInitInv == VolatilityLogInit => AssessInv
  BY DEF VolatilityLogInit, ClockInit, OracleInit, AssessInv, ReportTypes, FeedInv, ReportInv,
     Places, Asked, Priced, Decided, Epoch

\* An oracle without prices was last updated in 1970, and every report says so.
LEMMA NoPricesIsStale ==
  ASSUME NEW at \in Nat, NEW coverage_low \in BOOLEAN, NEW change
  PROVE  SignalFor(at - Epoch, coverage_low, change) = "ORACLE_STALE"
  <1>1. at - Epoch > StaleAfter
    BY DEF Epoch
  <1>2. ~(at - Epoch <= StaleAfter)
    BY <1>1 DEF Epoch
  <1> QED
    BY <1>1, <1>2 DEF SignalFor

LEMMA AssessStepInv ==
  ASSUME AssessInv, [VolatilityLogNext]_volatilityLogVars
  PROVE  AssessInv'
  <1> USE DEF AssessInv
  <1>1. ASSUME NEW point \in Points, FeedPrice(point)
        PROVE  AssessInv'
    <2>1. ReportTypes'
      BY <1>1 DEF FeedPrice, ReportTypes
    <2>2. FeedInv'
      <3>1. /\ fed' = Append(fed, point) /\ fed_at' = now /\ last_oracle_update' = now
            /\ now' = now /\ now \in Nat
        BY <1>1 DEF FeedPrice, ReportTypes
      <3>2. fed' # << >>
        <4>1. fed \in Seq(Points) /\ Len(fed) \in Nat /\ Len(Append(fed, point)) = Len(fed) + 1
          BY DEF ReportTypes
        <4> QED
          BY <3>1, <4>1
      <3> QED
        BY <3>1, <3>2 DEF FeedInv
    <2>3. ReportInv'
      BY <1>1 DEF FeedPrice, ReportInv, ReportTypes, Priced, Decided
    <2> QED
      BY <2>1, <2>2, <2>3
  <1>2. ASSUME NEW c \in GasReadings, FeedGas(c)
        PROVE  AssessInv'
    BY <1>2 DEF FeedGas, ReportTypes, FeedInv, ReportInv, ringVars, publishVars, localVars
  <1>3. ASSUME NEW m \in Monitors, Assess(m)
        PROVE  AssessInv'
    BY <1>3 DEF Assess, Goto, ReportTypes, FeedInv, ReportInv, ringVars, Places, Asked, Priced,
       Decided
  <1>4. ASSUME NEW m \in Monitors, ComputeTwap(m)
        PROVE  AssessInv'
    <2>1. /\ place[m] = "asked" /\ place' = [place EXCEPT ![m] = "priced"]
          /\ seen' = [seen EXCEPT ![m] = Len(fed)]
          /\ priced_at' = [priced_at EXCEPT ![m] = fed_at]
          /\ UNCHANGED <<fed, fed_at, last_oracle_update, asked_at, oracle_age, signal, overtaken, now>>
      BY <1>4 DEF ComputeTwap, Goto, ringVars
    <2>2. ReportTypes'
      <3>1. Len(fed) \in Nat /\ fed_at \in Int
        BY DEF ReportTypes, FeedInv
      <3> QED
        BY <2>1, <3>1 DEF ReportTypes, Places, Asked
    <2>3. FeedInv'
      BY <2>1 DEF FeedInv
    <2>4. ReportInv'
      BY <2>1 DEF ReportTypes, ReportInv, Places, Asked, Priced, Decided
    <2> QED
      BY <2>2, <2>3, <2>4
  <1>5. ASSUME NEW m \in Monitors, NEW coverage_low \in BOOLEAN, DecideSignal(m, coverage_low)
        PROVE  AssessInv'
    <2> DEFINE age == asked_at[m] - last_oracle_update
    <2>1. /\ age \in Int
          /\ fed = << >> => SignalFor(age, coverage_low, price_change[m]) = "ORACLE_STALE"
      BY NoPricesIsStale DEF ReportTypes, FeedInv
    <2>2. /\ place' = [place EXCEPT ![m] = "aged"]
          /\ oracle_age' = [oracle_age EXCEPT ![m] = age]
          /\ signal' = [signal EXCEPT ![m] = SignalFor(age, coverage_low, price_change[m])]
          /\ place[m] = "priced"
          /\ UNCHANGED <<fed, fed_at, last_oracle_update, asked_at, priced_at, seen, overtaken, now>>
      BY <1>5 DEF DecideSignal, Goto, ringVars
    <2>3. ReportTypes' /\ FeedInv'
      BY <2>1, <2>2 DEF ReportTypes, FeedInv, Places, Asked
    <2>4. ReportInv'
      BY <2>1, <2>2 DEF ReportTypes, FeedInv, ReportInv, Places, Asked, Priced, Decided
    <2> QED
      BY <2>3, <2>4
  <1>6. ASSUME NEW m \in Monitors, StoreTwap(m)
        PROVE  AssessInv'
    BY <1>6 DEF StoreTwap, Goto, ReportTypes, FeedInv, ReportInv, ringVars, localVars, Places,
       Asked, Priced, Decided
  <1>7. ASSUME NEW m \in Monitors, StoreChange(m)
        PROVE  AssessInv'
    <2>1. ReportTypes'
      <3>1. signal' = [signal EXCEPT ![m] = "none"] /\ oracle_age' = [oracle_age EXCEPT ![m] = 0]
        BY <1>7 DEF StoreChange, ReturnReport
      <3>2. place' \in [Monitors -> Places]
        BY <1>7 DEF StoreChange, ReturnReport, Goto, ReportTypes, Places
      <3>3. signal' = [other \in Monitors |-> signal'[other]]
        BY <3>1 DEF ReportTypes
      <3>4. UNCHANGED <<fed, now>>
        BY <1>7 DEF StoreChange, ringVars
      <3>5. /\ asked_at' \in [Monitors -> Nat]
            /\ priced_at' \in [Monitors -> Int]
            /\ oracle_age' \in [Monitors -> Int]
            /\ seen' \in [Monitors -> Nat]
            /\ overtaken' \in [Monitors -> BOOLEAN]
        BY <1>7, <3>1 DEF StoreChange, ReturnReport, ReportTypes
      <3> QED
        BY <3>2, <3>3, <3>4, <3>5 DEF ReportTypes
    <2>2. FeedInv'
      BY <1>7 DEF StoreChange, FeedInv, ringVars
    <2>3. ReportInv'
      <3>1. /\ place' = [place EXCEPT ![m] = "reported"]
            /\ \A other \in Monitors \ {m} :
                  /\ asked_at'[other] = asked_at[other]
                  /\ priced_at'[other] = priced_at[other]
                  /\ seen'[other] = seen[other]
                  /\ oracle_age'[other] = oracle_age[other]
                  /\ signal'[other] = signal[other]
                  /\ overtaken'[other] = overtaken[other]
            /\ UNCHANGED <<fed, fed_at>>
        BY <1>7 DEF StoreChange, ReturnReport, Goto, ReportTypes, ringVars
      <3> QED
        BY <3>1 DEF ReportInv, ReportTypes, Asked, Priced, Decided
    <2> QED
      BY <2>1, <2>2, <2>3
  <1>8. ASSUME NEW m \in Monitors, LogReport(m) \/ ReportLogged(m)
        PROVE  AssessInv'
    <2>1. PICK p \in {"logging", "idle"} :
             /\ place' = [place EXCEPT ![m] = p]
             /\ UNCHANGED <<fed, fed_at, last_oracle_update, asked_at, priced_at, oracle_age,
                            seen, signal, overtaken, now>>
      BY <1>8 DEF LogReport, ReportLogged, Goto, ringVars, localVars
    <2>2. ReportTypes'
      BY <2>1 DEF ReportTypes, Places
    <2>3. FeedInv'
      BY <2>1 DEF FeedInv
    <2>4. ReportInv'
      BY <2>1 DEF ReportTypes, ReportInv, Asked, Priced, Decided
    <2> QED
      BY <2>2, <2>3, <2>4
  <1>9. ASSUME UNCHANGED <<oracleVars, now>> \/ (Tick /\ UNCHANGED oracleVars)
        PROVE  AssessInv'
    <2>1. /\ UNCHANGED <<fed, fed_at, last_oracle_update, place, asked_at, priced_at, oracle_age,
                         seen, signal, overtaken>>
          /\ now' \in Nat
          /\ now <= now'
      BY <1>9 DEF Tick, oracleVars, ReportTypes, ringVars, localVars
    <2>2. ReportTypes'
      BY <2>1 DEF ReportTypes
    <2>3. FeedInv'
      <3>1. now \in Nat /\ now' \in Nat /\ now <= now'
        BY <2>1 DEF ReportTypes
      <3> QED
        BY <2>1, <3>1 DEF FeedInv
    <2>4. ReportInv'
      BY <2>1 DEF ReportInv
    <2> QED
      BY <2>2, <2>3, <2>4
  <1> QED
    BY <1>1, <1>2, <1>3, <1>4, <1>5, <1>6, <1>7, <1>8, <1>9
       DEF VolatilityLogNext, MonitorStep, SettlerAppends, SettlerAppended, volatilityLogVars

\* Nothing was fed when the window of a report is empty.
LEMMA EmptyWindow ==
  ASSUME fed \in Seq(Points), Window(Len(fed)) = << >>
  PROVE  fed = << >>
  <1> DEFINE k == Len(fed)
             from == Max({1, k - HistorySize + 1})
  <1> SUFFICES ASSUME fed # << >> PROVE FALSE
    OBVIOUS
  <1>1. k \in Nat /\ k >= 1
    OBVIOUS
  <1>2. from \in {1, k - HistorySize + 1}
    <2> DEFINE S == {1, k - HistorySize + 1}
    <2>1. \E x \in S : \A y \in S : x >= y
      BY <1>1
    <2> QED
      BY <2>1 DEF Max
  <1> HIDE DEF from
  <1>3. from \in Int /\ from <= k /\ from >= 1 - HistorySize
    BY <1>1, <1>2
  <1>4. from >= 1
    <2> DEFINE S == {1, k - HistorySize + 1}
    <2>1. \E x \in S : \A y \in S : x >= y
      BY <1>1
    <2>2. \A y \in S : from >= y
      BY <2>1 DEF Max, from
    <2> QED
      BY <2>2
  <1>5. \A i \in from..k : fed[i] \in Points
    BY <1>1, <1>3, <1>4
  <1>6. Len(SubSeq(fed, from, k)) = k - from + 1
    BY <1>1, <1>3, <1>5, SubSeqProperties
  <1>7. SubSeq(fed, from, k) = << >>
    BY DEF Window, from
  <1> QED
    BY <1>1, <1>3, <1>6, <1>7

\* Unless a price was fed between its reading of the clock and its end, the
\* age in a report is that of the newest price it is about, never negative,
\* and a report of no prices is stale.
THEOREM ReportsKnowTheirAge == VolatilityLogSpec => []AgeOfPricesUnlessOvertaken
  <1>1. AssessInv => AgeOfPricesUnlessOvertaken
    BY EmptyWindow DEF AssessInv, ReportTypes, FeedInv, ReportInv, AgeOfPricesUnlessOvertaken,
       Asked, Priced, Decided
  <1> QED
    BY <1>1, AssessInitInv, AssessStepInv, PTL DEF VolatilityLogSpec

-----------------------------------------------------------------------------
\* The ring.

\* Counting around the ring.
LEMMA AroundRing ==
  ASSUME NEW n \in Nat \ {0}, NEW a \in Nat
  PROVE  /\ a % n \in 0..n - 1
         /\ a < n => a % n = a
         /\ (a + n) % n = a % n
         /\ \A i \in Nat : ((a % n) + i) % n = (a + i) % n
         /\ \A b \in Nat : a < b /\ b < a + n => a % n # b % n
  <1>1. PICK q \in Nat, r \in 0..n - 1 : a = q * n + r
    <2>1. a \div n \in Nat /\ a % n \in 0..n - 1 /\ a = (a \div n) * n + (a % n)
      OBVIOUS
    <2> QED
      BY <2>1
  <1>2. a % n = r
    BY <1>1, DivisionUnique
  <1>3. a < n => a % n = a
    <2> SUFFICES ASSUME a < n PROVE a % n = a
      OBVIOUS
    <2>1. a \in 0..n - 1 /\ a = 0 * n + a
      OBVIOUS
    <2> QED
      BY <2>1, DivisionUnique
  <1>4. (a + n) % n = a % n
    <2>1. a + n = (q + 1) * n + r /\ a + n \in Nat /\ q + 1 \in Nat
      BY <1>1
    <2> QED
      BY <1>2, <2>1, DivisionUnique
  <1>5. ASSUME NEW i \in Nat
        PROVE  ((a % n) + i) % n = (a + i) % n
    <2>1. r + i \in Nat
      OBVIOUS
    <2>2. PICK p \in Nat, s \in 0..n - 1 : r + i = p * n + s
      <3> DEFINE b == r + i
      <3>1. b \div n \in Nat /\ b % n \in 0..n - 1 /\ b = (b \div n) * n + (b % n)
        OBVIOUS
      <3> QED
        BY <3>1
    <2>3. (r + i) % n = s
      BY <2>1, <2>2, DivisionUnique
    <2>4. a + i = (q + p) * n + s /\ a + i \in Nat /\ q + p \in Nat
      BY <1>1, <2>2
    <2>5. (a + i) % n = s
      BY <2>4, DivisionUnique
    <2> QED
      BY <1>2, <2>3, <2>5
  <1>6. ASSUME NEW b \in Nat, a < b, b < a + n, a % n = b % n
        PROVE  FALSE
    <2>1. PICK p \in Nat, s \in 0..n - 1 : b = p * n + s
      <3>1. b \div n \in Nat /\ b % n \in 0..n - 1 /\ b = (b \div n) * n + (b % n)
        OBVIOUS
      <3> QED
        BY <3>1
    <2>2. s = r
      BY <1>2, <1>6, <2>1, DivisionUnique
    <2>3. p * n > q * n /\ p * n < (q + 1) * n
      <3>1. (q + 1) * n = q * n + n
        OBVIOUS
      <3> QED
        BY <1>1, <1>6, <2>1, <2>2, <3>1
    <2>4. \A x \in Nat, y \in Nat : x <= y => x * n <= y * n
      OBVIOUS
    <2>5. ~(p <= q) /\ ~(q + 1 <= p)
      BY <2>3, <2>4
    <2> QED
      BY <2>5
  <1> QED
    BY <1>2, <1>3, <1>4, <1>5, <1>6

-----------------------------------------------------------------------------
\* The j-th price fed is written to this slot.
SlotOf(j) == (j - 1) % HistorySize

\* How many of the first k prices the ring still holds, and after which.
Held(k)    == IF k <= HistorySize THEN k ELSE HistorySize
Dropped(k) == k - Held(k)

\* The ring holds the last prices fed, each in its slot, and nothing else.
RingInv == /\ fed \in Seq(Points)
           /\ price_history = [i \in Slots |-> price_history[i]]
           /\ price_index = Len(fed) % HistorySize
           /\ \A j \in 1..Len(fed) : j > Dropped(Len(fed)) => price_history[SlotOf(j)] = fed[j]
           /\ \A i \in Slots : i >= Len(fed) => price_history[i] = NoPoint

LEMMA HeldFacts ==
  ASSUME NEW k \in Nat
  PROVE  /\ Held(k) \in 0..HistorySize /\ Held(k) <= k
         /\ Dropped(k) \in Nat /\ Dropped(k) + Held(k) = k
         /\ Dropped(k) > 0 => Held(k) = HistorySize
         /\ Dropped(k + 1) >= Dropped(k)
         /\ k >= HistorySize => Dropped(k + 1) = k + 1 - HistorySize
  BY DEF Held, Dropped

LEMMA RingInit == VolatilityLogInit => RingInv
  <1> SUFFICES ASSUME VolatilityLogInit PROVE RingInv
    OBVIOUS
  <1>1. fed = << >> /\ price_history = [i \in Slots |-> NoPoint] /\ price_index = 0
    BY DEF VolatilityLogInit, OracleInit
  <1>2. Len(fed) = 0 /\ fed \in Seq(Points)
    BY <1>1
  <1>3. 0 % HistorySize = 0
    BY AroundRing
  <1> QED
    BY <1>1, <1>2, <1>3 DEF RingInv

\* feed_price overwrites the slot of the price that is dropped, if any.
LEMMA RingFeed ==
  ASSUME RingInv, NEW point \in Points, FeedPrice(point)
  PROVE  RingInv'
  <1> DEFINE n == Len(fed)
  <1>1. /\ fed \in Seq(Points) /\ n \in Nat
        /\ price_history = [i \in Slots |-> price_history[i]]
        /\ price_index = n % HistorySize
    BY DEF RingInv
  <1>2. /\ fed' = Append(fed, point)
        /\ price_history' = [price_history EXCEPT ![price_index] = point]
        /\ price_index' = (price_index + 1) % HistorySize
    BY DEF FeedPrice
  <1>3. /\ fed' \in Seq(Points) /\ Len(fed') = n + 1
        /\ fed'[n + 1] = point
        /\ \A j \in 1..n : fed'[j] = fed[j]
    BY <1>1, <1>2
  <1>4. price_index' = (n + 1) % HistorySize
    BY <1>1, <1>2, AroundRing
  <1>5. /\ price_index \in Slots
        /\ price_history'[price_index] = point
        /\ \A i \in Slots \ {price_index} : price_history'[i] = price_history[i]
        /\ price_history' = [i \in Slots |-> price_history'[i]]
    <2>1. price_index \in Slots
      BY <1>1, AroundRing DEF Slots
    <2> QED
      BY <1>1, <1>2, <2>1
  <1>6. ASSUME NEW j \in 1..n + 1, j > Dropped(n + 1)
        PROVE  price_history'[SlotOf(j)] = fed'[j]
    <2>1. CASE j = n + 1
      <3>1. SlotOf(j) = price_index
        BY <1>1, <2>1 DEF SlotOf
      <3> QED
        BY <1>3, <1>5, <2>1, <3>1
    <2>2. CASE j # n + 1
      <3>1. /\ Dropped(n) \in Nat /\ Dropped(n + 1) \in Nat
            /\ Dropped(n + 1) >= Dropped(n)
            /\ n >= HistorySize => Dropped(n + 1) = n + 1 - HistorySize
        <4>1. n \in Nat /\ n + 1 \in Nat
          BY <1>1
        <4> HIDE DEF n
        <4> QED
          BY <4>1, HeldFacts
      <3>2. price_history[SlotOf(j)] = fed[j] /\ j - 1 \in Nat /\ j - 1 < n
        <4>1. j \in 1..n /\ j > Dropped(n)
          <5> DEFINE before == Dropped(n)
                     after  == Dropped(n + 1)
          <5>1. /\ n \in Nat /\ before \in Nat /\ after \in Nat
                /\ after >= before /\ j > after
            BY <1>1, <1>6, <3>1
          <5>2. j \in 1..n + 1 /\ j # n + 1
            BY <2>2
          <5> HIDE DEF n, before, after
          <5>3. j \in 1..n /\ j > before
            BY <5>1, <5>2
          <5> QED
            BY <5>3 DEF before
        <4>2. price_history[SlotOf(j)] = fed[j]
          BY <4>1 DEF RingInv
        <4>3. j - 1 \in Nat /\ j - 1 < n
          <5> HIDE DEF n
          <5> QED
            BY <1>1, <4>1
        <4> QED
          BY <4>2, <4>3
      <3>3. n < (j - 1) + HistorySize
        <4> DEFINE d == Dropped(n + 1)
        <4>1. n \in Nat /\ d \in Nat /\ j \in Nat /\ j > d /\ j >= 1
          BY <1>1, <1>6, <3>1
        <4>2. n >= HistorySize => d = n + 1 - HistorySize
          BY <3>1
        <4> HIDE DEF n, d
        <4> QED
          BY <4>1, <4>2
      <3>4. SlotOf(j) # price_index /\ SlotOf(j) \in Slots
        <4>1. (j - 1) % HistorySize \in 0..HistorySize - 1
          BY <3>2, AroundRing
        <4>2. (j - 1) % HistorySize # n % HistorySize
          <5> HIDE DEF n
          <5> QED
            BY <1>1, <3>2, <3>3, AroundRing
        <4> QED
          BY <1>1, <4>1, <4>2 DEF SlotOf, Slots
      <3> QED
        <4>1. j \in 1..n
          <5> HIDE DEF n
          <5> QED
            BY <1>1, <2>2
        <4> QED
          BY <1>3, <1>5, <3>2, <3>4, <4>1
    <2> QED
      BY <2>1, <2>2
  <1>7. ASSUME NEW i \in Slots, i >= n + 1
        PROVE  price_history'[i] = NoPoint
    <2>1. n < HistorySize
      BY <1>1, <1>7 DEF Slots
    <2>2. price_index = n
      BY <1>1, <2>1, AroundRing
    <2>3. i # n /\ i >= n
      BY <1>1, <1>7 DEF Slots
    <2> QED
      BY <1>5, <2>2, <2>3 DEF RingInv
  <1> QED
    BY <1>3, <1>4, <1>5, <1>6, <1>7 DEF RingInv

\* Nothing else writes to the ring.
LEMMA RingStep ==
  ASSUME RingInv, [VolatilityLogNext]_volatilityLogVars
  PROVE  RingInv'
  <1>1. ASSUME UNCHANGED ringVars PROVE RingInv'
    BY <1>1 DEF RingInv, ringVars
  <1>2. CASE \E point \in Points : FeedPrice(point)
    BY <1>2, RingFeed
  <1>3. CASE \E m \in Monitors : MonitorStep(m)
    BY <1>1, <1>3 DEF MonitorStep, ComputeTwap, DecideSignal, StoreTwap, StoreChange
  <1> QED
    BY <1>1, <1>2, <1>3 DEF VolatilityLogNext, volatilityLogVars, oracleVars, FeedGas, Assess,
       LogReport, ReportLogged, SettlerAppends, SettlerAppended

-----------------------------------------------------------------------------
\* Where the window of the first k prices starts.
LEMMA WindowStart ==
  ASSUME NEW k \in Nat
  PROVE  Max({1, k - HistorySize + 1}) = Dropped(k) + 1
  <1> DEFINE S == {1, k - HistorySize + 1}
  <1>1. \E x \in S : \A y \in S : x >= y
    OBVIOUS
  <1>2. Max(S) \in S /\ \A y \in S : Max(S) >= y
    BY <1>1 DEF Max
  <1>3. Max(S) = IF k - HistorySize + 1 >= 1 THEN k - HistorySize + 1 ELSE 1
    BY <1>2
  <1> QED
    BY <1>3 DEF Dropped, Held

\* The window of k prices in these words.
LEMMA WindowFacts ==
  ASSUME fed \in Seq(Points), NEW k \in 0..Len(fed)
  PROVE  /\ Window(k) = SubSeq(fed, Dropped(k) + 1, k)
         /\ Window(k) \in Seq(Points)
         /\ Len(Window(k)) = Held(k)
         /\ DOMAIN Window(k) = 1..Held(k)
         /\ \A i \in 1..Held(k) : Window(k)[i] = fed[Dropped(k) + i]
  <1>1. Len(fed) \in Nat /\ k \in Nat
    OBVIOUS
  <1>2. Max({1, k - HistorySize + 1}) = Dropped(k) + 1
    BY <1>1, WindowStart
  <1>3. Window(k) = SubSeq(fed, Dropped(k) + 1, k)
    BY <1>2 DEF Window
  <1>4. Dropped(k) \in Nat /\ Dropped(k) + Held(k) = k /\ Held(k) \in Nat
    BY <1>1, HeldFacts
  <1>5. \A i \in (Dropped(k) + 1)..k : fed[i] \in Points
    BY <1>1, <1>4
  <1> DEFINE d == Dropped(k)
             h == Held(k)
             w == SubSeq(fed, d + 1, k)
  <1>6. /\ w \in Seq(Points)
        /\ Len(w) = IF d + 1 <= k THEN k - (d + 1) + 1 ELSE 0
        /\ \A i \in 1..k - (d + 1) + 1 : w[i] = fed[(d + 1) + i - 1]
    <2>1. d + 1 \in Int /\ k \in Int
      BY <1>1, <1>4
    <2> HIDE DEF d
    <2> QED
      BY <1>5, <2>1, SubSeqProperties DEF d
  <1>7. d \in Nat /\ h \in Nat /\ d + h = k /\ k \in Nat
    BY <1>1, <1>4
  <1>8. Window(k) = w
    BY <1>3
  <1> SUFFICES /\ w \in Seq(Points)
               /\ Len(w) = h
               /\ DOMAIN w = 1..h
               /\ \A i \in 1..h : w[i] = fed[d + i]
    BY <1>8
  <1> HIDE DEF d, h, w
  <1>9. k - (d + 1) + 1 = h
    BY <1>7
  <1>10. Len(w) = h
    BY <1>6, <1>7, <1>9
  <1>11. \A i \in 1..h : w[i] = fed[d + i]
    <2> SUFFICES ASSUME NEW i \in 1..h PROVE w[i] = fed[d + i]
      OBVIOUS
    <2>1. (d + 1) + i - 1 = d + i
      BY <1>7
    <2> QED
      BY <1>6, <1>9, <2>1
  <1> QED
    BY <1>6, <1>10, <1>11

\* Every slot of a full ring is the slot of a price of the last round.
LEMMA SlotsOfRound ==
  ASSUME NEW d \in Nat, NEW s \in Slots
  PROVE  \E i \in 1..HistorySize : SlotOf(d + i) = s
  <1> DEFINE r == d % HistorySize
             e == IF s >= r THEN s - r ELSE s + HistorySize - r
  <1>1. r \in 0..HistorySize - 1 /\ s \in 0..HistorySize - 1
    BY AroundRing DEF Slots
  <1>2. e \in 0..HistorySize - 1 /\ e \in Nat
    <2> HIDE DEF r
    <2> QED
      BY <1>1
  <1>3. (d + e) % HistorySize = (r + e) % HistorySize
    BY <1>2, AroundRing
  <1>4. (r + e) % HistorySize = s
    <2>1. s % HistorySize = s /\ (s + HistorySize) % HistorySize = s
      <3>1. s \in Nat /\ s < HistorySize
        BY <1>1
      <3> QED
        BY <3>1, AroundRing
    <2>2. r + e = s \/ r + e = s + HistorySize
      <3> HIDE DEF r
      <3> QED
        BY <1>1
    <2> QED
      BY <2>1, <2>2
  <1>5. (d + (e + 1)) - 1 = d + e /\ e + 1 \in 1..HistorySize
    <2> HIDE DEF e
    <2> QED
      BY <1>2
  <1>6. SlotOf(d + (e + 1)) = s
    <2> HIDE DEF e, r
    <2> QED
      BY <1>3, <1>4, <1>5 DEF SlotOf
  <1> HIDE DEF e
  <1> QED
    BY <1>5, <1>6

\* The slots in use are those of the prices of the window, one each.
SlotsInUse == [i \in 1..Held(Len(fed)) |-> SlotOf(Dropped(Len(fed)) + i)]

LEMMA WindowInRing ==
  ASSUME RingInv
  PROVE  LET n == Len(fed)
         IN  /\ \A i \in 1..Held(n) : /\ SlotsInUse[i] \in Slots
                                      /\ price_history[SlotsInUse[i]] = Window(n)[i]
             /\ \A i, j \in 1..Held(n) : SlotsInUse[i] = SlotsInUse[j] => i = j
             /\ ValidSlots = {SlotsInUse[i] : i \in 1..Held(n)}
             /\ ValidSlots = 0..Held(n) - 1
  <1> DEFINE n == Len(fed)
             h == Held(n)
             d == Dropped(n)
  <1>1. n \in Nat /\ fed \in Seq(Points) /\ \A j \in 1..n : fed[j] \in Points
    BY DEF RingInv
  <1>2. /\ h \in 0..HistorySize /\ d \in Nat /\ d + h = n
        /\ d > 0 => h = HistorySize
    <2> HIDE DEF n
    <2> QED
      BY <1>1, HeldFacts
  <1>3. ASSUME NEW i \in 1..h
        PROVE  /\ d + i \in 1..n /\ d + i > d
               /\ (d + i) - 1 \in Nat /\ (d + i) - 1 = d + (i - 1)
    <2> HIDE DEF n, d, h
    <2> QED
      BY <1>1, <1>2
  <1>4. ASSUME NEW i \in 1..h
        PROVE  /\ SlotsInUse[i] = SlotOf(d + i)
               /\ SlotOf(d + i) \in Slots
               /\ price_history[SlotOf(d + i)] = fed[d + i]
    <2>1. d + i \in 1..n /\ d + i > d /\ (d + i) - 1 \in Nat
      BY <1>3
    <2>2. ((d + i) - 1) % HistorySize \in 0..HistorySize - 1
      <3> HIDE DEF n, d, h
      <3> QED
        BY <2>1, AroundRing
    <2> QED
      BY <2>1, <2>2 DEF RingInv, SlotOf, Slots, SlotsInUse
  <1>5. ASSUME NEW i \in 1..h
        PROVE  /\ price_history[SlotsInUse[i]] = Window(n)[i]
               /\ SlotsInUse[i] \in ValidSlots
    <2>1. Window(n)[i] = fed[d + i]
      <3>1. n \in 0..Len(fed)
        BY <1>1
      <3> HIDE DEF n
      <3> QED
        BY <1>1, <3>1, WindowFacts
    <2>2. fed[d + i] \in Points
      BY <1>1, <1>3
    <2> QED
      BY <1>4, <2>1, <2>2 DEF ValidSlots
  <1>6. ASSUME NEW i \in 1..h, NEW j \in 1..h, i < j
        PROVE  SlotsInUse[i] # SlotsInUse[j]
    <2> DEFINE a == (d + i) - 1
               b == (d + j) - 1
    <2>1. a \in Nat /\ b \in Nat
      BY <1>3
    <2>2. a < b /\ b < a + HistorySize
      <3> HIDE DEF n, d, h
      <3> QED
        BY <1>1, <1>2, <1>6
    <2>3. a % HistorySize # b % HistorySize
      <3> HIDE DEF a, b
      <3> QED
        BY <2>1, <2>2, AroundRing
    <2> QED
      BY <1>4, <2>3 DEF SlotOf
  <1>7. \A i, j \in 1..h : SlotsInUse[i] = SlotsInUse[j] => i = j
    <2> SUFFICES ASSUME NEW i \in 1..h, NEW j \in 1..h, i # j PROVE SlotsInUse[i] # SlotsInUse[j]
      OBVIOUS
    <2>1. i < j \/ j < i
      OBVIOUS
    <2> HIDE DEF h
    <2> QED
      BY <1>6, <2>1
  <1>8. ASSUME NEW s \in ValidSlots
        PROVE  s \in 0..h - 1 /\ \E i \in 1..h : SlotsInUse[i] = s
    <2>1. s \in Slots /\ (s < n \/ h = HistorySize)
      <3>1. s \in Slots /\ ~(s >= n)
        BY <1>5 DEF ValidSlots, RingInv
      <3> HIDE DEF n, d, h
      <3> QED
        BY <1>1, <3>1 DEF Slots
    <2>2. CASE h = HistorySize
      <3>1. s \in Slots
        BY <2>1
      <3>2. PICK i \in 1..HistorySize : SlotOf(d + i) = s
        <4> HIDE DEF n, d, h
        <4> QED
          BY <1>2, <3>1, SlotsOfRound
      <3> QED
        BY <1>4, <2>2, <3>1, <3>2 DEF Slots
    <2>3. CASE h # HistorySize
      <3>1. d = 0 /\ h = n /\ s \in Nat /\ s < n /\ s < HistorySize /\ s + 1 \in 1..h
        <4> HIDE DEF n, d, h
        <4> QED
          BY <1>1, <1>2, <2>1, <2>3 DEF Slots
      <3>2. s % HistorySize = s
        <4>1. s \in Nat /\ s < HistorySize
          BY <3>1
        <4> QED
          BY <4>1, AroundRing
      <3>3. (d + (s + 1)) - 1 = s
        <4> HIDE DEF n, d, h
        <4> QED
          BY <3>1
      <3>4. SlotsInUse[s + 1] = s
        BY <1>4, <3>1, <3>2, <3>3 DEF SlotOf
      <3>5. s \in 0..h - 1
        <4> HIDE DEF n, d, h
        <4> QED
          BY <1>2, <3>1
      <3> QED
        BY <3>1, <3>4, <3>5
    <2> QED
      BY <2>2, <2>3
  <1>9. ASSUME NEW s \in 0..h - 1
        PROVE  s \in ValidSlots
    <2>1. CASE h = HistorySize
      <3>1. PICK i \in 1..HistorySize : SlotOf(d + i) = s
        <4> HIDE DEF n, d, h
        <4> QED
          BY <1>2, <2>1, SlotsOfRound DEF Slots
      <3> QED
        BY <1>4, <1>5, <2>1, <3>1
    <2>2. CASE h # HistorySize
      <3>1. d = 0 /\ s \in Nat /\ s < HistorySize /\ s + 1 \in 1..h
        <4> HIDE DEF n, d, h
        <4> QED
          BY <1>1, <1>2, <2>2
      <3>2. s % HistorySize = s
        <4>1. s \in Nat /\ s < HistorySize
          BY <3>1
        <4> QED
          BY <4>1, AroundRing
      <3>3. (d + (s + 1)) - 1 = s
        <4> HIDE DEF n, d, h
        <4> QED
          BY <3>1
      <3>4. SlotsInUse[s + 1] = s
        BY <1>4, <3>1, <3>2, <3>3 DEF SlotOf
      <3> QED
        BY <1>5, <3>1, <3>4
    <2> QED
      BY <2>1, <2>2
  <1> HIDE DEF h
  <1>10. ValidSlots = {SlotsInUse[i] : i \in 1..h}
    BY <1>5, <1>8
  <1>11. ValidSlots = 0..h - 1
    BY <1>8, <1>9
  <1> QED
    BY <1>4, <1>5, <1>7, <1>10, <1>11 DEF h

\* A weight is a whole number.
LEMMA Weighed ==
  ASSUME NEW point \in Points
  PROVE  point.price \in Nat /\ point.volume \in Nat /\ Weight(point) \in Nat \ {0}
  BY DEF Weight

\* The first loop of compute_twap sums up the window.
LEMMA TwapOfWindow ==
  ASSUME RingInv
  PROVE  /\ EnoughPoints <=> Held(Len(fed)) >= MinDataPoints
         /\ ComputedTwap = TwapOf(Window(Len(fed)))
  <1> DEFINE n == Len(fed)
             h == Held(n)
             w == Window(n)
             S == 1..h
             price == [i \in S |-> w[i].price * Weight(w[i])]
             volume == [i \in S |-> Weight(w[i])]
             slotPrice == [i \in ValidSlots |-> price_history[i].price * Weight(price_history[i])]
             slotVolume == [i \in ValidSlots |-> Weight(price_history[i])]
  <1>1. n \in Nat /\ h \in Nat
    <2>1. n \in Nat
      BY DEF RingInv
    <2> HIDE DEF n
    <2> QED
      BY <2>1, HeldFacts
  <1>2. /\ Len(w) = h
        /\ DOMAIN w = S
        /\ \A i \in S : w[i] \in Points
    <2>1. n \in 0..Len(fed) /\ fed \in Seq(Points)
      BY <1>1 DEF RingInv
    <2>2. Len(w) = h /\ DOMAIN w = S /\ w \in Seq(Points)
      <3> HIDE DEF n
      <3> QED
        BY <2>1, WindowFacts
    <2> HIDE DEF w, S
    <2> QED
      BY <2>2
  <1>3. /\ ValidSlots = {SlotsInUse[i] : i \in S}
        /\ ValidSlots = 0..h - 1
        /\ \A i \in S : price_history[SlotsInUse[i]] = w[i]
        /\ \A i \in S, j \in S : SlotsInUse[i] = SlotsInUse[j] => i = j
    BY WindowInRing
  <1>4. IsFiniteSet(S)
    BY <1>1, FS_Interval
  <1>5. Cardinality(ValidSlots) = h
    <2>1. Cardinality(0..h - 1) = IF 0 > h - 1 THEN 0 ELSE (h - 1) - 0 + 1
      <3>1. 0 \in Int /\ h - 1 \in Int
        BY <1>1
      <3> QED
        BY <3>1, FS_Interval
    <2>2. (IF 0 > h - 1 THEN 0 ELSE (h - 1) - 0 + 1) = h
      <3> HIDE DEF h
      <3> QED
        BY <1>1
    <2> QED
      BY <1>3, <2>1, <2>2
  <1>6. EnoughPoints <=> h >= MinDataPoints
    BY <1>5 DEF EnoughPoints
  <1> HIDE DEF h, w, S
  <1>7. TotalPrice = SumFunction(price)
    <2>1. \A i \in S : price[i] \in Int /\ slotPrice[SlotsInUse[i]] = price[i]
      <3> SUFFICES ASSUME NEW i \in S
                   PROVE  price[i] \in Int /\ slotPrice[SlotsInUse[i]] = price[i]
        OBVIOUS
      <3>1. w[i].price \in Nat /\ Weight(w[i]) \in Nat
        BY <1>2, Weighed
      <3>2. SlotsInUse[i] \in ValidSlots /\ price_history[SlotsInUse[i]] = w[i]
        BY <1>3
      <3> QED
        BY <3>1, <3>2
    <2> HIDE DEF price, slotPrice
    <2>2. SumFunctionOnSet(slotPrice, {SlotsInUse[i] : i \in S}) = SumFunctionOnSet(price, S)
      BY <1>3, <1>4, <2>1, SumRenamed
    <2>3. DOMAIN price = S /\ DOMAIN slotPrice = ValidSlots
      BY DEF price, slotPrice
    <2>4. TotalPrice = SumFunction(slotPrice)
      BY DEF TotalPrice, slotPrice
    <2> QED
      BY <1>3, <2>2, <2>3, <2>4 DEF SumFunction
  <1>8. TotalVolume = SumFunction(volume)
    <2>1. \A i \in S : volume[i] \in Int /\ slotVolume[SlotsInUse[i]] = volume[i]
      <3> SUFFICES ASSUME NEW i \in S
                   PROVE  volume[i] \in Int /\ slotVolume[SlotsInUse[i]] = volume[i]
        OBVIOUS
      <3>1. Weight(w[i]) \in Nat
        BY <1>2, Weighed
      <3>2. SlotsInUse[i] \in ValidSlots /\ price_history[SlotsInUse[i]] = w[i]
        BY <1>3
      <3> QED
        BY <3>1, <3>2
    <2> HIDE DEF volume, slotVolume
    <2>2. SumFunctionOnSet(slotVolume, {SlotsInUse[i] : i \in S}) = SumFunctionOnSet(volume, S)
      BY <1>3, <1>4, <2>1, SumRenamed
    <2>3. DOMAIN volume = S /\ DOMAIN slotVolume = ValidSlots
      BY DEF volume, slotVolume
    <2>4. TotalVolume = SumFunction(slotVolume)
      BY DEF TotalVolume, slotVolume
    <2> QED
      BY <1>3, <2>2, <2>3, <2>4 DEF SumFunction
  <1>9. TwapOf(w) = IF h < MinDataPoints THEN NoTwap ELSE <<SumFunction(price), SumFunction(volume)>>
    BY <1>2 DEF TwapOf
  <1>10. EnoughPoints <=> ~(h < MinDataPoints)
    BY <1>1, <1>6
  <1>11. ComputedTwap = TwapOf(w)
    BY <1>7, <1>8, <1>9, <1>10 DEF ComputedTwap
  <1> QED
    BY <1>6, <1>11 DEF w, h

\* The second loop goes from the oldest price of the window to the newest.
LEMMA ChangeOfWindow ==
  ASSUME RingInv
  PROVE  ComputedChange = ChangeOf(Window(Len(fed)))
  <1> DEFINE n == Len(fed)
             h == Held(n)
             d == Dropped(n)
             w == Window(n)
             gap == HistorySize - h
  <1>1. n \in Nat
    BY DEF RingInv
  <1>2. /\ h \in 0..HistorySize /\ h \in Nat /\ d \in Nat /\ d + h = n
        /\ d > 0 => h = HistorySize
        /\ gap \in Nat /\ gap + h = HistorySize
    <2>1. h \in 0..HistorySize /\ d \in Nat /\ d + h = n /\ (d > 0 => h = HistorySize)
      <3> HIDE DEF n
      <3> QED
        BY <1>1, HeldFacts
    <2> HIDE DEF n, h, d
    <2> QED
      BY <2>1
  <1>3. Len(w) = h
    <2>1. n \in 0..Len(fed) /\ fed \in Seq(Points)
      BY <1>1 DEF RingInv
    <2> HIDE DEF n
    <2> QED
      BY <2>1, WindowFacts
  <1>4. ASSUME NEW i \in Slots
        PROVE  Visited(i) = (n + i) % HistorySize
    <2>1. i \in Nat
      BY DEF Slots
    <2>2. ((n % HistorySize) + i) % HistorySize = (n + i) % HistorySize
      <3> HIDE DEF n
      <3> QED
        BY <1>1, <2>1, AroundRing
    <2> QED
      BY <2>2 DEF Visited, RingInv
  <1>5. ASSUME NEW j \in 1..h
        PROVE  /\ gap + (j - 1) \in Slots
               /\ price_history[Visited(gap + (j - 1))] = w[j]
               /\ price_history[Visited(gap + (j - 1))] # NoPoint
    <2> DEFINE a == (d + j) - 1
    <2>1. gap + (j - 1) \in Slots /\ a \in Nat /\ n + (gap + (j - 1)) = a + HistorySize
      <3> HIDE DEF n, h, d, gap
      <3> QED
        BY <1>1, <1>2 DEF Slots
    <2>2. Visited(gap + (j - 1)) = (a + HistorySize) % HistorySize
      BY <1>4, <2>1
    <2>3. (a + HistorySize) % HistorySize = a % HistorySize
      <3> HIDE DEF a
      <3> QED
        BY <2>1, AroundRing
    <2>4. a % HistorySize = SlotsInUse[j]
      BY DEF SlotsInUse, SlotOf
    <2>5. SlotsInUse[j] \in ValidSlots /\ price_history[SlotsInUse[j]] = w[j]
      BY WindowInRing
    <2> QED
      BY <2>1, <2>2, <2>3, <2>4, <2>5 DEF ValidSlots
  <1>6. ASSUME NEW i \in Slots, i < gap
        PROVE  price_history[Visited(i)] = NoPoint
    <2>1. n + i \in Nat /\ n + i < HistorySize /\ n + i >= n /\ n + i \in Slots
      <3> HIDE DEF n, h, d, gap
      <3> QED
        BY <1>1, <1>2, <1>6 DEF Slots
    <2>2. (n + i) % HistorySize = n + i
      <3> HIDE DEF n
      <3> QED
        BY <2>1, AroundRing
    <2> QED
      BY <1>4, <2>1, <2>2 DEF RingInv
  <1>7. ValidSteps = gap..HistorySize - 1
    <2>1. ASSUME NEW i \in gap..HistorySize - 1
          PROVE  i \in ValidSteps
      <3>1. i - gap + 1 \in 1..h /\ gap + ((i - gap + 1) - 1) = i
        <4> HIDE DEF n, h, d, gap
        <4> QED
          BY <1>2
      <3> HIDE DEF n, h, d, gap
      <3> QED
        BY <1>5, <3>1 DEF ValidSteps
    <2>2. ASSUME NEW i \in ValidSteps
          PROVE  i \in gap..HistorySize - 1
      <3>1. i \in Slots /\ ~(i < gap)
        BY <1>6 DEF ValidSteps
      <3> HIDE DEF n, h, d, gap
      <3> QED
        BY <1>2, <3>1 DEF Slots
    <2> QED
      BY <2>1, <2>2
  <1>8. CASE h >= 1
    <2>1. Min(ValidSteps) = gap /\ Max(ValidSteps) = HistorySize - 1
      <3> HIDE DEF n, h, d, gap
      <3>1. gap <= HistorySize - 1
        BY <1>2, <1>8
      <3> DEFINE T == ValidSteps
      <3>2. gap \in T /\ HistorySize - 1 \in T /\ \A x \in T : x \in Nat /\ gap <= x /\ x <= HistorySize - 1
        BY <1>2, <1>7, <3>1
      <3> HIDE DEF T
      <3>3. Min(T) \in T /\ \A y \in T : Min(T) <= y
        BY <3>2 DEF Min
      <3>4. Max(T) \in T /\ \A y \in T : Max(T) >= y
        BY <3>2 DEF Max
      <3> DEFINE lo == Min(T)
                 hi == Max(T)
      <3>5. /\ lo \in Nat /\ gap <= lo /\ lo <= gap
            /\ hi \in Nat /\ hi <= HistorySize - 1 /\ hi >= HistorySize - 1
        BY <3>2, <3>3, <3>4
      <3> HIDE DEF lo, hi
      <3>6. lo = gap /\ hi = HistorySize - 1
        BY <1>2, <3>5
      <3> QED
        BY <3>6 DEF T, lo, hi
    <2>2. 1 \in 1..h /\ h \in 1..h /\ gap + (1 - 1) = gap /\ gap + (h - 1) = HistorySize - 1
      <3> HIDE DEF n, h, d, gap
      <3> QED
        BY <1>2, <1>8
    <2>3. FirstPrice = w[1].price /\ LastPrice = w[h].price
      <3> HIDE DEF n, h, d, gap, w
      <3>1. price_history[Visited(gap + (1 - 1))] = w[1]
        BY <1>5, <2>2
      <3>2. price_history[Visited(gap + (h - 1))] = w[h]
        BY <1>5, <2>2
      <3> QED
        BY <2>1, <2>2, <3>1, <3>2 DEF FirstPrice, LastPrice
    <2>4. EnoughPoints <=> ~(h < MinDataPoints)
      <3>1. EnoughPoints <=> h >= MinDataPoints
        BY TwapOfWindow
      <3> HIDE DEF h
      <3> QED
        BY <1>2, <3>1
    <2>5. ComputedChange = ChangeOf(w)
      <3> HIDE DEF h, w
      <3> QED
        BY <1>3, <2>3, <2>4 DEF ComputedChange, ChangeOf
    <2> QED
      BY <2>5
  <1>9. CASE ~(h >= 1)
    <2>1. h < MinDataPoints
      <3> HIDE DEF h
      <3> QED
        BY <1>2, <1>9
    <2>2. ~EnoughPoints
      <3>1. EnoughPoints <=> h >= MinDataPoints
        BY TwapOfWindow
      <3> HIDE DEF h
      <3> QED
        BY <1>2, <2>1, <3>1
    <2>5. ComputedChange = ChangeOf(w)
      <3> HIDE DEF h, w
      <3> QED
        BY <1>3, <2>1, <2>2 DEF ComputedChange, ChangeOf
    <2> QED
      BY <2>5
  <1> QED
    BY <1>8, <1>9

-----------------------------------------------------------------------------
\* The prices fed first are not forgotten by fed.
LEMMA PrefixKept ==
  ASSUME NEW S, NEW s \in Seq(S), NEW e \in S, NEW a \in Nat \ {0}, NEW k \in 0..Len(s)
  PROVE  SubSeq(Append(s, e), a, k) = SubSeq(s, a, k)
  <1> DEFINE t == Append(s, e)
  <1>1. t \in Seq(S) /\ Len(t) = Len(s) + 1 /\ \A i \in 1..Len(s) : t[i] = s[i]
    OBVIOUS
  <1>2. Len(s) \in Nat /\ \A i \in a..k : s[i] \in S /\ t[i] = s[i]
    OBVIOUS
  <1> HIDE DEF t
  <1> DEFINE u == SubSeq(t, a, k)
             v == SubSeq(s, a, k)
  <1>3. /\ u \in Seq(S) /\ Len(u) = IF a <= k THEN k - a + 1 ELSE 0
        /\ \A i \in 1..k - a + 1 : u[i] = t[a + i - 1]
    <2>1. \A i \in a..k : t[i] \in S
      BY <1>2
    <2> QED
      BY <2>1, SubSeqProperties
  <1>4. /\ v \in Seq(S) /\ Len(v) = IF a <= k THEN k - a + 1 ELSE 0
        /\ \A i \in 1..k - a + 1 : v[i] = s[a + i - 1]
    BY <1>2, SubSeqProperties
  <1> HIDE DEF u, v
  <1>5. Len(u) = Len(v) /\ \A i \in 1..Len(u) : u[i] = v[i]
    <2>1. ASSUME NEW i \in 1..Len(u) PROVE u[i] = v[i]
      <3>1. i \in 1..k - a + 1 /\ a + i - 1 \in a..k
        BY <1>3
      <3> QED
        BY <1>2, <1>3, <1>4, <3>1
    <2> QED
      BY <1>3, <1>4, <2>1
  <1>6. u = v
    BY <1>3, <1>4, <1>5
  <1> QED
    BY <1>6 DEF u, v, t

\* What is fed next changes none of the windows an assessment may have seen.
LEMMA WindowsKept ==
  ASSUME fed \in Seq(Points), NEW point \in Points, FeedPrice(point), NEW k \in 0..Len(fed)
  PROVE  Window(k)' = Window(k)
  <1> DEFINE a == Max({1, k - HistorySize + 1})
  <1>1. a = Dropped(k) + 1 /\ a \in Nat \ {0}
    <2>1. k \in Nat
      OBVIOUS
    <2>2. Dropped(k) \in Nat
      BY <2>1, HeldFacts
    <2>3. a = Dropped(k) + 1
      BY <2>1, WindowStart
    <2> HIDE DEF a
    <2> QED
      BY <2>2, <2>3
  <1>2. fed' = Append(fed, point)
    BY DEF FeedPrice
  <1>3. Window(k) = SubSeq(fed, a, k) /\ Window(k)' = SubSeq(fed', a, k)
    BY DEF Window
  <1> HIDE DEF a
  <1>4. SubSeq(Append(fed, point), a, k) = SubSeq(fed, a, k)
    <2>1. \A s \in Seq(Points) : \A b \in Nat \ {0} : \A j \in 0..Len(s) :
             SubSeq(Append(s, point), b, j) = SubSeq(s, b, j)
      BY PrefixKept
    <2> QED
      BY <1>1, <2>1
  <1> QED
    BY <1>2, <1>3, <1>4

\* What a report says is what its window says.
SpanInv == /\ twap = [m \in Monitors |-> twap[m]]
           /\ price_change = [m \in Monitors |-> price_change[m]]
           /\ \A m \in Monitors : place[m] \in Priced => seen[m] \in 0..Len(fed)
           /\ ReportsSpanWindow

\* The invariant of the assessments and of the ring they read.
OracleInv == AssessInv /\ RingInv

LEMMA SpanInit == VolatilityLogInit => SpanInv
  BY DEF VolatilityLogInit, OracleInit, SpanInv, ReportsSpanWindow, Priced, Asked

LEMMA SpanStep ==
  ASSUME OracleInv, OracleInv', SpanInv, [VolatilityLogNext]_volatilityLogVars
  PROVE  SpanInv'
  <1>1. /\ place \in [Monitors -> Places] /\ seen \in [Monitors -> Nat]
        /\ fed \in Seq(Points)
    BY DEF OracleInv, AssessInv, ReportTypes
  <1>2. ASSUME NEW point \in Points, FeedPrice(point)
        PROVE  SpanInv'
    <2>1. UNCHANGED <<place, twap, price_change, seen>> /\ fed' = Append(fed, point)
      BY <1>2 DEF FeedPrice
    <2>2. Len(fed') = Len(fed) + 1 /\ Len(fed) \in Nat
      BY <1>1, <2>1
    <2>3. ASSUME NEW m \in Monitors, place[m] \in Priced
          PROVE  /\ seen[m] \in 0..Len(fed')
                 /\ twap[m] = TwapOf(Window(seen[m]))'
                 /\ price_change[m] = ChangeOf(Window(seen[m]))'
      <3>1. seen[m] \in 0..Len(fed)
        BY <2>3 DEF SpanInv
      <3>2. Window(seen[m])' = Window(seen[m])
        <4>1. \A k \in 0..Len(fed) : Window(k)' = Window(k)
          BY <1>1, <1>2, WindowsKept
        <4>2. Window(seen[m])' = SubSeq(fed', Max({1, seen[m] - HistorySize + 1}), seen[m])
          BY <2>1 DEF Window
        <4>3. PICK k \in 0..Len(fed) : k = seen[m]
          BY <3>1
        <4>4. Window(k)' = SubSeq(fed', Max({1, k - HistorySize + 1}), k)
          BY DEF Window
        <4> QED
          BY <4>1, <4>2, <4>3, <4>4
      <3>3. twap[m] = TwapOf(Window(seen[m])) /\ price_change[m] = ChangeOf(Window(seen[m]))
        BY <2>3 DEF SpanInv, ReportsSpanWindow
      <3>4. /\ TwapOf(Window(seen[m]))' = TwapOf(Window(seen[m]))
            /\ ChangeOf(Window(seen[m]))' = ChangeOf(Window(seen[m]))
        BY <3>2 DEF TwapOf, ChangeOf
      <3> QED
        BY <2>2, <3>1, <3>3, <3>4
    <2> QED
      BY <2>1, <2>3 DEF SpanInv, ReportsSpanWindow
  <1>3. ASSUME NEW m \in Monitors, ComputeTwap(m)
        PROVE  SpanInv'
    <2>1. /\ place' = [place EXCEPT ![m] = "priced"]
          /\ seen' = [seen EXCEPT ![m] = Len(fed)]
          /\ twap' = [twap EXCEPT ![m] = TwapOf(Window(Len(fed)))]
          /\ price_change' = [price_change EXCEPT ![m] = ChangeOf(Window(Len(fed)))]
          /\ fed' = fed
      BY <1>3, TwapOfWindow, ChangeOfWindow DEF ComputeTwap, Goto, ringVars, OracleInv
    <2>2. \A k : Window(k)' = Window(k)
      BY <2>1 DEF Window
    <2>3. ASSUME NEW other \in Monitors, place'[other] \in Priced
          PROVE  /\ seen'[other] \in 0..Len(fed)
                 /\ twap'[other] = TwapOf(Window(seen'[other]))
                 /\ price_change'[other] = ChangeOf(Window(seen'[other]))
      <3>1. CASE other = m
        BY <1>1, <2>1, <3>1 DEF SpanInv
      <3>2. CASE other # m
        BY <1>1, <2>1, <2>3, <3>2 DEF SpanInv, ReportsSpanWindow
      <3> QED
        BY <3>1, <3>2
    <2>4. /\ twap' = [other \in Monitors |-> twap'[other]]
          /\ price_change' = [other \in Monitors |-> price_change'[other]]
      BY <2>1 DEF SpanInv
    <2> QED
      BY <2>1, <2>3, <2>4 DEF SpanInv, ReportsSpanWindow, Window
  <1>4. ASSUME NEW m \in Monitors,
               \/ Assess(m)
               \/ \E coverage_low \in BOOLEAN : DecideSignal(m, coverage_low)
               \/ StoreTwap(m)
               \/ LogReport(m) \/ ReportLogged(m)
        PROVE  SpanInv'
    <2>1. UNCHANGED <<fed, twap, price_change, seen>>
      BY <1>4 DEF Assess, DecideSignal, StoreTwap, LogReport, ReportLogged, ringVars, localVars
    <2>2. \A other \in Monitors : place'[other] \in Priced => place[other] \in Priced
      BY <1>1, <1>4 DEF Assess, DecideSignal, StoreTwap, LogReport, ReportLogged, Goto, Priced,
         Asked
    <2> QED
      BY <2>1, <2>2 DEF SpanInv, ReportsSpanWindow, Window
  <1>5. ASSUME NEW m \in Monitors, StoreChange(m)
        PROVE  SpanInv'
    <2>1. /\ place' = [place EXCEPT ![m] = "reported"]
          /\ seen' = [seen EXCEPT ![m] = 0]
          /\ twap' = [twap EXCEPT ![m] = NoTwap]
          /\ price_change' = [price_change EXCEPT ![m] = NoChange]
          /\ fed' = fed
      BY <1>5 DEF StoreChange, ReturnReport, Goto, ringVars
    <2>2. ASSUME NEW other \in Monitors, place'[other] \in Priced
          PROVE  /\ place[other] \in Priced
                 /\ seen'[other] = seen[other]
                 /\ twap'[other] = twap[other]
                 /\ price_change'[other] = price_change[other]
      BY <1>1, <2>1, <2>2 DEF Priced, Asked, SpanInv
    <2>3. /\ twap' = [other \in Monitors |-> twap'[other]]
          /\ price_change' = [other \in Monitors |-> price_change'[other]]
      BY <2>1 DEF SpanInv
    <2> QED
      BY <2>1, <2>2, <2>3 DEF SpanInv, ReportsSpanWindow, Window
  <1>6. ASSUME UNCHANGED <<ringVars, place, localVars>>
        PROVE  SpanInv'
    BY <1>6 DEF SpanInv, ReportsSpanWindow, Window, ringVars, localVars
  <1> QED
    BY <1>2, <1>3, <1>4, <1>5, <1>6
       DEF VolatilityLogNext, MonitorStep, volatilityLogVars, oracleVars, FeedGas, SettlerAppends,
       SettlerAppended

LEMMA OracleAlways == VolatilityLogSpec => [](OracleInv /\ SpanInv)
  <1>1. VolatilityLogInit => OracleInv
    BY AssessInitInv, RingInit DEF OracleInv
  <1>2. OracleInv /\ [VolatilityLogNext]_volatilityLogVars => OracleInv'
    BY AssessStepInv, RingStep DEF OracleInv
  <1> QED
    BY <1>1, <1>2, SpanInit, SpanStep, PTL DEF VolatilityLogSpec

\* Every report is about the last prices fed before it was computed: its
\* average is theirs, its change goes from the oldest to the newest of them.
THEOREM ReportsAreOfTheirWindow == VolatilityLogSpec => []ReportsSpanWindow
  <1>1. SpanInv => ReportsSpanWindow
    BY DEF SpanInv
  <1> QED
    BY <1>1, OracleAlways, PTL

-----------------------------------------------------------------------------
\* The two atomics belong to one report, unless assessments overlapped or one
\* is between its two stores.
OfOneWindow == \E k \in 0..Len(fed) : /\ last_twap = TwapOf(Window(k))
                                      /\ last_price_change = ChangeOf(Window(k))

PublishInv ==
    ~mixed => /\ \A m, other \in Monitors :
                    place[m] = "twapped" /\ place[other] = "twapped" => m = other
              /\ \A m \in Monitors : place[m] = "twapped" => last_twap = twap[m]
              /\ (\A m \in Monitors : place[m] # "twapped") => OfOneWindow

LEMMA PublishInit == VolatilityLogInit => PublishInv
  <1> SUFFICES ASSUME VolatilityLogInit PROVE PublishInv
    OBVIOUS
  <1>1. /\ fed = << >> /\ last_twap = NoTwap /\ last_price_change = NoChange
        /\ \A m \in Monitors : place[m] # "twapped"
    BY DEF VolatilityLogInit, OracleInit
  <1>2. fed \in Seq(Points) /\ Len(fed) = 0 /\ 0 \in 0..Len(fed)
    BY <1>1
  <1>3. Len(Window(0)) = 0
    <2>1. Len(Window(0)) = Held(0)
      BY <1>2, WindowFacts
    <2> QED
      BY <2>1 DEF Held
  <1>4. TwapOf(Window(0)) = NoTwap /\ ChangeOf(Window(0)) = NoChange
    BY <1>3 DEF TwapOf, ChangeOf
  <1> QED
    BY <1>1, <1>2, <1>4 DEF PublishInv, OfOneWindow

LEMMA PublishStep ==
  ASSUME OracleInv, SpanInv, PublishInv, [VolatilityLogNext]_volatilityLogVars
  PROVE  PublishInv'
  <1>1. place \in [Monitors -> Places] /\ fed \in Seq(Points)
    BY DEF OracleInv, AssessInv, ReportTypes
  <1>2. ASSUME OfOneWindow, UNCHANGED publishVars,
               fed' = fed \/ \E point \in Points : FeedPrice(point)
        PROVE  OfOneWindow'
    <2>1. PICK k \in 0..Len(fed) : /\ last_twap = TwapOf(Window(k))
                                   /\ last_price_change = ChangeOf(Window(k))
      BY <1>2 DEF OfOneWindow
    <2>2. Window(k)' = Window(k) /\ k \in 0..Len(fed')
      <3>1. CASE fed' = fed
        BY <3>1 DEF Window
      <3>2. CASE \E point \in Points : FeedPrice(point)
        <4>1. PICK point \in Points : FeedPrice(point)
          BY <3>2
        <4>2. fed' = Append(fed, point)
          BY <4>1 DEF FeedPrice
        <4> QED
          BY <1>1, <4>1, <4>2, WindowsKept
      <3> QED
        BY <1>2, <3>1, <3>2
    <2>3. TwapOf(Window(k))' = TwapOf(Window(k)) /\ ChangeOf(Window(k))' = ChangeOf(Window(k))
      BY <2>2 DEF TwapOf, ChangeOf
    <2> QED
      BY <1>2, <2>1, <2>2, <2>3 DEF OfOneWindow, publishVars
  <1>3. ASSUME UNCHANGED publishVars, fed' = fed \/ \E point \in Points : FeedPrice(point),
               \A m \in Monitors : place'[m] = "twapped" <=> place[m] = "twapped",
               \A m \in Monitors : place[m] = "twapped" => twap'[m] = twap[m]
        PROVE  PublishInv'
    BY <1>2, <1>3 DEF PublishInv, publishVars
  <1>4. ASSUME NEW point \in Points, FeedPrice(point)
        PROVE  PublishInv'
    BY <1>3, <1>4 DEF FeedPrice
  <1>5. ASSUME NEW m \in Monitors,
               \/ Assess(m)
               \/ ComputeTwap(m)
               \/ \E coverage_low \in BOOLEAN : DecideSignal(m, coverage_low)
               \/ LogReport(m) \/ ReportLogged(m)
        PROVE  PublishInv'
    <2>1. UNCHANGED publishVars /\ fed' = fed
      BY <1>5 DEF Assess, ComputeTwap, DecideSignal, LogReport, ReportLogged, ringVars
    <2>2. \A other \in Monitors : place'[other] = "twapped" <=> place[other] = "twapped"
      BY <1>1, <1>5 DEF Assess, ComputeTwap, DecideSignal, LogReport, ReportLogged, Goto
    <2>3. \A other \in Monitors : place[other] = "twapped" => twap'[other] = twap[other]
      BY <1>1, <1>5 DEF Assess, ComputeTwap, DecideSignal, LogReport, ReportLogged, localVars,
         SpanInv
    <2> QED
      BY <1>3, <2>1, <2>2, <2>3
  <1>6. ASSUME NEW m \in Monitors, StoreTwap(m)
        PROVE  PublishInv'
    <2>1. /\ place[m] = "aged"
          /\ place' = [place EXCEPT ![m] = "twapped"]
          /\ last_twap' = twap[m]
          /\ mixed' = \E other \in Monitors : place[other] = "twapped"
          /\ twap' = twap
      BY <1>6 DEF StoreTwap, Goto, localVars
    <2>2. SUFFICES ASSUME ~mixed'
                   PROVE  /\ \A a, b \in Monitors :
                                place'[a] = "twapped" /\ place'[b] = "twapped" => a = b
                          /\ \A a \in Monitors : place'[a] = "twapped" => last_twap' = twap'[a]
                          /\ ~(\A a \in Monitors : place'[a] # "twapped")
      BY DEF PublishInv
    <2>3. \A a \in Monitors : place'[a] = "twapped" <=> a = m
      BY <1>1, <2>1, <2>2
    <2> QED
      BY <2>1, <2>3
  <1>7. ASSUME NEW m \in Monitors, StoreChange(m)
        PROVE  PublishInv'
    <2>1. /\ place[m] = "twapped"
          /\ place' = [place EXCEPT ![m] = "reported"]
          /\ last_price_change' = price_change[m]
          /\ UNCHANGED <<last_twap, mixed, fed>>
      BY <1>7 DEF StoreChange, ReturnReport, Goto, ringVars
    <2>2. SUFFICES ASSUME ~mixed
                   PROVE  /\ \A a \in Monitors : place'[a] # "twapped"
                          /\ OfOneWindow'
      BY <2>1 DEF PublishInv
    <2>3. \A a \in Monitors : place'[a] # "twapped"
      BY <1>1, <2>1, <2>2 DEF PublishInv
    <2>4. /\ last_twap = twap[m]
          /\ seen[m] \in 0..Len(fed)
          /\ twap[m] = TwapOf(Window(seen[m]))
          /\ price_change[m] = ChangeOf(Window(seen[m]))
      BY <2>1, <2>2 DEF PublishInv, SpanInv, ReportsSpanWindow, Priced, Asked
    <2>5. \E k \in 0..Len(fed) : /\ last_twap' = TwapOf(Window(k))
                                 /\ last_price_change' = ChangeOf(Window(k))
      BY <2>1, <2>4
    <2> QED
      BY <2>1, <2>3, <2>5 DEF OfOneWindow, Window
  <1>8. ASSUME UNCHANGED <<ringVars, publishVars, place, localVars>>
        PROVE  PublishInv'
    BY <1>3, <1>8 DEF ringVars, localVars
  <1> QED
    BY <1>4, <1>5, <1>6, <1>7, <1>8
       DEF VolatilityLogNext, MonitorStep, volatilityLogVars, oracleVars, FeedGas, SettlerAppends,
       SettlerAppended

\* Once no assessment is between its two stores, and the last ones did not
\* overlap, the published average and change are of one window of prices.
THEOREM PublishedOfOneWindow == VolatilityLogSpec => []RebaseFromOneReport
  <1>1. PublishInv => RebaseFromOneReport
    BY DEF PublishInv, RebaseFromOneReport, OfOneWindow
  <1> QED
    BY <1>1, PublishInit, PublishStep, OracleAlways, PTL DEF VolatilityLogSpec
=============================================================================
