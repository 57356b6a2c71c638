--------------------------- MODULE ComputeFutures ---------------------------
(***************************************************************************)
(* class ComputeFuturesMarket (include/compute_futures.hpp) and the oracle *)
(* it points to.  Threads open futures under the market's mutex_, but read *)
(* the oracle's atomics one by one, without the oracle's lock.  Settling   *)
(* and liquidating read one atomic once and are one action each.  Amounts  *)
(* are in WeightSum-ths of the price unit; profits, which the code scales  *)
(* by cores * 0.1 + GB * 0.05, in twentieths of that.                      *)
(***************************************************************************)
EXTENDS PriceOracle, Sequences

CONSTANTS Traders,         \* threads that open futures
          NoTrader,        \* the market's mutex_ is free
          Orders,          \* arguments of open_forward, open_long, open_short
          MaxFutures       \* bound on the futures opened

FutureTypes == {"forward", "long", "short"}

Order == [type : FutureTypes, cpu_cores : Nat, ram_gb : Nat, leverage : Nat, collateral : Nat]

ASSUME MarketAssumption ==
    /\ NoTrader \notin Traders
    /\ Orders \subseteq Order
    /\ Orders # {}
    /\ \A o \in Orders : o.type = "forward" => o.leverage = 1
    /\ MaxFutures \in Nat

VARIABLES futures,         \* futures_, by the number in the identifier
          market,          \* the thread that holds mutex_
          pc, order,       \* where each thread is in open_*, and its arguments
          cpu_read, notional,      \* what it has read and computed so far
          quiet            \* history: no store of the oracle since it began

openVars   == <<market, pc, order, cpu_read, notional, quiet>>
marketVars == <<futures, openVars>>
futuresVars == <<oracleVars, marketVars>>

Statuses == {"OPEN", "SETTLED", "LIQUIDATED"}

ComputeFuture == [order : Orders, status : Statuses, entry_price : Nat,
                  notional_value : Nat, pnl : Int, quiet : BOOLEAN]

MarketTypeOK == /\ OracleTypeOK
                /\ futures \in Seq(ComputeFuture)
                /\ market \in Traders \cup {NoTrader}
                /\ pc \in [Traders -> {"idle", "ram", "index"}]
                /\ order \in [Traders -> Orders]
                /\ cpu_read \in [Traders -> Nat]
                /\ notional \in [Traders -> Nat]
                /\ quiet \in [Traders -> BOOLEAN]

MarketInit == /\ OracleInit
              /\ futures = << >>
              /\ market = NoTrader
              /\ pc = [t \in Traders |-> "idle"]
              /\ order = [t \in Traders |-> CHOOSE o \in Orders : TRUE]
              /\ cpu_read = [t \in Traders |-> 0]
              /\ notional = [t \in Traders |-> 0]
              /\ quiet = [t \in Traders |-> FALSE]

WeightSum == CpuWeight + RamWeight

\* compute_index_for_cpu_ram, times the leverage.
NotionalOf(o, price) ==
    WeightSum * (o.cpu_cores * price.cpu + o.ram_gb * price.ram) * o.leverage

-----------------------------------------------------------------------------
\* open_* takes the lock and loads the price of cores.
OpenReadCpu(t, o) ==
    /\ pc[t] = "idle"
    /\ market = NoTrader
    /\ Len(futures) < MaxFutures
    /\ market' = t
    /\ pc' = [pc EXCEPT ![t] = "ram"]
    /\ order' = [order EXCEPT ![t] = o]
    /\ cpu_read' = [cpu_read EXCEPT ![t] = current_cpu_price]
    /\ quiet' = [quiet EXCEPT ![t] = feeder = NoFeeder /\ feeds > 0]
    /\ UNCHANGED <<futures, notional>>

\* Mutated form: the price of cores is loaded twice.
OpenReadRam_CoresTwice(t) ==
    /\ pc[t] = "ram"
    /\ pc' = [pc EXCEPT ![t] = "index"]
    /\ notional' = [notional EXCEPT ![t] =
                       NotionalOf(order[t], [cpu |-> cpu_read[t], ram |-> current_cpu_price])]
    /\ UNCHANGED <<futures, market, order, cpu_read, quiet>>

\* It loads the price of memory and has the notional value.
OpenReadRam(t) ==
    /\ pc[t] = "ram"
    /\ pc' = [pc EXCEPT ![t] = "index"]
    /\ notional' = [notional EXCEPT ![t] =
                       NotionalOf(order[t], [cpu |-> cpu_read[t], ram |-> current_ram_price])]
    /\ UNCHANGED <<futures, market, order, cpu_read, quiet>>

\* It loads the index, stores the future and returns an empty identifier: the
\* future was moved into the table before.
OpenInsert(t) ==
    /\ pc[t] = "index"
    /\ pc' = [pc EXCEPT ![t] = "idle"]
    /\ futures' = Append(futures, [order |-> order[t], status |-> "OPEN",
                                   entry_price |-> current_index,
                                   notional_value |-> notional[t], pnl |-> 0,
                                   quiet |-> quiet[t]])
    /\ market' = NoTrader
    /\ UNCHANGED <<order, cpu_read, notional, quiet>>

OpenStep(t) == OpenReadRam(t) \/ OpenInsert(t)

\* cores * 0.1 + GB * 0.05, in twentieths.
SizeOf(o) == 2 * o.cpu_cores + o.ram_gb

\* What a future has gained at a price, per unit of its size.  A forward's
\* target is its entry price and it gains when the price falls.
GainAt(future, price) ==
    IF future.order.type = "long" THEN (price - future.entry_price) * future.order.leverage
                                  ELSE (future.entry_price - price) * future.order.leverage

\* Mutated form: a future is settled whatever its status.
Settleable_Any(id) == id \in DOMAIN futures

Settleable(id) == id \in DOMAIN futures /\ futures[id].status = "OPEN"

\* settle_future returning true; nothing asks whether it has expired.
SettleFuture(id) ==
    /\ market = NoTrader
    /\ Settleable(id)
    /\ futures' = [futures EXCEPT ![id].status = "SETTLED",
                                  ![id].pnl = GainAt(futures[id], current_index) * SizeOf(futures[id].order)]
    /\ UNCHANGED openVars

\* A forward's gain is taken to be 0, and the size is left out.
UnrealizedAt(future, price) ==
    IF future.order.type = "forward" THEN 0 ELSE GainAt(future, price)

\* MIN_COLLATERAL_RATIO is one half.
Undercollateralized(future, price) ==
    2 * (future.order.collateral + UnrealizedAt(future, price)) < future.notional_value

\* check_liquidations: every open future in one pass, at one reading of the index.
CheckLiquidations ==
    /\ market = NoTrader
    /\ futures' = [id \in DOMAIN futures |->
                      IF futures[id].status = "OPEN" /\ Undercollateralized(futures[id], current_index)
                      THEN [futures[id] EXCEPT !.status = "LIQUIDATED",
                                               !.pnl = -20 * futures[id].order.collateral]
                      ELSE futures[id]]
    /\ UNCHANGED openVars

-----------------------------------------------------------------------------
OracleNext == /\ \E f \in Feeders : (\E c, r \in Prices : FeedPrice(f, [cpu |-> c, ram |-> r])) \/ FeedStep(f)
              /\ quiet' = [t \in Traders |-> FALSE]
              /\ UNCHANGED <<futures, market, pc, order, cpu_read, notional>>

MarketNext == /\ \/ \E t \in Traders, o \in Orders : OpenReadCpu(t, o)
                 \/ \E t \in Traders : OpenStep(t)
                 \/ \E id \in DOMAIN futures : SettleFuture(id)
                 \/ CheckLiquidations
              /\ UNCHANGED oracleVars

FuturesNext == OracleNext \/ MarketNext

FuturesSpec == MarketInit /\ [][FuturesNext]_futuresVars

-----------------------------------------------------------------------------
\* A future that was settled or liquidated is never touched again: settling and
\* liquidating race for it and only one of them books a result.
ClosedIsFinal ==
    [][\A id \in DOMAIN futures :
          futures[id].status # "OPEN" => futures'[id] = futures[id]]_futuresVars

\* A future opened while no price was fed has the notional value and the entry
\* price of one price, that of the oracle.
QuietOpensConsistent ==
    \A id \in DOMAIN futures :
        futures[id].quiet =>
            \E c, r \in Prices :
                LET price == [cpu |-> c, ram |-> r]
                IN  /\ futures[id].entry_price = IndexOf(price)
                    /\ futures[id].notional_value = NotionalOf(futures[id].order, price)
=============================================================================
