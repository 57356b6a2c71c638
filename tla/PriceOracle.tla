---------------------------- MODULE PriceOracle ----------------------------
(***************************************************************************)
(* class ComputePriceOracle (include/compute_futures.hpp).  feed_price     *)
(* holds mutex_ but publishes three atomics one after the other, and the   *)
(* readers take no lock: each store is an action.  Prices are whole        *)
(* numbers and the index is scaled by WeightSum, so that nothing is        *)
(* rounded.  Left out: the ring of past prices, read by a display figure.  *)
(***************************************************************************)
EXTENDS Integers

CONSTANTS Feeders,         \* threads that call feed_price
          NoFeeder,        \* the oracle's mutex_ is free
          Prices,
          CpuWeight, RamWeight,    \* 0.6 and 0.4, as 3 and 2
          InitialIndex, InitialPrice,
          MaxFeeds         \* bound on the calls of feed_price

ASSUME OracleAssumption ==
    /\ NoFeeder \notin Feeders
    /\ Prices \subseteq Nat
    /\ {CpuWeight, RamWeight, InitialIndex, MaxFeeds} \subseteq Nat
    /\ InitialPrice \in [cpu : Nat, ram : Nat]

VARIABLES current_index, current_cpu_price, current_ram_price,
          feeder,          \* the thread in feed_price that holds mutex_
          feed_pc,         \* what it stores next
          feed,            \* its arguments
          feeds            \* history: calls of feed_price so far

priceVars  == <<current_index, current_cpu_price, current_ram_price>>
oracleVars == <<priceVars, feeder, feed_pc, feed, feeds>>

Price == [cpu : Nat, ram : Nat]

OracleTypeOK == /\ current_index \in Nat
                /\ current_cpu_price \in Nat
                /\ current_ram_price \in Nat
                /\ feeder \in Feeders \cup {NoFeeder}
                /\ feed_pc \in [Feeders -> {"idle", "index", "cpu", "ram"}]
                /\ feed \in [Feeders -> Price]
                /\ feeds \in Nat

\* The initial index is not that of the initial prices.
OracleInit == /\ current_index = InitialIndex
              /\ current_cpu_price = InitialPrice.cpu
              /\ current_ram_price = InitialPrice.ram
              /\ feeder = NoFeeder
              /\ feed_pc = [f \in Feeders |-> "idle"]
              /\ feed = [f \in Feeders |-> InitialPrice]
              /\ feeds = 0

-----------------------------------------------------------------------------
IndexOf(price) == CpuWeight * price.cpu + RamWeight * price.ram

FeedTo(f, place) == feed_pc' = [feed_pc EXCEPT ![f] = place]

\* Mutated form: feed_price without its lock_guard.
FeedPrice_Unguarded(f, price) ==
    /\ feed_pc[f] = "idle"
    /\ feeds < MaxFeeds
    /\ FeedTo(f, "index")
    /\ feeder' = f
    /\ feed' = [feed EXCEPT ![f] = price]
    /\ feeds' = feeds + 1
    /\ UNCHANGED priceVars

\* feed_price up to its first store.
FeedPrice(f, price) ==
    /\ feed_pc[f] = "idle"
    /\ feeder = NoFeeder
    /\ feeds < MaxFeeds
    /\ FeedTo(f, "index")
    /\ feeder' = f
    /\ feed' = [feed EXCEPT ![f] = price]
    /\ feeds' = feeds + 1
    /\ UNCHANGED priceVars

StoreIndex(f) ==
    /\ feed_pc[f] = "index"
    /\ FeedTo(f, "cpu")
    /\ current_index' = IndexOf(feed[f])
    /\ UNCHANGED <<current_cpu_price, current_ram_price, feeder, feed, feeds>>

StoreCpu(f) ==
    /\ feed_pc[f] = "cpu"
    /\ FeedTo(f, "ram")
    /\ current_cpu_price' = feed[f].cpu
    /\ UNCHANGED <<current_index, current_ram_price, feeder, feed, feeds>>

\* The last store, after which the lock is released.
StoreRam(f) ==
    /\ feed_pc[f] = "ram"
    /\ FeedTo(f, "idle")
    /\ current_ram_price' = feed[f].ram
    /\ feeder' = NoFeeder
    /\ UNCHANGED <<current_index, current_cpu_price, feed, feeds>>

FeedStep(f) == StoreIndex(f) \/ StoreCpu(f) \/ StoreRam(f)

-----------------------------------------------------------------------------
\* README.md says "Compute Index = (CPU price x 0.6) + (RAM price x 0.4)": once
\* a price was fed, and while no call of feed_price is between its stores, the
\* three atomics belong together, however many threads feed.
OracleSettled ==
    feeder = NoFeeder /\ feeds > 0 =>
        current_index = IndexOf([cpu |-> current_cpu_price, ram |-> current_ram_price])
=============================================================================
