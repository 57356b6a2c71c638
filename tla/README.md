# MEMBRA L3: TLA+ models and proofs

A verification development for `membra_l3`, a C++ prototype of a gasless
settlement layer: wallets lock compute for gas credits, a vault pays gas for
them, relayers settle payment intents, workers are rewarded for inference and
verified compute, and side services appraise, reimburse and preserve wallets.
Everything lives in one process: no component persists anything, there is no
network, and components interact through calls, shared objects and the texts of
identifiers. Paths below are relative to the repository (`include/`, `src/`,
`tests/`).

`PROJECT.json` has the machine-readable side: components, runs, the mutated
forms each property must reject, the source lines of every definition, the
hazards, the findings and the theorems.

## 1. Inventory

| Component | State | Operations | Talks to | What is hard, and what must hold |
|---|---|---|---|---|
| `ComputeStaking` (`include/compute_staking.hpp`) | stakes by id, three totals | stake, unstake, charge an allowance | read and charged by `GasVault` | identifiers of one tick collide and overwrite; totals are unsigned. Totals cover the active stakes, an unstaked entry is final |
| `GasVault` (`include/gas_vault.hpp`) | reserves, counters (atomics), payments per user | `pay_gas` (mutex), `deposit_sol` and getters (no lock) | `ComputeStaking` | statements of `pay_gas` interleave with deposits and stakers. Books balance, the unsigned debit never wraps, the mutex is released on every path |
| `IntentNetwork` (`include/intent_network.hpp`) | intents, nonces | create, claim, confirm, expire | relayers | claim against expiry against another claim. An intent is claimed once, nonces are in order |
| Settlement (step 4 of `src/main.cpp`) | which relayer settles what | claim, then `pay_gas` for the sender | the three above | two calls without a common lock. No charge without a claim |
| `RewardVault` (`include/reward_vault.hpp`) | entries, pool | deposit, file, claim | the receipt id, as text | the mutex is locked twice; caps tested at another time than used. The pool pays an entry once and never wraps |
| `ProofOfInference` (`include/proof_of_inference.hpp`) | receipts | create, verify, claim | as above | a receipt may be paid here and there |
| `GasReimbursementManager`, `GasPoolManager`, `GasEstimator` (`src/gas_reimbursement.cpp`) | requests, wallets, pools, reservations, statistics | submit, process, approve, reject; initialize, top up, reserve, release | through their caller | requests replaced and processed again, differences that wrap. Statistics cover the records, reservations those who hold them |
| `ZKComputeManager`, `ZKProver`, `RewardDistributor`, `ComputeResourceAllocator`, `ZKGasReimbursement` (`src/zk_compute.cpp`) | tasks, proofs, rewards, node capacity | submit, verify, distribute, allocate, release, Merkle root | through their caller; Merkle | repeated verification, commitments with one name. Every verified task was paid, capacity is accounted for |
| Merkle trees, appraisal, market cap, attestation (`src/merkle_provenance.cpp`) | none | build a tree, prove, verify | `ZKComputeManager` | shapes of the tree. Proofs in a full tree verify, and only for their leaf |
| `ComputePriceOracle`, `ComputeFuturesMarket` (`include/compute_futures.hpp`) | three price atomics, futures | feed; open, settle, liquidate | market reads the oracle's atomics | torn readings, settle against liquidate. A torn reading needs a feed in progress, closed is final |
| `WalletPreservationMonitor`, `Manager`, `WalletRecoveryService`, `PreservationGovernance` (`src/zero_balance_preservation.cpp`) | snapshots, statuses, records, requests, statistics | archive, restore, top up, freeze, unfreeze, review; recover; decide | manager owns a monitor; the others share only names | records replace each other within a millisecond, statuses overwrite a freeze. Monitor and records agree, statistics drift only in known ways |
| `ReceiverPaidGas` (`include/receiver_paid_gas.hpp`) | receipts, the oracle's prices, two mutexes | create, calculate, mark, update oracle | its caller, who pays between two calls | calculate and mark are two calls, prices are read after the oracle's lock is released. A receipt is paid at most once per caller, a quote nobody overtook has prices published together, every call is answered |
| `VolatilityOracle` (`include/volatility_oracle.hpp`) | ring of prices, two published results | feed price, feed gas, assess | its report goes to the proof book (`src/main.cpp`, step 2) | the clock is read before the lock, the last update after it, results are published in two stores. A report is about one window of prices and knows how old they are |
| `ProofBook` (`include/proof_book.hpp`) | chain of entries, last hash | append, verify; getters without the lock | monitors and settlements append to it | appends race. The chain always verifies, the log only grows |
| `IPFSVerifier`, `ArtifactAnalyzer`, `ProvenanceAttestationBuilder`, `ArtifactRegistry` (`src/ipfs_verifier.cpp`) | attestations by identifier, identifiers by perceptual hash | attest a file or a content, register | the file system | a file is opened three times for one attestation, stubbed services answer one address for everything, so that identifiers collide. An attestation of a file left alone is of one content, a sample stays with the wallet that registered it first |
| `LLMMempoolGovernor`, `OvermanifoldPolicy` (`src/llm_mempool_governor.cpp`) | risk threshold, policy rules | compute next action, simulate, execute, set threshold, add and remove rules | its client carries the recommendation | thresholds and rules change between the computation of an action and its execution. What was too risky when computed is never executed |
| `MempoolRouter`, `MempoolGovernorAPI` | none | format texts | the governor | not modelled: no state, and the handlers work on empty requests |
| `ComputeBenchmark`, `Crypto`, the demo | none that others read | | | not modelled: measurement, hashing (taken as injective), printing |

### How they interact

`GasVault` holds a pointer to a `ComputeStaking` and calls it under its own
mutex, always in that order, so the two cannot block each other. `ReceiverPaidGas`
takes the lock of its oracle while it holds its own; `update_oracle` takes the
former only. These are the only nested locks. `RewardVault` locks its own mutex twice. The market holds a pointer
to the oracle and reads its atomics without its lock. Everywhere else the caller
is the glue: `main.cpp` and the tests carry an intent from the network to the
vault, a receipt from `ProofOfInference` to `RewardVault`, an amount from
the reimbursement manager to a pool, a volatility report to the proof book, an
attestation from the builder to the registry.

Which classes may be called from several threads is read off the code: those
with a mutex or atomics (`ComputeStaking`, `GasVault`, `IntentNetwork`,
`RewardVault`, `ProofOfInference`, oracle and market, `ReceiverPaidGas`,
`VolatilityOracle`, `ProofBook`) are modelled with threads, those without
(`src/*.cpp`) with calls that come one at a time. Of the latter, the artifact builder
is split where the file it reads can be rewritten by its owner, and the governor where
its client carries a recommendation from one call to the next.

## 2. Modules

| Module | Models | State and actions |
|---|---|---|
| `Clock`, `Tables` | `system_clock`, hash tables, unsigned subtraction | `now` and `Tick`; `Put` inserts or overwrites, `Minus` wraps at `Word` |
| `ComputeStaking` | the class | one action per critical section; a stake's id is `<<staker, now>>` |
| `GasVault` | the class, on top of `ComputeStaking` | `pay_gas` is nine steps per thread (`pc`), `deposit_sol` one |
| `IntentNetwork` | the class | one action per critical section |
| `GasSettlement` | relayer threads over vault and network | claim, pay, done |
| `SettlementLedger` | *abstract*: what a settlement promises | claim at most once, at most one charge per claim, to the intent's sender |
| `RewardVault`, `ProofOfInference`, `InferenceRewards` | the two classes and their composition | `create_reward_entry` is two steps, split where it locks again |
| `GasReimbursement`, `GasPool`, `ReimbursementStack` | manager, pools, their caller | one action per call; `held` is what callers have reserved |
| `Merkle` | trees and proofs as recursive functions over the levels | none; `IndexUp` is the index halved on the way up, `HashUp` the hash `verify` ends with, `NothingPromoted` says that no level has a node without a sibling |
| `ZKCompute`, `ResourceAllocator`, `ZKComputeStack` | manager, prover, distributor; allocator; their clients | one action per call, a client's place in its protocol |
| `PriceOracle`, `ComputeFutures` | oracle, market | one action per atomic store or load |
| `WalletPreservation`, `WalletRecovery`, `PreservationStack` | manager with its monitor, recovery and governance, all of them | one action per call |
| `ReceiverPaidGas` | the class | a caller's steps inside `calculate_compensation` (test under the oracle's lock, two readings), then `mark_compensated`; an updater's three stores |
| `VolatilityOracle` | the class | `assess` is five steps: clock, computation under the lock, age, two stores; `Visited` is the slot the second loop of `compute_twap` visits in a step, `ValidSteps` the steps that find a price |
| `ProofBook`, `VolatilityLog` | the class; oracle and book as `main.cpp` puts them together | `append` is two steps: the entry is in the vector before `last_hash_` names it |
| `AppendOnlyLog` | *abstract*: what the proof log promises | one entry at the end, in order of time, chained to the tail |
| `ArtifactRegistry` | builder and registry | one step per reading of the file, one per registration |
| `ClaimRegistry` | *abstract*: what a registry of unique artifacts promises | the first to claim a sample owns it |
| `MempoolGovernor` | governor and policy | one action per call; a client's recommendation and whether its simulation succeeded |
| `SumTheorems` | nothing of the code: what a sum over a finite set is, for the proofs | |
| `GasSettlementProofs` | theorems about vault, staking, intents and their composition | |
| `InferenceRewardsProofs`, `PreservationProofs`, `ArtifactProofs` | theorems about the module they are named after and those it is composed of | |
| `ReimbursementProofs` | theorems about `ReimbursementStack` and `ReceiverPaidGas` | |
| `ComputeProofs` | theorems about `Merkle`, `ZKComputeStack` and `ComputeFutures` | |
| `MarketProofs` | theorems about `MempoolGovernor` and `VolatilityLog` | |
| `MC*` | the small instances of the runs that need records or functions as constants, or are about two parts; the others are given in the `.cfg` | |

Conventions. A call that returns early without changing anything is no action,
except where a thread has to give something back first (`RefuseUnfunded`). A
definition named `Action_Something` is a *mutated form* of `Action`, kept next to
it: a plausible bug the properties must reject. Sums over tables and sequences are
`SumFunction` of the function of the parts, in the models and in the proofs.

### Abstractions

- **Identifiers.** Most are a prefix and the clock. They are modelled by the clock's
  tick, so that two calls in one tick get one identifier and the second
  overwrites what the first filed. One tick stands for the resolution of the
  identifier at hand, a nanosecond or a millisecond.
- **Two readings of one clock.** `stake_compute` reads the clock for the id and for
  `staked_at`; the model reads it once. The difference is below one tick of
  `MinStakeDuration`.
- **Arithmetic.** Counters are `uint64_t`. Only subtractions can wrap within the
  bounds of a run, they are `Minus` modulo `Word`; additions stay below `Word`, as
  they do in the program for any realistic supply. Prices and amounts of the
  market are scaled so that they are integers. Other floating-point figures are
  left out.
- **Moved-from strings** are empty, which is what libstdc++ and libc++ produce.
- **Locking a mutex twice** is undefined: the model admits both that the thread waits
  for ever and that it goes on.
- **Uninitialized fields** (`completed_at`, `decided_at`) hold any value.
- **Hashes** are terms: equal exactly if their inputs are.
- **Pools** have one balance, since total and available change together.
- **Averages and percentages.** Where a figure is a quotient of whole numbers
  (`VolatilityOracle`), the model keeps the pair; the governor's doubles between 0 and
  1 are whole percents, rounded down where the code adds exactly. Rounding of doubles
  is left out.
- **Timestamps of 1970** (`Epoch`) stand for a time point that was never set. Of a ring
  slot's timestamp the code asks only whether it is set, so `NoPoint` marks a slot that
  is not.
- **Hashes of the proof book** are tuples of what is hashed. The code concatenates the
  fields without separators; that the concatenation is injective is assumed.
- **Coverage** (`assess`) is whatever the caller passes, low or not: `main.cpp:74` passes
  the vault's reserves for the ratio.
- **Stubs.** `upload_to_pinata` and `upload_to_local_ipfs` answer one address for every
  content, retrieval answers a constant, the oracle's signature is a text. The models
  have the first, since identifiers are made of it; the others change nothing.
- **Plain fields without a lock** (`compensation_enabled_`, the prices read after the
  unlock) are read and written in single steps: a torn `double` is not modelled.

## 3. Runs

Passing runs. Every property is violated by the mutated form named beside it in
`PROJECT.json`, under the same configuration.

| Run | Question | Bounds, and why they are enough |
|---|---|---|
| `vault` | Do the counters of vault and staking agree in every interleaving? | two threads, two wallets, costs 1 and 2, two ticks. Two threads reach every pair of places, one more deposit than needed overtakes a debit, the cap of 1 + 1 payments is reached, both sources of gas pay and both are refused |
| `settlement` | Do racing relayers settle each intent once, for its sender; does the system implement the ledger; does every settlement end? | two relayers, two senders, two intents, a claim window of one tick: claims race with each other and with expiry, the vault can pay one and must refuse one |
| `pools` | Rewards: does the pool pay every entry at most once and never more than it has? Reimbursements: do statistics, amounts and reservations stay consistent when requests are replaced and processed again? | three ticks for rewards, two for reimbursements. A pool of 2 to 3 against entries of up to 2 each, a day of one tick: entries overwritten, refused for the pool, refused for the cap. One chosen name next to the clock's, three requests, a cost whose product exceeds the word, a pool of at most 4 |
| `compute` | Verified compute: are rewards and capacity accounted for although commitments collide? Futures: do torn readings stay within a feed; is a closed future closed? | two clients, a node of one core, two ticks, three verifications, trees of up to four leaves (the smallest full tree of height 2). Two traders and two feeders (each exchanged by symmetry), two prices, two feeds and two futures; a long, a short and a forward |
| `archives` | Wallets: does the monitor agree with itself, does the count of active records drift in the known ways only? Artifacts: is an attestation of one content; which entries can be lost; does a sample stay with its first owner? | two wallets, a balance on each side of the threshold, top-ups of 0 and 1, two ticks, five calls in any order: enough to archive twice under one name, freeze, restore and restore again. Two creators, one file that is rewritten and removed, three contents of which two share their first 4 KB, one service with constant addresses and one without, two ticks |
| `compensation` | How far can the daily cap and the single use of a receipt be exceeded by callers that overlap; when does a quote mix prices; is every call answered? | two callers, three receipts, one update whose two prices differ from the initial ones (a mix is no published pair), staleness and day of zero ticks, two ticks: quotes overtaken at either reading, caps reached and overrun by one |
| `market` | Volatility: is a report about one window of prices, does it know their age, when do the published results belong together; is the proof book a log that only grows? Mempool: is an executed action one that was acceptable when it was computed; do risk and confidence stay in their range? | two monitors (exchanged by symmetry) and a settler, a ring of two slots and three prices, so that the index wraps once, two ticks for staleness, two entries. Up to three pending transactions of each kind, pools of no depth, smaller than a transaction and larger, thresholds from 0 to the default, the default rule and a stricter one. One client: clients share only thresholds and rules, which may change at any time |

`pools`, `compute`, `archives` and `market` put two parts of the system into one run that
share no state but the clock. Their interleavings would show nothing, so the variable
`subject` of their `MC` modules, chosen at the start, says which of the two a behaviour is
about. Within a part everything interleaves as its own specification says.

Five runs must find a violation. Each checks one sentence of the repository against what the
code does; the finding in `PROJECT.json` quotes it.

| Run | The code does | The repository says |
|---|---|---|
| `reward_relock` | `create_reward_entry` locks `mutex_`, then calls a function that locks it again | the test expects an entry (`tests/test_reward_vault.cpp:34`) |
| `rate_limit` | `pay_gas` refuses a user whose count is *greater* than 1000, so that 1001 payments pass; one thread is enough | "max 1000 txs per user" (`include/gas_vault.hpp:54`) |
| `daily_cap` | `ReceiverPaidGas` tests the cap when it grants a compensation and uses it up when the receipt is marked, in a later call: two receipts of one wallet granted before either is marked exceed it together | "Max reward per wallet per day: 10 SOL" (`README.md:157`, `include/receiver_paid_gas.hpp:80`) |
| `receipt_reuse` | between the same two calls a second caller is granted the same receipt, and `mark_compensated` answers true for a marked one | "Each receipt can only be used once" (`README.md:161`) |
| `unfreeze` | `unfreeze_wallet` looks the wallet's address up among the names of records, finds none and returns false | `unfreeze_wallet(wallet_address)` is announced as "Unfreeze wallet operations" (`include/zero_balance_preservation.hpp:192`) |

What the code promises instead of the second, third and fourth sentence is a property of its
own: one payment more and no further (`TxCountWithinCap`), one receipt for each other caller
(`DailyOverrunBounded`), one payment per caller (`PaymentsBounded`). They say how far the
documented limit can be missed, not that it holds. A frozen wallet leaves that status only when
the next balance is recorded for it, which `UpdateWalletState` has and no property repeats.

Four more disagreements between words and code follow from a single definition, which
is in the models as the code has it; they have no run of their own:

- Any number of entries can be filed and paid for one receipt in `RewardVault`; `README.md:161`
  says that a receipt can only be used once.
- The daily cap of a worker is tested when an entry is filed, not when it is claimed;
  `README.md:157` speaks of the reward per wallet per day.
- `check_wallet_balance` subtracts from 0 and wraps, where `include/gas_reimbursement.hpp:214`
  announces never-zero enforcement.
- `open_forward` and the others return a field of a moved-from object, the empty string in
  practice, which `src/main.cpp:154` prints as the contract's identifier.

Deadlock is checked except in `pools` and `reward_relock`, where a caller that waits for its own
mutex stops, and in `archives` and `unfreeze`, where the bound on the calls stops everything.

### Fairness

- `VaultSpec`: weak fairness of each thread's steps inside `pay_gas`. The operating
  system schedules a running thread, and no step of `pay_gas` waits for anything but
  the mutex. Nobody is obliged to call, deposit, stake or let time pass. With
  `MutexReleased` this needs no fairness of the mutex.
- `SettlementSpec`: weak fairness of a relayer's work once it has claimed an intent.
  `EverySettlementEnds` also needs that a relayer waiting for the mutex is not
  overtaken for ever. `std::mutex` does not promise that; here it follows because
  only finitely many intents exist.
- `RewardSystemSpec`: weak fairness of the step by which `create_reward_entry` goes on.
  The violation in `reward_relock` is thus not one of scheduling.
- `CompensationSpec`: weak fairness of a caller's and of an updater's steps inside their
  calls, as in `VaultSpec`. Callers wait for the oracle's lock only, whose holders wait
  for nothing, and updaters make finitely many calls within the bound, so that weak
  fairness is enough for `EveryQuoteAnswered`; it says nothing of how long a caller
  waits for `mutex_` itself.
- The other specifications state safety only and have no fairness.

## 4. Proofs

TLAPS proves every safety invariant, action property and refinement that the passing runs
check, and some more, for all values of the constants that satisfy the named assumptions:

| Theorem | Statement |
|---|---|
| `VaultInvariant` | the vault's inductive invariant holds |
| `VaultTypeCorrect`, `VaultBooksBalance`, `VaultReservesCoverDebit`, `VaultTxCountWithinCap` | its parts |
| `VaultUnstakedIsFinal` | an unstaked entry never changes |
| `VaultCreditInvariant`, `VaultTotalsCoverActive`, `VaultCreditsBacked` | the totals cover the active stakes; credits left, spent and about to be counted were granted |
| `SettlementTypeCorrect`, `SettlementExclusiveClaim`, `SettlementNoncesInOrder`, `SettlementKeepsBooks`, `SettlementChargesBacked` | the invariants of the composition |
| `SettlementClaimsAreFinal` | claimed and expired intents stay so |
| `SettlementImplementsLedger` | every step of the threads is a step or a stutter of `SettlementLedger` |
| `RewardTypeCorrect`, `RewardPoolConserved`, `RewardPoolWithinCap` | types; the pool is conserved and stays within its cap |
| `RewardClaimedWerePaid`, `RewardReceiptsMatch` | claimed entries left the pool; the rewards paid are those of the claimed receipts |
| `StackInvariant`, `StackTypeCorrect`, `StackReimbursedCovers`, `StackAmountWithinGas`, `StackReservedIsHeld` | the inductive invariant of the reimbursement stack and its parts |
| `StackOverreserves` | a pool comes to owe more than it has only where it is initialized with less |
| `CompensationTypeCorrect`, `QuotesOfOnePublication`, `ReceiptsPaidByCallersOnce` | types; a quote not overtaken is of prices published together; a receipt is paid at most once per caller |
| `OverrunOfDailyCap` | overlapping callers exceed the daily cap by one receipt for each other caller at most |
| `ZKVerifiedWerePaid`, `ZKDistributedWithinPaid` | rewards shown and rewards distributed were counted as paid |
| `ZKCapacityAccounted` | free, committed and lost capacity is the node |
| `ZKFullTreesVerify` | in a tree of any size without promoted nodes, a leaf's proof verifies that leaf and no other |
| `FuturesTypeCorrect`, `OracleSettles`, `QuietFuturesConsistent`, `ClosedFuturesFinal` | types and the three properties of futures in `compute` |
| `PreservationInvariant` | the inductive invariant of the preservation services holds |
| `PreservationTypeCorrect`, `PreservationMonitorAgrees`, `PreservationStatsCover`, `PreservationStamps` | its parts |
| `PreservationDrift` | the count of active records drifts in the known ways only |
| `ReportsAreOfTheirWindow`, `ReportsKnowTheirAge`, `PublishedOfOneWindow` | a report is of the last prices fed, in order; the age of a report not overtaken is that of its newest price; a published pair is of one window unless assessments overlapped |
| `BookChainVerifies`, `BookImplementsLog` | the chain verifies in every state; the book is an append-only log |
| `AttestationsOfOneContent`, `EntriesLostOnlySo`, `RegistryImplementsClaims` | the three properties of artifacts in `archives` |
| `GovernorRisksBelowHalf`, `GovernorExecutesAcceptable` | the two properties of the governor in `market` |

Some of these state properties no run repeats (unstaked entries, nonces, final claims, statistics
that cover the records, stamps, the pool's cap): what is proved for all constants needs no small
instance beside it.

**Sums.** `SumFunction` of the community modules is a `CHOOSE` of a recursive function over the
subsets of a set, which says nothing to a prover before that function is shown to exist.
`SumTheorems` does so (`PartialSumExists`) for every finite set, and derives what the books need:
what a sum becomes when one element is added, dropped, replaced or changed (`TotalPut`,
`TotalDrop`, `SumChange`), when each part grows (`SumMonotone`), when parts are bounded
(`SumBounded`) or named differently (`SumRenamed`). The library's induction theorems take an
operator as a parameter and cannot be used; instead, a property of subsets is the *set* of the
subsets that have it, and `SubsetInduction` follows from the smallest subset outside it, whose
cardinality exists. In the same way, what a recursive function over `0..n` computes is proved by
the least index at which it would be wrong (`CountingUp` in `ComputeProofs`). A sum
needs a finite set, so "there are finitely many entries so far" is a conjunct of the invariants
below that have sums over tables.

**Vault.** None of the checked invariants is inductive. `BooksBalance` and
`ReservesCoverDebit` hold because only one thread is between the lock and the
answer, which the variables say indirectly; `LockInv` says it: a thread is at a
critical place exactly when it is the holder. The rate limit needs `RateInv`: a thread
past the test still works for a user below the limit. That an unstaked entry stays
needs `AgeInv`: it was filed `MinStakeDuration` ago, hence no call of the present
tick can be filed under its name. This is why `StakingAssumption` demands
`MinStakeDuration > 0`: with a duration of zero an entry unstaked and staked again
within one tick would come back. The proof goes action by action
(`StakeTypes`, then the steps of a thread, then the environment). `CreditInv` has the sums: an
overwritten stake lowers what the totals must cover, a charge moves an amount from an
allowance to the thread that will count it, and `LockInv` makes that thread the only one.

**Settlement.** `SettlementStepsVault` shows that every step of the system is, seen from
the vault, one of the vault's own steps, so `VaultInv` carries over. `JobInv` adds that a
relayer inside `pay_gas` works for the sender of the intent it holds. `ExclusiveClaim` and
`NoncesInOrder` follow from the life cycle of intents. `ChargesBackedByClaims` compares
two cardinalities, of relayers and of intents, and uses that both sets are finite
(`SettlementAssumption`). Refinement maps a relayer between claim and answer to a ticket
of the ledger; the charge happens at `Settle`, where the vault counts it.

**Rewards.** The pool is conserved because an entry to be claimed is never larger than the pool
(the code's test), so that the unsigned subtraction is exact; `RewardInv` adds the caps. The
composition needs that workers and receipts of the demo are known to the vault
(`RewardSystemAssumption`). `PaidInv` has the two sums: filing over an entry drops a claimed part
from one, a claim adds to both sides, and a replayed receipt is in the other already.

**Reimbursement.** `StackInv` is split by what a step touches, the manager (`ManagerInv`) or the
pools and what is held of them (`PoolInv`). `AmountWithinGas` is arithmetic on the
wrapped product, and holds because the rate is not above the full rate and the bonus is 0, as
in the `GasPoolConfig` the manager constructs by default (`ReimbursementAssumption`): with a
larger rate it would be false. `ReservedIsHeld` needs that a holder's amount is a part of
the sum, hence never more than what is reserved, so that `release_funds` subtracts exactly.

**Compensation.** `LockInv` identifies the holders of the two locks with the threads at the
places inside. `PairInv` says when the oracle's two prices belong together, `QuoteInv` what a
caller that no store overtook has read so far; from both, a quote is of one publication.
`PaymentsBounded` counts payments and the callers on their way to one; it needs `PaidInv`,
that a receipt without its mark was not paid, for the moment somebody passes the tests.
Callers are a finite set (`CompensationAssumption`). `DailyOverrunBounded` is inductive beside it:
who passes the test finds what was used today and its own fee within the cap, the other callers
in flight have one fee of at most `Max(Fees)` each (`SumBounded`), and a mark moves a fee from one
sum to the other. There is a caller, and fees have a largest one (`CapAssumption`: they are machine words).

**Verified compute.** `RewardBooks`: what clients may still distribute (`Owed`) and what they have
distributed was paid (`OwedWithinPaid`), which no checked property says and
`DistributedWithinPaid` needs; each client keeps to its own tasks, as in the stack test.
`CapacityBooks`: every allocation takes what its commitment says, and a replaced commitment
is moved to the history of lost ones. Reward wallets are finitely many (`ZKAssumption`). For the
trees, by counting up the levels: level `k` has `HashUp`'s hash of the first `k` siblings at
`IndexUp`'s place, so the proof verifies its leaf; hashes are terms, so two leaves with one
hash on the way up are equal. Both need that every level is even; the proof does not
ask for a number of leaves. `generate_merkle_root` appends the leaves again at every call, which is
why the statement is about every sequence.

**Futures.** `OracleInv`: one feeder is between its stores and what it has stored is its own.
`QuietInv`: a thread during whose call nothing was fed has read what the atomics still say.
A closed future is final by the guards of every action, over sequences of any length.

**Preservation.** Three strengthenings. `CountInv`: the table of records is finite and no
more archives were made than calls, so that the number of archived records stays below
`Word` and the wrapping difference behind `DriftOnlyByReuse` is exact (`DriftKept`).
`RequestAgeInv`: no request is of the future, without which a request stamped now could
precede its own beginning. `NamesAssumption`: no address reads like a record's name;
otherwise the status `unfreeze_wallet` files under a record's name would be that of a
wallet. What a call does to the records is first reduced to "this record gets that status"
(`RecordFiled`, `RecordMarked`), from which the counts follow (`StatsKept`).

**Volatility oracle.** `RingInv`: with `k` prices fed, the index is `k` modulo the size, and the slot
of each of the last prices has that price. Hence the walk of `compute_twap`
meets the window in order, its first and last valid steps are the window's ends
(`ReportsSpanWindow`), and the sums over the slots are sums over the window by a renaming of the
places (`SumRenamed`). That the same slot is met once in a round is a fact about remainders
(`DivisionUnique`). `SpanInv` keeps it for a report while more prices are fed, since the window
of a moment does not change; `PublishInv` says whose results the two atomics hold while an
assessment is between its stores. For the age of a report, `FeedInv` ties the last update to
the newest price, and `ReportInv` keeps what an assessment not overtaken has read.

**Proof book.** `EntriesChained` with `TailInv`: the last hash is that of the last entry, or
of the last but one while somebody is inside `append`. From it the chain verifies, and every
step is a step or a stutter of `AppendOnlyLog`, the order of timestamps included.

**Artifacts.** `DraftInv` says what a creator knows at each place of a file nobody rewrote.
`EntriesInv`: the entry found under an identifier has that identifier, which names address and
wallet; so an entry can be replaced only by one of the same wallet and address, which is
`RegistryImplementsClaims`, and with computed addresses of the same content (`EntriesLostOnlySo`).

**Governor.** A transaction's risk is at most 50 percent; a sum of `n` of them is at most `50 * n`
(`SumBounded`) and the average at most 50. `GovernorInv` says of every recommendation that
it is sound under the threshold it was made with (`Sound`), and that only what can be executed
was simulated with success.

Assumptions on constants are named and next to their declarations
(`WordAssumption`, `StakingAssumption`, `VaultAssumption`, `IntentAssumption`, ...). They
say that quantities are natural numbers, that placeholders are no threads or
wallets, and the conditions mentioned above; the runs evaluate all of them.

**Only model-checked.**

- Liveness (`MutexReleased`, `EverySettlementEnds`, `EveryQuoteAnswered`) and the fairness it
  rests on, which is about `ENABLED`.
- The runs that must find a violation.

## 5. What is not modelled

- `GasEstimator`, `TokenAppraisal`, `MarketCapCalculator` and the attestation builder of
  `src/merkle_provenance.cpp`: arithmetic on one call's arguments, nothing kept.
- `ZKGasReimbursement`: it owns a manager nobody gives tasks to, so that every verification of
  its finds none.
- `MempoolRouter` and `MempoolGovernorAPI`: they format texts. Observation proofs, the rules
  and the confidence threshold of the governor itself are stored and never read.
- `ComputeBenchmark`, `Crypto`, the demo's printing.
- The bonus of a reimbursement, gas figures, running averages, utilization ratios, the amount of
  a compensation, the confidence of a volatility report, the history of compute prices and the
  statistics of the IPFS verifier (which no constructor initializes): numbers that are stored or
  shown and decide nothing.
- `set_policy` and exempt wallets of a monitor used by itself: the manager's own monitor
  cannot be reached by them.
- Data races on what getters return by pointer (`get_future`, `get_receipt`): no thread of the
  repository keeps such a pointer.
- Expiry of futures and of a settlement's confirmation by a chain: the code has neither.
- Crashes: nothing is persisted, a restart is the initial state.

## 6. Where to go on

The order of work was: vault and settlement; rewards; reimbursement; verified compute; futures;
preservation; compensation; oracle and proof book; artifacts; the governor; then the proofs about
each. What would add most next:

1. An abstract specification of the allocator (capacity split among its holders) and of a
   reward pool (pay once, conserve), with refinement theorems.
2. The type invariants of the components that have no theorem of their own about them
   (`ZKTypeOK`, the shape of a tree's leaves), and lemmas for the remaining operators.
3. Proofs in Merkle trees with promoted nodes, once the code says where a node stands in its level.
