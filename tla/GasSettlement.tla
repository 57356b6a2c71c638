---------------------------- MODULE GasSettlement ----------------------------
(***************************************************************************)
(* The settlement of an intent, step 4 of main (src/main.cpp), with every  *)
(* relayer a thread: claim the intent in the IntentNetwork, then call      *)
(* pay_gas on the GasVault in the name of the intent's sender.  The two    *)
(* calls share no lock, and the answer of pay_gas is not acted upon.       *)
(***************************************************************************)
EXTENDS GasVault, IntentNetwork, FiniteSets

ASSUME SettlementAssumption == /\ Senders \subseteq Wallets
                               /\ IsFiniteSet(Threads)

NoIntent == 0

VARIABLE job     \* the intent a relayer claimed and is settling

settlementVars == <<vaultSystemVars, intentVars, job>>

SettlementTypeOK == /\ VaultTypeOK
                    /\ IntentTypeOK
                    /\ job \in [Threads -> DOMAIN intents \cup {NoIntent}]

SettlementInit == /\ StakingInit /\ ClockInit /\ VaultInit /\ IntentInit
                  /\ job = [r \in Threads |-> NoIntent]

-----------------------------------------------------------------------------
\* claim_intent answered with an intent.
RelayerClaim(r, i) ==
    /\ job[r] = NoIntent
    /\ ClaimIntent(i)
    /\ job' = [job EXCEPT ![r] = i]
    /\ UNCHANGED vaultSystemVars

\* Mutated form: the claim is given back to be tried again once the call of
\* pay_gas is under way.
RelayerPay_Requeued(r, g) ==
    /\ job[r] # NoIntent
    /\ PayGas(r, intents[job[r]].sender, g)
    /\ intents' = [intents EXCEPT ![job[r]].status = "PENDING"]
    /\ UNCHANGED <<stakingVars, now, user_nonces, job>>

\* pay_gas(sender, gas_cost)
RelayerPay(r, g) ==
    /\ job[r] # NoIntent
    /\ PayGas(r, intents[job[r]].sender, g)
    /\ UNCHANGED <<stakingVars, now, intentVars, job>>

\* Mutated form: a refused payment is retried with the same claim, a paid one
\* as well.
RelayerDone_Retry(r) ==
    /\ Return(r)
    /\ UNCHANGED <<stakingVars, now, intentVars, job>>

\* Paid or refused, the relayer turns to other work; the intent stays CLAIMED.
RelayerDone(r) ==
    /\ Return(r)
    /\ job' = [job EXCEPT ![r] = NoIntent]
    /\ UNCHANGED <<stakingVars, now, intentVars>>

\* A relayer busy with an intent goes on by itself.
RelayerWork(r) == \/ \E g \in GasCosts : RelayerPay(r, g)
                  \/ PayGasStep(r) /\ UNCHANGED <<intentVars, job>>
                  \/ RelayerDone(r)

SettlementNext ==
    \/ \E r \in Threads, i \in DOMAIN intents : RelayerClaim(r, i)
    \/ \E r \in Threads : RelayerWork(r)
    \/ IntentNext /\ UNCHANGED <<vaultSystemVars, job>>
    \/ VaultEnvironment /\ UNCHANGED <<intentVars, job>>

SettlementFairness == \A r \in Threads : WF_settlementVars(RelayerWork(r))

SettlementSpec ==
    SettlementInit /\ [][SettlementNext]_settlementVars /\ SettlementFairness

-----------------------------------------------------------------------------
\* The claims a relayer holds whose charge is not decided yet.
Undecided == {r \in Threads : job[r] # NoIntent /\ pc[r] \notin {"paid", "refused"}}

\* However relayers race for the intents, claim_intent gives each to one of
\* them, and a claimed intent never expires under a relayer at work.
ExclusiveClaim ==
    \A r \in Threads : job[r] # NoIntent =>
        /\ intents[job[r]].status = "CLAIMED"
        /\ \A s \in Threads \ {r} : job[s] # job[r]

ClaimedOf(u)   == {i \in With("CLAIMED") : intents[i].sender = u}
UndecidedOf(u) == {r \in Undecided : intents[job[r]].sender = u}

\* Nobody is charged for gas without having an intent of theirs claimed: the
\* payments counted for a user and those still undecided are at most the
\* user's claimed intents.
ChargesBackedByClaims ==
    \A u \in Wallets :
        user_tx_counts[u] + Cardinality(UndecidedOf(u)) <= Cardinality(ClaimedOf(u))

\* Nonces of a sender are dealt without gap or repetition in the order of the
\* intents, although user_nonces_ and intent_counter_ are separate counters.
NoncesInOrder ==
    /\ \A i, j \in DOMAIN intents :
         i < j /\ intents[i].sender = intents[j].sender => intents[i].nonce < intents[j].nonce
    /\ \A i \in DOMAIN intents : intents[i].nonce < user_nonces[intents[i].sender]

\* Claims and expirations are final, through races of relayers, sweeper and
\* clock.
ClaimsAreFinal == [][IntentLifecycle]_settlementVars

\* A claimed intent does not stay with its relayer for ever: pay_gas answers.
\* Only finitely many intents exist, so a relayer waiting for mutex_ is not
\* overtaken for ever; std::mutex alone would not promise it.
EverySettlementEnds == \A r \in Threads : job[r] # NoIntent ~> job[r] = NoIntent

\* The system keeps the abstract ledger of settlements.
Ledger == INSTANCE SettlementLedger WITH
    Costs   <- GasCosts,
    owner   <- [i \in DOMAIN intents |-> intents[i].sender],
    open    <- With("PENDING"),
    tickets <- {job[r] : r \in Undecided},
    charges <- [s \in Senders |-> user_tx_counts[s]],
    paid    <- total_gas_paid

\* Threads, locks and the two sources of gas implement the abstract ledger.
ImplementsLedger == Ledger!LedgerSpec
=============================================================================
