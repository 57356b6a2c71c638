---------------------------- MODULE IntentNetwork ----------------------------
(***************************************************************************)
(* class IntentNetwork (include/intent_network.hpp): gasless payment        *)
(* intents with a claim window.  Every operation is one critical section   *)
(* of the network's mutex_, hence one action.                              *)
(* Abstracted: receiver, token, amount and signature (stored, never read), *)
(* created_at and claimed_at (written, never read).                        *)
(***************************************************************************)
EXTENDS Clock, Sequences

CONSTANTS Senders,
          ClaimWindow,   \* CLAIM_WINDOW_SECONDS, in ticks
          Txs,           \* transaction signatures of confirm_settlement
          NoTx,          \* the empty settlement_tx
          MaxIntents     \* bound on the intents ever created

ASSUME IntentAssumption == /\ ClaimWindow \in Nat
                           /\ NoTx \notin Txs
                           /\ MaxIntents \in Nat

VARIABLES intents,      \* intents_; identifiers are dealt from a counter, so a sequence
          user_nonces

intentVars == <<intents, user_nonces>>

IntentStatus == {"PENDING", "CLAIMED", "EXPIRED"}    \* CANCELLED is never assigned

PaymentIntent == [sender : Senders, nonce : Nat, expires_at : Nat,
                  status : IntentStatus, settlement_tx : Txs \cup {NoTx}]

IntentTypeOK == /\ intents \in Seq(PaymentIntent)
                /\ user_nonces \in [Senders -> Nat]

IntentInit == /\ intents = << >>
              /\ user_nonces = [s \in Senders |-> 0]

With(status) == {i \in DOMAIN intents : intents[i].status = status}

IsExpired(i) == now >= intents[i].expires_at

-----------------------------------------------------------------------------

CreateIntent(sender) ==
    /\ Len(intents) < MaxIntents
    /\ intents' = Append(intents, [sender |-> sender,
                                   nonce |-> user_nonces[sender],
                                   expires_at |-> now + ClaimWindow,
                                   status |-> "PENDING",
                                   settlement_tx |-> NoTx])
    /\ user_nonces' = [user_nonces EXCEPT ![sender] = @ + 1]

\* Mutated form: only the claim window is checked.
IsClaimable_AnyStatus(i) == ~IsExpired(i)

IsClaimable(i) == intents[i].status = "PENDING" /\ ~IsExpired(i)

\* claim_intent returning an intent; anyone may claim.
ClaimIntent(i) ==
    /\ i \in DOMAIN intents
    /\ IsClaimable(i)
    /\ intents' = [intents EXCEPT ![i].status = "CLAIMED"]
    /\ UNCHANGED user_nonces

\* confirm_settlement returning true: by anyone, as often as they like; a
\* second confirmation replaces the first.
ConfirmSettlement(i, tx) ==
    /\ i \in DOMAIN intents
    /\ intents[i].status = "CLAIMED"
    /\ intents' = [intents EXCEPT ![i].settlement_tx = tx]
    /\ UNCHANGED user_nonces

Overdue == {i \in With("PENDING") : IsExpired(i)}

\* expire_intents: one sweep under the mutex.
ExpireIntents ==
    /\ intents' = [i \in DOMAIN intents |->
                     IF i \in Overdue THEN [intents[i] EXCEPT !.status = "EXPIRED"]
                                      ELSE intents[i]]
    /\ UNCHANGED user_nonces

\* What senders, settlement services and the sweeper do on their own.
IntentNext == \/ \E sender \in Senders : CreateIntent(sender)
              \/ \E i \in DOMAIN intents, tx \in Txs : ConfirmSettlement(i, tx)
              \/ ExpireIntents

-----------------------------------------------------------------------------
\* The claim window closes for good: CLAIMED and EXPIRED are final, an intent
\* keeps its sender, nonce and deadline, and only a claimed intent ever gets a
\* settlement transaction.
IntentLifecycle ==
    \A i \in DOMAIN intents :
        /\ i \in DOMAIN intents'
        /\ intents[i].status # "PENDING" => intents'[i].status = intents[i].status
        /\ intents'[i].settlement_tx # NoTx => intents'[i].status = "CLAIMED"
        /\ \A field \in {"sender", "nonce", "expires_at"} :
             intents'[i][field] = intents[i][field]
=============================================================================
