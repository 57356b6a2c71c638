-------------------------- MODULE SettlementLedger --------------------------
(***************************************************************************)
(* What the gasless settlement of intents promises, without threads,       *)
(* locks, stakes or reserves: an intent is claimed at most once, a claim   *)
(* leads to at most one charge, and the charge goes to the account of the  *)
(* intent's sender.                                                        *)
(***************************************************************************)
EXTENDS Naturals, Sequences

CONSTANTS Senders, Costs

VARIABLES owner,     \* the sender of each intent ever created
          open,      \* intents that can still be claimed or expire
          tickets,   \* claims whose charge is not decided
          charges,   \* charges accepted, per sender
          paid       \* gas charged so far

ledger == <<owner, open, tickets, charges, paid>>

LedgerInit == /\ owner = << >>
              /\ open = {}
              /\ tickets = {}
              /\ charges = [s \in Senders |-> 0]
              /\ paid = 0

Create(s) == /\ owner' = Append(owner, s)
             /\ open' = open \cup {Len(owner) + 1}
             /\ UNCHANGED <<tickets, charges, paid>>

Expire == /\ open' \subseteq open
          /\ UNCHANGED <<owner, tickets, charges, paid>>

Claim(i) == /\ i \in open
            /\ open' = open \ {i}
            /\ tickets' = tickets \cup {i}
            /\ UNCHANGED <<owner, charges, paid>>

Charge(i, cost) == /\ i \in tickets
                   /\ tickets' = tickets \ {i}
                   /\ charges' = [charges EXCEPT ![owner[i]] = @ + 1]
                   /\ paid' = paid + cost
                   /\ UNCHANGED <<owner, open>>

Refuse(i) == /\ i \in tickets
             /\ tickets' = tickets \ {i}
             /\ UNCHANGED <<owner, open, charges, paid>>

LedgerNext == \/ \E s \in Senders : Create(s)
              \/ Expire
              \/ \E i \in open : Claim(i)
              \/ \E i \in tickets : Refuse(i) \/ \E cost \in Costs : Charge(i, cost)

LedgerSpec == LedgerInit /\ [][LedgerNext]_ledger
=============================================================================
