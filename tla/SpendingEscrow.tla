---- MODULE SpendingEscrow ----
\* What operation exposure promises, with the machinery left out: no
\* proposals, ACKs, revisions, evidence, principals, times, processes or
\* crashes.  An escrow with one ceiling holds the most that an effect may
\* debit, in one atomic step, before its one transaction can be signed.
\* It gives back what is left when the transaction has landed, and all of
\* it only if the transaction will never be.
EXTENDS Liabilities

CONSTANTS
    Effect,     \* effects, each with its purpose, subject and most debit
    Ceiling,    \* the ceilings an escrow may be opened with
    Debit       \* the debits each effect's transaction may turn out to make

VARIABLES
    ceiling,    \* {} until the escrow is opened
    charge,     \* what the escrow holds for each effect, and why
    tx          \* each effect's transaction and what it debited

escrowVars == <<ceiling, charge, tx>>

NoCharge == [stage |-> "none", amount |-> NoDebit]

Landed == {"confirmed", "failed"}

Taken(charges) == AddNativeLiabilities([e \in Effect |-> charges[e].amount])

EscrowInit ==
    /\ ceiling = {}
    /\ charge = [e \in Effect |-> NoCharge]
    /\ tx = [e \in Effect |-> [state |-> "unsigned", debit |-> NoDebit]]

Open(c) ==
    /\ ceiling = {}
    /\ ceiling' = {c}
    /\ UNCHANGED <<charge, tx>>

\* The create comes first, and the others when it is known to have been confirmed.
InTurn(e) ==
    \/ e.purpose = "CREATE" /\ \A f \in Effect : charge[f] = NoCharge
    \/ /\ e.purpose # "CREATE"
       /\ \E c \in Effect : /\ c.purpose = "CREATE" /\ c.subject = e.subject
                            /\ charge[c].stage = "confirmed"

Reserve(e) ==
    /\ charge[e] = NoCharge /\ tx[e].state = "unsigned"
    /\ InTurn(e)
    /\ charge' = [charge EXCEPT ![e] = [stage |-> "held", amount |-> e.maximum]]
    /\ \E c \in ceiling : Covers(c, Taken(charge'))
    /\ UNCHANGED <<ceiling, tx>>

Sign(e) ==
    /\ charge[e].stage = "held" /\ tx[e].state = "unsigned"
    /\ tx' = [tx EXCEPT ![e].state = "signed"]
    /\ UNCHANGED <<ceiling, charge>>

Send(e) ==
    /\ charge[e].stage = "held" /\ tx[e].state = "signed"
    /\ tx' = [tx EXCEPT ![e].state = "sent"]
    /\ UNCHANGED <<ceiling, charge>>

Land(e, outcome, v) ==
    /\ tx[e].state = "sent"
    /\ tx' = [tx EXCEPT ![e] = [state |-> outcome, debit |-> v]]
    /\ UNCHANGED <<ceiling, charge>>

\* Only what was debited stays charged, under the outcome the transaction had.
Settle(e) ==
    /\ charge[e].stage = "held" /\ tx[e].state \in Landed
    /\ charge' = [charge EXCEPT ![e] = [stage |-> tx[e].state, amount |-> tx[e].debit]]
    /\ UNCHANGED <<ceiling, tx>>

\* An effect whose reservation is given back is never signed or reserved again.
Void(e) ==
    /\ charge[e].stage = "held" /\ tx[e].state = "unsigned"
    /\ charge' = [charge EXCEPT ![e] = [stage |-> "void", amount |-> NoDebit]]
    /\ UNCHANGED <<ceiling, tx>>

EscrowNext ==
    \/ \E c \in Ceiling : Open(c)
    \/ \E e \in Effect : \/ Reserve(e) \/ Sign(e) \/ Send(e) \/ Settle(e) \/ Void(e)
                         \/ \E outcome \in Landed, v \in Debit[e] : Land(e, outcome, v)

EscrowSpec == EscrowInit /\ [][EscrowNext]_escrowVars

====
