---- MODULE ContainmentLedger ----
\* What creation admission promises, with the machinery left out: no
\* snapshots, revisions, permits, receipts, workers or crashes.  A ledger
\* admits an operation in one atomic step and only if every scope it falls
\* under has room for it in all three populations, lets its create be sent
\* at most once and only while it is held, and frees capacity in one
\* direction only.
EXTENDS Naturals, FiniteSets

CONSTANTS
    Op,         \* operations
    Budgeted,   \* scopes that have a budget
    ScopesOf,   \* the scopes each leaf falls under
    Request,    \* requests: an operation, its leaf and its maximum exposure
    NoRequest

VARIABLES
    quota,      \* per scope, the limits and what is in use outside the ledger
    held,       \* per operation, its request and how much of it is held
    sent        \* the operations whose create was sent

ledgerVars == <<quota, held, sent>>

\* How much an operation holds, from nothing asked yet to nothing any more.
Holding == {"nothing", "claim", "attempt", "deployment", "funds", "released"}

Open == {"claim", "attempt"}
Active == Open \cup {"deployment"}
Funded == Active \cup {"funds"}

Under(s) == {o \in Op : held[o].holding # "nothing" /\ s \in ScopesOf[held[o].request.scope]}

Slots(s, holdings) == Cardinality({o \in Under(s) : held[o].holding \in holdings})

Funds(s) ==
    Cardinality(UNION {{o} \X (1 .. held[o].request.amount) :
                          o \in {q \in Under(s) : held[q].holding \in Funded}})

HasRoom(s, r) ==
    /\ quota[s].outside.active + Slots(s, Active) + 1 <= quota[s].limit.active
    /\ quota[s].outside.unresolved + Slots(s, Open) + 1 <= quota[s].limit.unresolved
    /\ quota[s].outside.exposure + Funds(s) + r.amount <= quota[s].limit.exposure

LedgerInit ==
    /\ held = [o \in Op |-> [request |-> NoRequest, holding |-> "nothing"]]
    /\ sent = {}

Admit(r) ==
    /\ held[r.op].holding = "nothing"
    /\ ScopesOf[r.scope] \subseteq Budgeted
    /\ \A s \in ScopesOf[r.scope] : HasRoom(s, r)
    /\ held' = [held EXCEPT ![r.op] = [request |-> r, holding |-> "claim"]]
    /\ UNCHANGED <<quota, sent>>

\* The claim becomes the one attempt to create; an attempt turns into a
\* deployment or is proven void; a deployment leaves its funds; funds settle.
Advance(o, from, to) ==
    /\ held[o].holding = from
    /\ held' = [held EXCEPT ![o].holding = to]
    /\ UNCHANGED <<quota, sent>>

Send(o) ==
    /\ held[o].holding = "attempt"
    /\ o \notin sent
    /\ sent' = sent \cup {o}
    /\ UNCHANGED <<quota, held>>

Rebudget(s) ==
    /\ \A q \in Budgeted \ {s} : quota'[q] = quota[q]
    /\ UNCHANGED <<held, sent>>

LedgerNext ==
    \/ \E r \in Request : Admit(r)
    \/ \E o \in Op : \/ Advance(o, "claim", "attempt")
                     \/ Advance(o, "attempt", "deployment")
                     \/ Advance(o, "attempt", "released")
                     \/ Advance(o, "deployment", "funds")
                     \/ Advance(o, "funds", "released")
                     \/ Send(o)
    \/ \E s \in Budgeted : Rebudget(s)

LedgerSpec == LedgerInit /\ [][LedgerNext]_ledgerVars

====
