---- MODULE OrderSweep ----
\* The leaked-order sweep.  A sweeper pages through the owner's
\* deployments, reads and classifies each, selects a capped batch of
\* candidates, and reads each candidate once more just before it closes
\* it.  Meanwhile orders are opened, leased and closed by others, and the
\* instruments may be unreadable or, in the case of the Console list,
\* wrong.  Readings and closes are separate steps.
\*
\* An optional value is a set: {} where the code has None.  Time counts in
\* units of which a bid window has BidWindow.
EXTENDS Naturals, Sequences, FiniteSets

CONSTANTS
    Dseq,           \* deployments
    Protected,      \* the deployments on the protected list
    Excluded,       \* those whose name or owner the policy excludes
    BidWindow,      \* how long after its opening an order can be leased
    BatchLimit,     \* the most closes of one sweep
    PageLimit,      \* the page size of the listing
    MaxListed,      \* bound on the deployments that are ever listed
    MaxTime,        \* bound on the clock
    MaxCrashes      \* bound on crashes of the sweeper

ASSUME SweepAssumption ==
    /\ IsFiniteSet(Dseq)
    /\ Protected \cup Excluded \subseteq Dseq
    /\ {BidWindow, BatchLimit, PageLimit} \subseteq Nat \ {0}
    /\ MaxListed \in Nat /\ MaxTime \in Nat /\ MaxCrashes \in Nat

VARIABLES
    listing,    \* the owner's deployments in the order the chain lists them
    fate,       \* what became of each deployment
    opened,     \* when each was opened
    swept,      \* what the sweeper closed, and what it was when it did
    sweep,      \* the sweeper's progress
    steady,     \* whether the chain answers every question from now on
    clock,
    crashes

vars == <<listing, fate, opened, swept, sweep, steady, clock, crashes>>

LeaseEvidence == {"CHAIN", "DEPLOYMENT_DETAIL", "CONSOLE_LIST"}

MayAuthoriseClose(evidence) == evidence \in {"CHAIN", "DEPLOYMENT_DETAIL"}

OrderStatus ==
    {"CLOSEABLE", "HAS_LEASE", "TOO_YOUNG", "PROTECTED", "EXCLUDED", "NOT_ACTIVE",
     "NOT_OPEN_ORDER", "UNDETERMINED"}

MinAge == BidWindow * 2

----
\* evaluate_order: the first check that fails decides.

\* Mutant: the age floor is left out.
EvaluateWithoutAge(obs) ==
    IF obs.dseq \in Protected THEN "PROTECTED"
    ELSE IF obs.dseq \in Excluded THEN "EXCLUDED"
    ELSE IF ~MayAuthoriseClose(obs.evidence) THEN "UNDETERMINED"
    ELSE IF obs.state # {"active"} THEN "NOT_ACTIVE"
    ELSE IF obs.leases = {} THEN "UNDETERMINED"
    ELSE IF obs.leases # {0} THEN "HAS_LEASE"
    ELSE IF obs.groups # {} /\ obs.groups # {{"open"}} THEN "NOT_OPEN_ORDER"
    ELSE "CLOSEABLE"

EvaluateOrder(obs) ==
    IF obs.dseq \in Protected THEN "PROTECTED"
    ELSE IF obs.dseq \in Excluded THEN "EXCLUDED"
    ELSE IF ~MayAuthoriseClose(obs.evidence) THEN "UNDETERMINED"
    ELSE IF obs.state = {} THEN "UNDETERMINED"
    ELSE IF obs.state # {"active"} THEN "NOT_ACTIVE"
    ELSE IF obs.leases = {} THEN "UNDETERMINED"
    ELSE IF obs.leases # {0} THEN "HAS_LEASE"
    ELSE IF \E g \in obs.groups : "active" \in g \/ "unknown" \in g THEN "UNDETERMINED"
    ELSE IF obs.groups # {} /\ obs.groups # {{"open"}} THEN "NOT_OPEN_ORDER"
    ELSE IF obs.age = {} THEN "UNDETERMINED"
    ELSE IF \E a \in obs.age : a < MinAge THEN "TOO_YOUNG"
    ELSE "CLOSEABLE"

Closeable(decision) == decision.status = "CLOSEABLE"

\* Mutant: the cap comes before the choice.
SelectFromFirst(decisions) ==
    SelectSeq(SubSeq(decisions, 1, IF Len(decisions) < BatchLimit THEN Len(decisions)
                                                                  ELSE BatchLimit), Closeable)

SelectBatch(decisions) ==
    LET all == SelectSeq(decisions, Closeable) IN
    SubSeq(all, 1, IF Len(all) < BatchLimit THEN Len(all) ELSE BatchLimit)

ConfirmClose(fresh) == EvaluateOrder(fresh)

\* Mutant: the scan stops when it has seen as many as the reported total, which
\* echoes the limit.
PageReachesTotal(page) == Len(page) >= PageLimit

PageIsLast(page) == Len(page) < PageLimit

----
\* What the instruments show.
Fate == {"absent", "open", "leased", "ended", "closed"}

Age(d) == clock - opened[d]

DeploymentState(d) == IF fate[d] = "closed" THEN "closed" ELSE "active"

GroupStates(d) ==
    IF fate[d] = "open" THEN {"open"}
    ELSE IF fate[d] = "leased" THEN {"open", "active"}
    ELSE {"closed"}

\* Each field is read as it is or not at all; the Console list's lease count may
\* be anything, and a group state may be one the code does not know.
Readings(d) ==
    {obs \in [dseq: {d}, evidence: LeaseEvidence, state: {{}, {DeploymentState(d)}},
              leases: {{}, {0}, {1}}, groups: {{}, {GroupStates(d)}, {{"unknown"}}},
              age: {{}, {Age(d)}}] :
        /\ fate[d] # "absent"
        /\ obs.evidence # "CONSOLE_LIST" =>
              obs.leases \in {{}, {IF fate[d] = "leased" THEN 1 ELSE 0}}}

\* A reading of the chain that shows everything.
Readable(obs) ==
    /\ obs.evidence = "CHAIN"
    /\ {} \notin {obs.state, obs.leases, obs.groups, obs.age}
    /\ obs.groups # {{"unknown"}}

----
\* The sweeper.
NoSweep ==
    [phase |-> "idle", listed |-> 0, skip |-> 0, last |-> FALSE, todo |-> <<>>,
     decisions |-> <<>>, batch |-> <<>>, granted |-> FALSE]

Scanning(listed, skip, last, todo, decisions) ==
    [phase |-> "scan", listed |-> listed, skip |-> skip, last |-> last, todo |-> todo,
     decisions |-> decisions, batch |-> <<>>, granted |-> FALSE]

Closing(batch, granted) ==
    [phase |-> "close", listed |-> sweep.listed, skip |-> sweep.skip, last |-> sweep.last,
     todo |-> <<>>, decisions |-> sweep.decisions, batch |-> batch, granted |-> granted]

Init ==
    /\ listing = <<>>
    /\ fate = [d \in Dseq |-> "absent"]
    /\ opened = [d \in Dseq |-> 0]
    /\ swept = {}
    /\ sweep = NoSweep
    /\ steady = FALSE
    /\ clock = 0
    /\ crashes = 0

StartScan ==
    /\ sweep.phase = "idle"
    /\ sweep' = Scanning(Len(listing), 0, FALSE, <<>>, <<>>)
    /\ UNCHANGED <<listing, fate, opened, swept, steady, clock, crashes>>

FetchPage ==
    /\ sweep.phase = "scan"
    /\ sweep.todo = <<>>
    /\ ~sweep.last
    /\ LET until == IF Len(listing) < sweep.skip + PageLimit THEN Len(listing)
                                                            ELSE sweep.skip + PageLimit
           page == SubSeq(listing, sweep.skip + 1, until) IN
       sweep' = Scanning(sweep.listed, until, PageIsLast(page), page, sweep.decisions)
    /\ UNCHANGED <<listing, fate, opened, swept, steady, clock, crashes>>

Inspect(obs) ==
    /\ sweep.todo # <<>>
    /\ obs.dseq = Head(sweep.todo)
    /\ steady => Readable(obs)
    /\ LET decision == [dseq |-> obs.dseq, status |-> EvaluateOrder(obs)] IN
       sweep' = Scanning(sweep.listed, sweep.skip, sweep.last, Tail(sweep.todo),
                         Append(sweep.decisions, decision))
    /\ UNCHANGED <<listing, fate, opened, swept, steady, clock, crashes>>

Select ==
    /\ sweep.phase = "scan"
    /\ sweep.todo = <<>>
    /\ sweep.last
    /\ sweep' = Closing(SelectBatch(sweep.decisions), FALSE)
    /\ UNCHANGED <<listing, fate, opened, swept, steady, clock, crashes>>

\* The second reading lets the close go ahead or drops the candidate.
Confirm(fresh) ==
    /\ sweep.batch # <<>>
    /\ ~sweep.granted
    /\ fresh.dseq = Head(sweep.batch).dseq
    /\ steady => Readable(fresh)
    /\ sweep' = IF ConfirmClose(fresh) = "CLOSEABLE"
                THEN Closing(sweep.batch, TRUE)
                ELSE Closing(Tail(sweep.batch), FALSE)
    /\ UNCHANGED <<listing, fate, opened, swept, steady, clock, crashes>>

\* The close reaches the chain some time later.
Close ==
    /\ sweep.granted
    /\ LET d == Head(sweep.batch).dseq IN
       /\ swept' = swept \cup {[dseq |-> d, was |-> fate[d]]}
       /\ fate' = [fate EXCEPT ![d] = "closed"]
    /\ sweep' = Closing(Tail(sweep.batch), FALSE)
    /\ UNCHANGED <<listing, opened, steady, clock, crashes>>

Finish ==
    /\ sweep.phase = "close"
    /\ sweep.batch = <<>>
    /\ sweep' = NoSweep
    /\ UNCHANGED <<listing, fate, opened, swept, steady, clock, crashes>>

Crash ==
    /\ sweep # NoSweep
    /\ crashes < MaxCrashes
    /\ crashes' = crashes + 1
    /\ sweep' = NoSweep
    /\ UNCHANGED <<listing, fate, opened, swept, steady, clock>>

----
\* Tenants, providers and time.

\* The bounded clock must still reach the age floor.
OpenOrder(d) ==
    /\ fate[d] = "absent"
    /\ Len(listing) < MaxListed
    /\ clock + MinAge <= MaxTime
    /\ listing' = Append(listing, d)
    /\ fate' = [fate EXCEPT ![d] = "open"]
    /\ opened' = [opened EXCEPT ![d] = clock]
    /\ UNCHANGED <<swept, sweep, steady, clock, crashes>>

\* Bids arrive, and can be accepted, within the bid window only.
TakeLease(d) ==
    /\ fate[d] = "open"
    /\ Age(d) <= BidWindow
    /\ fate' = [fate EXCEPT ![d] = "leased"]
    /\ UNCHANGED <<listing, opened, swept, sweep, steady, clock, crashes>>

EndLease(d) ==
    /\ fate[d] = "leased"
    /\ fate' = [fate EXCEPT ![d] = "ended"]
    /\ UNCHANGED <<listing, opened, swept, sweep, steady, clock, crashes>>

TenantCloses(d) ==
    /\ fate[d] \in {"open", "leased", "ended"}
    /\ fate' = [fate EXCEPT ![d] = "closed"]
    /\ UNCHANGED <<listing, opened, swept, sweep, steady, clock, crashes>>

Tick ==
    /\ clock < MaxTime
    /\ clock' = clock + 1
    /\ UNCHANGED <<listing, fate, opened, swept, sweep, steady, crashes>>

\* From some time on the chain shows everything it is asked about.
Settle ==
    /\ ~steady
    /\ steady' = TRUE
    /\ UNCHANGED <<listing, fate, opened, swept, sweep, clock, crashes>>

Next ==
    \/ Settle
    \/ StartScan \/ FetchPage \/ Select \/ Close \/ Finish \/ Crash \/ Tick
    \/ \E d \in Dseq : \/ \E obs \in Readings(d) : Inspect(obs) \/ Confirm(obs)
                       \/ OpenOrder(d) \/ TakeLease(d) \/ EndLease(d) \/ TenantCloses(d)

Spec == Init /\ [][Next]_vars

\* The deployment the sweeper reads next.
Awaited ==
    {d \in Dseq : \/ sweep.todo # <<>> /\ d = Head(sweep.todo)
                  \/ sweep.batch # <<>> /\ ~sweep.granted /\ d = Head(sweep.batch).dseq}

\* The sweep is run again and again, every reading is made, time passes, and the
\* chain is readable from some time on.  Nothing is promised of tenants.
Fairness ==
    /\ WF_vars(Tick)
    /\ WF_vars(Settle)
    /\ WF_vars(StartScan \/ FetchPage \/ Select \/ Close \/ Finish)
    /\ WF_vars(\E d \in Awaited : \E obs \in Readings(d) : Inspect(obs) \/ Confirm(obs))

FairSpec == Spec /\ Fairness

----
\* Properties.

\* No close of the sweeper hits a deployment that is leased by then, or one it must
\* not touch, although leases may be taken after either reading: an order that is
\* old enough to close is too old to be leased.
NeverClosesWorkload ==
    \A r \in swept : r.was # "leased" /\ r.dseq \notin Protected \cup Excluded

\* A finished scan has a decision on every deployment that was listed when it began.
ScanComplete ==
    sweep.phase = "close" =>
        \A i \in 1 .. sweep.listed :
            \E k \in DOMAIN sweep.decisions : sweep.decisions[k].dseq = listing[i]

\* An order that nobody takes is closed in the end, however many there are and
\* however small the batches.
LeaksReclaimed ==
    \A d \in Dseq \ (Protected \cup Excluded) : fate[d] = "open" ~> fate[d] # "open"

====
