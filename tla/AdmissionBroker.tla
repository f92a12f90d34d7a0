---- MODULE AdmissionBroker ----
\* The admission contract at work.  Workers run the pure functions of
\* CreationAdmission on snapshots of the one persisted AdmissionState; the
\* broker persists a worker's result by compare-and-swap on the revision
\* and gives the receipt to the worker whose swap succeeded.  Workers
\* crash and lose what they hold in memory (proposals, receipts and
\* authorisations are not decodable), time passes, the broker installs new
\* limits and censuses, permits are revoked, and the chain moves on.
EXTENDS CreationAdmission

CONSTANTS
    Worker,         \* concurrent users of the broker
    SubjectOf,      \* the authenticated subject of each worker
    Broker,         \* the broker authentications a receipt may carry
    InitBudget,     \* the budgets of the first persisted state
    Revocable,      \* the operations whose permits may be revoked
    NewBudget,      \* the limits and censuses the broker may install later
    MaxTime,        \* bound on the clock
    MaxRevision,    \* bound on the revisions at which budgets are installed
    MaxCrashes      \* bound on worker crashes

ASSUME BrokerAssumption ==
    /\ SubjectOf \in [Worker -> Subject]
    /\ Broker \subseteq AuthenticatedBroker
    /\ InitBudget \in [Budgeted -> Budget]
    /\ \A s \in Budgeted : InitBudget[s].census.excluded = {}
    /\ Revocable \subseteq Op
    /\ NewBudget \in [Budgeted -> SUBSET Budget]
    /\ MaxTime \in Nat /\ MaxRevision \in Nat /\ MaxCrashes \in Nat

VARIABLES
    db,         \* the persisted AdmissionState
    job,        \* what each worker holds in memory
    permits,    \* the permits issued and handed out
    revoked,    \* the operations whose permit the registry revokes
    chain,      \* what became of each operation's create on the chain
    sends,      \* how often each operation's create was sent
    clock,
    crashes

vars == <<db, job, permits, revoked, chain, sends, clock, crashes>>

ChainState ==
    {"idle", "rejected", "inflight", "failed", "live", "closed", "settled"}

Idle == [kind |-> "idle"]

Init ==
    /\ db = [revision |-> 0, budgets |-> InitBudget,
             reservation |-> [o \in Op |-> NoReservation]]
    /\ job = [w \in Worker |-> Idle]
    /\ permits = {}
    /\ revoked = {}
    /\ chain = [o \in Op |-> "idle"]
    /\ sends = [o \in Op |-> 0]
    /\ clock = 1
    /\ crashes = 0

----
\* Reservation: propose on a snapshot, persist, confirm.

\* A worker reads the state and calls reserve_capacity with a revision it has
\* seen.  HOLD and RECONCILE return no proposal and change nothing.
Reserve(w, r, expected) ==
    /\ job[w] = Idle
    /\ Disposition(db, r, expected, clock) = "PROPOSED"
    /\ job' = [job EXCEPT ![w] =
                 [kind |-> "reserve", base |-> db, request |-> r,
                  next |-> ReserveCapacity(db, r)]]
    /\ UNCHANGED <<db, permits, revoked, chain, sends, clock, crashes>>

\* The broker's compare-and-swap of a reservation, with its receipt.
PersistReservation(w) ==
    /\ job[w].kind = "reserve"
    /\ db.revision = job[w].base.revision
    /\ db' = job[w].next
    /\ job' = [job EXCEPT ![w] =
                 [kind |-> "reserved", base |-> job[w].base, request |-> job[w].request,
                  next |-> job[w].next, persisted |-> job[w].next, at |-> clock]]
    /\ UNCHANGED <<permits, revoked, chain, sends, clock, crashes>>

ReservationConfirmedBy(w, broker) ==
    ConfirmsReservation(job[w].base, job[w].request, job[w].next,
                        job[w].persisted, job[w].at, broker)

ConfirmReservation(w, broker) ==
    /\ job[w].kind = "reserved"
    /\ ReservationConfirmedBy(w, broker)
    /\ permits' = permits \cup
          {IssuePermit(job[w].request, job[w].persisted, job[w].at, broker)}
    /\ job' = [job EXCEPT ![w] = Idle]
    /\ UNCHANGED <<db, revoked, chain, sends, clock, crashes>>

----
\* Redemption: present a permit, persist SUBMITTING, confirm, submit.

\* The presentation shows the policies in force now, or those the permit was
\* issued under when the presenter's policy snapshot is that old.
Present(w, permit, bindings) ==
    [permit |-> permit, presenter |-> SubjectOf[w], bindings |-> bindings,
     revoked |-> permit.op \in revoked, presentedAt |-> clock]

Redeem(w, permit, bindings, expected) ==
    LET shown == Present(w, permit, bindings) IN
    /\ job[w] = Idle
    /\ Redeemable(db, permit, shown, expected)
    /\ job' = [job EXCEPT ![w] =
                 [kind |-> "redeem", base |-> db, permit |-> permit, shown |-> shown,
                  next |-> RedeemCreatePermit(db, permit, shown)]]
    /\ UNCHANGED <<db, permits, revoked, chain, sends, clock, crashes>>

PersistRedemption(w) ==
    /\ job[w].kind = "redeem"
    /\ db.revision = job[w].base.revision
    /\ db' = job[w].next
    /\ job' = [job EXCEPT ![w] =
                 [kind |-> "redeemed", base |-> job[w].base, permit |-> job[w].permit,
                  shown |-> job[w].shown, next |-> job[w].next,
                  persisted |-> job[w].next, at |-> clock]]
    /\ UNCHANGED <<permits, revoked, chain, sends, clock, crashes>>

RedemptionConfirmedBy(w, broker) ==
    ConfirmsRedemption(job[w].base, job[w].permit, job[w].shown, job[w].next,
                       job[w].persisted, job[w].at, broker)

\* The receipt yields a CreateSubmissionAuthorization, held in memory.
ConfirmRedemption(w, broker) ==
    /\ job[w].kind = "redeemed"
    /\ RedemptionConfirmedBy(w, broker)
    /\ job' = [job EXCEPT ![w] =
                 [kind |-> "authorized", op |-> job[w].permit.op, issuedAt |-> job[w].at,
                  bindings |-> job[w].permit.bindings]]
    /\ UNCHANGED <<db, permits, revoked, chain, sends, clock, crashes>>

\* The submission adapter uses the authorisation once: it sends the create ...
Submit(w) ==
    /\ job[w].kind = "authorized"
    /\ chain' = [chain EXCEPT ![job[w].op] = "inflight"]
    /\ sends' = [sends EXCEPT ![job[w].op] = @ + 1]
    /\ job' = [job EXCEPT ![w] = Idle]
    /\ UNCHANGED <<db, permits, revoked, clock, crashes>>

\* ... or the backend rejects it before anything is sent.
RejectBeforeSend(w) ==
    /\ job[w].kind = "authorized"
    /\ chain' = [chain EXCEPT ![job[w].op] = "rejected"]
    /\ job' = [job EXCEPT ![w] = Idle]
    /\ UNCHANGED <<db, permits, revoked, sends, clock, crashes>>

----
\* Lifecycle evidence.  What it says of the create that was prepared for its
\* operation is true of the chain; it stays available for ever (so it may come
\* late, twice or out of order); and an outcome of another prepared create, or a
\* closure or settlement of another deployment, may be presented as well.
Truthful(st, e) ==
    LET about == NamesPrepared(st.reservation[e.op].request.prepared, e) IN
    CASE e.kind = "unknown" -> TRUE
      [] e.kind = "rejected_before_send" -> about => chain[e.op] = "rejected"
      [] e.kind = "fallback_safe" -> about => chain[e.op] \in {"rejected", "failed"}
      [] e.kind = "committed" -> about => chain[e.dep] \in {"live", "closed", "settled"}
      [] e.kind = "execution_closure" -> chain[e.dep] \in {"closed", "settled"}
      [] e.kind = "settlement" -> chain[e.dep] = "settled"

Transition(w, e, expected) ==
    /\ job[w] = Idle
    /\ Transitions(db, e, expected)
    /\ Truthful(db, e)
    /\ job' = [job EXCEPT ![w] =
                 [kind |-> "transition", base |-> db, evidence |-> e,
                  next |-> TransitionReservation(db, e)]]
    /\ UNCHANGED <<db, permits, revoked, chain, sends, clock, crashes>>

PersistTransition(w) ==
    /\ job[w].kind = "transition"
    /\ db.revision = job[w].base.revision
    /\ db' = job[w].next
    /\ job' = [job EXCEPT ![w] = Idle]
    /\ UNCHANGED <<permits, revoked, chain, sends, clock, crashes>>

----
\* What goes wrong for a worker.

\* The swap finds another revision, or no receipt is accepted any more: the
\* worker drops what it holds and starts over from a fresh read.
GiveUp(w) ==
    /\ \/ /\ job[w].kind \in {"reserve", "redeem", "transition"}
          /\ db.revision # job[w].base.revision
       \/ /\ job[w].kind = "reserved"
          /\ \A broker \in Broker : ~ReservationConfirmedBy(w, broker)
       \/ /\ job[w].kind = "redeemed"
          /\ \A broker \in Broker : ~RedemptionConfirmedBy(w, broker)
    /\ job' = [job EXCEPT ![w] = Idle]
    /\ UNCHANGED <<db, permits, revoked, chain, sends, clock, crashes>>

Crash(w) ==
    /\ job[w] # Idle
    /\ crashes < MaxCrashes
    /\ crashes' = crashes + 1
    /\ job' = [job EXCEPT ![w] = Idle]
    /\ UNCHANGED <<db, permits, revoked, chain, sends, clock>>

----
\* The surroundings: time, the broker's own writes, the registry, the chain
Tick ==
    /\ clock < MaxTime
    /\ clock' = clock + 1
    /\ UNCHANGED <<db, job, permits, revoked, chain, sends, crashes>>

\* The broker installs limits and a census.  The census excludes the scope's
\* reservations at the time it was taken, which may lag behind the present ones.
InstallBudget(s, budget, excluded) ==
    /\ db.revision < MaxRevision
    /\ db' = Rebudgeted(db, s, budget, excluded)
    /\ UNCHANGED <<job, permits, revoked, chain, sends, clock, crashes>>

Revoke(o) ==
    /\ \E p \in permits : p.op = o
    /\ o \notin revoked
    /\ revoked' = revoked \cup {o}
    /\ UNCHANGED <<db, job, permits, chain, sends, clock, crashes>>

\* No worker has, or can still get, the authorisation to send o's create.
Abandoned(o) ==
    /\ chain[o] = "idle"
    /\ db.reservation[o].state \in {"SUBMITTING", "CREATE_OUTCOME_UNKNOWN"}
    /\ \A w \in Worker : /\ job[w].kind = "redeemed" => job[w].permit.op # o
                         /\ job[w].kind = "authorized" => job[w].op # o

\* A create that was sent commits or not; one that nobody can send any more never
\* does.
CreateDecided(o) ==
    /\ \/ chain[o] = "inflight" /\ chain' = [chain EXCEPT ![o] = "live"]
       \/ chain[o] = "inflight" /\ chain' = [chain EXCEPT ![o] = "failed"]
       \/ Abandoned(o) /\ chain' = [chain EXCEPT ![o] = "failed"]
    /\ UNCHANGED <<db, job, permits, revoked, sends, clock, crashes>>

\* A deployment is closed, and later its escrow is settled.
DeploymentEnds(o) ==
    /\ \/ chain[o] = "live" /\ chain' = [chain EXCEPT ![o] = "closed"]
       \/ chain[o] = "closed" /\ chain' = [chain EXCEPT ![o] = "settled"]
    /\ UNCHANGED <<db, job, permits, revoked, sends, clock, crashes>>

----
\* A caller states the revision it has seen.  One older revision stands for all.
SeenRevisions == {n \in {db.revision - 1, db.revision} : n >= 0}

WorkerStep(w) ==
    \/ \E r \in Request, expected \in SeenRevisions : Reserve(w, r, expected)
    \/ PersistReservation(w)
    \/ \E broker \in Broker : ConfirmReservation(w, broker)
    \/ \E p \in permits, expected \in SeenRevisions :
          \E bindings \in {p.bindings,
                           PolicyBindingsOf(db, db.reservation[p.op].request.scope)} :
             Redeem(w, p, bindings, expected)
    \/ PersistRedemption(w)
    \/ \E broker \in Broker : ConfirmRedemption(w, broker)
    \/ Submit(w)
    \/ RejectBeforeSend(w)
    \/ \E e \in Lifecycle, expected \in SeenRevisions : Transition(w, e, expected)
    \/ PersistTransition(w)
    \/ GiveUp(w)
    \/ Crash(w)

Surroundings ==
    \/ Tick
    \/ \E s \in Budgeted : \E b \in NewBudget[s], x \in SUBSET Population(db, s) :
          InstallBudget(s, b, x)
    \/ \E o \in Revocable : Revoke(o)
    \/ \E o \in Op : CreateDecided(o) \/ DeploymentEnds(o)

Next == Surroundings \/ \E w \in Worker : WorkerStep(w)

Spec == Init /\ [][Next]_vars

\* Evidence that settles something about o is brought to admission.
Evidence(o) ==
    \E w \in Worker, e \in Lifecycle :
        e.op = o /\ e.kind # "unknown" /\ Transition(w, e, db.revision)

\* The broker answers, workers that do not crash go on and retry after a lost
\* swap, the chain decides what was sent and evidence of it is brought in.
\* Crashes, time, new budgets and new requests are nobody's duty.
Fairness ==
    /\ \A w \in Worker :
          /\ WF_vars(PersistReservation(w) \/ PersistRedemption(w) \/ PersistTransition(w))
          /\ WF_vars(\E broker \in Broker :
                        ConfirmReservation(w, broker) \/ ConfirmRedemption(w, broker))
          /\ WF_vars(Submit(w) \/ RejectBeforeSend(w))
          /\ WF_vars(GiveUp(w))
    /\ \A o \in Op : WF_vars(CreateDecided(o)) /\ WF_vars(Evidence(o))

FairSpec == Spec /\ Fairness

----
\* Properties.
Job ==
    {Idle}
    \cup [kind: {"reserve"}, base: AdmissionState, request: Request,
          next: AdmissionState]
    \cup [kind: {"reserved"}, base: AdmissionState, request: Request,
          next: AdmissionState, persisted: AdmissionState, at: Nat]
    \cup [kind: {"redeem"}, base: AdmissionState, permit: Permit,
          shown: Presentation, next: AdmissionState]
    \cup [kind: {"redeemed"}, base: AdmissionState, permit: Permit,
          shown: Presentation, next: AdmissionState, persisted: AdmissionState, at: Nat]
    \cup [kind: {"transition"}, base: AdmissionState, evidence: Lifecycle,
          next: AdmissionState]
    \cup [kind: {"authorized"}, op: Op, issuedAt: Nat, bindings: PolicyBindings]

\* The persisted state, the snapshots and proposals in memory, the permits and
\* the chain stay well typed, and every reservation among them satisfies what the
\* constructor of CapacityReservation demands (see Reservation).
TypeOK ==
    /\ db \in AdmissionState
    /\ job \in [Worker -> Job]
    /\ permits \subseteq Permit
    /\ revoked \subseteq Op
    /\ chain \in [Op -> ChainState]
    /\ sends \in [Op -> Nat]
    /\ clock \in Nat
    /\ crashes \in Nat

\* The evidence a reservation holds proves the state it is in.
EvidenceProves(o) ==
    LET res == db.reservation[o]
        e == res.evidence IN
    CASE res.state = "ABSENT" -> res = NoReservation
      [] res.state = "RESERVED" -> e = [kind |-> "prepared"]
      [] res.state = "SUBMITTING" ->
            /\ e \in Presentation
            /\ e.permit \in permits
            /\ e.permit.op = o
            /\ e.permit.prepared = res.request.prepared
      [] OTHER ->
            /\ e \in Lifecycle
            /\ e.op = o
            /\ TargetState(e) = res.state
            /\ NamesPrepared(res.request.prepared, e)
            /\ e.kind \in {"committed", "execution_closure", "settlement"} => e.dep = o
            /\ Truthful(db, e)

\* Whatever workers race, retry or bring in late, a persisted reservation is the
\* request of its own operation, is bound to the deployment its own create made
\* once it is committed and to none before, and rests on the very evidence that
\* proves its state: an issued permit for its prepared create while it is being
\* submitted, and afterwards evidence that names that create or its deployment
\* and is true of the chain.
ReservationsProven ==
    \A o \in Op :
        LET res == db.reservation[o] IN
        /\ res.state # "ABSENT" => res.request \in Request /\ res.request.op = o
        /\ res.deployment = IF res.state \in BoundStates THEN o ELSE NoDeployment
        /\ EvidenceProves(o)

Pending == {"reserve", "redeem", "transition"}

\* A revision names one persisted state: a snapshot whose revision is still the
\* current one is the current state, so a swap that compares revisions only
\* overwrites nothing.
RevisionIdentifiesState ==
    \A w \in Worker : job[w].kind \in Pending =>
        /\ job[w].base.revision <= db.revision
        /\ job[w].base.revision = db.revision => job[w].base = db

\* A create is sent at most once per operation, whatever the races between
\* redeeming workers, crashes and retries.
SubmittedOnce == \A o \in Op : sends[o] <= 1

\* Whoever holds a submission authorisation is its only holder, nothing was sent
\* yet, the operation is past RESERVED with its outcome open, and the
\* authorisation was issued while the admitted exposure evidence was valid.
AuthorityExclusive ==
    \A w \in Worker : job[w].kind = "authorized" =>
        LET o == job[w].op IN
        /\ chain[o] = "idle"
        /\ db.reservation[o].state \in {"SUBMITTING", "CREATE_OUTCOME_UNKNOWN"}
        /\ job[w].issuedAt <= db.reservation[o].request.validUntil
        /\ \A v \in Worker \ {w} :
              /\ job[v].kind = "authorized" => job[v].op # o
              /\ job[v].kind = "redeemed" => job[v].permit.op # o

\* Capacity is released no earlier than the chain frees it: an open create holds
\* all three populations, a live deployment its active slot and its exposure, a
\* closed one its exposure until it is settled.
ChainCovered ==
    \A o \in Op :
        LET state == db.reservation[o].state IN
        /\ chain[o] = "inflight" => state \in UnresolvedStates
        /\ chain[o] = "live" => state \in ActiveStates
        /\ chain[o] = "closed" => state \in ExposedStates

\* With budgets that nobody replaces, no interleaving takes a scope's usage, of
\* owner or leaf, over any of its three limits.
CeilingsHold ==
    \A s \in Budgeted :
        LET limits == InitBudget[s].limits IN
        /\ (\E o \in Op : o \in Population(db, s)) =>
              /\ ActiveUsage(db, s) <= limits.maxActive
              /\ UnresolvedUsage(db, s) <= limits.maxUnresolved
              /\ ExposureUsage(db, s) <= limits.maxExposure

----
\* Why the invariants above hold: an inductive strengthening.

\* What a worker wants to persist follows from the snapshot it holds.
ProposalsDerived ==
    \A w \in Worker :
        /\ job[w].kind = "reserve" =>
              /\ job[w].next = ReserveCapacity(job[w].base, job[w].request)
              /\ ~Reserved(job[w].base, job[w].request.op)
              /\ BudgetsBound(job[w].base, job[w].request)
              /\ \A s \in ApplicableBudgets(job[w].request.scope) :
                    /\ CensusHealthy(job[w].base, s)
                    /\ WithinCeilings(job[w].base, s, job[w].request)
        /\ job[w].kind = "redeem" =>
              /\ job[w].next = RedeemCreatePermit(job[w].base, job[w].permit, job[w].shown)
              /\ Redeemable(job[w].base, job[w].permit, job[w].shown, job[w].base.revision)
        /\ job[w].kind = "transition" =>
              /\ job[w].next = TransitionReservation(job[w].base, job[w].evidence)
              /\ Transitions(job[w].base, job[w].evidence, job[w].base.revision)
              /\ Truthful(job[w].base, job[w].evidence)

\* Permits, and what leads to one or comes of one, belong to a reservation and
\* expire with its exposure evidence at the latest.
PermitsBound ==
    /\ \A p \in permits :
          /\ Reserved(db, p.op)
          /\ p.validUntil <= db.reservation[p.op].request.validUntil
    /\ \A w \in Worker :
          /\ job[w].kind = "reserved" =>
                /\ job[w].persisted = job[w].next
                /\ db.reservation[job[w].request.op].state # "ABSENT"
                /\ db.reservation[job[w].request.op].request = job[w].request
          /\ job[w].kind \in {"redeem", "redeemed"} => job[w].permit \in permits

\* Worker w has, or its receipt can still give it, the authority to send o.
Holds(w, o) ==
    \/ job[w].kind = "redeemed" /\ job[w].permit.op = o
    \/ job[w].kind = "authorized" /\ job[w].op = o

\* The authority to send is held by one worker at most, before anything is sent
\* and while the outcome is open.
AuthorityHeld ==
    \A o \in Op :
        /\ sends[o] <= 1
        /\ chain[o] = "idle" => sends[o] = 0
        /\ \A w \in Worker : Holds(w, o) =>
              /\ chain[o] = "idle"
              /\ db.reservation[o].state \in {"SUBMITTING", "CREATE_OUTCOME_UNKNOWN"}
              /\ \A v \in Worker : Holds(v, o) => v = w

\* How far a reservation may be, given what became of its create on the chain.
StatesGiven(c) ==
    CASE c = "idle" -> {"ABSENT", "RESERVED", "SUBMITTING", "CREATE_OUTCOME_UNKNOWN"}
      [] c = "inflight" -> {"SUBMITTING", "CREATE_OUTCOME_UNKNOWN"}
      [] c \in {"rejected", "failed"} ->
            {"SUBMITTING", "CREATE_OUTCOME_UNKNOWN", "NON_COMMIT_PROVEN"}
      [] c = "live" -> {"SUBMITTING", "CREATE_OUTCOME_UNKNOWN", "COMMITTED"}
      [] c = "closed" ->
            {"SUBMITTING", "CREATE_OUTCOME_UNKNOWN", "COMMITTED", "EXECUTION_CLOSED"}
      [] c = "settled" ->
            {"SUBMITTING", "CREATE_OUTCOME_UNKNOWN"} \cup BoundStates

ReservationsFollowChain ==
    \A o \in Op :
        LET res == db.reservation[o] IN
        /\ res.state \in StatesGiven(chain[o])
        /\ res.state # "ABSENT" => res.request \in Request /\ res.request.op = o
        /\ res.deployment # NoDeployment => res.deployment = o /\ res.state \in BoundStates

AuthorizedInTime ==
    \A w \in Worker : job[w].kind = "authorized" =>
        /\ Reserved(db, job[w].op)
        /\ job[w].issuedAt <= db.reservation[job[w].op].request.validUntil

Inv ==
    /\ TypeOK
    /\ RevisionIdentifiesState
    /\ ProposalsDerived
    /\ PermitsBound
    /\ AuthorityHeld
    /\ ReservationsFollowChain
    /\ AuthorizedInTime

\* What README.md says of replays: "Every existing-operation replay, including a
\* terminal reservation, returns RECONCILE with no proposal or permit".
EveryReplayReconciles ==
    \A o \in Op : Reserved(db, o) =>
        Disposition(db, db.reservation[o].request, db.revision, clock) = "RECONCILE"

----
\* What holds of the scopes an operation joins in the step that admits it.
AdmissionStep ==
    \A o \in Op : ~Reserved(db, o) /\ Reserved(db', o) =>
        LET leaf == db'.reservation[o].request.scope IN
        /\ {leaf, OwnerOf[leaf]} \subseteq Budgeted
        /\ \A s \in {leaf, OwnerOf[leaf]} :
              /\ ActiveUsage(db', s) <= db.budgets[s].limits.maxActive
              /\ UnresolvedUsage(db', s) <= db.budgets[s].limits.maxUnresolved
              /\ ExposureUsage(db', s) <= db.budgets[s].limits.maxExposure
              /\ db.budgets[s].census.unhealthy = {}
              /\ CensusBindingMatches(db, s)
              /\ CensusBindingMatches(db', s)

\* Under any change of limits and census, an operation is admitted only into
\* scopes that still cover it afterwards, by limits and a census that are the
\* current ones, complete, and bound to the very population it joins.
AdmittedWithinCeilings == [][AdmissionStep]_vars

\* What a step may do to one operation's reservation.
ReleaseStep ==
    \A o \in Op :
        LET old == db.reservation[o]
            new == db'.reservation[o] IN
        old # new =>
        /\ \A held \in {ExposedStates, ActiveStates, UnresolvedStates} :
              new.state \in held => old.state \in held \cup {"ABSENT"}
        /\ old.state # "ABSENT" => new.request = old.request
        /\ old.deployment # NoDeployment => new.deployment = old.deployment
        /\ \A other \in Op \ {o} : db'.reservation[other] = db.reservation[other]

\* Capacity that was released is never taken again, no step forgets or rewrites
\* a reservation's request or the deployment bound to it, and every persisted
\* change of a reservation is one of a single operation.
ReleaseIsFinal == [][ReleaseStep]_vars

\* How a reservation may leave RESERVED.
SubmissionStep ==
    \A o \in Op :
        (db.reservation[o].state = "RESERVED" /\ db'.reservation[o].state # "RESERVED") =>
        /\ db'.reservation[o].state = "SUBMITTING"
        /\ \E w \in Worker :
              /\ job[w].kind = "redeem"
              /\ job[w].permit \in permits
              /\ job[w].permit.op = o
              /\ job[w].shown.presentedAt <= job[w].permit.validUntil
              /\ ~job[w].shown.revoked
              /\ job[w].permit.bindings =
                    PolicyBindingsOf(db, db.reservation[o].request.scope)

\* RESERVED turns into SUBMITTING only by a redemption of an issued, unexpired
\* permit whose policy revisions are still those of both budgets when the swap
\* happens, presented before any revocation.
SubmissionUnderPermit == [][SubmissionStep]_vars

----
\* The atomic ledger that all this implements.
Quota(st, s) ==
    [limit |-> [active |-> st.budgets[s].limits.maxActive,
                unresolved |-> st.budgets[s].limits.maxUnresolved,
                exposure |-> st.budgets[s].limits.maxExposure],
     outside |-> [active |-> st.budgets[s].census.active,
                  unresolved |-> st.budgets[s].census.unresolved,
                  exposure |-> st.budgets[s].census.exposure]]

HoldingOf(state) ==
    CASE state = "ABSENT" -> "nothing"
      [] state = "RESERVED" -> "claim"
      [] state \in {"SUBMITTING", "CREATE_OUTCOME_UNKNOWN"} -> "attempt"
      [] state = "COMMITTED" -> "deployment"
      [] state = "EXECUTION_CLOSED" -> "funds"
      [] state \in {"NON_COMMIT_PROVEN", "SETTLED"} -> "released"

Ledger ==
    INSTANCE ContainmentLedger
    WITH ScopesOf <- [leaf \in Leaf |-> {leaf, OwnerOf[leaf]}],
         quota <- [s \in Budgeted |-> Quota(db, s)],
         held <- [o \in Op |-> [request |-> db.reservation[o].request,
                                holding |-> HoldingOf(db.reservation[o].state)]],
         sent <- {o \in Op : sends[o] > 0}

\* The broker, its workers and their crashes implement the atomic ledger: every
\* step is a ledger step or invisible to it.
ImplementsLedger == Ledger!LedgerSpec

----
\* A create that got as far as SUBMITTING does not hold its unresolved slot for
\* ever, even if the worker that redeemed the permit crashes before it sends.
SubmissionResolved ==
    \A o \in Op :
        db.reservation[o].state = "SUBMITTING"
            ~> db.reservation[o].state \notin UnresolvedStates

\* Once the chain has settled a deployment, all the capacity its operation still
\* holds is released, in whatever order the evidence arrives.
SettlementReleases ==
    \A o \in Op : chain[o] = "settled" ~> db.reservation[o].state = "SETTLED"

====
