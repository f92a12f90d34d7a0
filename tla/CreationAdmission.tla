---- MODULE CreationAdmission ----
\* The creation-admission contract: pure functions from one immutable
\* AdmissionState to the next.  Nothing here reads, writes or waits; the
\* module AdmissionBroker runs these functions concurrently.
\*
\* A digest is the value it digests (SHA-256 is taken to be injective), a
\* policy revision is a member of Policy, and a deployment (owner, DSEQ,
\* groups, chain) is named by the operation whose create made it.
EXTENDS Naturals, FiniteSets

CONSTANTS
    Op,         \* operation IDs
    Leaf,       \* exact producer scopes (AdmissionScope)
    Owner,      \* owner-wide scopes (OwnerBudgetScope: chain and account)
    OwnerOf,    \* the owner scope of each leaf
    Budgeted,   \* the scopes the broker has budgets for
    Policy,     \* policy revisions
    Prepared,   \* digests of prepared creates
    BackendOf,  \* the backend a prepared create is for
    GroupsOf,   \* its exact owner and groups
    Subject,    \* authenticated producer subjects
    BrokerId,   \* broker identities
    Request,    \* the admission requests producers may make
    NoRequest,  \* the request of an operation that has no reservation
    NoDeployment

Scope == Leaf \cup Owner

Instrument == {"journal", "recovery_reader", "chain", "accounting"}

RequestType ==
    [op: Op, scope: Leaf, prepared: Prepared, presenter: Subject,
     amount: Nat \ {0}, policy: Policy,
     observedAt: Nat, validUntil: Nat, requestedAt: Nat]

Limits ==
    [maxActive: Nat, maxUnresolved: Nat, maxExposure: Nat,
     exposurePolicy: Policy, admissionPolicy: Policy, validUntil: Nat]

Census ==
    [active: Nat, unresolved: Nat, exposure: Nat, excluded: SUBSET Op,
     unhealthy: SUBSET Instrument, observedAt: Nat, validUntil: Nat]

Budget == [limits: Limits, census: Census]

AuthenticatedBroker == [id: BrokerId, verifiedAt: Nat, validUntil: Nat]

PolicyBindings == [owner: Policy, leaf: Policy]

\* The constants are typed as the dataclasses' __post_init__ methods demand.
ASSUME ConstantsAssumption ==
    /\ IsFiniteSet(Op)
    /\ Leaf \cap Owner = {}
    /\ OwnerOf \in [Leaf -> Owner]
    /\ Budgeted \subseteq Scope
    /\ NoDeployment \notin Op
    /\ NoRequest \notin Request
    /\ Request \subseteq RequestType
    /\ \A r \in Request : r.observedAt <= r.requestedAt /\ r.observedAt <= r.validUntil

----
\* Reservations and the three populations each one occupies.
ReservationState ==
    {"ABSENT", "RESERVED", "SUBMITTING", "CREATE_OUTCOME_UNKNOWN",
     "NON_COMMIT_PROVEN", "COMMITTED", "EXECUTION_CLOSED", "SETTLED"}

UnresolvedStates == {"RESERVED", "SUBMITTING", "CREATE_OUTCOME_UNKNOWN"}

ActiveStates == UnresolvedStates \cup {"COMMITTED"}

ExposedStates == ActiveStates \cup {"EXECUTION_CLOSED"}

BoundStates == {"COMMITTED", "EXECUTION_CLOSED", "SETTLED"}

\* What evidence names: an outcome the backend or the owner and groups of the
\* create it is about (here by a prepared create that has them), a commit,
\* closure or settlement a deployment.
Lifecycle ==
    [kind: {"unknown"}, op: Op]
    \cup [kind: {"rejected_before_send", "fallback_safe"}, op: Op, prepared: Prepared]
    \cup [kind: {"committed"}, op: Op, prepared: Prepared, dep: Op]
    \cup [kind: {"execution_closure", "settlement"}, op: Op, dep: Op]

Permit ==
    [op: Op, prepared: Prepared, presenter: Subject, revision: Nat,
     bindings: PolicyBindings, broker: BrokerId, validUntil: Nat, issuedAt: Nat]

Presentation ==
    [permit: Permit, presenter: Subject, bindings: PolicyBindings,
     revoked: BOOLEAN, presentedAt: Nat]

\* What state_evidence_digest may digest: nothing, the prepared create, the
\* redeeming presentation, or lifecycle evidence.
StateEvidence ==
    [kind: {"none", "prepared"}] \cup Presentation \cup Lifecycle

\* The constructor of CapacityReservation: a committed state needs a bound
\* deployment, and a bound deployment is the one the request's operation made.
Reservation ==
    {res \in [request: Request \cup {NoRequest}, state: ReservationState,
              evidence: StateEvidence, deployment: Op \cup {NoDeployment}] :
        /\ res.state = "ABSENT" <=> res.request = NoRequest
        /\ res.state \in BoundStates => res.deployment # NoDeployment
        /\ res.deployment # NoDeployment =>
              res.request \in Request /\ res.deployment = res.request.op}

AdmissionState ==
    [revision: Nat, budgets: [Budgeted -> Budget], reservation: [Op -> Reservation]]

NoReservation ==
    [request |-> NoRequest, state |-> "ABSENT",
     evidence |-> [kind |-> "none"], deployment |-> NoDeployment]

Reserved(st, o) == st.reservation[o].state # "ABSENT"

Applies(s, leaf) == s = leaf \/ s = OwnerOf[leaf]

ApplicableBudgets(leaf) == {s \in Budgeted : Applies(s, leaf)}

RequiredBudgets(leaf) == ApplicableBudgets(leaf) = {OwnerOf[leaf], leaf}

Population(st, s) ==
    {o \in Op : Reserved(st, o) /\ Applies(s, st.reservation[o].request.scope)}

CensusBindingMatches(st, s) == st.budgets[s].census.excluded = Population(st, s)

FinancialExposure(res) ==
    IF res.state \in ExposedStates THEN res.request.amount ELSE 0

\* The uACT held by a scope's reservations, one element per uACT, so that the
\* sum of the exposures is the cardinality of this set.
ExposureUnits(st, s) ==
    UNION {{o} \X (1 .. FinancialExposure(st.reservation[o])) : o \in Population(st, s)}

ActiveUsage(st, s) ==
    st.budgets[s].census.active
        + Cardinality({o \in Population(st, s) : st.reservation[o].state \in ActiveStates})

UnresolvedUsage(st, s) ==
    st.budgets[s].census.unresolved
        + Cardinality({o \in Population(st, s) : st.reservation[o].state \in UnresolvedStates})

ExposureUsage(st, s) == st.budgets[s].census.exposure + Cardinality(ExposureUnits(st, s))

----
\* reserve_capacity: every applicable budget is checked on one snapshot.

\* Mutant: the census need not be bound to the present reservations.
BudgetsUnbound(st, r) ==
    /\ RequiredBudgets(r.scope)
    /\ \A s \in ApplicableBudgets(r.scope) : st.budgets[s].limits.exposurePolicy = r.policy

\* The checks that precede the look-up of an existing reservation.
BudgetsBound(st, r) ==
    /\ RequiredBudgets(r.scope)
    /\ \A s \in ApplicableBudgets(r.scope) :
          /\ CensusBindingMatches(st, s)
          /\ st.budgets[s].limits.exposurePolicy = r.policy

CensusHealthy(st, s) == st.budgets[s].census.unhealthy = {}

CensusCurrent(st, s, r, now) ==
    /\ r.requestedAt <= now
    /\ st.budgets[s].census.observedAt <= now
    /\ now <= st.budgets[s].census.validUntil
    /\ now <= st.budgets[s].limits.validUntil

\* Mutant: the limits are compared with the usage before the request.
CeilingsBeforeRequest(st, s, r) ==
    /\ ActiveUsage(st, s) <= st.budgets[s].limits.maxActive
    /\ UnresolvedUsage(st, s) <= st.budgets[s].limits.maxUnresolved
    /\ ExposureUsage(st, s) + r.amount <= st.budgets[s].limits.maxExposure

\* Mutant: open outcomes are not limited.
CeilingsWithoutUnresolved(st, s, r) ==
    /\ ActiveUsage(st, s) + 1 <= st.budgets[s].limits.maxActive
    /\ ExposureUsage(st, s) + r.amount <= st.budgets[s].limits.maxExposure

WithinCeilings(st, s, r) ==
    /\ ActiveUsage(st, s) + 1 <= st.budgets[s].limits.maxActive
    /\ UnresolvedUsage(st, s) + 1 <= st.budgets[s].limits.maxUnresolved
    /\ ExposureUsage(st, s) + r.amount <= st.budgets[s].limits.maxExposure

\* The checks of a request that has no reservation yet.
Admits(st, r, expected, now) ==
    /\ expected = st.revision
    /\ r.observedAt <= now
    /\ now <= r.validUntil
    /\ \A s \in ApplicableBudgets(r.scope) :
          CensusHealthy(st, s) /\ CensusCurrent(st, s, r, now) /\ WithinCeilings(st, s, r)

Disposition(st, r, expected, now) ==
    IF ~BudgetsBound(st, r) THEN "HOLD"
    ELSE IF Reserved(st, r.op)
         THEN IF st.reservation[r.op].request = r THEN "RECONCILE" ELSE "HOLD"
         ELSE IF Admits(st, r, expected, now) THEN "PROPOSED" ELSE "HOLD"

\* The proposed state: one more RESERVED operation, and the census of each
\* budget it applies to bound to the grown population.
ReserveCapacity(st, r) ==
    [revision |-> st.revision + 1,
     budgets |-> [s \in Budgeted |->
        IF Applies(s, r.scope)
        THEN [st.budgets[s] EXCEPT !.census.excluded = Population(st, s) \cup {r.op}]
        ELSE st.budgets[s]],
     reservation |-> [st.reservation EXCEPT ![r.op] =
        [request |-> r, state |-> "RESERVED",
         evidence |-> [kind |-> "prepared"], deployment |-> NoDeployment]]]

----
\* confirm_persisted_reservation: the receipt of the CAS becomes a permit.
PolicyBindingsOf(st, leaf) ==
    [owner |-> st.budgets[OwnerOf[leaf]].limits.admissionPolicy,
     leaf |-> st.budgets[leaf].limits.admissionPolicy]

BrokerCurrent(broker, at) == broker.verifiedAt <= at /\ at <= broker.validUntil

\* Budgets and census bindings of the persisted state.
BudgetBindingComplete(st, leaf) ==
    /\ RequiredBudgets(leaf)
    /\ \A s \in ApplicableBudgets(leaf) : CensusBindingMatches(st, s)

\* The proposal is derived again from the pre-CAS state at the time of the
\* receipt; it must still be admitted and be the very state that was persisted.
ConfirmsReservation(base, r, proposed, persisted, at, broker) ==
    /\ Disposition(base, r, base.revision, at) = "PROPOSED"
    /\ proposed = ReserveCapacity(base, r)
    /\ persisted = proposed
    /\ persisted.reservation[r.op].state = "RESERVED"
    /\ BudgetBindingComplete(persisted, r.scope)
    /\ r.requestedAt <= at
    /\ BrokerCurrent(broker, at)

Least(a, b) == IF b < a THEN b ELSE a

\* The earliest expiry of one budget's evidence.
BudgetExpiry(st, s) ==
    Least(st.budgets[s].limits.validUntil, st.budgets[s].census.validUntil)

IssuePermit(r, persisted, at, broker) ==
    [op |-> r.op, prepared |-> r.prepared, presenter |-> r.presenter,
     revision |-> persisted.revision,
     bindings |-> PolicyBindingsOf(persisted, r.scope),
     broker |-> broker.id,
     validUntil |-> Least(Least(broker.validUntil, r.validUntil),
                          Least(BudgetExpiry(persisted, OwnerOf[r.scope]),
                                BudgetExpiry(persisted, r.scope))),
     issuedAt |-> at]

----
\* redeem_create_permit and confirm_redeemed_permit: RESERVED becomes
\* SUBMITTING by a second CAS, and only its receipt authorises a network
\* submission.

\* Mutant: any reservation may be redeemed, also one that was redeemed before.
RedeemableAgain(st, permit, shown, expected) ==
    /\ expected = st.revision
    /\ permit.revision <= st.revision
    /\ Reserved(st, permit.op)
    /\ st.reservation[permit.op].request.prepared = permit.prepared
    /\ shown.permit = permit
    /\ shown.presenter = permit.presenter
    /\ ~shown.revoked
    /\ permit.issuedAt <= shown.presentedAt
    /\ shown.presentedAt <= permit.validUntil
    /\ shown.bindings = permit.bindings
    /\ PolicyBindingsOf(st, st.reservation[permit.op].request.scope) = permit.bindings

\* Mutant: the presented policies are taken for the current ones.
RedeemableOnOldPolicy(st, permit, shown, expected) ==
    /\ expected = st.revision
    /\ permit.revision <= st.revision
    /\ st.reservation[permit.op].state = "RESERVED"
    /\ st.reservation[permit.op].request.prepared = permit.prepared
    /\ shown.permit = permit
    /\ shown.presenter = permit.presenter
    /\ ~shown.revoked
    /\ permit.issuedAt <= shown.presentedAt
    /\ shown.presentedAt <= permit.validUntil
    /\ shown.bindings = permit.bindings

Redeemable(st, permit, shown, expected) ==
    /\ expected = st.revision
    /\ permit.revision <= st.revision
    /\ st.reservation[permit.op].state = "RESERVED"
    /\ st.reservation[permit.op].request.prepared = permit.prepared
    /\ shown.permit = permit
    /\ shown.presenter = permit.presenter
    /\ ~shown.revoked
    /\ permit.issuedAt <= shown.presentedAt
    /\ shown.presentedAt <= permit.validUntil
    /\ shown.bindings = permit.bindings
    /\ PolicyBindingsOf(st, st.reservation[permit.op].request.scope) = permit.bindings

\* Mutant: the redemption does not advance the revision.
RedeemInPlace(st, permit, shown) ==
    [revision |-> st.revision,
     budgets |-> st.budgets,
     reservation |-> [st.reservation EXCEPT ![permit.op] =
        [@ EXCEPT !.state = "SUBMITTING", !.evidence = shown]]]

RedeemCreatePermit(st, permit, shown) ==
    [revision |-> st.revision + 1,
     budgets |-> st.budgets,
     reservation |-> [st.reservation EXCEPT ![permit.op] =
        [@ EXCEPT !.state = "SUBMITTING", !.evidence = shown]]]

ConfirmsRedemption(base, permit, shown, proposed, persisted, at, broker) ==
    /\ Redeemable(base, permit, shown, base.revision)
    /\ proposed = RedeemCreatePermit(base, permit, shown)
    /\ persisted = proposed
    /\ persisted.reservation[permit.op].state = "SUBMITTING"
    /\ persisted.reservation[permit.op].evidence = shown
    /\ BudgetBindingComplete(persisted, persisted.reservation[permit.op].request.scope)
    /\ broker.id = permit.broker
    /\ shown.presentedAt <= at
    /\ BrokerCurrent(broker, at)
    /\ at <= permit.validUntil

----
\* transition_reservation: typed lifecycle evidence releases capacity.

\* Mutant: late evidence of the commit reopens a closed deployment.
TransitionsReopening(state) ==
    CASE state = "SUBMITTING" ->
            {"CREATE_OUTCOME_UNKNOWN", "NON_COMMIT_PROVEN", "COMMITTED"}
      [] state = "CREATE_OUTCOME_UNKNOWN" -> {"NON_COMMIT_PROVEN", "COMMITTED"}
      [] state = "COMMITTED" -> {"EXECUTION_CLOSED"}
      [] state = "EXECUTION_CLOSED" -> {"SETTLED", "COMMITTED"}
      [] OTHER -> {}

\* Mutant: an unknown outcome can only turn out committed.
TransitionsUnknownCommits(state) ==
    CASE state = "SUBMITTING" ->
            {"CREATE_OUTCOME_UNKNOWN", "NON_COMMIT_PROVEN", "COMMITTED"}
      [] state = "CREATE_OUTCOME_UNKNOWN" -> {"COMMITTED"}
      [] state = "COMMITTED" -> {"EXECUTION_CLOSED"}
      [] state = "EXECUTION_CLOSED" -> {"SETTLED"}
      [] OTHER -> {}

\* Mutant: an unknown outcome can only turn out void.
TransitionsUnknownVoid(state) ==
    CASE state = "SUBMITTING" ->
            {"CREATE_OUTCOME_UNKNOWN", "NON_COMMIT_PROVEN", "COMMITTED"}
      [] state = "CREATE_OUTCOME_UNKNOWN" -> {"NON_COMMIT_PROVEN"}
      [] state = "COMMITTED" -> {"EXECUTION_CLOSED"}
      [] state = "EXECUTION_CLOSED" -> {"SETTLED"}
      [] OTHER -> {}

AllowedTransitions(state) ==
    CASE state = "SUBMITTING" ->
            {"CREATE_OUTCOME_UNKNOWN", "NON_COMMIT_PROVEN", "COMMITTED"}
      [] state = "CREATE_OUTCOME_UNKNOWN" -> {"NON_COMMIT_PROVEN", "COMMITTED"}
      [] state = "COMMITTED" -> {"EXECUTION_CLOSED"}
      [] state = "EXECUTION_CLOSED" -> {"SETTLED"}
      [] OTHER -> {}

\* _outcome_target and its two siblings: the state that evidence proves.
TargetState(e) ==
    CASE e.kind \in {"rejected_before_send", "fallback_safe"} -> "NON_COMMIT_PROVEN"
      [] e.kind = "unknown" -> "CREATE_OUTCOME_UNKNOWN"
      [] e.kind = "committed" -> "COMMITTED"
      [] e.kind = "execution_closure" -> "EXECUTION_CLOSED"
      [] e.kind = "settlement" -> "SETTLED"

TargetDeployment(res, e) ==
    CASE e.kind = "committed" -> e.dep
      [] e.kind \in {"execution_closure", "settlement"} -> res.deployment
      [] OTHER -> NoDeployment

\* A rejection names its backend, a proof of non-commit the backend, the owner
\* and the groups, a deployment its owner and its groups; what is named must be
\* what was prepared.
NamesPrepared(prepared, e) ==
    /\ e.kind \in {"rejected_before_send", "fallback_safe"} =>
          BackendOf[e.prepared] = BackendOf[prepared]
    /\ e.kind \in {"fallback_safe", "committed"} =>
          GroupsOf[e.prepared] = GroupsOf[prepared]

\* Mutant: closure and settlement of any deployment will do.
EvidenceOfAny(res, e) ==
    /\ NamesPrepared(res.request.prepared, e)
    /\ e.kind = "committed" => e.dep = res.request.op
    /\ e.kind \in {"execution_closure", "settlement"} => res.deployment # NoDeployment

\* Mutant: an outcome of another prepared create is taken for this one's.
OutcomeOfAnyCreate(res, e) ==
    /\ e.kind = "committed" => e.dep = res.request.op
    /\ e.kind \in {"execution_closure", "settlement"} =>
          /\ res.deployment # NoDeployment
          /\ e.dep = res.deployment

\* An outcome must name the prepared create, and a committed deployment the
\* request's operation; closure and settlement the deployment already bound.
EvidenceBound(res, e) ==
    /\ NamesPrepared(res.request.prepared, e)
    /\ e.kind = "committed" => e.dep = res.request.op
    /\ e.kind \in {"execution_closure", "settlement"} =>
          /\ res.deployment # NoDeployment
          /\ e.dep = res.deployment

\* Evidence for the state the reservation is in already changes nothing (the
\* same evidence) or is refused (different evidence), whatever the revision.
Transitions(st, e, expected) ==
    LET res == st.reservation[e.op] IN
    /\ expected = st.revision
    /\ Reserved(st, e.op)
    /\ EvidenceBound(res, e)
    /\ res.state # TargetState(e)
    /\ TargetState(e) \in AllowedTransitions(res.state)

TransitionReservation(st, e) ==
    [revision |-> st.revision + 1,
     budgets |-> st.budgets,
     reservation |-> [st.reservation EXCEPT ![e.op] =
        [@ EXCEPT !.state = TargetState(e), !.evidence = e,
                  !.deployment = TargetDeployment(st.reservation[e.op], e)]]]

----
\* The broker's replacement of one scope's limits and census.
Rebudgeted(st, s, budget, excluded) ==
    [revision |-> st.revision + 1,
     budgets |-> [st.budgets EXCEPT ![s] =
        [limits |-> budget.limits, census |-> [budget.census EXCEPT !.excluded = excluded]]],
     reservation |-> st.reservation]

====
