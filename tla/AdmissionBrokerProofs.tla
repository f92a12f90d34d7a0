---- MODULE AdmissionBrokerProofs ----
\* Proofs about AdmissionBroker, for every set of operations, leaves,
\* workers, requests and budgets.
EXTENDS AdmissionBroker, FiniteSetTheorems, TLAPS

USE ConstantsAssumption, BrokerAssumption

----
\* The pure functions keep AdmissionState well typed.

EvidenceKind ==
    {"rejected_before_send", "fallback_safe", "unknown", "committed",
     "execution_closure", "settlement"}

\* What lifecycle evidence names.
LEMMA EvidenceFields ==
    ASSUME NEW e \in Lifecycle
    PROVE  /\ e.op \in Op
           /\ e.kind \in EvidenceKind
           /\ e.kind \in {"committed", "execution_closure", "settlement"} => e.dep \in Op
  BY DEF Lifecycle, EvidenceKind

\* An empty reservation slot is a reservation.
LEMMA NoReservationType == NoReservation \in Reservation
  BY DEF NoReservation, Reservation, ReservationState, BoundStates, StateEvidence

\* reserve_capacity proposes an AdmissionState.
LEMMA ReserveType ==
    ASSUME NEW st \in AdmissionState, NEW r \in Request
    PROVE  ReserveCapacity(st, r) \in AdmissionState
  <1> DEFINE bs == [s \in Budgeted |->
                      IF Applies(s, r.scope)
                      THEN [st.budgets[s] EXCEPT !.census.excluded =
                                Population(st, s) \cup {r.op}]
                      ELSE st.budgets[s]]
             res == [request |-> r, state |-> "RESERVED",
                     evidence |-> [kind |-> "prepared"], deployment |-> NoDeployment]
  <1>1. r.op \in Op
    BY DEF RequestType
  <1>2. bs \in [Budgeted -> Budget]
    <2> SUFFICES ASSUME NEW s \in Budgeted
                 PROVE  bs[s] \in Budget
      OBVIOUS
    <2>1. st.budgets[s] \in Budget
      BY DEF AdmissionState
    <2>2. Population(st, s) \cup {r.op} \in SUBSET Op
      BY <1>1 DEF Population
    <2> QED
      BY <2>1, <2>2 DEF Budget, Census
  <1>3. res \in Reservation
    BY ConstantsAssumption DEF Reservation, ReservationState, BoundStates, StateEvidence
  <1>4. [st.reservation EXCEPT ![r.op] = res] \in [Op -> Reservation]
    BY <1>1, <1>3 DEF AdmissionState
  <1> QED
    BY <1>2, <1>4 DEF ReserveCapacity, AdmissionState

\* redeem_create_permit proposes an AdmissionState.
LEMMA RedeemType ==
    ASSUME NEW st \in AdmissionState, NEW p \in Permit, NEW shown \in Presentation,
           st.reservation[p.op].state = "RESERVED"
    PROVE  RedeemCreatePermit(st, p, shown) \in AdmissionState
  <1>1. p.op \in Op
    BY DEF Permit
  <1>2. st.reservation[p.op] \in Reservation
    BY <1>1 DEF AdmissionState
  <1>3. [st.reservation[p.op] EXCEPT !.state = "SUBMITTING", !.evidence = shown]
            \in Reservation
    BY <1>2 DEF Reservation, ReservationState, BoundStates, StateEvidence
  <1> QED
    BY <1>3, <1>2, <1>1 DEF RedeemCreatePermit, AdmissionState

\* transition_reservation returns an AdmissionState.
LEMMA TransitionType ==
    ASSUME NEW st \in AdmissionState, NEW e \in Lifecycle, NEW x, Transitions(st, e, x)
    PROVE  TransitionReservation(st, e) \in AdmissionState
  <1> DEFINE old == st.reservation[e.op]
             new == [old EXCEPT !.state = TargetState(e), !.evidence = e,
                                !.deployment = TargetDeployment(old, e)]
  <1>1. e.op \in Op /\ e.kind \in EvidenceKind
    BY EvidenceFields
  <1>2. old \in Reservation /\ old.state # "ABSENT"
    BY <1>1 DEF Transitions, Reserved, AdmissionState
  <1>3. TargetState(e) \in ReservationState /\ TargetState(e) # "ABSENT"
    BY <1>1 DEF TargetState, ReservationState, EvidenceKind
  <1>4. old.request \in Request
    BY <1>2 DEF Reservation
  <1>5. /\ TargetDeployment(old, e) \in Op \cup {NoDeployment}
        /\ TargetState(e) \in BoundStates => TargetDeployment(old, e) # NoDeployment
        /\ TargetDeployment(old, e) # NoDeployment => TargetDeployment(old, e) = old.request.op
    <2>1. CASE e.kind = "committed"
      <3>1. e.dep = old.request.op /\ e.dep \in Op
        BY <2>1, EvidenceFields DEF Transitions, EvidenceBound
      <3> QED
        BY <3>1, <2>1, ConstantsAssumption DEF TargetDeployment
    <2>2. CASE e.kind \in {"execution_closure", "settlement"}
      <3>1. old.deployment # NoDeployment
        BY <2>2 DEF Transitions, EvidenceBound
      <3>2. TargetDeployment(old, e) = old.deployment
        BY <2>2 DEF TargetDeployment
      <3> QED
        BY <3>2, <3>1, <1>2 DEF Reservation
    <2>3. CASE e.kind \in {"unknown", "rejected_before_send", "fallback_safe"}
      BY <2>3 DEF TargetDeployment, TargetState, BoundStates
    <2> QED
      BY <2>3, <2>2, <2>1, <1>1 DEF EvidenceKind
  <1>6. new \in Reservation
    <2>1. /\ new.request = old.request /\ new.state = TargetState(e)
          /\ new.deployment = TargetDeployment(old, e)
          /\ new \in [request: Request \cup {NoRequest}, state: ReservationState,
                      evidence: StateEvidence, deployment: Op \cup {NoDeployment}]
      BY <1>5, <1>3, <1>2 DEF Reservation, StateEvidence
    <2> HIDE DEF new
    <2> QED
      BY <2>1, <1>5, <1>4, <1>3, ConstantsAssumption DEF Reservation
  <1> QED
    BY <1>6, <1>2, <1>1 DEF TransitionReservation, AdmissionState

\* The broker's replacement of a budget leaves an AdmissionState.
LEMMA RebudgetType ==
    ASSUME NEW st \in AdmissionState, NEW s \in Budgeted, NEW b \in Budget,
           NEW x \in SUBSET Op
    PROVE  Rebudgeted(st, s, b, x) \in AdmissionState
  <1>1. [limits |-> b.limits, census |-> [b.census EXCEPT !.excluded = x]] \in Budget
    BY DEF Budget, Census
  <1> QED
    BY <1>1 DEF Rebudgeted, AdmissionState

\* A permit is well typed when the budgets it binds exist.
LEMMA PermitType ==
    ASSUME NEW r \in Request, NEW st \in AdmissionState, NEW at \in Nat,
           NEW b \in Broker, RequiredBudgets(r.scope)
    PROVE  IssuePermit(r, st, at, b) \in Permit
  <1>1. r.scope \in Leaf /\ r.op \in Op /\ r.prepared \in Prepared
        /\ r.presenter \in Subject /\ r.validUntil \in Nat
    BY DEF RequestType
  <1>2. r.scope \in Budgeted /\ OwnerOf[r.scope] \in Budgeted
    BY DEF RequiredBudgets, ApplicableBudgets
  <1>3. st.budgets[r.scope] \in Budget /\ st.budgets[OwnerOf[r.scope]] \in Budget
    BY <1>2 DEF AdmissionState
  <1>4. PolicyBindingsOf(st, r.scope) \in PolicyBindings
    BY <1>3 DEF PolicyBindingsOf, PolicyBindings, Budget, Limits
  <1>5. /\ BudgetExpiry(st, r.scope) \in Nat
        /\ BudgetExpiry(st, OwnerOf[r.scope]) \in Nat
    BY <1>3 DEF BudgetExpiry, Least, Budget, Limits, Census
  <1>6. b.id \in BrokerId /\ b.validUntil \in Nat
    BY DEF AuthenticatedBroker
  <1>7. st.revision \in Nat
    BY DEF AdmissionState
  <1> QED
    BY <1>7, <1>6, <1>5, <1>4, <1>1 DEF IssuePermit, Permit, Least

\* What the kind of a job says about its fields.
LEMMA JobFields ==
    ASSUME NEW j \in Job
    PROVE  /\ j.kind \in {"idle", "reserve", "reserved", "redeem", "redeemed",
                          "transition", "authorized"}
           /\ j.kind = "reserve" =>
                /\ j.base \in AdmissionState /\ j.request \in Request
                /\ j.next \in AdmissionState
           /\ j.kind = "reserved" =>
                /\ j.base \in AdmissionState /\ j.request \in Request
                /\ j.next \in AdmissionState /\ j.persisted \in AdmissionState
                /\ j.at \in Nat
           /\ j.kind = "redeem" =>
                /\ j.base \in AdmissionState /\ j.permit \in Permit
                /\ j.shown \in Presentation /\ j.next \in AdmissionState
           /\ j.kind = "redeemed" =>
                /\ j.base \in AdmissionState /\ j.permit \in Permit
                /\ j.shown \in Presentation /\ j.next \in AdmissionState
                /\ j.persisted \in AdmissionState /\ j.at \in Nat
           /\ j.kind = "transition" =>
                /\ j.base \in AdmissionState /\ j.evidence \in Lifecycle
                /\ j.next \in AdmissionState
           /\ j.kind = "authorized" =>
                /\ j.op \in Op /\ j.issuedAt \in Nat /\ j.bindings \in PolicyBindings
  BY DEF Job, Idle

----
\* Type correctness.

\* The initial state is well typed.
LEMMA InitTypeOK == Init => TypeOK
  <1> SUFFICES ASSUME Init PROVE TypeOK
    OBVIOUS
  <1>1. db \in AdmissionState
    BY NoReservationType DEF Init, AdmissionState
  <1>2. job \in [Worker -> Job]
    BY DEF Init, Job
  <1> QED
    BY <1>1, <1>2 DEF Init, TypeOK, ChainState

\* Every step keeps the types.
LEMMA NextTypeOK ==
    ASSUME TypeOK, [Next]_vars
    PROVE  TypeOK'
  <1> USE DEF TypeOK
  <1>0. /\ \A w \in Worker : job[w] \in Job
        /\ Idle \in Job
    BY DEF Job
  <1>1. ASSUME NEW w \in Worker, NEW r \in Request, NEW x, Reserve(w, r, x)
        PROVE  TypeOK'
    <2>1. ReserveCapacity(db, r) \in AdmissionState
      BY ReserveType
    <2>2. [kind |-> "reserve", base |-> db, request |-> r,
           next |-> ReserveCapacity(db, r)] \in Job
      BY <2>1 DEF Job
    <2> QED
      BY <1>1, <2>2 DEF Reserve
  <1>2. ASSUME NEW w \in Worker, PersistReservation(w) PROVE TypeOK'
    <2>1. /\ job[w].base \in AdmissionState /\ job[w].request \in Request
          /\ job[w].next \in AdmissionState
      BY <1>0, <1>2, JobFields DEF PersistReservation
    <2>2. [kind |-> "reserved", base |-> job[w].base, request |-> job[w].request,
           next |-> job[w].next, persisted |-> job[w].next, at |-> clock] \in Job
      BY <2>1 DEF Job
    <2> QED
      BY <2>2, <2>1, <1>2 DEF PersistReservation
  <1>3. ASSUME NEW w \in Worker, NEW b \in Broker, ConfirmReservation(w, b)
        PROVE  TypeOK'
    <2>1. /\ job[w].request \in Request /\ job[w].persisted \in AdmissionState
          /\ job[w].at \in Nat
      BY <1>0, <1>3, JobFields DEF ConfirmReservation
    <2>2. RequiredBudgets(job[w].request.scope)
      BY <1>3 DEF ConfirmReservation, ReservationConfirmedBy, ConfirmsReservation,
                  BudgetBindingComplete
    <2>3. IssuePermit(job[w].request, job[w].persisted, job[w].at, b) \in Permit
      BY <2>1, <2>2, PermitType
    <2> QED
      BY <2>3, <1>3, <1>0 DEF ConfirmReservation
  <1>4. ASSUME NEW w \in Worker, NEW p \in permits, NEW bs, NEW x, Redeem(w, p, bs, x)
        PROVE  TypeOK'
    <2> DEFINE shown == Present(w, p, bs)
    <2>1. bs = p.bindings /\ p \in Permit
      BY <1>4 DEF Redeem, Redeemable, Present
    <2>2. shown \in Presentation
      BY <2>1 DEF Present, Presentation, Permit
    <2>3. RedeemCreatePermit(db, p, shown) \in AdmissionState
      <3>1. db.reservation[p.op].state = "RESERVED"
        BY <1>4 DEF Redeem, Redeemable
      <3> QED
        BY <3>1, <2>2, <2>1, RedeemType
    <2>4. [kind |-> "redeem", base |-> db, permit |-> p, shown |-> shown,
           next |-> RedeemCreatePermit(db, p, shown)] \in Job
      BY <2>3, <2>2, <2>1 DEF Job
    <2> QED
      BY <1>4, <2>4 DEF Redeem
  <1>5. ASSUME NEW w \in Worker, PersistRedemption(w) PROVE TypeOK'
    <2>1. /\ job[w].base \in AdmissionState /\ job[w].permit \in Permit
          /\ job[w].shown \in Presentation /\ job[w].next \in AdmissionState
      BY <1>0, <1>5, JobFields DEF PersistRedemption
    <2>2. [kind |-> "redeemed", base |-> job[w].base, permit |-> job[w].permit,
           shown |-> job[w].shown, next |-> job[w].next,
           persisted |-> job[w].next, at |-> clock] \in Job
      BY <2>1 DEF Job
    <2> QED
      BY <2>2, <2>1, <1>5 DEF PersistRedemption
  <1>6. ASSUME NEW w \in Worker, NEW b \in Broker, ConfirmRedemption(w, b)
        PROVE  TypeOK'
    <2>1. job[w].permit \in Permit /\ job[w].at \in Nat
      BY <1>0, <1>6, JobFields DEF ConfirmRedemption
    <2>2. [kind |-> "authorized", op |-> job[w].permit.op, issuedAt |-> job[w].at,
           bindings |-> job[w].permit.bindings] \in Job
      BY <2>1 DEF Job, Permit
    <2> QED
      BY <1>6, <2>2 DEF ConfirmRedemption
  <1>7. ASSUME NEW w \in Worker, Submit(w) \/ RejectBeforeSend(w) PROVE TypeOK'
    <2>1. job[w].op \in Op
      BY <1>0, <1>7, JobFields DEF Submit, RejectBeforeSend
    <2>2. CASE Submit(w)
      BY <2>2, <2>1, <1>0 DEF Submit, ChainState
    <2>3. CASE RejectBeforeSend(w)
      BY <2>3, <2>1, <1>0 DEF RejectBeforeSend, ChainState
    <2> QED
      BY <2>3, <2>2, <1>7
  <1>8. ASSUME NEW w \in Worker, NEW e \in Lifecycle, NEW x, Transition(w, e, x)
        PROVE  TypeOK'
    <2>1. TransitionReservation(db, e) \in AdmissionState
      <3>1. Transitions(db, e, x)
        BY <1>8 DEF Transition
      <3> QED
        BY <3>1, TransitionType
    <2>2. [kind |-> "transition", base |-> db, evidence |-> e,
           next |-> TransitionReservation(db, e)] \in Job
      BY <2>1 DEF Job
    <2> QED
      BY <1>8, <2>2 DEF Transition
  <1>9. ASSUME NEW w \in Worker, PersistTransition(w) PROVE TypeOK'
    <2>1. job[w].next \in AdmissionState
      BY <1>0, <1>9, JobFields DEF PersistTransition
    <2> QED
      BY <2>1, <1>9, <1>0 DEF PersistTransition
  <1>10. ASSUME NEW w \in Worker, GiveUp(w) \/ Crash(w) PROVE TypeOK'
    BY <1>0, <1>10 DEF GiveUp, Crash
  <1>11. CASE Tick
    BY <1>11 DEF Tick
  <1>12. ASSUME NEW s \in Budgeted, NEW b \in NewBudget[s],
                NEW x \in SUBSET Population(db, s), InstallBudget(s, b, x)
         PROVE  TypeOK'
    <2>1. b \in Budget /\ x \in SUBSET Op
      BY DEF Population
    <2>2. Rebudgeted(db, s, b, x) \in AdmissionState
      BY <2>1, RebudgetType
    <2> QED
      BY <1>12, <2>2 DEF InstallBudget
  <1>13. ASSUME NEW o \in Revocable, Revoke(o) PROVE TypeOK'
    BY <1>13 DEF Revoke
  <1>14. ASSUME NEW o \in Op, CreateDecided(o) \/ DeploymentEnds(o) PROVE TypeOK'
    BY <1>14 DEF CreateDecided, DeploymentEnds, ChainState
  <1>15. CASE UNCHANGED vars
    BY <1>15 DEF vars
  <1> QED
    BY <1>15, <1>14, <1>13, <1>12, <1>11, <1>10, <1>9, <1>8, <1>7, <1>6, <1>5, <1>4,
       <1>3, <1>2, <1>1 DEF Next, WorkerStep, Surroundings

\* Type correctness of the broker, its workers and their surroundings.
THEOREM TypeCorrect == Spec => []TypeOK
  BY InitTypeOK, NextTypeOK, PTL DEF Spec

----
\* Compare-and-swap on the revision.

\* A swap that succeeds replaces the state it was computed from by a state of
\* the next revision.
LEMMA SwapAdvances ==
    ASSUME TypeOK, RevisionIdentifiesState, ProposalsDerived, NEW w \in Worker,
           job[w].kind \in Pending, db.revision = job[w].base.revision
    PROVE  /\ job[w].base = db
           /\ job[w].next \in AdmissionState
           /\ job[w].next.revision = db.revision + 1
           /\ db.revision \in Nat
  <1>1. job[w] \in Job
    BY DEF TypeOK
  <1>2. job[w].base = db /\ db.revision \in Nat
    BY DEF RevisionIdentifiesState, TypeOK, AdmissionState
  <1>3. job[w].next \in AdmissionState
    BY <1>1, JobFields DEF Pending
  <1>4. job[w].next.revision = db.revision + 1
    <2>1. CASE job[w].kind = "reserve"
      <3>1. job[w].next = ReserveCapacity(db, job[w].request)
        BY <1>2, <2>1 DEF ProposalsDerived
      <3> QED
        BY <3>1 DEF ReserveCapacity
    <2>2. CASE job[w].kind = "redeem"
      <3>1. job[w].next = RedeemCreatePermit(db, job[w].permit, job[w].shown)
        BY <1>2, <2>2 DEF ProposalsDerived
      <3> QED
        BY <3>1 DEF RedeemCreatePermit
    <2>3. CASE job[w].kind = "transition"
      <3>1. job[w].next = TransitionReservation(db, job[w].evidence)
        BY <1>2, <2>3 DEF ProposalsDerived
      <3> QED
        BY <3>1 DEF TransitionReservation
    <2> QED
      BY <2>3, <2>2, <2>1 DEF Pending
  <1> QED
    BY <1>4, <1>3, <1>2

\* Any step leaves the persisted state alone or takes it to the next revision.
LEMMA RevisionAdvances ==
    ASSUME TypeOK, RevisionIdentifiesState, ProposalsDerived, [Next]_vars
    PROVE  db' = db \/ db'.revision = db.revision + 1
  <1>1. ASSUME NEW w \in Worker, WorkerStep(w)
        PROVE  db' = db \/ db'.revision = db.revision + 1
    <2>1. CASE PersistReservation(w)
      BY <2>1, SwapAdvances DEF PersistReservation, Pending
    <2>2. CASE PersistRedemption(w)
      BY <2>2, SwapAdvances DEF PersistRedemption, Pending
    <2>3. CASE PersistTransition(w)
      BY <2>3, SwapAdvances DEF PersistTransition, Pending
    <2> QED
      BY <2>3, <2>2, <2>1, <1>1
         DEF WorkerStep, Reserve, ConfirmReservation, Redeem, ConfirmRedemption, Submit,
             RejectBeforeSend, Transition, GiveUp, Crash
  <1>2. CASE Surroundings
    BY <1>2 DEF Surroundings, Tick, InstallBudget, Rebudgeted, Revoke, CreateDecided,
                DeploymentEnds
  <1>3. CASE UNCHANGED vars
    BY <1>3 DEF vars
  <1> QED
    BY <1>3, <1>2, <1>1 DEF Next

\* A job that waits for its swap after a step either waited before it too, or was
\* computed in this step from the state as it is.
LEMMA PendingJobs ==
    ASSUME TypeOK, [Next]_vars, NEW w \in Worker, job'[w].kind \in Pending
    PROVE  job'[w] = job[w] \/ (job'[w].base = db /\ db' = db)
  <1>1. ASSUME NEW v \in Worker, WorkerStep(v)
        PROVE  job'[w] = job[w] \/ (job'[w].base = db /\ db' = db)
    <2>1. CASE v # w
      BY <1>1, <2>1
         DEF TypeOK, WorkerStep, Reserve, PersistReservation, ConfirmReservation, Redeem,
             PersistRedemption, ConfirmRedemption, Submit, RejectBeforeSend, Transition,
             PersistTransition, GiveUp, Crash
    <2>2. CASE v = w
      BY <1>1, <2>2
         DEF TypeOK, WorkerStep, Reserve, PersistReservation, ConfirmReservation, Redeem,
             PersistRedemption, ConfirmRedemption, Submit, RejectBeforeSend, Transition,
             PersistTransition, GiveUp, Crash, Pending, Idle
    <2> QED
      BY <2>1, <2>2
  <1>2. CASE Surroundings
    BY <1>2 DEF Surroundings, Tick, InstallBudget, Revoke, CreateDecided, DeploymentEnds
  <1>3. CASE UNCHANGED vars
    BY <1>3 DEF vars
  <1> QED
    BY <1>3, <1>2, <1>1 DEF Next

\* Revisions keep naming one state each.
LEMMA RevisionStep ==
    ASSUME TypeOK, RevisionIdentifiesState, ProposalsDerived, [Next]_vars
    PROVE  RevisionIdentifiesState'
  <1> SUFFICES ASSUME NEW w \in Worker, job'[w].kind \in Pending
               PROVE  /\ job'[w].base.revision <= db'.revision
                      /\ job'[w].base.revision = db'.revision => job'[w].base = db'
    BY DEF RevisionIdentifiesState
  <1>1. db' \in AdmissionState /\ db \in AdmissionState
    BY NextTypeOK DEF TypeOK
  <1>2. db'.revision \in Nat /\ db.revision \in Nat
    BY <1>1 DEF AdmissionState
  <1>3. CASE job'[w] = job[w]
    <2>1. job[w].base.revision \in Nat
      <3>1. job[w] \in Job
        BY DEF TypeOK
      <3>2. job[w].base \in AdmissionState
        BY <1>3, <3>1, JobFields DEF Pending
      <3> QED
        BY <3>2 DEF AdmissionState
    <2> QED
      BY <2>1, <1>3, <1>2, RevisionAdvances DEF RevisionIdentifiesState
  <1>4. CASE job'[w].base = db /\ db' = db
    BY <1>2, <1>4
  <1> QED
    BY <1>3, <1>4, PendingJobs

----
\* What one step can do to the chain, to a reservation and to a job.
ChainMove(o) ==
    \/ chain'[o] = chain[o]
    \/ chain[o] = "idle" /\ chain'[o] \in {"inflight", "rejected", "failed"}
    \/ chain[o] = "inflight" /\ chain'[o] \in {"live", "failed"}
    \/ chain[o] = "live" /\ chain'[o] = "closed"
    \/ chain[o] = "closed" /\ chain'[o] = "settled"

\* The chain moves forward only; a create is sent or rejected by the holder of
\* its authorisation, while nothing has happened to it yet.
LEMMA ChainMoves ==
    ASSUME TypeOK, AuthorityHeld, [Next]_vars, NEW o \in Op
    PROVE  ChainMove(o)
  <1> USE DEF ChainMove
  <1>1. ASSUME NEW w \in Worker, Submit(w) \/ RejectBeforeSend(w)
        PROVE  ChainMove(o)
    <2>1. job[w].kind = "authorized" /\ job[w] \in Job
      BY <1>1 DEF Submit, RejectBeforeSend, TypeOK
    <2>2. job[w].op \in Op
      BY <2>1, JobFields
    <2>3. chain[job[w].op] = "idle"
      BY <2>1, <2>2 DEF AuthorityHeld, Holds
    <2> QED
      BY <2>3, <2>2, <1>1 DEF Submit, RejectBeforeSend, TypeOK
  <1>2. ASSUME NEW w \in Worker, WorkerStep(w) PROVE ChainMove(o)
    BY <1>1, <1>2
       DEF WorkerStep, Reserve, PersistReservation, ConfirmReservation, Redeem,
           PersistRedemption, ConfirmRedemption, Transition, PersistTransition,
           GiveUp, Crash
  <1>3. CASE Surroundings
    BY <1>3 DEF Surroundings, Tick, InstallBudget, Revoke, CreateDecided, Abandoned,
                DeploymentEnds, TypeOK
  <1>4. CASE UNCHANGED vars
    BY <1>4 DEF vars
  <1> QED
    BY <1>4, <1>3, <1>2 DEF Next

\* Evidence that is true stays true, so it may be presented late.
LEMMA TruthLasts ==
    ASSUME TypeOK, AuthorityHeld, [Next]_vars, NEW st, NEW e \in Lifecycle, Truthful(st, e)
    PROVE  Truthful(st, e)'
  <1>1. /\ e.op \in Op /\ e.kind \in EvidenceKind
        /\ e.kind \in {"committed", "execution_closure", "settlement"} => e.dep \in Op
    BY EvidenceFields
  <1>2. \A o \in Op : ChainMove(o)
    BY ChainMoves
  <1> QED
    BY <1>1, <1>2 DEF Truthful, ChainMove, EvidenceKind

\* The proposals in memory stay derived from their snapshots.
LEMMA ProposalsStep ==
    ASSUME TypeOK, AuthorityHeld, ProposalsDerived, [Next]_vars
    PROVE  ProposalsDerived'
  <1> DEFINE Derived(j, truthful) ==
        /\ j.kind = "reserve" =>
              /\ j.next = ReserveCapacity(j.base, j.request)
              /\ ~Reserved(j.base, j.request.op)
              /\ BudgetsBound(j.base, j.request)
              /\ \A s \in ApplicableBudgets(j.request.scope) :
                    CensusHealthy(j.base, s) /\ WithinCeilings(j.base, s, j.request)
        /\ j.kind = "redeem" =>
              /\ j.next = RedeemCreatePermit(j.base, j.permit, j.shown)
              /\ Redeemable(j.base, j.permit, j.shown, j.base.revision)
        /\ j.kind = "transition" =>
              /\ j.next = TransitionReservation(j.base, j.evidence)
              /\ Transitions(j.base, j.evidence, j.base.revision)
              /\ truthful
  <1> SUFFICES ASSUME NEW w \in Worker
               PROVE  Derived(job'[w], Truthful(job[w].base, job[w].evidence)')
    BY DEF ProposalsDerived, Truthful
  <1>1. ASSUME job'[w] = job[w] PROVE Derived(job'[w], Truthful(job[w].base, job[w].evidence)')
    <2>1. Derived(job[w], Truthful(job[w].base, job[w].evidence))
      BY DEF ProposalsDerived
    <2>2. ASSUME job[w].kind = "transition"
          PROVE  Truthful(job[w].base, job[w].evidence)'
      <3>1. job[w] \in Job
        BY DEF TypeOK
      <3>2. job[w].evidence \in Lifecycle
        BY <2>2, <3>1, JobFields
      <3>3. \A st, e : e \in Lifecycle /\ Truthful(st, e) => Truthful(st, e)'
        BY TruthLasts
      <3>4. Truthful(job[w].base, job[w].evidence)
        BY <2>2, <2>1
      <3>5. PICK st, e : st = job[w].base /\ e = job[w].evidence
        OBVIOUS
      <3>6. Truthful(st, e)'
        BY <3>5, <3>4, <3>3, <3>2
      <3> QED
        BY <3>6, <3>5, <1>1 DEF Truthful
    <2> QED
      BY <2>2, <2>1, <1>1
  <1>2. ASSUME job'[w].kind \notin Pending
        PROVE  Derived(job'[w], Truthful(job[w].base, job[w].evidence)')
    BY <1>2 DEF Pending
  <1>3. ASSUME NEW v \in Worker, WorkerStep(v)
        PROVE  Derived(job'[w], Truthful(job[w].base, job[w].evidence)')
    <2>1. ASSUME NEW r \in Request, NEW x, Reserve(v, r, x), v = w
          PROVE  Derived(job'[w], Truthful(job[w].base, job[w].evidence)')
      <3>1. job'[w] = [kind |-> "reserve", base |-> db, request |-> r,
                       next |-> ReserveCapacity(db, r)]
        BY <2>1 DEF Reserve, TypeOK
      <3>2. /\ BudgetsBound(db, r)
            /\ ~Reserved(db, r.op)
            /\ \A s \in ApplicableBudgets(r.scope) :
                  CensusHealthy(db, s) /\ WithinCeilings(db, s, r)
        BY <2>1 DEF Reserve, Disposition, Admits
      <3> QED
        BY <3>1, <3>2
    <2>2. ASSUME NEW p \in permits, NEW bs, NEW x, Redeem(v, p, bs, x), v = w
          PROVE  Derived(job'[w], Truthful(job[w].base, job[w].evidence)')
      <3>1. job'[w] = [kind |-> "redeem", base |-> db, permit |-> p,
                       shown |-> Present(w, p, bs),
                       next |-> RedeemCreatePermit(db, p, Present(w, p, bs))]
        BY <2>2 DEF Redeem, TypeOK
      <3>2. Redeemable(db, p, Present(w, p, bs), db.revision)
        BY <2>2 DEF Redeem, Redeemable
      <3> QED
        BY <3>1, <3>2
    <2>3. ASSUME NEW e \in Lifecycle, NEW x, Transition(v, e, x), v = w
          PROVE  Derived(job'[w], Truthful(job[w].base, job[w].evidence)')
      <3>1. job'[w] = [kind |-> "transition", base |-> db, evidence |-> e,
                       next |-> TransitionReservation(db, e)]
        BY <2>3 DEF Transition, TypeOK
      <3>2. Transitions(db, e, db.revision) /\ Truthful(db, e)
        BY <2>3 DEF Transition, Transitions
      <3>3. \A st : Truthful(st, e) => Truthful(st, e)'
        BY TruthLasts
      <3>4. job'[w].evidence = e /\ job'[w].base = db
        BY <3>1
      <3>5. Truthful(job[w].base, job[w].evidence)'
        BY <3>4, <3>3, <3>2 DEF Truthful
      <3> QED
        BY <3>5, <3>2, <3>1
    <2>4. CASE v # w
      <3>1. job'[w] = job[w]
        BY <1>3, <2>4
           DEF TypeOK, WorkerStep, Reserve, PersistReservation, ConfirmReservation,
               Redeem, PersistRedemption, ConfirmRedemption, Submit, RejectBeforeSend,
               Transition, PersistTransition, GiveUp, Crash
      <3> QED
        BY <3>1, <1>1
    <2>5. ASSUME v = w,
                 \/ PersistReservation(v) \/ PersistRedemption(v) \/ PersistTransition(v)
                 \/ (\E b \in Broker : ConfirmReservation(v, b) \/ ConfirmRedemption(v, b))
                 \/ Submit(v) \/ RejectBeforeSend(v) \/ GiveUp(v) \/ Crash(v)
          PROVE  Derived(job'[w], Truthful(job[w].base, job[w].evidence)')
      <3>1. job'[w].kind \notin Pending
        BY <2>5
           DEF TypeOK, PersistReservation, ConfirmReservation, PersistRedemption,
               ConfirmRedemption, Submit, RejectBeforeSend, PersistTransition, GiveUp,
               Crash, Pending, Idle
      <3> QED
        BY <3>1, <1>2
    <2> HIDE DEF Derived
    <2> QED
      BY <2>5, <2>4, <2>3, <2>2, <2>1, <1>3 DEF WorkerStep
  <1>4. CASE Surroundings
    <2>1. job'[w] = job[w]
      BY <1>4 DEF Surroundings, Tick, InstallBudget, Revoke, CreateDecided, DeploymentEnds
    <2> QED
      BY <2>1, <1>1
  <1>5. CASE UNCHANGED vars
    <2>1. job'[w] = job[w]
      BY <1>5 DEF vars
    <2> QED
      BY <2>1, <1>1
  <1> HIDE DEF Derived
  <1> QED
    BY <1>5, <1>4, <1>3 DEF Next

----
\* The moves of one reservation.
Enters(o) ==
    /\ db.reservation[o].state = "ABSENT"
    /\ db'.reservation[o].state = "RESERVED"
    /\ db'.reservation[o].request \in Request
    /\ db'.reservation[o].request.op = o
    /\ db'.reservation[o].deployment = NoDeployment
    /\ db'.reservation[o].evidence = [kind |-> "prepared"]

Redeems(o) ==
    /\ db.reservation[o].state = "RESERVED"
    /\ db'.reservation[o].state = "SUBMITTING"
    /\ db'.reservation[o].request = db.reservation[o].request
    /\ db'.reservation[o].deployment = db.reservation[o].deployment
    /\ db'.reservation[o].evidence \in Presentation
    /\ db'.reservation[o].evidence.permit \in permits'
    /\ db'.reservation[o].evidence.permit.op = o
    /\ db'.reservation[o].evidence.permit.prepared = db.reservation[o].request.prepared

TransitionsBy(o, e) ==
    /\ e.op = o
    /\ Truthful(db, e)
    /\ EvidenceBound(db.reservation[o], e)
    /\ TargetState(e) \in AllowedTransitions(db.reservation[o].state)
    /\ db'.reservation[o].state = TargetState(e)
    /\ db'.reservation[o].request = db.reservation[o].request
    /\ db'.reservation[o].deployment = TargetDeployment(db.reservation[o], e)
    /\ db'.reservation[o].evidence = e

ReservationMove(o) ==
    \/ db'.reservation[o] = db.reservation[o]
    \/ Enters(o)
    \/ Redeems(o)
    \/ \E e \in Lifecycle : TransitionsBy(o, e)

\* The swap of a reservation enters its operation and leaves the others alone.
LEMMA PersistReservationMoves ==
    ASSUME Inv, NEW w \in Worker, PersistReservation(w), NEW o \in Op
    PROVE  IF o = job[w].request.op THEN Enters(o) /\ db'.reservation[o].request = job[w].request
                                    ELSE db'.reservation[o] = db.reservation[o]
  <1>1. job[w] \in Job /\ job[w].kind = "reserve" /\ db \in AdmissionState
    BY DEF Inv, TypeOK, PersistReservation
  <1>2. job[w].request \in Request /\ job[w].request.op \in Op
    BY <1>1, JobFields DEF RequestType
  <1>3. job[w].base = db
    BY <1>1 DEF Inv, RevisionIdentifiesState, Pending, PersistReservation
  <1>4. db' = ReserveCapacity(db, job[w].request) /\ ~Reserved(db, job[w].request.op)
    BY <1>1, <1>3 DEF Inv, ProposalsDerived, PersistReservation
  <1>5. db.reservation \in [Op -> Reservation]
    BY <1>1 DEF AdmissionState
  <1> QED
    BY <1>5, <1>4, <1>2 DEF ReserveCapacity, Reserved, Enters

\* The swap of a redemption moves its operation to SUBMITTING.
LEMMA PersistRedemptionMoves ==
    ASSUME Inv, NEW w \in Worker, PersistRedemption(w), NEW o \in Op
    PROVE  IF o = job[w].permit.op THEN Redeems(o)
                                   ELSE db'.reservation[o] = db.reservation[o]
  <1>1. job[w] \in Job /\ job[w].kind = "redeem" /\ db \in AdmissionState
    BY DEF Inv, TypeOK, PersistRedemption
  <1>2. job[w].permit \in Permit /\ job[w].permit.op \in Op
    BY <1>1, JobFields DEF Permit
  <1>3. job[w].base = db
    BY <1>1 DEF Inv, RevisionIdentifiesState, Pending, PersistRedemption
  <1>4. /\ db' = RedeemCreatePermit(db, job[w].permit, job[w].shown)
        /\ db.reservation[job[w].permit.op].state = "RESERVED"
        /\ db.reservation[job[w].permit.op].request.prepared = job[w].permit.prepared
        /\ job[w].shown.permit = job[w].permit
    BY <1>1, <1>3 DEF Inv, ProposalsDerived, PersistRedemption, Redeemable
  <1>5. db.reservation \in [Op -> Reservation]
    BY <1>1 DEF AdmissionState
  <1>6. db.reservation[job[w].permit.op] \in Reservation
    BY <1>2, <1>5
  <1>7. job[w].shown \in Presentation /\ job[w].permit \in permits'
    BY <1>1, JobFields DEF Inv, PermitsBound, PersistRedemption
  <1> QED
    BY <1>7, <1>6, <1>5, <1>4, <1>2 DEF RedeemCreatePermit, Redeems, Reservation

\* The swap of a transition moves its operation as its evidence says.
LEMMA PersistTransitionMoves ==
    ASSUME Inv, NEW w \in Worker, PersistTransition(w), NEW o \in Op
    PROVE  IF o = job[w].evidence.op THEN TransitionsBy(o, job[w].evidence)
                                     ELSE db'.reservation[o] = db.reservation[o]
  <1>1. job[w] \in Job /\ job[w].kind = "transition" /\ db \in AdmissionState
    BY DEF Inv, TypeOK, PersistTransition
  <1>2. job[w].evidence \in Lifecycle /\ job[w].evidence.op \in Op
    BY <1>1, JobFields, EvidenceFields
  <1>3. job[w].base = db
    BY <1>1 DEF Inv, RevisionIdentifiesState, Pending, PersistTransition
  <1>4. /\ db' = TransitionReservation(db, job[w].evidence)
        /\ Transitions(db, job[w].evidence, db.revision)
        /\ Truthful(db, job[w].evidence)
    BY <1>1, <1>3 DEF Inv, ProposalsDerived, PersistTransition
  <1>5. db.reservation \in [Op -> Reservation]
    BY <1>1 DEF AdmissionState
  <1>6. db.reservation[job[w].evidence.op] \in Reservation
    BY <1>2, <1>5
  <1> QED
    BY <1>6, <1>5, <1>4, <1>2
       DEF TransitionReservation, TransitionsBy, Transitions, Reservation

\* In any step a reservation stays, enters, is redeemed or follows its evidence.
LEMMA ReservationMoves ==
    ASSUME Inv, [Next]_vars, NEW o \in Op
    PROVE  ReservationMove(o)
  <1>1. ASSUME NEW w \in Worker, PersistReservation(w) PROVE ReservationMove(o)
    BY <1>1, PersistReservationMoves DEF ReservationMove
  <1>2. ASSUME NEW w \in Worker, PersistRedemption(w) PROVE ReservationMove(o)
    BY <1>2, PersistRedemptionMoves DEF ReservationMove
  <1>3. ASSUME NEW w \in Worker, PersistTransition(w) PROVE ReservationMove(o)
    <2>1. job[w].evidence \in Lifecycle
      BY <1>3, JobFields DEF PersistTransition, Inv, TypeOK
    <2> QED
      BY <1>3, <2>1, PersistTransitionMoves DEF ReservationMove
  <1>4. ASSUME NEW w \in Worker, WorkerStep(w) PROVE ReservationMove(o)
    BY <1>4, <1>3, <1>2, <1>1
       DEF WorkerStep, Reserve, ConfirmReservation, Redeem, ConfirmRedemption, Submit,
           RejectBeforeSend, Transition, GiveUp, Crash, ReservationMove
  <1>5. CASE Surroundings
    BY <1>5 DEF Surroundings, Tick, InstallBudget, Rebudgeted, Revoke, CreateDecided,
                DeploymentEnds, ReservationMove
  <1>6. CASE UNCHANGED vars
    BY <1>6 DEF vars, ReservationMove
  <1> QED
    BY <1>6, <1>5, <1>4 DEF Next


\* The evidence of a transition that is persisted names the operation's own create
\* or deployment, so it is true of what became of that.
LEMMA TruthOfMove ==
    ASSUME Inv, NEW o \in Op, NEW e \in Lifecycle, TransitionsBy(o, e)
    PROVE  /\ e.op = o /\ e.kind \in EvidenceKind
           /\ db.reservation[o].state # "ABSENT"
           /\ e.kind = "rejected_before_send" => chain[o] = "rejected"
           /\ e.kind = "fallback_safe" => chain[o] \in {"rejected", "failed"}
           /\ e.kind = "committed" =>
                 e.dep = o /\ chain[o] \in {"live", "closed", "settled"}
           /\ e.kind \in {"execution_closure", "settlement"} =>
                 e.dep = o /\ db.reservation[o].deployment = o
           /\ e.kind = "execution_closure" => chain[o] \in {"closed", "settled"}
           /\ e.kind = "settlement" => chain[o] = "settled"
  <1>1. e.op = o /\ e.kind \in EvidenceKind
    BY EvidenceFields DEF TransitionsBy
  <1>2. db.reservation[o].state # "ABSENT"
    BY DEF TransitionsBy, AllowedTransitions
  <1>3. /\ NamesPrepared(db.reservation[o].request.prepared, e)
        /\ e.kind = "committed" => e.dep = db.reservation[o].request.op
        /\ e.kind \in {"execution_closure", "settlement"} =>
              /\ db.reservation[o].deployment # NoDeployment
              /\ e.dep = db.reservation[o].deployment
    BY DEF TransitionsBy, EvidenceBound
  <1>4. /\ db.reservation[o].request.op = o
        /\ db.reservation[o].deployment # NoDeployment => db.reservation[o].deployment = o
    BY <1>2 DEF Inv, ReservationsFollowChain
  <1>5. Truthful(db, e)
    BY DEF TransitionsBy
  <1> QED
    BY <1>5, <1>4, <1>3, <1>2, <1>1 DEF Truthful

\* A step that moves the chain leaves the persisted state alone.
LEMMA ChainOrDb == ASSUME [Next]_vars PROVE db' = db \/ chain' = chain
  <1>1. ASSUME NEW w \in Worker, WorkerStep(w) PROVE db' = db \/ chain' = chain
    BY <1>1
       DEF WorkerStep, Reserve, PersistReservation, ConfirmReservation, Redeem,
           PersistRedemption, ConfirmRedemption, Submit, RejectBeforeSend, Transition,
           PersistTransition, GiveUp, Crash
  <1>2. CASE Surroundings
    BY <1>2 DEF Surroundings, Tick, InstallBudget, Revoke, CreateDecided, DeploymentEnds
  <1>3. CASE UNCHANGED vars
    BY <1>3 DEF vars
  <1> QED
    BY <1>3, <1>2, <1>1 DEF Next

\* Nobody is unreserved, and nobody's request is rewritten.
LEMMA ReservedStays ==
    ASSUME Inv, [Next]_vars, NEW o \in Op, Reserved(db, o)
    PROVE  Reserved(db, o)' /\ db'.reservation[o].request = db.reservation[o].request
  <1>1. ReservationMove(o)
    BY ReservationMoves
  <1>2. ASSUME NEW e \in Lifecycle PROVE TargetState(e) # "ABSENT"
    BY EvidenceFields DEF EvidenceKind, TargetState
  <1> QED
    BY <1>1, <1>2 DEF ReservationMove, Reserved, Enters, Redeems, TransitionsBy

JobMove(w) ==
    \/ job'[w] = job[w]
    \/ job'[w].kind \in {"idle", "reserve", "transition"}
    \/ PersistReservation(w)
    \/ \E p \in permits : job'[w].kind = "redeem" /\ job'[w].permit = p /\ UNCHANGED permits
    \/ PersistRedemption(w)
    \/ \E b \in Broker : ConfirmRedemption(w, b)

\* The ways in which what a worker holds may change.
LEMMA JobMoves ==
    ASSUME TypeOK, [Next]_vars, NEW w \in Worker
    PROVE  JobMove(w)
  <1> USE DEF JobMove
  <1>1. ASSUME NEW v \in Worker, WorkerStep(v) PROVE JobMove(w)
    <2>1. CASE v # w
      <3>1. job'[w] = job[w]
        BY <1>1, <2>1
           DEF TypeOK, WorkerStep, Reserve, PersistReservation, ConfirmReservation,
               Redeem, PersistRedemption, ConfirmRedemption, Submit, RejectBeforeSend,
               Transition, PersistTransition, GiveUp, Crash
      <3> QED
        BY <3>1
    <2>2. ASSUME v = w, NEW p \in permits, NEW bs, NEW x, Redeem(v, p, bs, x)
          PROVE  JobMove(w)
      <3>1. job'[w].kind = "redeem" /\ job'[w].permit = p /\ UNCHANGED permits
        BY <2>2 DEF Redeem, TypeOK
      <3> QED
        BY <3>1
    <2>3. ASSUME v = w,
                 \/ \E r \in Request, x \in SeenRevisions : Reserve(v, r, x)
                 \/ \E e \in Lifecycle, x \in SeenRevisions : Transition(v, e, x)
                 \/ \E b \in Broker : ConfirmReservation(v, b)
                 \/ Submit(v) \/ RejectBeforeSend(v) \/ PersistTransition(v)
                 \/ GiveUp(v) \/ Crash(v)
          PROVE  JobMove(w)
      <3>1. job'[w].kind \in {"idle", "reserve", "transition"}
        BY <2>3 DEF TypeOK, Reserve, Transition, ConfirmReservation, Submit,
                    RejectBeforeSend, PersistTransition, GiveUp, Crash, Idle
      <3> QED
        BY <3>1
    <2> QED
      BY <2>3, <2>2, <2>1, <1>1 DEF WorkerStep
  <1>2. CASE Surroundings
    BY <1>2 DEF Surroundings, Tick, InstallBudget, Revoke, CreateDecided, DeploymentEnds
  <1>3. CASE UNCHANGED vars
    BY <1>3 DEF vars
  <1> QED
    BY <1>3, <1>2, <1>1 DEF Next

----
\* Permits and authorisations belong to reservations.
PermitsMove ==
    \/ permits' = permits
    \/ \E w \in Worker, b \in Broker : ConfirmReservation(w, b)

\* Only a confirmed reservation issues a permit.
LEMMA PermitsMoves == ASSUME [Next]_vars PROVE PermitsMove
  <1>1. ASSUME NEW w \in Worker, WorkerStep(w) PROVE PermitsMove
    BY <1>1
       DEF WorkerStep, Reserve, PersistReservation, Redeem,
           PersistRedemption, ConfirmRedemption, Submit, RejectBeforeSend, Transition,
           PersistTransition, GiveUp, Crash, PermitsMove
  <1>2. CASE Surroundings
    BY <1>2 DEF Surroundings, Tick, InstallBudget, Revoke, CreateDecided,
                DeploymentEnds, PermitsMove
  <1>3. CASE UNCHANGED vars
    BY <1>3 DEF vars, PermitsMove
  <1> QED
    BY <1>3, <1>2, <1>1 DEF Next

\* A permit expires with the exposure evidence of its request at the latest.
LEMMA PermitExpiry ==
    ASSUME NEW r \in Request, NEW st \in AdmissionState, NEW at \in Nat,
           NEW b \in Broker, RequiredBudgets(r.scope)
    PROVE  /\ IssuePermit(r, st, at, b).op = r.op
           /\ IssuePermit(r, st, at, b).validUntil <= r.validUntil
  <1>1. r.scope \in Leaf /\ r.validUntil \in Nat
    BY DEF RequestType
  <1>2. r.scope \in Budgeted /\ OwnerOf[r.scope] \in Budgeted
    BY DEF RequiredBudgets, ApplicableBudgets
  <1>3. st.budgets[r.scope] \in Budget /\ st.budgets[OwnerOf[r.scope]] \in Budget
    BY <1>2 DEF AdmissionState
  <1>4. /\ BudgetExpiry(st, r.scope) \in Nat
        /\ BudgetExpiry(st, OwnerOf[r.scope]) \in Nat
    BY <1>3 DEF BudgetExpiry, Least, Budget, Limits, Census
  <1>5. b.validUntil \in Nat
    BY DEF AuthenticatedBroker
  <1> QED
    BY <1>5, <1>4, <1>1 DEF IssuePermit, Least

\* Permits stay bound to reservations.
LEMMA PermitsStep == ASSUME Inv, [Next]_vars PROVE PermitsBound'
  <1>0. TypeOK /\ PermitsBound
    BY DEF Inv
  <1>1. ASSUME NEW p \in permits'
        PROVE  Reserved(db, p.op)' /\ p.validUntil <= db'.reservation[p.op].request.validUntil
    <2>1. CASE p \in permits
      <3>1. p.op \in Op
        BY <1>0, <2>1 DEF TypeOK, Permit
      <3>2. Reserved(db, p.op) /\ p.validUntil <= db.reservation[p.op].request.validUntil
        BY <1>0, <2>1 DEF PermitsBound
      <3> QED
        BY <3>1, <3>2, ReservedStays
    <2>2. CASE p \notin permits
      <3>1. PICK w \in Worker, b \in Broker : ConfirmReservation(w, b)
        BY <1>1, <2>2, PermitsMoves DEF PermitsMove
      <3>2. job[w] \in Job /\ job[w].kind = "reserved"
        BY <1>0, <3>1 DEF ConfirmReservation, TypeOK
      <3>3. /\ job[w].request \in Request /\ job[w].persisted \in AdmissionState
            /\ job[w].at \in Nat
        BY <3>2, JobFields
      <3>4. RequiredBudgets(job[w].request.scope)
        BY <3>1 DEF ConfirmReservation, ReservationConfirmedBy, ConfirmsReservation,
                    BudgetBindingComplete
      <3>5. p = IssuePermit(job[w].request, job[w].persisted, job[w].at, b)
        BY <3>1, <2>2, <1>1 DEF ConfirmReservation
      <3>6. p.op = job[w].request.op /\ p.validUntil <= job[w].request.validUntil
        BY <3>5, <3>4, <3>3, PermitExpiry
      <3>7. /\ db.reservation[job[w].request.op].state # "ABSENT"
            /\ db.reservation[job[w].request.op].request = job[w].request
        BY <1>0, <3>2 DEF PermitsBound
      <3>8. db' = db
        BY <3>1 DEF ConfirmReservation
      <3> QED
        BY <3>8, <3>7, <3>6 DEF Reserved
    <2> QED
      BY <2>1, <2>2
  <1>2. ASSUME NEW w \in Worker, job'[w].kind = "reserved"
        PROVE  /\ job'[w].persisted = job'[w].next
               /\ db'.reservation[job'[w].request.op].state # "ABSENT"
               /\ db'.reservation[job'[w].request.op].request = job'[w].request
    <2>1. CASE job'[w] = job[w]
      <3>1. job[w] \in Job /\ job[w].kind = "reserved"
        BY <2>1, <1>2, <1>0 DEF TypeOK
      <3>2. job[w].request \in Request /\ job[w].request.op \in Op
        BY <3>1, JobFields DEF RequestType
      <3>3. /\ job[w].persisted = job[w].next
            /\ Reserved(db, job[w].request.op)
            /\ db.reservation[job[w].request.op].request = job[w].request
        BY <1>0, <3>1 DEF PermitsBound, Reserved
      <3>4. /\ Reserved(db', job[w].request.op)
            /\ db'.reservation[job[w].request.op].request = job[w].request
        BY <3>2, <3>3, ReservedStays DEF Reserved
      <3> QED
        BY <3>4, <3>3, <2>1 DEF Reserved
    <2>2. CASE PersistReservation(w)
      <3>1. job[w] \in Job /\ job[w].kind = "reserve"
        BY <1>0, <2>2 DEF PersistReservation, TypeOK
      <3>2. job[w].request.op \in Op
        BY <3>1, JobFields DEF RequestType
      <3>3. /\ Enters(job[w].request.op)
            /\ db'.reservation[job[w].request.op].request = job[w].request
        BY <2>2, <3>2, PersistReservationMoves
      <3>4. /\ job'[w].persisted = job'[w].next
            /\ job'[w].request = job[w].request
        BY <1>0, <2>2 DEF PersistReservation, TypeOK
      <3> QED
        BY <3>3, <3>4 DEF Enters
    <2>3. PersistRedemption(w) => job'[w].kind = "redeemed"
      BY <1>0 DEF PersistRedemption, TypeOK
    <2>4. \A b \in Broker : ConfirmRedemption(w, b) => job'[w].kind = "authorized"
      BY <1>0 DEF ConfirmRedemption, TypeOK
    <2> QED
      BY <2>4, <2>3, <2>2, <2>1, <1>2, <1>0, JobMoves DEF JobMove
  <1>3. ASSUME NEW w \in Worker, job'[w].kind \in {"redeem", "redeemed"}
        PROVE  job'[w].permit \in permits'
    <2>1. permits \subseteq permits'
      BY PermitsMoves DEF PermitsMove, ConfirmReservation
    <2>2. CASE job'[w] = job[w]
      BY <2>2, <2>1, <1>3, <1>0 DEF PermitsBound
    <2>3. PersistReservation(w) => job'[w].kind = "reserved"
      BY <1>0 DEF PersistReservation, TypeOK
    <2>4. CASE PersistRedemption(w)
      BY <2>4, <2>1, <1>0 DEF PersistRedemption, TypeOK, PermitsBound
    <2>5. \A b \in Broker : ConfirmRedemption(w, b) => job'[w].kind = "authorized"
      BY <1>0 DEF ConfirmRedemption, TypeOK
    <2> QED
      BY <2>5, <2>4, <2>3, <2>2, <2>1, <1>3, <1>0, JobMoves DEF JobMove
  <1> QED
    BY <1>3, <1>2, <1>1 DEF PermitsBound, Reserved


\* Authorisations are issued, and stay, within their reservation's validity.
LEMMA AuthorizedStep == ASSUME Inv, [Next]_vars PROVE AuthorizedInTime'
  <1> SUFFICES ASSUME NEW w \in Worker, job'[w].kind = "authorized"
               PROVE  /\ Reserved(db', job'[w].op)
                      /\ job'[w].issuedAt <= db'.reservation[job'[w].op].request.validUntil
    BY DEF AuthorizedInTime, Reserved
  <1>0. TypeOK /\ PermitsBound /\ AuthorizedInTime /\ ReservationsFollowChain
    BY DEF Inv
  <1>1. CASE job'[w] = job[w]
    <2>1. job[w] \in Job /\ job[w].kind = "authorized"
      BY <1>0, <1>1 DEF TypeOK
    <2>2. job[w].op \in Op
      BY <2>1, JobFields
    <2>3. /\ Reserved(db, job[w].op)
          /\ job[w].issuedAt <= db.reservation[job[w].op].request.validUntil
      BY <1>0, <2>1 DEF AuthorizedInTime
    <2>4. /\ Reserved(db', job[w].op)
          /\ db'.reservation[job[w].op].request = db.reservation[job[w].op].request
      BY <2>2, <2>3, ReservedStays DEF Reserved
    <2> QED
      BY <2>4, <2>3, <1>1
  <1>2. ASSUME NEW b \in Broker, ConfirmRedemption(w, b)
        PROVE  /\ Reserved(db', job'[w].op)
               /\ job'[w].issuedAt <= db'.reservation[job'[w].op].request.validUntil
    <2>1. job[w] \in Job /\ job[w].kind = "redeemed"
      BY <1>0, <1>2 DEF ConfirmRedemption, TypeOK
    <2>2. job[w].permit \in Permit /\ job[w].at \in Nat /\ job[w].permit \in permits
      BY <1>0, <2>1, JobFields DEF PermitsBound
    <2>3. job[w].permit.op \in Op /\ job[w].permit.validUntil \in Nat
      BY <2>2 DEF Permit
    <2>4. /\ Reserved(db, job[w].permit.op)
          /\ job[w].permit.validUntil
                <= db.reservation[job[w].permit.op].request.validUntil
      BY <1>0, <2>2 DEF PermitsBound
    <2>5. db.reservation[job[w].permit.op].request.validUntil \in Nat
      BY <2>4, <2>3, <1>0 DEF ReservationsFollowChain, Reserved, RequestType
    <2>6. job[w].at <= job[w].permit.validUntil
      BY <1>2 DEF ConfirmRedemption, RedemptionConfirmedBy, ConfirmsRedemption
    <2>7. /\ db' = db
          /\ job'[w].op = job[w].permit.op
          /\ job'[w].issuedAt = job[w].at
      BY <1>0, <1>2 DEF ConfirmRedemption, TypeOK
    <2> QED
      BY <2>7, <2>6, <2>5, <2>4, <2>3, <2>2
  <1>3. /\ PersistReservation(w) => job'[w].kind = "reserved"
        /\ PersistRedemption(w) => job'[w].kind = "redeemed"
    BY <1>0 DEF PersistReservation, PersistRedemption, TypeOK
  <1> QED
    BY <1>3, <1>2, <1>1, <1>0, JobMoves DEF JobMove

----
\* The authority to send.
OpenStates == {"SUBMITTING", "CREATE_OUTCOME_UNKNOWN"}

\* A worker keeps its authority or takes it by the swap of a redemption.
LEMMA HoldersMove ==
    ASSUME Inv, [Next]_vars, NEW o \in Op, NEW w \in Worker, Holds(w, o)'
    PROVE  \/ Holds(w, o)
           \/ PersistRedemption(w) /\ job[w].permit.op = o
  <1>0. TypeOK
    BY DEF Inv
  <1>1. CASE job'[w] = job[w]
    BY <1>1 DEF Holds
  <1>2. PersistReservation(w) => job'[w].kind = "reserved"
    BY <1>0 DEF PersistReservation, TypeOK
  <1>3. CASE PersistRedemption(w)
    BY <1>0, <1>3 DEF PersistRedemption, TypeOK, Holds
  <1>4. ASSUME NEW b \in Broker, ConfirmRedemption(w, b) PROVE Holds(w, o)
    BY <1>0, <1>4 DEF ConfirmRedemption, TypeOK, Holds
  <1> QED
    BY <1>4, <1>3, <1>2, <1>1, <1>0, JobMoves DEF JobMove, Holds

\* Nothing happens to a create before its permit is redeemed.
LEMMA IdleUntilRedeemed ==
    ASSUME Inv, [Next]_vars, NEW o \in Op, chain'[o] # chain[o], chain[o] = "idle"
    PROVE  /\ db.reservation[o].state \in OpenStates
           /\ db' = db
           /\ \A w \in Worker : ~Holds(w, o)'
           /\ sends[o] = 0
           /\ sends'[o] \in {0, 1}
  <1>0. TypeOK /\ AuthorityHeld
    BY DEF Inv
  <1>1. sends[o] = 0
    BY <1>0 DEF AuthorityHeld
  <1>2. ASSUME NEW w \in Worker, Submit(w) \/ RejectBeforeSend(w)
        PROVE  /\ db.reservation[o].state \in OpenStates
               /\ db' = db
               /\ \A v \in Worker : ~Holds(v, o)'
               /\ sends'[o] \in {0, 1}
    <2>1. job[w].kind = "authorized" /\ job[w].op = o
      BY <1>0, <1>2 DEF Submit, RejectBeforeSend, TypeOK
    <2>2. Holds(w, o)
      BY <2>1 DEF Holds
    <2>3. /\ db.reservation[o].state \in OpenStates
          /\ \A v \in Worker : Holds(v, o) => v = w
      BY <1>0, <2>2 DEF AuthorityHeld, OpenStates
    <2>4. db' = db /\ sends'[o] \in {0, 1} /\ job'[w] = Idle
      BY <2>1, <1>2, <1>1, <1>0 DEF Submit, RejectBeforeSend, TypeOK
    <2>5. \A v \in Worker : v # w => job'[v] = job[v]
      BY <1>0, <1>2 DEF Submit, RejectBeforeSend, TypeOK
    <2> QED
      BY <2>5, <2>4, <2>3 DEF Holds, Idle
  <1>3. ASSUME NEW q \in Op, CreateDecided(q) \/ DeploymentEnds(q)
        PROVE  /\ db.reservation[o].state \in OpenStates
               /\ db' = db
               /\ \A v \in Worker : ~Holds(v, o)'
               /\ sends'[o] \in {0, 1}
    <2>1. Abandoned(o) /\ UNCHANGED <<db, job, sends>>
      BY <1>0, <1>3 DEF CreateDecided, DeploymentEnds, TypeOK
    <2> QED
      BY <1>1, <2>1 DEF Abandoned, OpenStates, Holds
  <1>4. ASSUME NEW w \in Worker, WorkerStep(w)
        PROVE  Submit(w) \/ RejectBeforeSend(w)
    BY <1>4
       DEF WorkerStep, Reserve, PersistReservation, ConfirmReservation, Redeem,
           PersistRedemption, ConfirmRedemption, Transition, PersistTransition,
           GiveUp, Crash
  <1>5. ASSUME Surroundings PROVE \E q \in Op : CreateDecided(q) \/ DeploymentEnds(q)
    BY <1>5 DEF Surroundings, Tick, InstallBudget, Revoke
  <1>6. CASE UNCHANGED vars
    BY <1>6 DEF vars
  <1> QED
    BY <1>6, <1>5, <1>4, <1>3, <1>2, <1>1 DEF Next

\* Creates are counted when the chain first sees them, and never again.
LEMMA SendsMove ==
    ASSUME Inv, [Next]_vars, NEW o \in Op
    PROVE  sends'[o] = sends[o] \/ (chain[o] = "idle" /\ chain'[o] = "inflight")
  <1>0. TypeOK /\ AuthorityHeld
    BY DEF Inv
  <1>1. ASSUME NEW w \in Worker, Submit(w)
        PROVE  sends'[o] = sends[o] \/ (chain[o] = "idle" /\ chain'[o] = "inflight")
    <2>1. job[w].op = o => chain[o] = "idle"
      BY <1>0, <1>1 DEF Submit, AuthorityHeld, Holds
    <2> QED
      BY <2>1, <1>1, <1>0 DEF Submit, TypeOK
  <1>2. ASSUME NEW w \in Worker, WorkerStep(w), ~Submit(w) PROVE sends'[o] = sends[o]
    BY <1>2
       DEF WorkerStep, Reserve, PersistReservation, ConfirmReservation, Redeem,
           PersistRedemption, ConfirmRedemption, RejectBeforeSend, Transition,
           PersistTransition, GiveUp, Crash
  <1>3. CASE Surroundings
    BY <1>3 DEF Surroundings, Tick, InstallBudget, Revoke, CreateDecided, DeploymentEnds
  <1>4. CASE UNCHANGED vars
    BY <1>4 DEF vars
  <1> QED
    BY <1>4, <1>3, <1>2, <1>1 DEF Next

\* True evidence about a create that nothing happened to yet can only be that
\* its outcome is unknown.
LEMMA IdleKeepsOpen ==
    ASSUME Inv, [Next]_vars, NEW o \in Op, chain[o] = "idle",
           db.reservation[o].state \in OpenStates
    PROVE  db'.reservation[o].state \in OpenStates
  <1>1. ASSUME NEW e \in Lifecycle, TransitionsBy(o, e)
        PROVE  db'.reservation[o].state \in OpenStates
    <2>2. e.kind \in {"unknown", "execution_closure", "settlement"}
      BY <1>1, TruthOfMove DEF EvidenceKind
    <2>3. TargetState(e) \in AllowedTransitions(db.reservation[o].state)
      BY <1>1 DEF TransitionsBy
    <2>4. e.kind = "unknown"
      BY <2>2, <2>3 DEF TargetState, AllowedTransitions, OpenStates
    <2> QED
      BY <1>1, <2>4 DEF TransitionsBy, TargetState, OpenStates
  <1> QED
    BY <1>1, ReservationMoves DEF ReservationMove, Enters, Redeems, OpenStates

\* The authority to send stays exclusive.
LEMMA AuthorityStep == ASSUME Inv, [Next]_vars PROVE AuthorityHeld'
  <1>0. TypeOK /\ AuthorityHeld /\ ReservationsFollowChain
    BY DEF Inv
  <1> SUFFICES ASSUME NEW o \in Op
               PROVE  /\ sends'[o] <= 1
                      /\ chain'[o] = "idle" => sends'[o] = 0
                      /\ \A w \in Worker : Holds(w, o)' =>
                            /\ chain'[o] = "idle"
                            /\ db'.reservation[o].state \in OpenStates
                            /\ \A v \in Worker : Holds(v, o)' => v = w
    BY DEF AuthorityHeld, OpenStates, Holds
  <1>1. sends'[o] <= 1 /\ (chain'[o] = "idle" => sends'[o] = 0)
    <2>1. CASE sends'[o] = sends[o]
      <3>1. chain'[o] = "idle" => chain[o] = "idle"
        BY <1>0, ChainMoves DEF ChainMove
      <3> QED
        BY <3>1, <2>1, <1>0 DEF AuthorityHeld
    <2>2. CASE chain[o] = "idle" /\ chain'[o] = "inflight"
      BY <2>2, IdleUntilRedeemed
    <2> QED
      BY <2>1, <2>2, SendsMove
  <1>2. ASSUME NEW w \in Worker, PersistRedemption(w), job[w].permit.op = o
        PROVE  /\ chain'[o] = "idle"
               /\ db'.reservation[o].state \in OpenStates
               /\ db.reservation[o].state = "RESERVED"
               /\ \A v \in Worker : v # w => ~PersistRedemption(v) \/ ~Holds(v, o)'
    <2>1. Redeems(o)
      BY <1>2, PersistRedemptionMoves
    <2>2. chain[o] = "idle"
      BY <1>0, <2>1 DEF Redeems, ReservationsFollowChain, StatesGiven, TypeOK, ChainState,
                        BoundStates
    <2>3. chain' = chain
      BY <1>2 DEF PersistRedemption
    <2>4. ASSUME NEW v \in Worker, v # w, PersistRedemption(v) PROVE ~Holds(v, o)'
      BY <2>4, <1>2, <1>0 DEF PersistRedemption, Holds, TypeOK
    <2> QED
      BY <2>4, <2>3, <2>2, <2>1 DEF Redeems, OpenStates
  <1>3. ASSUME NEW w \in Worker, Holds(w, o)', Holds(w, o)
        PROVE  /\ chain'[o] = "idle"
               /\ db'.reservation[o].state \in OpenStates
               /\ \A v \in Worker : Holds(v, o)' => v = w
    <2>1. /\ chain[o] = "idle" /\ db.reservation[o].state \in OpenStates
          /\ \A v \in Worker : Holds(v, o) => v = w
      BY <1>0, <1>3 DEF AuthorityHeld, OpenStates
    <2>2. chain'[o] = "idle"
      BY <1>3, <2>1, IdleUntilRedeemed
    <2>3. db'.reservation[o].state \in OpenStates
      BY <2>1, IdleKeepsOpen
    <2>4. ASSUME NEW v \in Worker, Holds(v, o)' PROVE v = w
      <3>1. ~(PersistRedemption(v) /\ job[v].permit.op = o)
        BY <1>2, <2>1 DEF OpenStates
      <3> QED
        BY <3>1, <2>4, <2>1, HoldersMove
    <2> QED
      BY <2>4, <2>3, <2>2
  <1>4. ASSUME NEW w \in Worker, Holds(w, o)', ~Holds(w, o)
        PROVE  /\ chain'[o] = "idle"
               /\ db'.reservation[o].state \in OpenStates
               /\ \A v \in Worker : Holds(v, o)' => v = w
    <2>1. PersistRedemption(w) /\ job[w].permit.op = o
      BY <1>4, HoldersMove
    <2>2. db.reservation[o].state = "RESERVED"
      BY <1>2, <2>1
    <2>3. \A v \in Worker : ~Holds(v, o)
      BY <1>0, <2>2 DEF AuthorityHeld
    <2> QED
      BY <2>3, <2>1, <1>2, HoldersMove
  <1> QED
    BY <1>4, <1>3, <1>1

----
\* Reservations never run ahead of the chain.

\* Every step keeps reservations behind the chain and bound to their operation.
LEMMA FollowStep == ASSUME Inv, [Next]_vars PROVE ReservationsFollowChain'
  <1>0. TypeOK /\ ReservationsFollowChain /\ AuthorityHeld
    BY DEF Inv
  <1> SUFFICES ASSUME NEW o \in Op
               PROVE  /\ db'.reservation[o].state \in StatesGiven(chain'[o])
                      /\ db'.reservation[o].state # "ABSENT" =>
                            /\ db'.reservation[o].request \in Request
                            /\ db'.reservation[o].request.op = o
                      /\ db'.reservation[o].deployment # NoDeployment =>
                            /\ db'.reservation[o].deployment = o
                            /\ db'.reservation[o].state \in BoundStates
    BY DEF ReservationsFollowChain
  <1>1. /\ db.reservation[o].state \in StatesGiven(chain[o])
        /\ db.reservation[o].state # "ABSENT" =>
              db.reservation[o].request \in Request /\ db.reservation[o].request.op = o
        /\ db.reservation[o].deployment # NoDeployment =>
              db.reservation[o].deployment = o /\ db.reservation[o].state \in BoundStates
        /\ chain[o] \in ChainState
    BY <1>0 DEF ReservationsFollowChain, TypeOK
  <1>2. CASE db' = db
    <2>1. ChainMove(o)
      BY <1>0, ChainMoves
    <2>2. chain'[o] # chain[o] /\ chain[o] = "idle" =>
              db.reservation[o].state \in OpenStates
      BY IdleUntilRedeemed
    <2>3. db.reservation[o].state \in StatesGiven(chain'[o])
      BY <2>2, <2>1, <1>1 DEF ChainMove, StatesGiven, OpenStates, BoundStates, ChainState
    <2> QED
      BY <2>3, <1>2, <1>1
  <1>3. CASE chain' = chain
    <2>1. CASE db'.reservation[o] = db.reservation[o]
      BY <2>1, <1>3, <1>1
    <2>2. CASE Enters(o)
      <3>1. chain[o] = "idle"
        BY <1>1, <2>2 DEF Enters, StatesGiven, BoundStates, ChainState
      <3> QED
        BY <3>1, <2>2, <1>3 DEF Enters, StatesGiven
    <2>3. CASE Redeems(o)
      <3>1. chain[o] = "idle"
        BY <1>1, <2>3 DEF Redeems, StatesGiven, BoundStates, ChainState
      <3> QED
        BY <3>1, <2>3, <1>3, <1>1 DEF Redeems, StatesGiven, BoundStates
    <2>4. ASSUME NEW e \in Lifecycle, TransitionsBy(o, e)
          PROVE  /\ TargetState(e) \in StatesGiven(chain[o])
                 /\ db.reservation[o].state # "ABSENT"
                 /\ TargetDeployment(db.reservation[o], e) # NoDeployment =>
                        /\ TargetDeployment(db.reservation[o], e) = o
                        /\ TargetState(e) \in BoundStates
      <3>1. /\ e.kind \in EvidenceKind /\ e.op = o
            /\ e.kind = "rejected_before_send" => chain[o] = "rejected"
            /\ e.kind = "fallback_safe" => chain[o] \in {"rejected", "failed"}
            /\ e.kind = "committed" =>
                  e.dep = o /\ chain[o] \in {"live", "closed", "settled"}
            /\ e.kind = "execution_closure" => chain[o] \in {"closed", "settled"}
            /\ e.kind = "settlement" => chain[o] = "settled"
        BY <2>4, TruthOfMove
      <3>2. TargetState(e) \in AllowedTransitions(db.reservation[o].state)
        BY <2>4 DEF TransitionsBy
      <3>3. CASE e.kind = "unknown"
        BY <3>3, <3>2, <3>1, <1>1
           DEF TargetState, TargetDeployment, AllowedTransitions, StatesGiven, ChainState,
               BoundStates
      <3>4. CASE e.kind \in {"rejected_before_send", "fallback_safe"}
        BY <3>4, <3>2, <3>1, <1>1
           DEF TargetState, TargetDeployment, AllowedTransitions, StatesGiven
      <3>5. CASE e.kind = "committed"
        BY <3>5, <3>2, <3>1, <1>1
           DEF TargetState, TargetDeployment, AllowedTransitions, StatesGiven, BoundStates
      <3>6. CASE e.kind = "execution_closure"
        <4>1. chain[o] \in {"closed", "settled"}
          BY <3>6, <3>2, <3>1, <1>1
        <4> QED
          BY <4>1, <3>6, <3>2, <1>1
             DEF TargetState, TargetDeployment, AllowedTransitions, StatesGiven, BoundStates
      <3>7. CASE e.kind = "settlement"
        <4>1. chain[o] = "settled"
          BY <3>7, <3>2, <3>1, <1>1
        <4> QED
          BY <4>1, <3>7, <3>2, <1>1
             DEF TargetState, TargetDeployment, AllowedTransitions, StatesGiven, BoundStates
      <3> QED
        BY <3>7, <3>6, <3>5, <3>4, <3>3, <3>1 DEF EvidenceKind
    <2>5. CASE \E e \in Lifecycle : TransitionsBy(o, e)
      BY <2>5, <2>4, <1>3, <1>1 DEF TransitionsBy
    <2> QED
      BY <2>5, <2>3, <2>2, <2>1, ReservationMoves DEF ReservationMove
  <1> QED
    BY <1>2, <1>3, ChainOrDb

----
\* The inductive invariant and what follows from it.

\* The initial state satisfies the inductive invariant.
LEMMA InitInv == Init => Inv
  <1> SUFFICES ASSUME Init PROVE Inv
    OBVIOUS
  <1>1. TypeOK
    BY InitTypeOK
  <1>2. \A w \in Worker : job[w].kind = "idle"
    BY DEF Init, Idle
  <1>3. RevisionIdentifiesState /\ ProposalsDerived /\ AuthorizedInTime
    BY <1>2 DEF RevisionIdentifiesState, Pending, ProposalsDerived, AuthorizedInTime
  <1>4. PermitsBound
    BY <1>2 DEF PermitsBound, Init
  <1>5. AuthorityHeld
    BY <1>2 DEF AuthorityHeld, Holds, Init
  <1>6. ReservationsFollowChain
    BY DEF ReservationsFollowChain, Init, NoReservation, StatesGiven
  <1> QED
    BY <1>6, <1>5, <1>4, <1>3, <1>1 DEF Inv

\* Every step preserves the inductive invariant.
LEMMA NextInv == Inv /\ [Next]_vars => Inv'
  <1> SUFFICES ASSUME Inv, [Next]_vars PROVE Inv'
    OBVIOUS
  <1>1. /\ TypeOK /\ RevisionIdentifiesState /\ ProposalsDerived /\ AuthorityHeld
    BY DEF Inv
  <1>2. TypeOK'
    BY <1>1, NextTypeOK
  <1>3. RevisionIdentifiesState'
    BY <1>1, RevisionStep
  <1>4. ProposalsDerived'
    BY <1>1, ProposalsStep
  <1> QED
    BY <1>4, <1>3, <1>2, PermitsStep, AuthorityStep, FollowStep, AuthorizedStep DEF Inv

\* The inductive invariant holds of every behaviour of the broker.
THEOREM Invariance == Spec => []Inv
  <1>1. Inv /\ [Next]_vars => Inv'
    BY NextInv
  <1> QED
    BY InitInv, <1>1, PTL DEF Spec

\* Compare-and-swap on the revision alone overwrites nothing that the worker did
\* not see (the broker's persistence contract of reserve_capacity,
\* redeem_create_permit and transition_reservation).
THEOREM RevisionsIdentify == Spec => []RevisionIdentifiesState
  <1>1. Inv => RevisionIdentifiesState
    BY DEF Inv
  <1> QED
    BY <1>1, Invariance, PTL

\* One network submission per operation, for any number of workers and crashes.
THEOREM AtMostOneSubmission == Spec => []SubmittedOnce
  <1>1. Inv => SubmittedOnce
    BY DEF Inv, AuthorityHeld, SubmittedOnce
  <1> QED
    BY <1>1, Invariance, PTL

\* A submission authorisation has one holder, before the send, in time.
THEOREM ExclusiveAuthority == Spec => []AuthorityExclusive
  <1>1. Inv => AuthorityExclusive
    <2> SUFFICES ASSUME Inv, NEW w \in Worker, job[w].kind = "authorized"
                 PROVE  /\ chain[job[w].op] = "idle"
                        /\ db.reservation[job[w].op].state \in OpenStates
                        /\ job[w].issuedAt
                              <= db.reservation[job[w].op].request.validUntil
                        /\ \A v \in Worker \ {w} : ~Holds(v, job[w].op)
      BY DEF AuthorityExclusive, Holds, OpenStates
    <2>1. job[w] \in Job
      BY DEF Inv, TypeOK
    <2>2. job[w].op \in Op
      BY <2>1, JobFields
    <2>3. Holds(w, job[w].op)
      BY DEF Holds
    <2> QED
      BY <2>2, <2>3 DEF Inv, AuthorityHeld, AuthorizedInTime, OpenStates
  <1> QED
    BY <1>1, Invariance, PTL

\* Admission never releases capacity that the chain still uses.
THEOREM CoversTheChain == Spec => []ChainCovered
  <1>1. Inv => ChainCovered
    <2> SUFFICES ASSUME Inv, NEW o \in Op
                 PROVE  /\ chain[o] = "inflight" =>
                              db.reservation[o].state \in UnresolvedStates
                        /\ chain[o] = "live" => db.reservation[o].state \in ActiveStates
                        /\ chain[o] = "closed" =>
                              db.reservation[o].state \in ExposedStates
      BY DEF ChainCovered
    <2>1. db.reservation[o].state \in StatesGiven(chain[o])
      BY DEF Inv, ReservationsFollowChain
    <2> QED
      BY <2>1 DEF StatesGiven, UnresolvedStates, ActiveStates, ExposedStates
  <1> QED
    BY <1>1, Invariance, PTL

----
\* What a step may never do.

\* The evidence a reservation came to hold in a step proves its new state, and
\* what it held before stays proved while permits and the chain move on.
LEMMA ProvenStep ==
    ASSUME Inv, ReservationsProven, [Next]_vars
    PROVE  ReservationsProven'
  <1> SUFFICES ASSUME NEW o \in Op
               PROVE  /\ db'.reservation[o].state # "ABSENT" =>
                            /\ db'.reservation[o].request \in Request
                            /\ db'.reservation[o].request.op = o
                      /\ db'.reservation[o].deployment =
                            IF db'.reservation[o].state \in BoundStates THEN o
                                                                       ELSE NoDeployment
                      /\ EvidenceProves(o)'
    BY DEF ReservationsProven
  <1>0. /\ ReservationsFollowChain' /\ TypeOK /\ AuthorityHeld
        /\ db.reservation[o].deployment =
              IF db.reservation[o].state \in BoundStates THEN o ELSE NoDeployment
        /\ EvidenceProves(o)
    BY FollowStep DEF Inv, ReservationsProven
  <1>1. db'.reservation[o].state # "ABSENT" =>
            db'.reservation[o].request \in Request /\ db'.reservation[o].request.op = o
    BY <1>0 DEF ReservationsFollowChain
  <1>2. permits \subseteq permits'
    BY PermitsMoves DEF PermitsMove, ConfirmReservation
  <1>3. \A st, e : e \in Lifecycle /\ Truthful(st, e) => Truthful(st, e)'
    BY <1>0, TruthLasts
  <1>4. CASE db'.reservation[o] = db.reservation[o]
    <2>1. \A e \in Lifecycle :
              e.op = o /\ Truthful(db, e) => Truthful(db, e)'
      BY <1>4, <1>3 DEF Truthful
    <2>2. EvidenceProves(o)'
      BY <2>1, <1>4, <1>2, <1>0 DEF EvidenceProves
    <2> QED
      BY <2>2, <1>4, <1>1, <1>0
  <1>5. CASE Enters(o)
    <2>1. EvidenceProves(o)'
      BY <1>5 DEF Enters, EvidenceProves
    <2> QED
      BY <2>1, <1>5, <1>1 DEF Enters, BoundStates
  <1>6. CASE Redeems(o)
    <2>1. EvidenceProves(o)'
      BY <1>6 DEF Redeems, EvidenceProves
    <2> QED
      BY <2>1, <1>6, <1>1, <1>0 DEF Redeems, BoundStates
  <1>7. ASSUME NEW e \in Lifecycle, TransitionsBy(o, e)
        PROVE  /\ db'.reservation[o].deployment =
                     IF db'.reservation[o].state \in BoundStates THEN o ELSE NoDeployment
               /\ EvidenceProves(o)'
    <2>1. /\ e.op = o /\ e.kind \in EvidenceKind
          /\ e.kind = "committed" => e.dep = o
          /\ e.kind \in {"execution_closure", "settlement"} =>
                e.dep = o /\ db.reservation[o].deployment = o
      BY <1>7, TruthOfMove
    <2>2. /\ db'.reservation[o].state = TargetState(e)
          /\ db'.reservation[o].deployment = TargetDeployment(db.reservation[o], e)
          /\ db'.reservation[o].request = db.reservation[o].request
          /\ db'.reservation[o].evidence = e
          /\ NamesPrepared(db.reservation[o].request.prepared, e)
          /\ Truthful(db, e)
      BY <1>7 DEF TransitionsBy, EvidenceBound
    <2>3. TargetState(e) \notin {"ABSENT", "RESERVED", "SUBMITTING"}
      BY <2>1 DEF TargetState, EvidenceKind
    <2>4. Truthful(db, e)'
      BY <2>2, <2>1, <1>3 DEF Truthful
    <2>5. EvidenceProves(o)'
      BY <2>4, <2>3, <2>2, <2>1 DEF EvidenceProves
    <2> QED
      BY <2>5, <2>2, <2>1 DEF TargetState, TargetDeployment, EvidenceKind, BoundStates
  <1>8. CASE \E e \in Lifecycle : TransitionsBy(o, e)
    BY <1>8, <1>7, <1>1
  <1> QED
    BY <1>8, <1>6, <1>5, <1>4, ReservationMoves DEF ReservationMove

\* A reservation is the request of its own operation, bound to the deployment its
\* own create made, on evidence that proves its state and is true of the chain
\* (the constructor of CapacityReservation and transition_reservation).
THEOREM ReservationsAreProven == Spec => []ReservationsProven
  <1>1. Init => ReservationsProven
    BY DEF Init, ReservationsProven, EvidenceProves, NoReservation, BoundStates
  <1>2. Inv /\ ReservationsProven /\ [Next]_vars => ReservationsProven'
    BY ProvenStep
  <1> QED
    BY <1>2, <1>1, Invariance, PTL DEF Spec

\* Every persisted change is of one operation.
LEMMA OneOperation ==
    ASSUME Inv, [Next]_vars, NEW o \in Op, NEW q \in Op, q # o,
           db'.reservation[o] # db.reservation[o]
    PROVE  db'.reservation[q] = db.reservation[q]
  <1>1. ASSUME NEW w \in Worker, PersistReservation(w)
        PROVE  db'.reservation[q] = db.reservation[q]
    BY <1>1, PersistReservationMoves
  <1>2. ASSUME NEW w \in Worker, PersistRedemption(w)
        PROVE  db'.reservation[q] = db.reservation[q]
    BY <1>2, PersistRedemptionMoves
  <1>3. ASSUME NEW w \in Worker, PersistTransition(w)
        PROVE  db'.reservation[q] = db.reservation[q]
    BY <1>3, PersistTransitionMoves
  <1>4. ASSUME NEW w \in Worker, WorkerStep(w)
        PROVE  db'.reservation[q] = db.reservation[q]
    BY <1>4, <1>3, <1>2, <1>1
       DEF WorkerStep, Reserve, ConfirmReservation, Redeem, ConfirmRedemption, Submit,
           RejectBeforeSend, Transition, GiveUp, Crash
  <1>5. CASE Surroundings
    BY <1>5 DEF Surroundings, Tick, InstallBudget, Rebudgeted, Revoke, CreateDecided,
                DeploymentEnds
  <1>6. CASE UNCHANGED vars
    BY <1>6 DEF vars
  <1> QED
    BY <1>6, <1>5, <1>4 DEF Next

\* Release is one-way (transition_reservation's _ALLOWED_TRANSITIONS and the
\* redemption, under every interleaving of persisted swaps).
THEOREM ReleaseFinal == Spec => ReleaseIsFinal
  <1>1. Inv /\ [Next]_vars => [ReleaseStep]_vars
    <2> SUFFICES ASSUME Inv, [Next]_vars, NEW o \in Op,
                        db.reservation[o] # db'.reservation[o]
                 PROVE  /\ \A held \in {ExposedStates, ActiveStates, UnresolvedStates} :
                              db'.reservation[o].state \in held =>
                                 db.reservation[o].state \in held \cup {"ABSENT"}
                        /\ db.reservation[o].state # "ABSENT" =>
                              db'.reservation[o].request = db.reservation[o].request
                        /\ db.reservation[o].deployment # NoDeployment =>
                              db'.reservation[o].deployment = db.reservation[o].deployment
                        /\ \A other \in Op \ {o} :
                              db'.reservation[other] = db.reservation[other]
      BY DEF ReleaseStep
    <2> USE DEF ExposedStates, ActiveStates, UnresolvedStates
    <2>1. \A other \in Op \ {o} : db'.reservation[other] = db.reservation[other]
      BY OneOperation
    <2>2. db.reservation[o].deployment # NoDeployment =>
              db.reservation[o].deployment = o /\ db.reservation[o].state \in BoundStates
      BY DEF Inv, ReservationsFollowChain
    <2>3. CASE Enters(o)
      BY <2>3, <2>2, <2>1 DEF Enters, BoundStates
    <2>4. CASE Redeems(o)
      BY <2>1, <2>4 DEF Redeems
    <2>5. ASSUME NEW e \in Lifecycle, TransitionsBy(o, e)
          PROVE  /\ \A held \in {ExposedStates, ActiveStates, UnresolvedStates} :
                       db'.reservation[o].state \in held => db.reservation[o].state \in held
                 /\ db.reservation[o].deployment # NoDeployment =>
                       db'.reservation[o].deployment = db.reservation[o].deployment
      <3>1. e.kind \in EvidenceKind
        BY EvidenceFields
      <3>2. TargetState(e) \in AllowedTransitions(db.reservation[o].state)
        BY <2>5 DEF TransitionsBy
      <3>3. db'.reservation[o].state = TargetState(e)
        BY <2>5 DEF TransitionsBy
      <3>4. db'.reservation[o].deployment = TargetDeployment(db.reservation[o], e)
        BY <2>5 DEF TransitionsBy
      <3>5. \A held \in {ExposedStates, ActiveStates, UnresolvedStates} :
                TargetState(e) \in held => db.reservation[o].state \in held
        BY <3>1, <3>2 DEF AllowedTransitions, EvidenceKind, TargetState
      <3>6. db.reservation[o].state \in BoundStates =>
                e.kind \in {"execution_closure", "settlement"}
        BY <3>1, <3>2 DEF AllowedTransitions, EvidenceKind, TargetState, BoundStates
      <3> QED
        BY <3>6, <3>5, <3>4, <3>3, <2>2 DEF TargetDeployment
    <2>6. CASE \E e \in Lifecycle : TransitionsBy(o, e)
      BY <2>6, <2>5, <2>1 DEF TransitionsBy
    <2> QED
      BY <2>6, <2>4, <2>3, ReservationMoves DEF ReservationMove
  <1> QED
    BY <1>1, Invariance, PTL DEF Spec, ReleaseIsFinal

\* No create gets past RESERVED without a permit that is still good at the swap
\* (redeem_create_permit re-checked by the compare-and-swap).
THEOREM SubmissionPermitted == Spec => SubmissionUnderPermit
  <1>1. Inv /\ [Next]_vars => [SubmissionStep]_vars
    <2> SUFFICES ASSUME Inv, [Next]_vars, NEW o \in Op,
                        db.reservation[o].state = "RESERVED",
                        db'.reservation[o].state # "RESERVED"
                 PROVE  /\ db'.reservation[o].state = "SUBMITTING"
                        /\ \E w \in Worker :
                              /\ job[w].kind = "redeem"
                              /\ job[w].permit \in permits
                              /\ job[w].permit.op = o
                              /\ job[w].shown.presentedAt <= job[w].permit.validUntil
                              /\ ~job[w].shown.revoked
                              /\ job[w].permit.bindings =
                                    PolicyBindingsOf(db, db.reservation[o].request.scope)
      BY DEF SubmissionStep
    <2>1. ASSUME NEW w \in Worker, PersistRedemption(w)
          PROVE  /\ db'.reservation[o].state = "SUBMITTING"
                 /\ job[w].kind = "redeem"
                 /\ job[w].permit \in permits
                 /\ job[w].permit.op = o
                 /\ job[w].shown.presentedAt <= job[w].permit.validUntil
                 /\ ~job[w].shown.revoked
                 /\ job[w].permit.bindings =
                       PolicyBindingsOf(db, db.reservation[o].request.scope)
      <3>1. job[w].kind = "redeem" /\ job[w].base = db
        BY <2>1 DEF PersistRedemption, Inv, RevisionIdentifiesState, Pending
      <3>2. job[w].permit.op = o /\ db'.reservation[o].state = "SUBMITTING"
        BY <2>1, PersistRedemptionMoves DEF Redeems
      <3>3. Redeemable(db, job[w].permit, job[w].shown, db.revision)
        BY <3>1 DEF Inv, ProposalsDerived
      <3>4. job[w].permit \in permits
        BY <3>1 DEF Inv, PermitsBound
      <3> QED
        BY <3>4, <3>3, <3>2, <3>1 DEF Redeemable
    <2>2. \A w \in Worker : ~PersistReservation(w)
      BY PersistReservationMoves DEF Enters
    <2>3. \A w \in Worker : ~PersistTransition(w)
      BY PersistTransitionMoves DEF TransitionsBy, AllowedTransitions
    <2>4. \E w \in Worker : PersistRedemption(w)
      <3>1. ASSUME NEW w \in Worker, WorkerStep(w) PROVE PersistRedemption(w)
        BY <3>1, <2>3, <2>2
           DEF WorkerStep, Reserve, ConfirmReservation, Redeem, ConfirmRedemption, Submit,
               RejectBeforeSend, Transition, GiveUp, Crash
      <3>2. ~Surroundings
        BY DEF Surroundings, Tick, InstallBudget, Rebudgeted, Revoke, CreateDecided,
               DeploymentEnds
      <3>3. ~UNCHANGED vars
        BY DEF vars
      <3> QED
        BY <3>3, <3>2, <3>1 DEF Next
    <2> QED
      BY <2>1, <2>4
  <1> QED
    BY <1>1, Invariance, PTL DEF Spec, SubmissionUnderPermit

----
\* Ceilings, for every number of operations, scopes and units of exposure:
\* what a reservation adds to the usage of its two scopes, that no step
\* takes a scope over its limits, and that AdmissionBroker implements
\* ContainmentLedger.

----
\* Usage.
Sound(st) ==
    /\ st \in AdmissionState
    /\ \A o \in Op : Reserved(st, o) => st.reservation[o].request \in Request

\* The operations of a scope that hold a slot of some population.
Uses(st, s, states) == {o \in Population(st, s) : st.reservation[o].state \in states}

LEMMA SoundStates == ASSUME Inv PROVE Sound(db)
  BY DEF Inv, TypeOK, ReservationsFollowChain, Sound, Reserved

LEMMA ExposureTyped ==
    ASSUME NEW st, Sound(st), NEW s, NEW o \in Population(st, s)
    PROVE  FinancialExposure(st.reservation[o]) \in Nat
  <1>1. st.reservation[o].request \in RequestType
    BY ConstantsAssumption DEF Sound, Population
  <1> QED
    BY <1>1 DEF FinancialExposure, RequestType

\* Usage is a number, of finitely many slots and units.
LEMMA UsageFinite ==
    ASSUME NEW st, Sound(st), NEW s
    PROVE  /\ \A states : /\ IsFiniteSet(Uses(st, s, states))
                          /\ Cardinality(Uses(st, s, states)) \in Nat
           /\ IsFiniteSet(ExposureUnits(st, s))
           /\ Cardinality(ExposureUnits(st, s)) \in Nat
  <1>1. IsFiniteSet(Population(st, s))
    BY ConstantsAssumption, FS_Subset DEF Population
  <1>2. ASSUME NEW states
        PROVE  IsFiniteSet(Uses(st, s, states)) /\ Cardinality(Uses(st, s, states)) \in Nat
    <2>1. Uses(st, s, states) \in SUBSET Population(st, s)
      BY DEF Uses
    <2> QED
      BY <1>1, <2>1, FS_Subset, FS_CardinalityType
  <1> DEFINE Block(o) == {o} \X (1 .. FinancialExposure(st.reservation[o]))
             Blocks == {Block(o) : o \in Population(st, s)}
             block == [o \in Population(st, s) |-> Block(o)]
  <1>3. \A T \in Blocks : IsFiniteSet(T)
    <2>1. ASSUME NEW o \in Population(st, s) PROVE IsFiniteSet(Block(o))
      <3>1. IsFiniteSet(1 .. FinancialExposure(st.reservation[o]))
        BY ExposureTyped, FS_Interval
      <3> QED
        BY <3>1, FS_Singleton, FS_Product
    <2> QED
      BY <2>1
  <1>4. IsFiniteSet(Blocks)
    <2>1. block \in Surjection(Population(st, s), Blocks)
      BY DEF Surjection
    <2> QED
      BY <1>1, <2>1, FS_Surjection
  <1>5. ExposureUnits(st, s) = UNION Blocks
    BY DEF ExposureUnits
  <1>6. IsFiniteSet(ExposureUnits(st, s))
    BY <1>5, <1>4, <1>3, FS_UNION
  <1> QED
    BY <1>2, <1>6, FS_CardinalityType

\* What is used is what is used outside, and the slots and units held.
LEMMA UsageIs ==
    ASSUME NEW st, NEW s
    PROVE  /\ ActiveUsage(st, s) =
                 st.budgets[s].census.active + Cardinality(Uses(st, s, ActiveStates))
           /\ UnresolvedUsage(st, s) =
                 st.budgets[s].census.unresolved + Cardinality(Uses(st, s, UnresolvedStates))
           /\ ExposureUsage(st, s) =
                 st.budgets[s].census.exposure + Cardinality(ExposureUnits(st, s))
  BY DEF ActiveUsage, UnresolvedUsage, ExposureUsage, Uses

LEMMA BudgetTyped ==
    ASSUME NEW st, Sound(st), NEW s \in Budgeted
    PROVE  /\ st.budgets[s] \in Budget
           /\ st.budgets[s].census \in Census /\ st.budgets[s].limits \in Limits
           /\ st.budgets[s].census.active \in Nat
           /\ st.budgets[s].census.unresolved \in Nat
           /\ st.budgets[s].census.exposure \in Nat
           /\ st.budgets[s].limits.maxActive \in Nat
           /\ st.budgets[s].limits.maxUnresolved \in Nat
           /\ st.budgets[s].limits.maxExposure \in Nat
  <1>1. st.budgets[s] \in Budget
    BY DEF Sound, AdmissionState
  <1>2. st.budgets[s].census \in Census /\ st.budgets[s].limits \in Limits
    BY <1>1 DEF Budget
  <1> QED
    BY <1>1, <1>2 DEF Census, Limits

\* A reservation's fields.
LEMMA ReservedState ==
    ASSUME NEW st, Sound(st), NEW r \in Request, NEW n, n = ReserveCapacity(st, r)
    PROVE  /\ r.op \in Op /\ r.amount \in Nat
           /\ n.reservation[r.op].request = r
           /\ n.reservation[r.op].state = "RESERVED"
           /\ \A o \in Op \ {r.op} : n.reservation[o] = st.reservation[o]
           /\ \A s \in Budgeted :
                 /\ n.budgets[s].limits = st.budgets[s].limits
                 /\ n.budgets[s].census.active = st.budgets[s].census.active
                 /\ n.budgets[s].census.unresolved = st.budgets[s].census.unresolved
                 /\ n.budgets[s].census.exposure = st.budgets[s].census.exposure
                 /\ Applies(s, r.scope) =>
                       n.budgets[s].census.excluded = Population(st, s) \cup {r.op}
  <1>1. r \in RequestType
    BY ConstantsAssumption
  <1>2. r.op \in Op /\ r.amount \in Nat
    BY <1>1 DEF RequestType
  <1>3. st.reservation \in [Op -> Reservation] /\ st.budgets \in [Budgeted -> Budget]
    BY DEF Sound, AdmissionState
  <1>4. n.reservation =
           [st.reservation EXCEPT ![r.op] =
               [request |-> r, state |-> "RESERVED",
                evidence |-> [kind |-> "prepared"], deployment |-> NoDeployment]]
    BY DEF ReserveCapacity
  <1>5. ASSUME NEW s \in Budgeted
        PROVE  /\ n.budgets[s].limits = st.budgets[s].limits
               /\ n.budgets[s].census.active = st.budgets[s].census.active
               /\ n.budgets[s].census.unresolved = st.budgets[s].census.unresolved
               /\ n.budgets[s].census.exposure = st.budgets[s].census.exposure
               /\ Applies(s, r.scope) =>
                     n.budgets[s].census.excluded = Population(st, s) \cup {r.op}
    <2>1. st.budgets[s] \in Budget
      BY <1>3
    <2>2. st.budgets[s].census \in Census
      BY <2>1 DEF Budget
    <2>3. n.budgets[s] =
             IF Applies(s, r.scope)
             THEN [st.budgets[s] EXCEPT !.census.excluded = Population(st, s) \cup {r.op}]
             ELSE st.budgets[s]
      BY DEF ReserveCapacity
    <2> QED
      BY <2>3, <2>2, <2>1 DEF Budget, Census
  <1> QED
    BY <1>5, <1>4, <1>3, <1>2

LEMMA JoinsPopulation ==
    ASSUME NEW st, Sound(st), NEW r \in Request, ~Reserved(st, r.op),
           NEW n, n = ReserveCapacity(st, r), NEW s
    PROVE  Population(n, s) =
              IF Applies(s, r.scope) THEN Population(st, s) \cup {r.op} ELSE Population(st, s)
  <1>1. /\ r.op \in Op
        /\ n.reservation[r.op].request = r
        /\ n.reservation[r.op].state = "RESERVED"
        /\ \A o \in Op \ {r.op} : n.reservation[o] = st.reservation[o]
    BY ReservedState
  <1> QED
    BY <1>1 DEF Population, Reserved

\* A reservation adds one slot and its amount to the scopes it falls under.
LEMMA JoinsUsage ==
    ASSUME NEW st, Sound(st), NEW r \in Request, ~Reserved(st, r.op),
           NEW n, n = ReserveCapacity(st, r), NEW s \in Budgeted, Applies(s, r.scope)
    PROVE  /\ ActiveUsage(n, s) = ActiveUsage(st, s) + 1
           /\ UnresolvedUsage(n, s) = UnresolvedUsage(st, s) + 1
           /\ ExposureUsage(n, s) = ExposureUsage(st, s) + r.amount
  <1>1. /\ r.op \in Op /\ r.amount \in Nat
        /\ n.reservation[r.op].request = r
        /\ n.reservation[r.op].state = "RESERVED"
        /\ \A o \in Op \ {r.op} : n.reservation[o] = st.reservation[o]
        /\ n.budgets[s].census.active = st.budgets[s].census.active
        /\ n.budgets[s].census.unresolved = st.budgets[s].census.unresolved
        /\ n.budgets[s].census.exposure = st.budgets[s].census.exposure
    BY ReservedState
  <1>2. Population(n, s) = Population(st, s) \cup {r.op}
    BY JoinsPopulation
  <1>3. r.op \notin Population(st, s)
    BY DEF Population
  <1>4. /\ st.budgets[s].census.active \in Nat
        /\ st.budgets[s].census.unresolved \in Nat
        /\ st.budgets[s].census.exposure \in Nat
    BY BudgetTyped
  <1>5. ASSUME NEW states, "RESERVED" \in states
        PROVE  Cardinality(Uses(n, s, states)) = Cardinality(Uses(st, s, states)) + 1
    <2>1. Uses(n, s, states) = Uses(st, s, states) \cup {r.op}
      BY <1>5, <1>3, <1>2, <1>1 DEF Uses, Population
    <2>2. r.op \notin Uses(st, s, states)
      BY <1>3 DEF Uses
    <2> QED
      BY <2>1, <2>2, UsageFinite, FS_AddElement
  <1>6. Cardinality(ExposureUnits(n, s)) = Cardinality(ExposureUnits(st, s)) + r.amount
    <2> DEFINE more == {r.op} \X (1 .. r.amount)
    <2>1. FinancialExposure(n.reservation[r.op]) = r.amount
      BY <1>1 DEF FinancialExposure, ExposedStates, ActiveStates, UnresolvedStates
    <2>2. \A o \in Population(st, s) : n.reservation[o] = st.reservation[o]
      BY <1>1, <1>3 DEF Population
    <2>3. ExposureUnits(n, s) = ExposureUnits(st, s) \cup more
      BY <2>2, <2>1, <1>2 DEF ExposureUnits
    <2>4. ExposureUnits(st, s) \cap more = {}
      BY <1>3 DEF ExposureUnits
    <2>5. IsFiniteSet(more) /\ Cardinality(more) = r.amount
      <3>1. IsFiniteSet(1 .. r.amount) /\ Cardinality(1 .. r.amount) = r.amount
        BY <1>1, FS_Interval, SMTT(30)
      <3>2. IsFiniteSet({r.op}) /\ Cardinality({r.op}) = 1
        BY FS_Singleton
      <3>3. IsFiniteSet(more) /\ Cardinality(more) = 1 * r.amount
        BY ONLY <3>1, <3>2, FS_Product, ZenonT(30)
      <3> QED
        BY <1>1, <3>3
    <2>6. IsFiniteSet(ExposureUnits(st, s)) /\ Cardinality(ExposureUnits(st, s)) \in Nat
      BY UsageFinite
    <2> HIDE DEF more
    <2>7. Cardinality(ExposureUnits(st, s) \cup more) =
             Cardinality(ExposureUnits(st, s)) + Cardinality(more) - Cardinality({})
      BY <2>6, <2>5, <2>4, FS_Union
    <2> QED
      BY <2>7, <2>6, <2>5, <2>3, <1>1, FS_EmptySet
  <1>7. /\ Cardinality(Uses(st, s, ActiveStates)) \in Nat
        /\ Cardinality(Uses(st, s, UnresolvedStates)) \in Nat
        /\ Cardinality(ExposureUnits(st, s)) \in Nat
    BY UsageFinite
  <1>8. /\ Cardinality(Uses(n, s, ActiveStates)) = Cardinality(Uses(st, s, ActiveStates)) + 1
        /\ Cardinality(Uses(n, s, UnresolvedStates)) =
              Cardinality(Uses(st, s, UnresolvedStates)) + 1
    BY <1>5 DEF ActiveStates, UnresolvedStates
  <1> QED
    BY <1>8, <1>7, <1>6, <1>4, <1>1, UsageIs

\* Where nobody joins and capacity is only released, usage does not grow.
LEMMA UsageShrinks ==
    ASSUME NEW st, Sound(st), NEW n, Sound(n), NEW s \in Budgeted,
           Population(n, s) = Population(st, s),
           \A o \in Population(st, s) :
              /\ n.reservation[o].request = st.reservation[o].request
              /\ \A states \in {ExposedStates, ActiveStates, UnresolvedStates} :
                    n.reservation[o].state \in states => st.reservation[o].state \in states,
           n.budgets[s].census.active = st.budgets[s].census.active,
           n.budgets[s].census.unresolved = st.budgets[s].census.unresolved,
           n.budgets[s].census.exposure = st.budgets[s].census.exposure
    PROVE  /\ ActiveUsage(n, s) <= ActiveUsage(st, s)
           /\ UnresolvedUsage(n, s) <= UnresolvedUsage(st, s)
           /\ ExposureUsage(n, s) <= ExposureUsage(st, s)
  <1>1. ASSUME NEW states \in {ExposedStates, ActiveStates, UnresolvedStates}
        PROVE  /\ Cardinality(Uses(n, s, states)) <= Cardinality(Uses(st, s, states))
               /\ Cardinality(Uses(n, s, states)) \in Nat
               /\ Cardinality(Uses(st, s, states)) \in Nat
    <2>1. Uses(n, s, states) \in SUBSET Uses(st, s, states)
      BY DEF Uses
    <2> QED
      BY <2>1, UsageFinite, FS_Subset
  <1>2. /\ Cardinality(ExposureUnits(n, s)) <= Cardinality(ExposureUnits(st, s))
        /\ Cardinality(ExposureUnits(n, s)) \in Nat
        /\ Cardinality(ExposureUnits(st, s)) \in Nat
    <2>1. ASSUME NEW o \in Population(st, s)
          PROVE  (1 .. FinancialExposure(n.reservation[o]))
                     \subseteq (1 .. FinancialExposure(st.reservation[o]))
      BY DEF FinancialExposure
    <2>2. ExposureUnits(n, s) \in SUBSET ExposureUnits(st, s)
      BY <2>1 DEF ExposureUnits
    <2> QED
      BY <2>2, UsageFinite, FS_Subset
  <1>3. /\ n.budgets[s].census.active \in Nat
        /\ n.budgets[s].census.unresolved \in Nat
        /\ n.budgets[s].census.exposure \in Nat
    BY BudgetTyped
  <1> QED
    BY <1>3, <1>2, <1>1, UsageIs

----
\* Steps.

\* The swap of a reservation, by what was checked on the very state it replaces.
LEMMA Reserving ==
    ASSUME Inv, NEW w \in Worker, PersistReservation(w)
    PROVE  /\ job[w].request \in Request
           /\ db' = ReserveCapacity(db, job[w].request)
           /\ ~Reserved(db, job[w].request.op)
           /\ BudgetsBound(db, job[w].request)
           /\ \A s \in ApplicableBudgets(job[w].request.scope) :
                 CensusHealthy(db, s) /\ WithinCeilings(db, s, job[w].request)
           /\ UNCHANGED sends
  <1>1. job[w] \in Job /\ job[w].kind = "reserve"
    BY DEF Inv, TypeOK, PersistReservation
  <1>2. job[w].base = db
    BY <1>1 DEF Inv, RevisionIdentifiesState, Pending, PersistReservation
  <1> QED
    BY <1>1, <1>2, JobFields DEF Inv, ProposalsDerived, PersistReservation

\* The other swaps leave the budgets alone.
LEMMA SwapKeepsBudgets ==
    ASSUME Inv, NEW w \in Worker, PersistRedemption(w) \/ PersistTransition(w)
    PROVE  db'.budgets = db.budgets /\ sends' = sends
  <1>1. /\ job[w].kind \in {"redeem", "transition"}
        /\ job[w].base = db /\ db' = job[w].next /\ sends' = sends
    BY DEF PersistRedemption, PersistTransition, Inv, RevisionIdentifiesState, Pending
  <1>2. \/ db' = RedeemCreatePermit(db, job[w].permit, job[w].shown)
        \/ db' = TransitionReservation(db, job[w].evidence)
    BY <1>1 DEF Inv, ProposalsDerived
  <1>3. \A st, permit, shown : RedeemCreatePermit(st, permit, shown).budgets = st.budgets
    BY DEF RedeemCreatePermit
  <1>4. \A st, e : TransitionReservation(st, e).budgets = st.budgets
    BY DEF TransitionReservation
  <1> QED
    BY <1>4, <1>3, <1>2, <1>1

\* Nothing but such a swap admits an operation.
LEMMA EntersByReservation ==
    ASSUME Inv, [Next]_vars, NEW o \in Op, ~Reserved(db, o), Reserved(db', o)
    PROVE  \E w \in Worker : PersistReservation(w) /\ job[w].request.op = o
  <1>1. db'.reservation[o] # db.reservation[o]
    BY DEF Reserved
  <1>2. ASSUME NEW w \in Worker, PersistReservation(w) PROVE job[w].request.op = o
    BY <1>1, <1>2, PersistReservationMoves
  <1>3. ASSUME NEW w \in Worker PROVE ~PersistRedemption(w)
    BY <1>1, PersistRedemptionMoves DEF Redeems, Reserved
  <1>4. ASSUME NEW w \in Worker PROVE ~PersistTransition(w)
    BY <1>1, PersistTransitionMoves DEF TransitionsBy, AllowedTransitions, Reserved
  <1>5. ASSUME NEW w \in Worker, WorkerStep(w) PROVE PersistReservation(w)
    BY <1>5, <1>4, <1>3, <1>1
       DEF WorkerStep, Reserve, ConfirmReservation, Redeem, ConfirmRedemption, Submit,
           RejectBeforeSend, Transition, GiveUp, Crash
  <1>6. ~Surroundings
    BY <1>1 DEF Surroundings, Tick, InstallBudget, Rebudgeted, Revoke, CreateDecided,
                DeploymentEnds
  <1>7. ~UNCHANGED vars
    BY <1>1 DEF vars
  <1> QED
    BY <1>7, <1>6, <1>5, <1>2 DEF Next

\* What a reservation holds only shrinks.
LEMMA Releases ==
    ASSUME Inv, [Next]_vars, NEW o \in Op, Reserved(db, o),
           NEW states \in {ExposedStates, ActiveStates, UnresolvedStates},
           db'.reservation[o].state \in states
    PROVE  db.reservation[o].state \in states
  <1> USE DEF ExposedStates, ActiveStates, UnresolvedStates
  <1>1. ~Enters(o)
    BY DEF Enters, Reserved
  <1>2. CASE Redeems(o)
    BY <1>2 DEF Redeems
  <1>3. ASSUME NEW e \in Lifecycle, TransitionsBy(o, e)
        PROVE  db.reservation[o].state \in states
    <2>1. e.kind \in EvidenceKind
      BY EvidenceFields
    <2>2. /\ TargetState(e) \in AllowedTransitions(db.reservation[o].state)
          /\ TargetState(e) \in states
      BY <1>3 DEF TransitionsBy
    <2> QED
      BY <2>1, <2>2 DEF AllowedTransitions, EvidenceKind, TargetState
  <1> QED
    BY <1>3, <1>2, <1>1, ReservationMoves DEF ReservationMove

----
\* Ceilings.

\* The scopes that a reservation joins cover it.
LEMMA AdmissionCovered ==
    ASSUME Inv, NEW w \in Worker, PersistReservation(w), NEW s \in Budgeted,
           Applies(s, job[w].request.scope)
    PROVE  /\ ActiveUsage(db', s) <= db.budgets[s].limits.maxActive
           /\ UnresolvedUsage(db', s) <= db.budgets[s].limits.maxUnresolved
           /\ ExposureUsage(db', s) <= db.budgets[s].limits.maxExposure
           /\ db.budgets[s].census.unhealthy = {}
           /\ CensusBindingMatches(db, s)
           /\ CensusBindingMatches(db', s)
  <1> DEFINE r == job[w].request
  <1>1. /\ r \in Request /\ db' = ReserveCapacity(db, r) /\ ~Reserved(db, r.op)
        /\ BudgetsBound(db, r)
        /\ \A t \in ApplicableBudgets(r.scope) :
              CensusHealthy(db, t) /\ WithinCeilings(db, t, r)
    BY Reserving
  <1>2. Sound(db)
    BY SoundStates
  <1>3. s \in ApplicableBudgets(r.scope)
    BY DEF ApplicableBudgets
  <1>4. /\ ActiveUsage(db', s) = ActiveUsage(db, s) + 1
        /\ UnresolvedUsage(db', s) = UnresolvedUsage(db, s) + 1
        /\ ExposureUsage(db', s) = ExposureUsage(db, s) + r.amount
    BY <1>1, <1>2, JoinsUsage
  <1>5. /\ db'.budgets[s].census.excluded = Population(db, s) \cup {r.op}
        /\ Population(db', s) = Population(db, s) \cup {r.op}
    BY <1>1, <1>2, ReservedState, JoinsPopulation
  <1> HIDE DEF r
  <1> QED
    BY <1>5, <1>4, <1>3, <1>1
       DEF WithinCeilings, CensusHealthy, BudgetsBound, CensusBindingMatches

\* creation_admission.py:940: an operation is admitted only into scopes that cover it
\* afterwards, by limits and a census that are the current ones and complete.
THEOREM AdmissionsCovered == Spec => AdmittedWithinCeilings
  <1>1. Inv /\ [Next]_vars => [AdmissionStep]_vars
    <2> SUFFICES ASSUME Inv, [Next]_vars, NEW o \in Op, ~Reserved(db, o), Reserved(db', o)
                 PROVE  LET leaf == db'.reservation[o].request.scope IN
                        /\ {leaf, OwnerOf[leaf]} \subseteq Budgeted
                        /\ \A s \in {leaf, OwnerOf[leaf]} :
                              /\ ActiveUsage(db', s) <= db.budgets[s].limits.maxActive
                              /\ UnresolvedUsage(db', s) <= db.budgets[s].limits.maxUnresolved
                              /\ ExposureUsage(db', s) <= db.budgets[s].limits.maxExposure
                              /\ db.budgets[s].census.unhealthy = {}
                              /\ CensusBindingMatches(db, s)
                              /\ CensusBindingMatches(db', s)
      BY DEF AdmissionStep
    <2>1. PICK w \in Worker : PersistReservation(w) /\ job[w].request.op = o
      BY EntersByReservation
    <2>2. db'.reservation[o].request = job[w].request
      BY <2>1, PersistReservationMoves
    <2>3. RequiredBudgets(job[w].request.scope)
      BY <2>1, Reserving DEF BudgetsBound
    <2>4. /\ {job[w].request.scope, OwnerOf[job[w].request.scope]} \subseteq Budgeted
          /\ \A s \in {job[w].request.scope, OwnerOf[job[w].request.scope]} :
                Applies(s, job[w].request.scope)
      BY <2>3 DEF RequiredBudgets, ApplicableBudgets, Applies
    <2>5. \A s \in {job[w].request.scope, OwnerOf[job[w].request.scope]} :
             /\ ActiveUsage(db', s) <= db.budgets[s].limits.maxActive
             /\ UnresolvedUsage(db', s) <= db.budgets[s].limits.maxUnresolved
             /\ ExposureUsage(db', s) <= db.budgets[s].limits.maxExposure
             /\ db.budgets[s].census.unhealthy = {}
             /\ CensusBindingMatches(db, s)
             /\ CensusBindingMatches(db', s)
      BY <2>1, <2>4, AdmissionCovered
    <2> QED
      BY <2>5, <2>4, <2>2
  <1> QED
    BY <1>1, Invariance, PTL DEF Spec, AdmittedWithinCeilings

\* What nobody replaces.
FirstBudgets ==
    \A s \in Budgeted :
        /\ db.budgets[s].limits = InitBudget[s].limits
        /\ db.budgets[s].census.active = InitBudget[s].census.active
        /\ db.budgets[s].census.unresolved = InitBudget[s].census.unresolved
        /\ db.budgets[s].census.exposure = InitBudget[s].census.exposure

LEMMA BudgetsStay ==
    ASSUME Inv, [Next]_vars, \A s \in Budgeted : NewBudget[s] = {}, NEW s \in Budgeted
    PROVE  /\ db'.budgets[s].limits = db.budgets[s].limits
           /\ db'.budgets[s].census.active = db.budgets[s].census.active
           /\ db'.budgets[s].census.unresolved = db.budgets[s].census.unresolved
           /\ db'.budgets[s].census.exposure = db.budgets[s].census.exposure
  <1> DEFINE Same ==
        /\ db'.budgets[s].limits = db.budgets[s].limits
        /\ db'.budgets[s].census.active = db.budgets[s].census.active
        /\ db'.budgets[s].census.unresolved = db.budgets[s].census.unresolved
        /\ db'.budgets[s].census.exposure = db.budgets[s].census.exposure
  <1>1. ASSUME NEW w \in Worker, PersistReservation(w) PROVE Same
    BY <1>1, Reserving, SoundStates, ReservedState
  <1>2. ASSUME NEW w \in Worker, PersistRedemption(w) \/ PersistTransition(w) PROVE Same
    BY <1>2, SwapKeepsBudgets
  <1>3. ASSUME db' = db PROVE Same
    BY <1>3
  <1> HIDE DEF Same
  <1>4. ASSUME NEW w \in Worker, WorkerStep(w) PROVE Same
    BY <1>4, <1>3, <1>2, <1>1
       DEF WorkerStep, Reserve, ConfirmReservation, Redeem, ConfirmRedemption, Submit,
           RejectBeforeSend, Transition, GiveUp, Crash
  <1>5. ASSUME Surroundings PROVE Same
    BY <1>3, <1>5 DEF Surroundings, Tick, InstallBudget, Revoke, CreateDecided, DeploymentEnds
  <1>6. ASSUME UNCHANGED vars PROVE Same
    BY <1>3, <1>6 DEF vars
  <1>7. Same
    BY <1>6, <1>5, <1>4 DEF Next
  <1> QED
    BY <1>7 DEF Same

\* A step that does not join a scope does not add to its usage.
LEMMA UsageReleased ==
    ASSUME Inv, [Next]_vars, \A t \in Budgeted : NewBudget[t] = {}, NEW s \in Budgeted,
           Population(db', s) = Population(db, s)
    PROVE  /\ ActiveUsage(db', s) <= ActiveUsage(db, s)
           /\ UnresolvedUsage(db', s) <= UnresolvedUsage(db, s)
           /\ ExposureUsage(db', s) <= ExposureUsage(db, s)
  <1>1. Sound(db)
    BY SoundStates
  <1>2. Sound(db')
    <2>1. Inv'
      BY NextInv
    <2> QED
      BY <2>1 DEF Inv, TypeOK, ReservationsFollowChain, Sound, Reserved
  <1>3. \A o \in Population(db, s) :
           /\ db'.reservation[o].request = db.reservation[o].request
           /\ \A states \in {ExposedStates, ActiveStates, UnresolvedStates} :
                 db'.reservation[o].state \in states => db.reservation[o].state \in states
    BY Releases, ReservedStays DEF Population
  <1> QED
    BY <1>3, <1>2, <1>1, BudgetsStay, UsageShrinks

\* Where an operation joins a scope, its reservation was just stored.
LEMMA PopulationGrows ==
    ASSUME Inv, [Next]_vars, NEW s \in Budgeted, Population(db', s) # Population(db, s)
    PROVE  \E w \in Worker : PersistReservation(w) /\ Applies(s, job[w].request.scope)
  <1>1. \A o \in Op : Reserved(db, o) =>
           Reserved(db', o) /\ db'.reservation[o].request = db.reservation[o].request
    BY ReservedStays DEF Reserved
  <1>2. PICK o \in Population(db', s) : o \notin Population(db, s)
    BY <1>1 DEF Population
  <1>3. o \in Op /\ Reserved(db', o) /\ ~Reserved(db, o)
    BY <1>1, <1>2 DEF Population
  <1>4. PICK w \in Worker : PersistReservation(w) /\ job[w].request.op = o
    BY <1>3, EntersByReservation
  <1>5. db'.reservation[o].request = job[w].request
    BY <1>3, <1>4, PersistReservationMoves
  <1> QED
    BY <1>5, <1>4, <1>2 DEF Population

\* creation_admission.py:940, under every interleaving: with budgets that nobody
\* replaces no scope, owner or leaf, is ever used beyond one of its three limits.
THEOREM CeilingsKept ==
    ASSUME \A s \in Budgeted : NewBudget[s] = {}
    PROVE  Spec => []CeilingsHold
  <1> DEFINE Within == FirstBudgets /\ CeilingsHold
  <1>1. Init => Within
    BY DEF Init, FirstBudgets, CeilingsHold, Population, Reserved, NoReservation
  <1>2. Inv /\ Within /\ [Next]_vars => Within'
    <2> SUFFICES ASSUME Inv, FirstBudgets, CeilingsHold, [Next]_vars PROVE Within'
      OBVIOUS
    <2>1. FirstBudgets'
      BY BudgetsStay DEF FirstBudgets
    <2>2. ASSUME NEW s \in Budgeted, NEW o \in Op, o \in Population(db', s)
          PROVE  /\ ActiveUsage(db', s) <= InitBudget[s].limits.maxActive
                 /\ UnresolvedUsage(db', s) <= InitBudget[s].limits.maxUnresolved
                 /\ ExposureUsage(db', s) <= InitBudget[s].limits.maxExposure
      <3>1. CASE Population(db', s) # Population(db, s)
        BY <3>1, PopulationGrows, AdmissionCovered DEF FirstBudgets
      <3>2. CASE Population(db', s) = Population(db, s)
        <4>1. /\ ActiveUsage(db', s) <= ActiveUsage(db, s)
              /\ UnresolvedUsage(db', s) <= UnresolvedUsage(db, s)
              /\ ExposureUsage(db', s) <= ExposureUsage(db, s)
          BY <3>2, UsageReleased
        <4>2. /\ ActiveUsage(db, s) <= InitBudget[s].limits.maxActive
              /\ UnresolvedUsage(db, s) <= InitBudget[s].limits.maxUnresolved
              /\ ExposureUsage(db, s) <= InitBudget[s].limits.maxExposure
          BY <2>2, <3>2 DEF CeilingsHold
        <4>3. ActiveUsage(db, s) \in Nat /\ UnresolvedUsage(db, s) \in Nat
              /\ ExposureUsage(db, s) \in Nat
          BY SoundStates, UsageFinite, BudgetTyped, UsageIs
        <4>4. ActiveUsage(db', s) \in Nat /\ UnresolvedUsage(db', s) \in Nat
              /\ ExposureUsage(db', s) \in Nat
          <5>1. Inv'
            BY NextInv
          <5>2. Sound(db')
            BY <5>1 DEF Inv, TypeOK, ReservationsFollowChain, Sound, Reserved
          <5> QED
            BY <5>2, UsageFinite, BudgetTyped, UsageIs
        <4>5. InitBudget[s].limits.maxActive \in Nat
              /\ InitBudget[s].limits.maxUnresolved \in Nat
              /\ InitBudget[s].limits.maxExposure \in Nat
          BY SoundStates, BudgetTyped DEF FirstBudgets
        <4> QED
          BY <4>5, <4>4, <4>3, <4>2, <4>1
      <3> QED
        BY <3>1, <3>2
    <2>3. CeilingsHold'
      BY <2>2 DEF CeilingsHold
    <2> QED
      BY <2>1, <2>3
  <1>3. Within => CeilingsHold
    OBVIOUS
  <1> HIDE DEF Within
  <1> QED
    BY <1>3, <1>2, <1>1, Invariance, PTL DEF Spec

----
\* The ledger.

\* The ledger's view of a state: its quotas, what each operation holds, and the
\* operations whose create was sent.
Quotas(st) == [s \in Budgeted |-> Quota(st, s)]

Holdings(st) ==
    [o \in Op |-> [request |-> st.reservation[o].request,
                   holding |-> HoldingOf(st.reservation[o].state)]]

SentOps(counts) == {o \in Op : counts[o] > 0}

LEMMA View ==
    /\ Ledger!ledgerVars = <<Quotas(db), Holdings(db), SentOps(sends)>>
    /\ (Ledger!ledgerVars)' = <<Quotas(db'), Holdings(db'), SentOps(sends')>>
  BY DEF Ledger!ledgerVars, Quotas, Holdings, SentOps, Quota

\* Which states hold what.
LEMMA HoldingStates ==
    ASSUME NEW state \in ReservationState
    PROVE  /\ HoldingOf(state) = "nothing" <=> state = "ABSENT"
           /\ HoldingOf(state) \in Ledger!Open <=> state \in UnresolvedStates
           /\ HoldingOf(state) \in Ledger!Active <=> state \in ActiveStates
           /\ HoldingOf(state) \in Ledger!Funded <=> state \in ExposedStates
  BY DEF ReservationState, HoldingOf, UnresolvedStates, ActiveStates, ExposedStates,
         Ledger!Open, Ledger!Active, Ledger!Funded

LEMMA SameSize == ASSUME NEW S PROVE Ledger!Cardinality(S) = Cardinality(S)
  BY DEF Ledger!Cardinality, Cardinality

\* The ledger finds the same operations under a scope, and the same use of it.
LEMMA LedgerUsage ==
    ASSUME Inv, NEW s
    PROVE  /\ Ledger!Under(s) = Population(db, s)
           /\ Ledger!Slots(s, Ledger!Active) = Cardinality(Uses(db, s, ActiveStates))
           /\ Ledger!Slots(s, Ledger!Open) = Cardinality(Uses(db, s, UnresolvedStates))
           /\ Ledger!Funds(s) = Cardinality(ExposureUnits(db, s))
  <1> DEFINE res(o) == db.reservation[o]
  <1>1. \A o \in Op : res(o).state \in ReservationState
    BY DEF Inv, TypeOK, AdmissionState, Reservation
  <1>2. \A o \in Op : res(o).state # "ABSENT" => res(o).request.scope \in Leaf
    BY SoundStates, ConstantsAssumption DEF Sound, Reserved, RequestType
  <1>3. Ledger!Under(s) = Population(db, s)
    BY <1>1, <1>2, HoldingStates DEF Ledger!Under, Population, Reserved, Applies
  <1>4. ASSUME NEW holdings, NEW states,
               \A state \in ReservationState : HoldingOf(state) \in holdings <=> state \in states
        PROVE  {o \in Population(db, s) : HoldingOf(res(o).state) \in holdings}
                  = Uses(db, s, states)
    BY <1>1, <1>4 DEF Uses, Population
  <1>5. {o \in Population(db, s) : HoldingOf(res(o).state) \in Ledger!Active}
           = Uses(db, s, ActiveStates)
    BY <1>4, HoldingStates
  <1>6. {o \in Population(db, s) : HoldingOf(res(o).state) \in Ledger!Open}
           = Uses(db, s, UnresolvedStates)
    BY <1>4, HoldingStates
  <1>7. {o \in Population(db, s) : HoldingOf(res(o).state) \in Ledger!Funded}
           = Uses(db, s, ExposedStates)
    BY <1>4, HoldingStates
  <1>8. \A o \in Population(db, s) :
           o \in Op /\ Holdings(db)[o].holding = HoldingOf(res(o).state)
                   /\ Holdings(db)[o].request = res(o).request
    BY DEF Population, Holdings
  <1>9. ASSUME NEW holdings
        PROVE  Ledger!Slots(s, holdings) =
                  Cardinality({o \in Population(db, s) : HoldingOf(res(o).state) \in holdings})
    <2>1. Ledger!Slots(s, holdings) =
             Cardinality({o \in Population(db, s) : Holdings(db)[o].holding \in holdings})
      BY <1>3, SameSize DEF Ledger!Slots, Holdings
    <2>2. {o \in Population(db, s) : Holdings(db)[o].holding \in holdings} =
             {o \in Population(db, s) : HoldingOf(res(o).state) \in holdings}
      BY <1>8
    <2> QED
      BY <2>1, <2>2
  <1>10. /\ Ledger!Slots(s, Ledger!Active) = Cardinality(Uses(db, s, ActiveStates))
         /\ Ledger!Slots(s, Ledger!Open) = Cardinality(Uses(db, s, UnresolvedStates))
    BY <1>9, <1>6, <1>5
  <1>11. Ledger!Funds(s) = Cardinality(ExposureUnits(db, s))
    <2>1. Ledger!Funds(s) =
             Cardinality(UNION {{o} \X (1 .. res(o).request.amount) :
                                   o \in Uses(db, s, ExposedStates)})
      <3>1. Ledger!Funds(s) =
               Cardinality(UNION {{o} \X (1 .. Holdings(db)[o].request.amount) :
                    o \in {q \in Population(db, s) : Holdings(db)[q].holding \in Ledger!Funded}})
        BY <1>3, SameSize DEF Ledger!Funds, Holdings
      <3>2. {q \in Population(db, s) : Holdings(db)[q].holding \in Ledger!Funded}
               = Uses(db, s, ExposedStates)
        BY <1>7, <1>8
      <3>3. {{o} \X (1 .. Holdings(db)[o].request.amount) : o \in Uses(db, s, ExposedStates)}
               = {{o} \X (1 .. res(o).request.amount) : o \in Uses(db, s, ExposedStates)}
        BY <1>8 DEF Uses
      <3> QED
        BY <3>3, <3>2, <3>1
    <2>2. UNION {{o} \X (1 .. res(o).request.amount) : o \in Uses(db, s, ExposedStates)}
             = ExposureUnits(db, s)
      BY DEF ExposureUnits, FinancialExposure, Uses
    <2> QED
      BY <2>1, <2>2
  <1> QED
    BY <1>11, <1>10, <1>3

\* What the code compares with the limits is what the ledger does.
LEMMA Room ==
    ASSUME Inv, NEW s \in Budgeted, NEW r, WithinCeilings(db, s, r)
    PROVE  Ledger!HasRoom(s, r)
  BY LedgerUsage, UsageIs DEF Ledger!HasRoom, Quota, WithinCeilings

----
\* Budgets that stay leave the quotas as they are.
LEMMA QuotasStay ==
    ASSUME NEW st, NEW n, n.budgets = st.budgets
    PROVE  Quotas(n) = Quotas(st)
  BY DEF Quotas, Quota

LEMMA AdmitStep ==
    ASSUME Inv, NEW w \in Worker, PersistReservation(w)
    PROVE  \E r \in Request : Ledger!Admit(r)
  <1>0. PICK r \in Request : r = job[w].request
    BY Reserving
  <1>1. /\ db' = ReserveCapacity(db, r) /\ ~Reserved(db, r.op)
        /\ BudgetsBound(db, r)
        /\ \A s \in ApplicableBudgets(r.scope) : WithinCeilings(db, s, r)
        /\ UNCHANGED sends
    BY <1>0, Reserving
  <1>2. /\ r.op \in Op
        /\ db'.reservation[r.op].request = r
        /\ db'.reservation[r.op].state = "RESERVED"
        /\ \A o \in Op \ {r.op} : db'.reservation[o] = db.reservation[o]
        /\ \A s \in Budgeted :
              /\ db'.budgets[s].limits = db.budgets[s].limits
              /\ db'.budgets[s].census.active = db.budgets[s].census.active
              /\ db'.budgets[s].census.unresolved = db.budgets[s].census.unresolved
              /\ db'.budgets[s].census.exposure = db.budgets[s].census.exposure
    BY <1>1, SoundStates, ReservedState
  <1>3. r.scope \in Leaf
    BY <1>1, ConstantsAssumption DEF RequestType
  <1>4. ApplicableBudgets(r.scope) = {OwnerOf[r.scope], r.scope}
    BY <1>1 DEF BudgetsBound, RequiredBudgets
  <1>5. \A s \in {r.scope, OwnerOf[r.scope]} : s \in Budgeted /\ Ledger!HasRoom(s, r)
    BY <1>1, <1>4, Room DEF ApplicableBudgets
  <1>6. Holdings(db)[r.op].holding = "nothing"
    BY <1>1, <1>2 DEF Holdings, HoldingOf, Reserved
  <1>7. Holdings(db') = [Holdings(db) EXCEPT ![r.op] = [request |-> r, holding |-> "claim"]]
    BY <1>2 DEF Holdings, HoldingOf
  <1>8. Quotas(db') = Quotas(db)
    BY <1>2 DEF Quotas, Quota
  <1>9. SentOps(sends') = SentOps(sends)
    BY <1>1
  <1>10. Ledger!Admit(r)
    BY <1>9, <1>8, <1>7, <1>6, <1>5, <1>3
       DEF Ledger!Admit, Holdings, Quotas, SentOps, Quota
  <1> QED
    BY <1>10

\* A change of one holding is an advance of the ledger.
LEMMA AdvanceStep ==
    ASSUME NEW o \in Op, NEW from, NEW to,
           HoldingOf(db.reservation[o].state) = from,
           HoldingOf(db'.reservation[o].state) = to,
           db'.reservation[o].request = db.reservation[o].request,
           \A q \in Op \ {o} : db'.reservation[q] = db.reservation[q],
           db'.budgets = db.budgets, sends' = sends
    PROVE  Ledger!Advance(o, from, to)
  <1>1. Holdings(db') = [Holdings(db) EXCEPT ![o].holding = to]
    <2>1. /\ o \in Op /\ db'.reservation[o].request = db.reservation[o].request
          /\ \A q \in Op \ {o} : db'.reservation[q] = db.reservation[q]
      OBVIOUS
    <2>2. Holdings(db') = [Holdings(db) EXCEPT ![o].holding = HoldingOf(db'.reservation[o].state)]
      BY ONLY <2>1 DEF Holdings
    <2> QED
      BY <2>2
  <1>2. Quotas(db') = Quotas(db) /\ SentOps(sends') = SentOps(sends)
    BY QuotasStay
  <1> QED
    BY <1>1, <1>2 DEF Ledger!Advance, Holdings, Quotas, SentOps, Quota

LEMMA RedemptionStep ==
    ASSUME Inv, NEW w \in Worker, PersistRedemption(w)
    PROVE  \E o \in Op : Ledger!Advance(o, "claim", "attempt")
  <1>1. job[w].kind = "redeem" /\ job[w] \in Job
    BY DEF PersistRedemption, Inv, TypeOK
  <1>2. job[w].permit.op \in Op
    BY <1>1, JobFields DEF Permit
  <1>3. /\ Redeems(job[w].permit.op)
        /\ \A q \in Op \ {job[w].permit.op} : db'.reservation[q] = db.reservation[q]
    BY <1>2, PersistRedemptionMoves
  <1>4. db'.budgets = db.budgets /\ sends' = sends
    BY SwapKeepsBudgets
  <1>5. Ledger!Advance(job[w].permit.op, "claim", "attempt")
    BY <1>4, <1>3, <1>2, AdvanceStep DEF Redeems, HoldingOf
  <1> QED
    BY <1>2, <1>5

\* How holdings advance on lifecycle evidence.
LEMMA EvidenceAdvances ==
    ASSUME NEW e \in Lifecycle, NEW state \in ReservationState,
           TargetState(e) \in AllowedTransitions(state)
    PROVE  \/ HoldingOf(state) = "attempt" /\ HoldingOf(TargetState(e)) = "attempt"
           \/ HoldingOf(state) = "attempt" /\ HoldingOf(TargetState(e)) = "deployment"
           \/ HoldingOf(state) = "attempt" /\ HoldingOf(TargetState(e)) = "released"
           \/ HoldingOf(state) = "deployment" /\ HoldingOf(TargetState(e)) = "funds"
           \/ HoldingOf(state) = "funds" /\ HoldingOf(TargetState(e)) = "released"
  <1>1. e.kind \in EvidenceKind
    BY EvidenceFields
  <1> QED
    BY <1>1 DEF EvidenceKind, ReservationState, TargetState, AllowedTransitions, HoldingOf

LEMMA TransitionStep ==
    ASSUME Inv, NEW w \in Worker, PersistTransition(w)
    PROVE  Ledger!LedgerNext \/ (Ledger!ledgerVars)' = Ledger!ledgerVars
  <1>1. job[w].kind = "transition" /\ job[w] \in Job
    BY DEF PersistTransition, Inv, TypeOK
  <1>2. PICK e \in Lifecycle : e = job[w].evidence
    BY <1>1, JobFields
  <1>3. PICK o \in Op : o = e.op
    BY EvidenceFields
  <1>4. TransitionsBy(o, e) /\ \A q \in Op \ {o} : db'.reservation[q] = db.reservation[q]
    BY <1>2, <1>3, PersistTransitionMoves
  <1>5. db'.budgets = db.budgets /\ sends' = sends
    BY SwapKeepsBudgets
  <1>6. PICK state \in ReservationState : state = db.reservation[o].state
    BY DEF Inv, TypeOK, AdmissionState, Reservation
  <1>7. /\ TargetState(e) \in AllowedTransitions(state)
        /\ db'.reservation[o].state = TargetState(e)
        /\ db'.reservation[o].request = db.reservation[o].request
    BY <1>4, <1>6 DEF TransitionsBy
  <1>8. ASSUME NEW from, NEW to, HoldingOf(state) = from, HoldingOf(TargetState(e)) = to
        PROVE  Ledger!Advance(o, from, to)
    BY <1>8, <1>7, <1>6, <1>5, <1>4, AdvanceStep
  <1>9. CASE HoldingOf(state) = "attempt" /\ HoldingOf(TargetState(e)) = "attempt"
    <2>1. Holdings(db') = Holdings(db)
      BY <1>9, <1>7, <1>6, <1>4 DEF Holdings
    <2> QED
      BY <1>5, <2>1, View, QuotasStay
  <1>10. CASE HoldingOf(state) = "attempt" /\ HoldingOf(TargetState(e)) = "deployment"
    <2>1. Ledger!Advance(o, "attempt", "deployment")
      BY <1>8, <1>10
    <2> QED
      BY <2>1 DEF Ledger!LedgerNext
  <1>11. CASE HoldingOf(state) = "attempt" /\ HoldingOf(TargetState(e)) = "released"
    <2>1. Ledger!Advance(o, "attempt", "released")
      BY <1>8, <1>11
    <2> QED
      BY <2>1 DEF Ledger!LedgerNext
  <1>12. CASE HoldingOf(state) = "deployment" /\ HoldingOf(TargetState(e)) = "funds"
    <2>1. Ledger!Advance(o, "deployment", "funds")
      BY <1>8, <1>12
    <2> QED
      BY <2>1 DEF Ledger!LedgerNext
  <1>13. CASE HoldingOf(state) = "funds" /\ HoldingOf(TargetState(e)) = "released"
    <2>1. Ledger!Advance(o, "funds", "released")
      BY <1>8, <1>13
    <2> QED
      BY <2>1 DEF Ledger!LedgerNext
  <1> QED
    BY <1>13, <1>12, <1>11, <1>10, <1>9, <1>7, EvidenceAdvances

LEMMA SendStep ==
    ASSUME Inv, NEW w \in Worker, Submit(w)
    PROVE  \E o \in Op : Ledger!Send(o)
  <1>1. job[w].kind = "authorized" /\ job[w] \in Job /\ sends \in [Op -> Nat]
    BY DEF Submit, Inv, TypeOK
  <1>2. PICK o \in Op : o = job[w].op
    BY <1>1, JobFields
  <1>3. db' = db /\ sends' = [sends EXCEPT ![o] = @ + 1]
    BY <1>2 DEF Submit
  <1>4. /\ sends[o] = 0
        /\ db.reservation[o].state \in {"SUBMITTING", "CREATE_OUTCOME_UNKNOWN"}
    BY <1>1, <1>2 DEF Inv, AuthorityHeld, Holds
  <1>5. Holdings(db)[o].holding = "attempt"
    BY <1>4 DEF Holdings, HoldingOf
  <1>6. o \notin SentOps(sends) /\ SentOps(sends') = SentOps(sends) \cup {o}
    BY <1>4, <1>3, <1>1 DEF SentOps
  <1>7. Ledger!Send(o)
    BY <1>6, <1>5, <1>3 DEF Ledger!Send, Holdings, SentOps
  <1> QED
    BY <1>7

LEMMA RebudgetStep ==
    ASSUME Inv, NEW s \in Budgeted, NEW b, NEW x, InstallBudget(s, b, x)
    PROVE  Ledger!Rebudget(s)
  <1>1. db' = Rebudgeted(db, s, b, x) /\ sends' = sends
    BY DEF InstallBudget
  <1>2. db'.reservation = db.reservation
        /\ \A q \in Budgeted \ {s} : db'.budgets[q] = db.budgets[q]
    BY <1>1 DEF Rebudgeted, Inv, TypeOK, AdmissionState
  <1> QED
    BY <1>1, <1>2 DEF Ledger!Rebudget, Quota

LEMMA LedgerStep == Inv /\ [Next]_vars => [Ledger!LedgerNext]_(Ledger!ledgerVars)
  <1> SUFFICES ASSUME Inv, [Next]_vars PROVE [Ledger!LedgerNext]_(Ledger!ledgerVars)
    OBVIOUS
  <1> DEFINE Goal == Ledger!LedgerNext \/ (Ledger!ledgerVars)' = Ledger!ledgerVars
  <1>1. CASE UNCHANGED <<db, sends>>
    BY <1>1, View
  <1>2. ASSUME NEW w \in Worker, PersistReservation(w) PROVE Goal
    BY <1>2, AdmitStep DEF Ledger!LedgerNext
  <1>3. ASSUME NEW w \in Worker, PersistRedemption(w) PROVE Goal
    BY <1>3, RedemptionStep DEF Ledger!LedgerNext
  <1>4. ASSUME NEW w \in Worker, PersistTransition(w) PROVE Goal
    BY <1>4, TransitionStep
  <1>5. ASSUME NEW w \in Worker, Submit(w) PROVE Goal
    BY <1>5, SendStep DEF Ledger!LedgerNext
  <1>6. ASSUME NEW s \in Budgeted, NEW b, NEW x, InstallBudget(s, b, x) PROVE Goal
    BY <1>6, RebudgetStep DEF Ledger!LedgerNext
  <1> HIDE DEF Goal
  <1>7. Goal \/ UNCHANGED <<db, sends>>
    <2>1. ASSUME NEW w \in Worker, WorkerStep(w) PROVE Goal \/ UNCHANGED <<db, sends>>
      BY <2>1, <1>5, <1>4, <1>3, <1>2
         DEF WorkerStep, Reserve, ConfirmReservation, Redeem, ConfirmRedemption,
             RejectBeforeSend, Transition, GiveUp, Crash
    <2>2. CASE Surroundings
      BY <1>6, <2>2 DEF Surroundings, Tick, Revoke, CreateDecided, DeploymentEnds
    <2>3. CASE UNCHANGED vars
      BY <2>3 DEF vars
    <2> QED
      BY <2>3, <2>2, <2>1 DEF Next
  <1> QED
    BY <1>1, <1>7 DEF Goal

\* creation_admission.py:881 and what follows it: snapshots, revisions, permits,
\* receipts, races and crashes implement the atomic ledger.
THEOREM LedgerImplemented == Spec => ImplementsLedger
  <1>1. Init => Ledger!LedgerInit
    BY DEF Init, NoReservation, HoldingOf, Ledger!LedgerInit
  <1> QED
    BY <1>1, Invariance, LedgerStep, PTL DEF Spec, ImplementsLedger, Ledger!LedgerSpec

====
