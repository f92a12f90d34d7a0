---- MODULE OperationExposure ----
\* The financial record of one operation: a lifetime maximum of native
\* liabilities and the retained effects (create, deposits, fees, ...) that
\* are charged to it.  Pure functions from one immutable
\* FinancialOperationState to the next; FundingActors runs them.
\*
\* A digest is the value it digests.  An actor stands for the digest of
\* its registration, a Binding for the chain, owner, backend, CAS domain,
\* policy revision and writer population that a registration and a maximum
\* must share, and a transaction is named by its signing document.
EXTENDS Liabilities, Sequences

CONSTANTS
    Op,             \* operation IDs
    Owner,          \* owner accounts
    Leaf,           \* creator leaves
    Binding,        \* chain, owner, backend, domain, policy and writers
    Principal,      \* service principals
    Actor,          \* registered funding actors
    RegistrationOf, \* the registration of each actor
    Wallet,         \* signing wallets
    EffectId,
    AttemptId,
    SignDoc,        \* signing documents, and the transactions made of them
    Subject,        \* deployment keys
    OwnerOf         \* the owner a deployment key names

----
\* Maxima, registrations, intents and observations.
FinancialEffectPurpose ==
    {"CREATE", "DEPOSIT", "FEE_REFILL", "TRANSACTION_FEE", "GRANT", "MINT", "AMENDMENT"}

FundingActorRegistration ==
    [principal: Principal, binding: Binding, leaves: SUBSET Leaf,
     wallets: SUBSET Wallet, purposes: SUBSET FinancialEffectPurpose,
     observedAt: Nat, validUntil: Nat]

ServicePrincipalObservation ==
    [principal: Principal, epoch: Nat, active: BOOLEAN, observedAt: Nat, validUntil: Nat]

\* A qualified uACT basis is optional and bound to the maximum it comes with.
QualifiedUactBasis == [observedAt: Nat, validUntil: Nat]

OperationMaximumLiability ==
    {m \in [op: Op, leaf: Leaf, owner: Owner, binding: Binding,
            native: NativeLiabilityVector, basis: SUBSET QualifiedUactBasis,
            observedAt: Nat, validUntil: Nat] : \E d \in m.native.names : m.native.amount[d] > 0}

FinancialEffectIntent ==
    {i \in [op: Op, quote: OperationMaximumLiability, effect: EffectId,
            attempt: AttemptId, actor: Actor, principal: Principal, epoch: Nat,
            subject: Subject, wallet: Wallet, sequence: Nat, doc: SignDoc,
            purpose: FinancialEffectPurpose, maximum: NativeLiabilityVector,
            fee: NativeLiabilityVector, createdAt: Nat] :
        /\ Covers(i.maximum, i.fee)
        /\ i.purpose = "TRANSACTION_FEE" => i.maximum = i.fee}

FinancialEffectState ==
    {"SIGN_RESERVED_UNKNOWN", "SIGNED", "BROADCAST_CLAIMED_UNKNOWN",
     "CONFIRMED", "FAILED", "PROVEN_NOT_SIGNED"}

Terminal == {"CONFIRMED", "FAILED"}

\* An observation has the fields its state requires, and no others.
FinancialEffectObservation ==
    [state: {"PROVEN_NOT_SIGNED"}, intent: FinancialEffectIntent, observedAt: Nat]
    \cup [state: {"SIGNED"}, intent: FinancialEffectIntent, observedAt: Nat, tx: SignDoc]
    \cup [state: {"BROADCAST_CLAIMED_UNKNOWN"}, intent: FinancialEffectIntent,
          observedAt: Nat, tx: SignDoc, principal: ServicePrincipalObservation]
    \cup [state: Terminal, intent: FinancialEffectIntent, observedAt: Nat,
          tx: SignDoc, actual: NativeLiabilityVector]

ASSUME ExposureConstants ==
    /\ IsFiniteSet(Denomination)
    /\ RegistrationOf \in [Actor -> FundingActorRegistration]
    /\ OwnerOf \in [Subject -> Owner]

----
\* FinancialEffectRecord: one intent and what was observed of it.
FinancialEffectRecord ==
    [intent: FinancialEffectIntent, observations: Seq(FinancialEffectObservation)]

EffectState(rec) ==
    IF rec.observations = <<>> THEN "SIGN_RESERVED_UNKNOWN"
    ELSE rec.observations[Len(rec.observations)].state

LatestTime(rec) ==
    IF rec.observations = <<>> THEN rec.intent.createdAt
    ELSE rec.observations[Len(rec.observations)].observedAt

\* Mutant: a broadcast may be claimed once more.
AllowedStatesReclaimed(state) ==
    CASE state = "SIGN_RESERVED_UNKNOWN" -> {"SIGNED", "PROVEN_NOT_SIGNED"}
      [] state = "SIGNED" -> {"BROADCAST_CLAIMED_UNKNOWN"}
      [] state = "BROADCAST_CLAIMED_UNKNOWN" -> Terminal \cup {"BROADCAST_CLAIMED_UNKNOWN"}
      [] OTHER -> {}

AllowedStates(state) ==
    CASE state = "SIGN_RESERVED_UNKNOWN" -> {"SIGNED", "PROVEN_NOT_SIGNED"}
      [] state = "SIGNED" -> {"BROADCAST_CLAIMED_UNKNOWN"}
      [] state = "BROADCAST_CLAIMED_UNKNOWN" -> Terminal
      [] OTHER -> {}

\* Mutant: the outcome may be that of another transaction.
AnyTransaction(rec, o) == TRUE

SameTransaction(rec, o) ==
    \A k \in DOMAIN rec.observations : o.tx = rec.observations[k].tx

\* Mutant: the principal is active, under whatever epoch.
PrincipalOfAnyEpoch(intent, o) ==
    /\ o.principal.principal = intent.principal
    /\ o.principal.active
    /\ o.principal.observedAt <= o.observedAt
    /\ o.observedAt <= o.principal.validUntil

PrincipalBound(intent, o) ==
    /\ o.principal.principal = intent.principal
    /\ o.principal.epoch = intent.epoch
    /\ o.principal.active
    /\ o.principal.observedAt <= o.observedAt
    /\ o.observedAt <= o.principal.validUntil

DebitBounded(intent, o) ==
    Covers(intent.maximum, o.actual) /\ Covers(o.actual, intent.fee)

\* The record may be extended by the observation o.
Observable(rec, o) ==
    /\ o.state \in AllowedStates(EffectState(rec))
    /\ LatestTime(rec) <= o.observedAt
    /\ o.intent = rec.intent
    /\ o.state # "PROVEN_NOT_SIGNED" => SameTransaction(rec, o)
    /\ o.state = "BROADCAST_CLAIMED_UNKNOWN" => PrincipalBound(rec.intent, o)
    /\ o.state \in Terminal => DebitBounded(rec.intent, o)

UpTo(rec, n) ==
    [intent |-> rec.intent, observations |-> SubSeq(rec.observations, 1, n)]

ValidRecord(rec) ==
    \A n \in DOMAIN rec.observations : Observable(UpTo(rec, n - 1), rec.observations[n])

\* Mutant: a failed transaction is taken to cost nothing.
ChargedUnlessFailed(rec) ==
    CASE EffectState(rec) \in {"PROVEN_NOT_SIGNED", "FAILED"} -> NoDebit
      [] EffectState(rec) = "CONFIRMED" -> rec.observations[Len(rec.observations)].actual
      [] OTHER -> rec.intent.maximum

\* What an effect takes of the operation's maximum: all it may debit, until it is
\* known what it did.
ChargedDebit(rec) ==
    CASE EffectState(rec) = "PROVEN_NOT_SIGNED" -> NoDebit
      [] EffectState(rec) \in Terminal -> rec.observations[Len(rec.observations)].actual
      [] OTHER -> rec.intent.maximum

----
\* FinancialOperationState and its constructor's demands.  The digest of
\* the previous state is left out: it is what the store compares.
FinancialOperationState ==
    [maximum: OperationMaximumLiability, revision: Nat, effects: Seq(FinancialEffectRecord)]

\* The number of retained events: one per intent, one per observation.
Events(effects) ==
    Cardinality(UNION {{i} \X (0 .. Len(effects[i].observations)) : i \in DOMAIN effects})

FinancialNativeUsage(effects) ==
    AddNativeLiabilities([i \in DOMAIN effects |-> ChargedDebit(effects[i])])

IdentitiesUnique(effects) ==
    \A i, k \in DOMAIN effects : i # k =>
        LET a == effects[i].intent
            b == effects[k].intent IN
        /\ a.effect # b.effect
        /\ a.attempt # b.attempt
        /\ a.doc # b.doc
        /\ <<a.wallet, a.sequence>> # <<b.wallet, b.sequence>>

\* Mutant: later effects may be for any deployment.
CreateOfAnySubject(effects) ==
    \A i \in DOMAIN effects :
        /\ i = 1 => effects[i].intent.purpose = "CREATE"
        /\ i > 1 =>
              /\ effects[i].intent.purpose \notin {"CREATE", "AMENDMENT"}
              /\ EffectState(effects[1]) = "CONFIRMED"
              /\ LatestTime(effects[1]) <= effects[i].intent.createdAt

CreateFirst(effects) ==
    \A i \in DOMAIN effects :
        /\ effects[i].intent.subject = effects[1].intent.subject
        /\ i = 1 => effects[i].intent.purpose = "CREATE"
        /\ i > 1 =>
              /\ effects[i].intent.purpose \notin {"CREATE", "AMENDMENT"}
              /\ EffectState(effects[1]) = "CONFIRMED"
              /\ LatestTime(effects[1]) <= effects[i].intent.createdAt

OfOperation(maximum, intent) ==
    /\ intent.op = maximum.op
    /\ intent.quote = maximum
    /\ OwnerOf[intent.subject] = maximum.owner

ValidOperation(st) ==
    /\ \A i \in DOMAIN st.effects : /\ ValidRecord(st.effects[i])
                                    /\ OfOperation(st.maximum, st.effects[i].intent)
    /\ st.revision = Events(st.effects)
    /\ IdentitiesUnique(st.effects)
    /\ CreateFirst(st.effects)
    /\ Covers(st.maximum.native, FinancialNativeUsage(st.effects))

----
\* Proposals.  An ACK names the committed state and the time of the commit
BindsState(st, ack) ==
    /\ ack.state = st
    /\ \A i \in DOMAIN st.effects :
          /\ st.effects[i].intent.createdAt <= ack.observedAt
          /\ LatestTime(st.effects[i]) <= ack.observedAt
    /\ (\A i \in DOMAIN st.effects : st.effects[i].observations = <<>>) =>
          st.maximum.observedAt <= ack.observedAt

MaximumCurrent(m, now) ==
    \A evidence \in {m} \cup m.basis :
        evidence.observedAt <= now /\ now <= evidence.validUntil

ProposeOperationMaximum(m) == [maximum |-> m, revision |-> 0, effects |-> <<>>]

PrincipalCurrent(intent, seen, now) ==
    LET registration == RegistrationOf[intent.actor] IN
    /\ intent.principal = registration.principal
    /\ seen.principal = registration.principal
    /\ intent.epoch = seen.epoch
    /\ seen.active
    /\ seen.observedAt <= now /\ now <= seen.validUntil
    /\ registration.observedAt <= now /\ now <= registration.validUntil
    /\ intent.createdAt = now

ActorEntitled(m, intent) ==
    LET registration == RegistrationOf[intent.actor] IN
    /\ registration.binding = m.binding
    /\ m.leaf \in registration.leaves
    /\ intent.wallet \in registration.wallets
    /\ intent.purpose \in registration.purposes
    /\ intent.purpose # "AMENDMENT"

WithEffect(st, intent) ==
    [maximum |-> st.maximum, revision |-> st.revision + 1,
     effects |-> Append(st.effects, [intent |-> intent, observations |-> <<>>])]

ProposesEffect(st, intent, seen, ack, now) ==
    /\ BindsState(st, ack)
    /\ ack.observedAt <= now
    /\ PrincipalCurrent(intent, seen, now)
    /\ ActorEntitled(st.maximum, intent)
    /\ \A i \in DOMAIN st.effects :
          /\ st.effects[i].intent.effect # intent.effect
          /\ st.effects[i].intent.attempt # intent.attempt
    /\ st.effects = <<>> <=> intent.purpose = "CREATE"
    /\ st.effects # <<>> => EffectState(st.effects[1]) = "CONFIRMED"
    /\ ValidOperation(WithEffect(st, intent))

WithObservation(st, i, o) ==
    [maximum |-> st.maximum, revision |-> st.revision + 1,
     effects |-> [st.effects EXCEPT ![i] =
        [intent |-> @.intent, observations |-> Append(@.observations, o)]]]

ProposesObservation(st, i, o, ack, now) ==
    /\ BindsState(st, ack)
    /\ ack.observedAt <= now
    /\ o.observedAt <= now
    /\ o.state = "BROADCAST_CLAIMED_UNKNOWN" =>
          /\ o.observedAt = now
          /\ o.principal.active
          /\ o.principal.observedAt <= now /\ now <= o.principal.validUntil
    /\ Observable(st.effects[i], o)
    /\ ValidOperation(WithObservation(st, i, o))

====
