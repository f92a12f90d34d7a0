---- MODULE CloseActors ----
\* Closers gather the evidence for a retirement piece by piece, ask
\* ClosePolicy, and go on to other deployments.  Meanwhile CI attempts
\* end, consumers come back, handoffs fail and recover, releases are
\* retired and kept after all, deployments close, and production gates are
\* opened.  What a source says was true when it was observed.  But a
\* reading may be about something else, be incomplete or be missing, and
\* an unfinalized, partial or disputed view of the chain may be wrong.
\*
\* Facts of every kind are names.  An attempt, a release and a handoff are
\* facts whose end retires something; a deployment is one too.
EXTENDS ClosePolicy

CONSTANTS
    Closer,
    Deployment,
    Origin,     \* of each deployment: where it comes from and what is on chain
    Attempt,    \* of each CI attempt: repository, run and number
    Release,    \* of each staging release: repository and name
    Op,         \* operations, whose handoff may fail
    Grant,      \* of each production authorization: what was requested, by whom
    Principal,  \* of each principal: its kind and its roles
    Plan,       \* what the closers may set out to do, which facts move, when
                \* time ends, and how many readings of one query may be bad
    Validity,   \* how long evidence is good for
    MaxTries    \* bound on the queries of one closer

ASSUME CloseAssumption ==
    /\ IsFiniteSet(Closer) /\ Deployment = DOMAIN Origin
    /\ \A d \in Deployment : Origin[d].op \in Op
    /\ \A d, e \in Deployment : Origin[d].op = Origin[e].op => d = e
    /\ \A g \in DOMAIN Grant : Grant[g].mode = "external" => Grant[g].bypass = "disabled"
    /\ \A g \in DOMAIN Grant : Grant[g].mode \in {"external", "github_environment"}
    /\ \A p \in Plan :
          /\ \A t \in p.tasks : t[1] \in Deployment /\ t[2] \in CloseIntent
          /\ p.deployments \subseteq Deployment /\ p.closers \subseteq Closer
          /\ p.grants \subseteq DOMAIN Grant
    /\ {Validity, MaxTries} \subseteq Nat

VARIABLES
    plan,
    now,
    fact,       \* how each attempt, release, handoff and deployment stands
    ended,      \* when it last ceased to be what permits a retirement
    gate,       \* who let each production authorization pass, and how
    claimed,    \* the authorizations that the registry has seen used
    job,        \* what each closer has gathered
    tries,      \* the queries that each closer has begun
    allowed     \* the retirements that were allowed

vars == <<plan, now, fact, ended, gate, claimed, job, tries, allowed>>

Fact == DOMAIN Attempt \cup DOMAIN Release \cup Op \cup Deployment

FirstState(f) ==
    IF f \in DOMAIN Attempt THEN "live"
    ELSE IF f \in DOMAIN Release THEN "kept"
    ELSE IF f \in Op THEN "pending"
    ELSE "active"

Moves ==
    {<<"live", "used">>, <<"live", "finished">>, <<"used", "finished">>, <<"finished", "used">>,
     <<"kept", "retired">>, <<"retired", "kept">>,
     <<"pending", "failed">>, <<"pending", "succeeded">>, <<"failed", "succeeded">>,
     <<"active", "closed">>}

\* The states that permit a retirement.
Permitting == {"finished", "retired", "failed", "active"}

Key(d) == [owner |-> Origin[d].owner, dseq |-> d]

\* The deployments of a broker that signs for several producers.
SharedBroker == {d \in Deployment : Origin[d].shared}

NamedAttempt(d) == Origin[d].named \cap DOMAIN Attempt
NamedRelease(d) == Origin[d].named \cap DOMAIN Release

Idle == [phase |-> "idle"]

----
\* What the sources say.
PopulationReads ==
    [d \in Deployment |->
        LET groups == Origin[d].groups IN
        {ClassifyGroups(groups, TRUE), ClassifyGroups(groups, FALSE),
         ClassifyGroups(SubSeq(groups, 1, 1), FALSE)}]

\* The groups of each deployment when all of them are read.
Digest == [d \in Deployment |-> GroupDigest(ClassifyGroups(Origin[d].groups, TRUE))]
Named == [d \in Deployment |-> ClassifyGroups(Origin[d].groups, TRUE).identities[1]]

\* Whoever names a deployment for its own repository names the attempt or the
\* release that the deployment serves.
ASSUME NamingAssumption ==
    \A d \in {e \in Deployment : Origin[e].repository = Named[e].owner} :
        LET i == Named[d] IN
        /\ i.class \in CiClass =>
              \A f \in DOMAIN Attempt :
                  /\ Attempt[f].repository = i.owner
                  /\ Attempt[f].run = i.run /\ Attempt[f].attempt = i.attempt
                  => Origin[d].retires \subseteq {f}
        /\ i.class = "staging-payload" =>
              \A f \in DOMAIN Release :
                  Release[f].repository = i.owner /\ Release[f].release = i.release
                      => Origin[d].retires \subseteq {f}

\* The journal's attribution.
CandidatesOf ==
    [d \in Deployment |->
        [subject |-> Key(d), groups |-> Digest[d], op |-> Origin[d].op,
         ordinal |-> Origin[d].ordinal, count |-> 1, complete |-> TRUE,
         uniqueness |-> "unique", sourced |-> TRUE, reference |-> Origin[d].reference,
         key |-> PreparedKey(Origin[d].owner, Named[d], Origin[d].op, Origin[d].ordinal,
                             Digest[d])]]

CandidateReads(d) ==
    {CandidatesOf[x] : x \in plan.deployments}
        \cup {[CandidatesOf[d] EXCEPT !.complete = FALSE],
              [CandidatesOf[d] EXCEPT !.uniqueness = "unknown"],
              [CandidatesOf[d] EXCEPT !.count = 2]}

ChainOf(d) ==
    [kind |-> "read", subject |-> Key(d), groups |-> Digest[d], independent |-> TRUE,
     finalized |-> TRUE, finality |-> 1, heightA |-> 1, heightB |-> 1, sourced |-> TRUE,
     deployments |-> {Key(d)}, state |-> fact[d], groupCount |-> Len(Origin[d].groups),
     groupPopulation |-> Digest[d], leases |-> 1, leasePopulation |-> "complete",
     leaseDigest |-> {"lease"}, agreement |-> "agreeing", observed |-> now, until |-> now + Validity]

\* A view that is not two independent finalized ones that agree may be wrong.
ChainReads(d) ==
    LET wrong == [ChainOf(d) EXCEPT !.state = "active"] IN
    {ChainOf(x) : x \in plan.deployments}
        \cup {Absent,
              [wrong EXCEPT !.finalized = FALSE], [wrong EXCEPT !.independent = FALSE],
              [wrong EXCEPT !.heightB = 2], [wrong EXCEPT !.agreement = "disagreeing"],
              [wrong EXCEPT !.deployments = {}],
              [ChainOf(d) EXCEPT !.leases = 0], [ChainOf(d) EXCEPT !.leaseDigest = {}]}

\* Who the signer, or the broker that attests the creation, saw.
ProducerOf(d) ==
    LET o == Origin[d]
        claim == [subject |-> Key(d), groups |-> Digest[d], repository |-> o.repository,
                  class |-> o.class, run |-> o.run, attempt |-> o.attempt,
                  release |-> o.release, op |-> o.op, sourced |-> TRUE, issued |-> 1,
                  reference |-> o.reference, environment |-> o.environment] IN
    IF o.shared
    THEN [kind |-> "shared", claim |-> claim, verified |-> claim, sourced |-> TRUE,
          signature |-> "verified", opUniqueness |-> "unique", tokenUniqueness |-> "unique",
          observed |-> now, until |-> now + Validity]
    ELSE [kind |-> "isolated", signer |-> o.owner, repository |-> o.repository,
          class |-> o.class, op |-> o.op, environment |-> o.environment, sourced |-> TRUE,
          observed |-> now, until |-> now + Validity]

\* Claims that nobody vouches for say what the names say.
Unsigned(p, d) ==
    LET claim == [p.claim EXCEPT !.repository = Named[d].owner, !.class = Named[d].class] IN
    [p EXCEPT !.claim = claim, !.verified = claim, !.signature = "unknown"]

ProducerReads(d) ==
    {ProducerOf(x) : x \in plan.deployments} \cup {Absent}
        \cup {Unsigned(ProducerOf(x), x) : x \in {d} \cap SharedBroker}
        \cup {[ProducerOf(x) EXCEPT !.opUniqueness = "reused"] : x \in {d} \cap SharedBroker}

\* CI on an attempt, read for a deployment.
CleanupOf(d, f) ==
    [kind |-> "ci", subject |-> Key(d), repository |-> Attempt[f].repository,
     run |-> Attempt[f].run, attempt |-> Attempt[f].attempt,
     runState |-> IF fact[f] = "live" THEN "live" ELSE "terminal",
     consumers |-> IF fact[f] = "finished" THEN "finished" ELSE "active",
     sourced |-> TRUE, observed |-> now, until |-> now + Validity]

CleanupReads(d) ==
    {CleanupOf(x, f) : x \in plan.deployments, f \in plan.facts \cap DOMAIN Attempt}
        \cup {[CleanupOf(d, f) EXCEPT !.runState = "unknown"] : f \in NamedAttempt(d)}
        \cup {[CleanupOf(d, f) EXCEPT !.consumers = "unknown"] : f \in NamedAttempt(d)}

StagingOf(d, f) ==
    [kind |-> "staging", subject |-> Key(d), repository |-> Release[f].repository,
     release |-> Release[f].release, reference |-> {"staging"}, sourced |-> TRUE,
     observed |-> now, until |-> now + Validity]

\* A release is retired by an authorization, and there is none while it is kept.
StagingReads ==
    {StagingOf(x, f) : x \in plan.deployments,
                       f \in {r \in plan.facts \cap DOMAIN Release : fact[r] = "retired"}}

\* The capability that an operation prepared, with the deployment that its
\* backend named in the response.  Only its own deployment can be confirmed.
RollbackOf(d, x) ==
    LET handoff == IF fact[Origin[x].op] = "pending" THEN "unknown" ELSE fact[Origin[x].op] IN
    [kind |-> "rollback", subject |-> Key(d), op |-> Origin[x].op, signer |-> Origin[x].owner,
     groups |-> Digest[x], life |-> Lifecycle(Named[x]),
     reference |-> Origin[x].reference, sourced |-> TRUE,
     binding |-> IF d = x THEN "confirmed" ELSE "unknown", bindingMode |-> "transaction_event",
     prepared |-> 1, until |-> plan.end,
     trigger |-> [handoff |-> handoff, sourced |-> TRUE, observed |-> now,
                  until |-> now + Validity]]

RollbackReads(d) ==
    {RollbackOf(x, y) : x \in plan.deployments, y \in plan.deployments}
        \cup {[RollbackOf(d, d) EXCEPT !.trigger = [@ EXCEPT !.handoff = "unknown"]]}

----
\* Production authorizations.
PrincipalOf(p) ==
    [name |-> p, kind |-> Principal[p].kind, authentication |-> "verified",
     admin |-> Principal[p].admin, role |-> Principal[p].role]

Verified(g) ==
    [id |-> g, environment |-> Grant[g].environment, release |-> Grant[g].release,
     subject |-> Key(Grant[g].deployment), action |-> "production_retirement"]

Bypass(g, pass) ==
    [kind |-> "observed", configured |-> Grant[g].bypass, sourced |-> TRUE,
     observation |-> "verified", policy |-> "verified",
     use |-> IF pass.via = "bypass" THEN "used" ELSE "unused",
     actor |-> IF pass.via = "bypass" THEN {pass.by} ELSE {}]

\* The authorization as its gate and the registry of used ones show it: pass is
\* how the gate was opened, and the registry answered for the authorization h.
ProductionOf(g, pass, h, uniqueness) ==
    LET github == Grant[g].mode = "github_environment" IN
    [kind |-> "production", subject |-> Key(Grant[g].deployment),
     repository |-> Grant[g].repository, release |-> Grant[g].release,
     environment |-> Grant[g].environment, id |-> g, reference |-> {g}, sourced |-> TRUE,
     requester |-> PrincipalOf(Grant[g].requester),
     approver |-> PrincipalOf(IF pass.via = "approval" THEN pass.by ELSE Grant[g].approver),
     executor |-> PrincipalOf(Grant[g].executor),
     action |-> "production_retirement", mode |-> Grant[g].mode, approval |-> "verified",
     singleUse |-> "verified", singleUseOf |-> g, uniqueness |-> uniqueness, uniqueOf |-> h,
     selfReview |-> IF github THEN "disabled" ELSE "not_applicable",
     bypass |-> IF github THEN Bypass(g, pass) ELSE Absent,
     verified |-> Verified(g), workflow |-> IF github THEN {"workflow"} ELSE {},
     verifiedWorkflow |-> IF github THEN {"workflow"} ELSE {},
     issued |-> 1, observed |-> now, until |-> now + Validity]

\* The registry notes an authorization when it is first asked about it.
Uniqueness(h) == IF h \in claimed THEN "reused" ELSE "unique"
ProductionReads(g, pass, h) ==
    LET good == ProductionOf(g, pass, h, Uniqueness(h)) IN
    {good, [good EXCEPT !.uniqueness = "unknown"],
     [good EXCEPT !.executor = [@ EXCEPT !.authentication = "unknown"]],
     [good EXCEPT !.singleUse = "unknown"], [good EXCEPT !.verified = Verified(h)]}
        \cup {[a EXCEPT !.bypass = [@ EXCEPT !.use = "unknown"]] :
                      a \in {b \in {good} : b.bypass # Absent}}

----
\* The world.
Tick ==
    /\ now < plan.end
    /\ now' = now + 1
    /\ UNCHANGED <<plan, fact, ended, gate, claimed, job, tries, allowed>>

Turn(f) ==
    /\ \E m \in Moves : m[1] = fact[f] /\ fact' = [fact EXCEPT ![f] = m[2]]
    /\ ended' = [ended EXCEPT ![f] = IF fact[f] \in Permitting THEN now ELSE @]
    /\ UNCHANGED <<plan, now, gate, claimed, job, tries, allowed>>

\* A holder of the approval role approves, or an admin goes past the gate.
OpenGate(g, p) ==
    /\ gate[g] = {}
    /\ \/ /\ Principal[p].role = "member"
          /\ gate' = [gate EXCEPT ![g] = {[by |-> p, via |-> "approval"]}]
       \/ /\ Principal[p].admin = "member" /\ Grant[g].bypass = "enabled"
          /\ gate' = [gate EXCEPT ![g] = {[by |-> p, via |-> "bypass"]}]
    /\ UNCHANGED <<plan, now, fact, ended, claimed, job, tries, allowed>>

----
\* Closers.
Move(w, j) == job' = [job EXCEPT ![w] = j]

Bad(isGood) == IF isGood THEN 0 ELSE 1

\* The names on chain, and the journal's attribution of them.
Attribute(w) ==
    /\ job[w].phase = "idle" /\ tries[w] < MaxTries
    /\ tries' = [tries EXCEPT ![w] = @ + 1]
    /\ \E task \in plan.tasks :
       LET d == task[1] IN
       \E p \in PopulationReads[d], c \in CandidateReads(d) :
          LET faults == Bad(p.complete) + Bad(c = CandidatesOf[d]) IN
          /\ faults <= plan.faults
          /\ Move(w, [phase |-> "attributed", deployment |-> d, subject |-> Key(d),
                      intent |-> task[2], population |-> p, candidates |-> c,
                      faults |-> faults])
    /\ UNCHANGED <<plan, now, fact, ended, gate, claimed, allowed>>

\* The chain and the producer, as far as they can be read.
Witness(w) ==
    /\ job[w].phase = "attributed"
    /\ LET j == job[w]
           d == j.deployment IN
       \E e \in ChainReads(d), p \in ProducerReads(d) :
          LET faults == j.faults + Bad(e = ChainOf(d)) + Bad(p = ProducerOf(d)) IN
          /\ faults <= plan.faults
          /\ Move(w, [phase |-> "witnessed", deployment |-> d, subject |-> j.subject,
                      intent |-> j.intent, population |-> j.population,
                      candidates |-> j.candidates, chain |-> e, producer |-> p,
                      faults |-> faults])
    /\ UNCHANGED <<plan, now, fact, ended, gate, claimed, tries, allowed>>

Ready(j, authority, faults) ==
    [phase |-> "ready", deployment |-> j.deployment, subject |-> j.subject,
     intent |-> j.intent, population |-> j.population, candidates |-> j.candidates,
     chain |-> j.chain, producer |-> j.producer, authority |-> authority,
     faults |-> faults]

\* Authority other than for production, of the kind that is looked for or not.
ReadAuthority(w) ==
    /\ job[w].phase = "witnessed"
    /\ LET j == job[w]
           d == j.deployment
           reads == {Absent} \cup CleanupReads(d) \cup StagingReads \cup RollbackReads(d)
           good == CASE j.intent = "ci_cleanup" -> {CleanupOf(d, f) : f \in NamedAttempt(d)}
                     [] j.intent = "creator_rollback" -> {RollbackOf(d, d)}
                     [] OTHER -> StagingReads \cap {StagingOf(d, f) : f \in NamedRelease(d)} IN
       \/ \E a \in good \cap reads : Move(w, Ready(j, a, j.faults))
       \/ /\ j.faults < plan.faults
          /\ \E a \in reads \ good : Move(w, Ready(j, a, j.faults + 1))
    /\ UNCHANGED <<plan, now, fact, ended, gate, claimed, tries, allowed>>

\* A production authorization, and what the registry says of it or another one.
ReadProduction(w) ==
    /\ job[w].phase = "witnessed" /\ job[w].intent = "production_retirement"
    /\ \E g \in plan.grants, h \in plan.grants :
          LET before == job[w].faults + Bad(g = h)
                           + Bad(Grant[g].deployment = job[w].deployment) IN
          /\ before <= plan.faults
          /\ \E pass \in gate[g] : \E a \in ProductionReads(g, pass, h) :
                LET faults == before + Bad(a = ProductionOf(g, pass, h, Uniqueness(h))) IN
                faults <= plan.faults /\ Move(w, Ready(job[w], a, faults))
          /\ claimed' = claimed \cup {h}
    /\ UNCHANGED <<plan, now, fact, ended, gate, tries, allowed>>

Query(w) ==
    [subject |-> job[w].subject, intent |-> job[w].intent, population |-> job[w].population,
     candidates |-> job[w].candidates, chain |-> job[w].chain, producer |-> job[w].producer,
     authority |-> job[w].authority, at |-> now]

\* What a retirement that is allowed says of itself.
Retirement(w) ==
    [by |-> w, deployment |-> job[w].deployment, intent |-> job[w].intent,
     op |-> job[w].candidates.op,
     grant |-> IF job[w].authority.kind = "production" THEN {job[w].authority.id} ELSE {}]

Decide(w) ==
    /\ job[w].phase = "ready"
    /\ Move(w, Idle)
    /\ allowed' = IF Allows(Query(w)) THEN Append(allowed, Retirement(w)) ELSE allowed
    /\ UNCHANGED <<plan, now, fact, ended, gate, claimed, tries>>

\* A closer crashes, or gives its query up.
GiveUp(w) ==
    /\ job[w].phase # "idle"
    /\ Move(w, Idle)
    /\ UNCHANGED <<plan, now, fact, ended, gate, claimed, tries, allowed>>

----
Init ==
    /\ plan \in Plan
    /\ now = 1
    /\ fact = [f \in Fact |-> FirstState(f)]
    /\ ended = [f \in Fact |-> 0]
    /\ gate = [g \in DOMAIN Grant |-> {}]
    /\ claimed = {}
    /\ job = [w \in Closer |-> Idle]
    /\ tries = [w \in Closer |-> 0]
    /\ allowed = <<>>

Next ==
    \/ Tick
    \/ \E f \in plan.facts : Turn(f)
    \/ \E g \in plan.grants, p \in DOMAIN Principal : OpenGate(g, p)
    \/ \E w \in plan.closers :
          \/ Attribute(w) \/ Witness(w) \/ ReadAuthority(w) \/ ReadProduction(w)
          \/ Decide(w) \/ GiveUp(w)

Spec == Init /\ [][Next]_vars

----
\* Properties.

\* Evidence may be late, and the promise is that it is never later than its
\* interval: whatever is allowed was due at most Validity ago.  For a cleanup
\* every attempt that the deployment serves had ended without consumers, for a
\* rollback the handoff of the operation that created it had failed, for a
\* staging retirement its release had been retired; and except for a rollback
\* the deployment was there.  close_policy.py:647 bounds every interval, and
\* close_policy.py:911 what each authority is about.  (TLC's production plans turn no
\* facts; for them RetiredWhenDue is what shows it.)
RecentlyDue(f) == fact[f] \in Permitting \/ (ended[f] > 0 /\ now <= ended[f] + Validity)

DueOf(d, intent) ==
    CASE intent = "creator_rollback" -> {Origin[d].op}
      [] intent = "production_retirement" -> {d}
      [] OTHER -> Origin[d].retires \cup {d}

AllowedWhenDue ==
    [][\A w \in Closer :
          allowed' # allowed /\ Decide(w) =>
              \A f \in DueOf(job[w].deployment, job[w].intent) : RecentlyDue(f)]_vars

\* A deployment whose names say more than is true of it is never retired for the
\* owner they name, and what is retired is put down to the operation that created
\* it.  A rollback is bound by the operation alone, whatever repository is named.
\* close_policy.py:725 and close_policy.py:872 authenticate the
\* producer, close_policy.py:1427 the attribution.
AllowedForProducer ==
    \A n \in DOMAIN allowed :
        LET o == Origin[allowed[n].deployment] IN
        /\ allowed[n].op = o.op
        /\ allowed[n].intent # "creator_rollback" =>
               o.repository = Named[allowed[n].deployment].owner

\* A production authorization retires its own deployment, once, whoever asks and
\* however often.  close_policy.py:1020 demands a uniqueness proof of it.
AuthorizationUsedOnce ==
    \A n, m \in DOMAIN allowed :
        \A g \in allowed[n].grant :
            /\ Grant[g].deployment = allowed[n].deployment
            /\ allowed[m].grant = {g} => n = m

\* Behind every production retirement is a human of the approval role, and the
\* credential that executes it can neither approve nor go past the gate.
\* close_policy.py:974 and close_policy.py:1085 read this from the evidence.
ReleasedByApprover ==
    \A n \in DOMAIN allowed : \A g \in allowed[n].grant : \A pass \in gate[g] :
        LET executor == Principal[Grant[g].executor] IN
        /\ Principal[pass.by].kind = "human" /\ Principal[pass.by].role = "member"
        /\ executor.kind = "machine" /\ executor.role = "non_member"
        /\ executor.admin = "non_member"

\* The queries that leave out a piece of what q knows.
Omissions(q) ==
    {[q EXCEPT !.chain = Absent], [q EXCEPT !.producer = Absent],
     [q EXCEPT !.chain = Absent, !.producer = Absent], [q EXCEPT !.authority = Absent],
     [q EXCEPT !.candidates.complete = FALSE], [q EXCEPT !.candidates.uniqueness = "unknown"],
     [q EXCEPT !.population.complete = FALSE]}
        \cup {[r EXCEPT !.chain.agreement = "unknown"] : r \in {s \in {q} : s.chain # Absent}}
        \cup {[r EXCEPT !.authority.consumers = "unknown"] :
                  r \in {s \in {q} : s.authority.kind = "ci"}}
        \cup {[r EXCEPT !.authority.trigger.handoff = "unknown"] :
                  r \in {s \in {q} : s.authority.kind = "rollback"}}
        \cup {[r EXCEPT !.authority.uniqueness = "unknown"] :
                  r \in {s \in {q} : s.authority.kind = "production"}}
        \cup {[r EXCEPT !.authority.bypass.use = "unknown"] :
                  r \in {s \in {q} : s.authority.kind = "production"
                                          /\ s.authority.bypass # Absent}}

\* The policy holds a rollback whose chain view or attestation is bad, and allows it
\* when the adapter shows none (close_policy.py:1472, close_policy.py:1680).  So a
\* closer that leaves things out can turn a refusal into a permit, but only where the
\* world excuses it: for the rollback of the very operation that created the
\* deployment, whose handoff had failed at most Validity ago.
OmissionExcused ==
    \A w \in Closer :
        job[w].phase = "ready" =>
            \A q \in {r \in Omissions(Query(w)) : Allows(r)} :
                LET created == Origin[job[w].deployment].op IN
                /\ q.intent = "creator_rollback"
                /\ q.candidates.op = created /\ q.authority.op = created
                /\ RecentlyDue(created)
====
