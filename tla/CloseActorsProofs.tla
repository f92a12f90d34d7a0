---- MODULE CloseActorsProofs ----
\* Proofs about CloseActors: whom a retirement is put down to, that a
\* production authorization is used once, who released it, that what is
\* left out of a query never lets a retirement pass, and that whatever is
\* retired was due.
EXTENDS CloseActors, SequenceTheorems, TLAPS

Reasons == HoldReasons \cup DenyReasons
Verdict == Reasons \cup {Passed}

----
\* The policy.
LEMMA BothVerdicts ==
  ASSUME NEW r \in Verdict, NEW n \in Verdict
  PROVE  Else(r, n) \in Verdict
  BY DEF Else

\* A decision that is no reason to refuse went past the first check.
LEMMA GoesOn ==
  ASSUME NEW r \in Verdict, NEW n, Else(r, n) \notin Reasons
  PROVE  r = Passed /\ n \notin Reasons
  BY DEF Else, Verdict

LEMMA ClassifiedVerdict == ASSUME NEW p PROVE Classified(p) \in Verdict
  BY DEF Classified, Verdict, Reasons, HoldReasons

LEMMA ChainVerdict ==
  ASSUME NEW e, NEW subject, NEW digest, NEW observed, NEW at
  PROVE  ChainReason(e, subject, digest, observed, at) \in Verdict
  BY DEF ChainReason, Verdict, Reasons, HoldReasons

LEMMA PrecloseVerdict ==
  ASSUME NEW q, NEW identity, NEW digest
  PROVE  Preclose(q, identity, digest) \in Verdict
  BY ChainVerdict DEF Preclose, Verdict, Reasons, HoldReasons, DenyReasons

LEMMA ProducerVerdict ==
  ASSUME NEW e, NEW intent, NEW subject, NEW digest, NEW identity, NEW op, NEW at
  PROVE  ProducerReason(e, intent, subject, digest, identity, op, at) \in Verdict
  BY DEF ProducerReason, Verdict, Reasons, HoldReasons

LEMMA Refusals == {Gap, Replayed, Invalid, Disagrees, WrongType, Passed} \subseteq Verdict
  BY DEF Gap, Replayed, Invalid, Disagrees, WrongType, Verdict, Reasons, HoldReasons,
         DenyReasons

LEMMA ProductionVerdict ==
  ASSUME NEW a, NEW at PROVE ProductionAuthority(a, at) \in Verdict
<1>1. PrincipalsReason(a) \in Verdict
  BY Refusals DEF PrincipalsReason
<1>2. UniquenessReason(a, at) \in Verdict
  BY Refusals DEF UniquenessReason
<1>3. BypassReason(a) \in Verdict
  BY Refusals DEF BypassReason
<1>4. ModeReason(a) \in Verdict
  <2>1. (IF a.workflow = {} \/ a.verifiedWorkflow # a.workflow THEN Invalid ELSE Passed)
           \in Verdict
    BY Refusals
  <2> QED
    BY <1>3, <2>1, Refusals, BothVerdicts DEF ModeReason
<1>5. Proof(a.approval) \in Verdict /\ Proof(a.singleUse) \in Verdict
  BY Refusals DEF Proof
<1> QED
  BY <1>5, <1>4, <1>2, <1>1, Refusals DEF ProductionAuthority, Else

LEMMA AuthorityVerdict ==
  ASSUME NEW a, NEW subject, NEW at PROVE AuthorityReason(a, subject, at) \in Verdict
<1>1. RollbackAuthority(a, at) \in Verdict
  BY Refusals DEF RollbackAuthority
<1> QED
  BY <1>1, ProductionVerdict, Refusals DEF AuthorityReason

LEMMA AuthorizeVerdict ==
  ASSUME NEW q, NEW identity, NEW digest PROVE Authorize(q, identity, digest) \in Verdict
<1>1. CleanupReason(q.authority, identity) \in Verdict
  BY Refusals DEF CleanupReason
<1>2. StagingReason(q.authority, identity, q.producer, q.candidates) \in Verdict
  BY Refusals DEF StagingReason
<1>3. ProductionReason(q.authority, identity, q.producer) \in Verdict
  BY Refusals DEF ProductionReason
<1>4. RollbackReason(q.authority, q.subject, digest, identity, q.producer, q.candidates)
         \in Verdict
  BY Refusals DEF RollbackReason
<1>5. "lifecycle_authority.missing" \in Verdict
  BY DEF Verdict, Reasons, HoldReasons
<1> QED
  BY <1>5, <1>4, <1>3, <1>2, <1>1, AuthorityVerdict, BothVerdicts DEF Authorize

\* What every allowed query has been through.
LEMMA Passes ==
  ASSUME NEW q, Allows(q)
  PROVE  LET identity == q.population.identities[1]
             digest == GroupDigest(q.population)
             producer == ProducerReason(q.producer, q.intent, q.subject, digest, identity,
                                        q.candidates.op, q.at) IN
         /\ q.population.complete
         /\ identity.class \in Permitted(q.intent)
         /\ CandidatesUnique(q.candidates, q.subject, identity, digest)
         /\ q.chain = Absent => q.intent = "creator_rollback"
         /\ q.chain # Absent =>
               ChainReason(q.chain, q.subject, digest, q.population.observed, q.at) = Passed
         /\ producer = Passed
         /\ q.producer = Absent => q.intent = "creator_rollback"
         /\ Authorize(q, identity, digest) = Passed
<1>. DEFINE identity == q.population.identities[1]
            digest == GroupDigest(q.population)
            producer == ProducerReason(q.producer, q.intent, q.subject, digest, identity,
                                       q.candidates.op, q.at)
<1>1. EvaluateClose(q) \notin Reasons
  BY DEF Allows, Disposition, Reasons
<1>2. Classified(q.population) = Passed /\ Workload(q) \notin Reasons
  BY <1>1, GoesOn, ClassifiedVerdict DEF EvaluateClose
<1>3. /\ Preclose(q, identity, digest) = Passed
      /\ Else(producer, Else(Authorize(q, identity, digest), "authorization.succeeded"))
             \notin Reasons
  BY <1>2, GoesOn, PrecloseVerdict DEF Workload
<1>4. /\ producer = Passed
      /\ Else(Authorize(q, identity, digest), "authorization.succeeded") \notin Reasons
  BY <1>3, ProducerVerdict, GoesOn
<1>5. Authorize(q, identity, digest) = Passed
  BY <1>4, GoesOn, AuthorizeVerdict
<1>6. q.population.complete
  BY <1>2 DEF Classified, Passed
<1>7. /\ identity.class \in Permitted(q.intent)
      /\ CandidatesUnique(q.candidates, q.subject, identity, digest)
      /\ q.chain = Absent => q.intent = "creator_rollback"
      /\ q.chain # Absent =>
            ChainReason(q.chain, q.subject, digest, q.population.observed, q.at) = Passed
  BY <1>3 DEF Preclose, Passed
<1>8. q.producer = Absent => q.intent = "creator_rollback"
  BY <1>4 DEF ProducerReason, Passed
<1> QED
  BY <1>8, <1>7, <1>6, <1>5, <1>4

\* The parts of it that say who made the deployment and who lets it go.
LEMMA Permits ==
  ASSUME NEW q, Allows(q)
  PROVE  /\ q.population.complete
         /\ q.candidates.subject = q.subject
         /\ ProducerReason(q.producer, q.intent, q.subject, GroupDigest(q.population),
                           q.population.identities[1], q.candidates.op, q.at) = Passed
         /\ AuthorityReason(q.authority, q.subject, q.at) = Passed
<1>1. Authorize(q, q.population.identities[1], GroupDigest(q.population)) = Passed
  BY Passes
<1>2. AuthorityReason(q.authority, q.subject, q.at) = Passed
  BY <1>1 DEF Authorize, Else, Passed
<1>3. q.candidates.subject = q.subject
  BY Passes DEF CandidatesUnique
<1> QED
  BY <1>2, <1>3, Passes

\* Whoever is taken for the producer made the deployment under the operation that the
\* journal names, for the repository that the names name.
LEMMA ProducerHolds ==
  ASSUME NEW e, NEW intent, NEW subject, NEW digest, NEW identity, NEW op, NEW at,
         intent # "creator_rollback",
         ProducerReason(e, intent, subject, digest, identity, op, at) = Passed
  PROVE  /\ e # Absent
         /\ e.kind = "shared" => /\ e.claim.subject = subject
                                 /\ e.claim.repository = identity.owner
                                 /\ e.signature = "verified"
         /\ e.kind # "shared" => e.op = op /\ e.repository = identity.owner
  BY DEF ProducerReason, Passed, SharedValid, Attests, IsolatedValid

\* What a production authority that passes says of itself.
LEMMA ProductionHolds ==
  ASSUME NEW a, NEW subject, NEW at, a.kind = "production",
         AuthorityReason(a, subject, at) = Passed
  PROVE  /\ a.subject = subject
         /\ a.uniqueness \notin {"unknown", "reused"} /\ a.uniqueOf = a.id
         /\ a.approver.kind = "human" /\ a.approver.role = "member"
         /\ a.executor.kind = "machine"
         /\ a.executor.role = "non_member" /\ a.executor.admin = "non_member"
         /\ a.mode = "github_environment" => BypassReason(a) = Passed
<1>1. a.subject = subject /\ ProductionAuthority(a, at) = Passed
  BY DEF AuthorityReason, Passed, Invalid
<1>2. /\ PrincipalsReason(a) = Passed
      /\ UniquenessReason(a, at) = Passed
      /\ ModeReason(a) = Passed
  BY <1>1 DEF ProductionAuthority, Else, Passed, Invalid
<1>3. a.uniqueness \notin {"unknown", "reused"} /\ a.uniqueOf = a.id
  BY <1>2 DEF UniquenessReason, Passed, Invalid, Gap, Replayed
<1>4. /\ a.approver.kind = "human" /\ a.approver.role = "member"
      /\ a.executor.kind = "machine"
      /\ a.executor.role = "non_member" /\ a.executor.admin = "non_member"
  BY <1>2 DEF PrincipalsReason, Passed, Invalid, Gap
<1>5. a.mode = "github_environment" => BypassReason(a) = Passed
  BY <1>2 DEF ModeReason, Else, Passed
<1> QED
  BY <1>5, <1>4, <1>3, <1>1

----
\* The invariant.  A reading may be about anything in the plan, so nothing
\* is said of which deployment it is about, only that it is not forged.
Started == {"attributed", "witnessed", "ready"}

\* Whatever was read is one deployment's attribution.
Attributed(j) ==
    /\ j.deployment \in Deployment
    /\ j.subject = Key(j.deployment)
    /\ j.population.complete => j.population.identities[1] = Named[j.deployment]
    /\ \E x \in Deployment : j.candidates.subject = Key(x) /\ j.candidates.op = Origin[x].op

\* Whoever is shown as the producer made some deployment, or nobody vouches for it.
Authentic(p) ==
    \/ p = Absent
    \/ /\ p.kind = "shared"
       /\ \E x \in Deployment :
             /\ p.claim.subject = Key(x)
             /\ p.signature = "verified" => p.claim.repository = Origin[x].repository
    \/ /\ p.kind = "isolated"
       /\ \E x \in Deployment : p.op = Origin[x].op /\ p.repository = Origin[x].repository

\* The approver that an authorization shows is whoever opened its gate, or the one it
\* asked for while the bypass shows whoever did.
ShowsRelease(a, pass) ==
    /\ pass.via = "approval" => /\ a.approver.kind = Principal[pass.by].kind
                                /\ a.approver.role = Principal[pass.by].role
    /\ pass.via # "approval" =>
          /\ a.mode = "github_environment"
          /\ a.bypass.configured = "enabled"
          /\ a.bypass.use \in {"used", "unknown"} /\ a.bypass.actor = {pass.by}
          /\ a.approver.kind = Principal[a.approver.name].kind
          /\ a.approver.role = Principal[a.approver.name].role

Genuine(a) ==
    /\ a.id \in DOMAIN Grant
    /\ a.subject = Key(Grant[a.id].deployment)
    /\ a.uniqueness \in {"unique", "reused", "unknown"}
    /\ a.executor.kind = Principal[Grant[a.id].executor].kind
    /\ a.executor.role = Principal[Grant[a.id].executor].role
    /\ a.executor.admin = Principal[Grant[a.id].executor].admin
    /\ gate[a.id] # {}
    /\ \A pass \in gate[a.id] : ShowsRelease(a, pass)

GoodJob(w) ==
    /\ job[w].phase \in Started \cup {"idle"}
    /\ job[w].phase \in Started => Attributed(job[w])
    /\ job[w].phase \in {"witnessed", "ready"} => Authentic(job[w].producer)
    /\ job[w].phase = "ready" /\ job[w].authority.kind = "production" =>
           Genuine(job[w].authority)

\* The closer was told that the authorization it asked about is unused.
Unique(w) ==
    /\ job[w].phase = "ready"
    /\ job[w].authority.kind = "production"
    /\ job[w].authority.uniqueness = "unique"

Asked(w) == job[w].authority.uniqueOf

\* One closer at most was told so of each, and before that no closer used it.
Registry ==
    /\ \A w \in Closer : Unique(w) =>
          /\ Asked(w) \in claimed
          /\ \A n \in DOMAIN allowed : Asked(w) \notin allowed[n].grant
    /\ \A v, w \in Closer : Unique(v) /\ Unique(w) /\ Asked(v) = Asked(w) => v = w
    /\ \A n \in DOMAIN allowed : allowed[n].grant \subseteq claimed

Gates ==
    /\ gate = [g \in DOMAIN Grant |-> gate[g]]
    /\ \A g \in DOMAIN Grant : \A p, q \in gate[g] : p = q
    /\ \A g \in DOMAIN Grant : \A p \in gate[g] :
          \/ p.via = "approval" /\ Principal[p.by].role = "member"
          \/ p.via = "bypass" /\ Grant[g].bypass = "enabled"
    /\ \A n \in DOMAIN allowed : \A g \in allowed[n].grant : g \in DOMAIN Grant /\ gate[g] # {}

Jobs ==
    /\ plan \in Plan
    /\ job = [w \in Closer |-> job[w]]
    /\ \A w \in Closer : GoodJob(w)

Log == \E S : allowed \in Seq(S)

Inv ==
    /\ Log /\ Jobs /\ Registry /\ Gates
    /\ AllowedForProducer /\ AuthorizationUsedOnce /\ ReleasedByApprover

----
\* The readings.
LEMMA KeysDiffer == \A d, e : Key(d) = Key(e) => d = e
  BY DEF Key

LEMMA Populations ==
  ASSUME NEW d \in Deployment, NEW p \in PopulationReads[d], p.complete
  PROVE  p.identities[1] = Named[d]
<1>1. \/ p = ClassifyGroups(Origin[d].groups, TRUE)
      \/ p = ClassifyGroups(Origin[d].groups, FALSE)
      \/ p = ClassifyGroups(SubSeq(Origin[d].groups, 1, 1), FALSE)
  BY DEF PopulationReads
<1>2. \A groups : ~ClassifyGroups(groups, FALSE).complete
  BY DEF ClassifyGroups
<1>3. p = ClassifyGroups(Origin[d].groups, TRUE)
  BY <1>1, <1>2
<1> QED
  BY <1>3 DEF Named

LEMMA Candidates ==
  ASSUME Jobs, NEW d \in Deployment, NEW c \in CandidateReads(d)
  PROVE  \E x \in Deployment : c.subject = Key(x) /\ c.op = Origin[x].op
<1>1. \A x \in Deployment : CandidatesOf[x].subject = Key(x) /\ CandidatesOf[x].op = Origin[x].op
  BY DEF CandidatesOf
<1>2. plan.deployments \subseteq Deployment
  BY CloseAssumption DEF Jobs
<1>3. CASE \E x \in plan.deployments : c = CandidatesOf[x]
  BY <1>3, <1>2, <1>1
<1>4. CASE \/ c = [CandidatesOf[d] EXCEPT !.complete = FALSE]
           \/ c = [CandidatesOf[d] EXCEPT !.uniqueness = "unknown"]
           \/ c = [CandidatesOf[d] EXCEPT !.count = 2]
  <2>1. c.subject = CandidatesOf[d].subject /\ c.op = CandidatesOf[d].op
    BY <1>4 DEF CandidatesOf
  <2> QED
    BY <1>1, <2>1
<1> QED
  BY <1>3, <1>4 DEF CandidateReads

LEMMA Producers ==
  ASSUME Jobs, NEW d \in Deployment, NEW p \in ProducerReads(d)
  PROVE  Authentic(p)
<1>1. plan.deployments \subseteq Deployment
  BY CloseAssumption DEF Jobs
<1>2. ASSUME NEW x \in Deployment PROVE Authentic(ProducerOf(x))
  BY DEF ProducerOf, Authentic
<1>3. ASSUME NEW x \in SharedBroker
      PROVE  /\ Authentic(Unsigned(ProducerOf(x), x))
             /\ Authentic([ProducerOf(x) EXCEPT !.opUniqueness = "reused"])
  BY <1>3, ZenonT(30) DEF SharedBroker, ProducerOf, Unsigned, Authentic
<1>4. \/ \E x \in plan.deployments : p = ProducerOf(x)
      \/ p = Absent
      \/ \E x \in SharedBroker : \/ p = Unsigned(ProducerOf(x), x)
                                 \/ p = [ProducerOf(x) EXCEPT !.opUniqueness = "reused"]
  BY DEF ProducerReads
<1>5. Authentic(Absent)
  BY DEF Authentic
<1> QED
  BY <1>5, <1>4, <1>3, <1>2, <1>1

LEMMA Authorities ==
  ASSUME NEW d, NEW a \in {Absent} \cup CleanupReads(d) \cup StagingReads \cup RollbackReads(d)
  PROVE  a.kind # "production"
<1>1. CASE a = Absent
  BY <1>1 DEF Absent
<1>2. CASE a \in CleanupReads(d)
  <2>1. \A x, f : CleanupOf(x, f).kind = "ci"
    BY DEF CleanupOf
  <2>2. \E x, f : \/ a = CleanupOf(x, f)
                  \/ a = [CleanupOf(x, f) EXCEPT !.runState = "unknown"]
                  \/ a = [CleanupOf(x, f) EXCEPT !.consumers = "unknown"]
    BY <1>2 DEF CleanupReads
  <2>3. PICK x, f : \/ a = CleanupOf(x, f)
                    \/ a = [CleanupOf(x, f) EXCEPT !.runState = "unknown"]
                    \/ a = [CleanupOf(x, f) EXCEPT !.consumers = "unknown"]
    BY <2>2
  <2>4. a.kind = CleanupOf(x, f).kind
    BY <2>3 DEF CleanupOf
  <2> QED
    BY <2>1, <2>4
<1>3. CASE a \in StagingReads
  BY <1>3 DEF StagingReads, StagingOf
<1>4. CASE a \in RollbackReads(d)
  BY <1>4 DEF RollbackReads, RollbackOf
<1> QED
  BY <1>4, <1>3, <1>2, <1>1

LEMMA Productions ==
  ASSUME Gates, NEW g \in DOMAIN Grant, NEW h, NEW pass \in gate[g],
         NEW a \in ProductionReads(g, pass, h)
  PROVE  /\ a.kind = "production" /\ a.id = g /\ a.uniqueOf = h
         /\ a.uniqueness = "unique" => h \notin claimed
         /\ Genuine(a)
<1>. DEFINE good == ProductionOf(g, pass, h, Uniqueness(h))
<1>1. /\ good.kind = "production" /\ good.id = g /\ good.uniqueOf = h
      /\ good.subject = Key(Grant[g].deployment)
      /\ good.uniqueness = Uniqueness(h)
      /\ good.mode = Grant[g].mode
      /\ good.bypass = IF Grant[g].mode = "github_environment" THEN Bypass(g, pass) ELSE Absent
      /\ good.executor = PrincipalOf(Grant[g].executor)
      /\ good.approver = PrincipalOf(IF pass.via = "approval" THEN pass.by ELSE Grant[g].approver)
  BY DEF ProductionOf
<1>2. /\ a.kind = "production" /\ a.id = g /\ a.uniqueOf = h
      /\ a.subject = good.subject /\ a.mode = good.mode /\ a.approver = good.approver
      /\ a.uniqueness \in {Uniqueness(h), "unknown"}
  BY <1>1 DEF ProductionReads, ProductionOf
<1>3. a.executor \in {good.executor, [good.executor EXCEPT !.authentication = "unknown"]}
  BY DEF ProductionReads, ProductionOf
<1>4. \/ a.bypass = good.bypass
      \/ good.bypass # Absent /\ a.bypass = [good.bypass EXCEPT !.use = "unknown"]
  BY DEF ProductionReads, ProductionOf
<1>. HIDE DEF good
<1>5. /\ a.executor.kind = Principal[Grant[g].executor].kind
      /\ a.executor.role = Principal[Grant[g].executor].role
      /\ a.executor.admin = Principal[Grant[g].executor].admin
  BY <1>1, <1>3 DEF PrincipalOf
<1>6. ShowsRelease(a, pass)
  <2>1. CASE pass.via = "approval"
    BY <2>1, <1>2, <1>1 DEF PrincipalOf, ShowsRelease
  <2>2. CASE pass.via # "approval"
    <3>1. pass.via = "bypass" /\ Grant[g].bypass = "enabled"
      BY <2>2 DEF Gates
    <3>2. Grant[g].mode = "github_environment"
      BY <3>1, CloseAssumption
    <3>3. /\ a.bypass.configured = "enabled"
          /\ a.bypass.use \in {"used", "unknown"} /\ a.bypass.actor = {pass.by}
      BY <3>2, <3>1, <1>4, <1>1 DEF Bypass
    <3>4. /\ a.approver.kind = Principal[a.approver.name].kind
          /\ a.approver.role = Principal[a.approver.name].role
      BY <2>2, <1>2, <1>1 DEF PrincipalOf
    <3> QED
      BY <3>4, <3>3, <3>2, <2>2, <1>2, <1>1 DEF ShowsRelease
  <2> QED
    BY <2>1, <2>2
<1>7. /\ a.uniqueness \in {"unique", "reused", "unknown"}
      /\ a.uniqueness = "unique" => h \notin claimed
  BY <1>2 DEF Uniqueness
<1>8. \A p \in gate[g] : p = pass
  BY DEF Gates
<1> QED
  BY <1>8, <1>7, <1>6, <1>5, <1>2, <1>1 DEF Genuine

----
\* The steps.
LEMMA Initial == Init => Inv
<1> SUFFICES ASSUME Init PROVE Inv
  OBVIOUS
<1>1. Log
  <2>1. allowed \in Seq({})
    BY DEF Init
  <2> QED
    BY <2>1 DEF Log
<1>2. \A w \in Closer : job[w] = [phase |-> "idle"]
  BY DEF Init, Idle
<1>3. DOMAIN allowed = {}
  BY DEF Init
<1>4. Jobs
  <2>1. ASSUME NEW w \in Closer PROVE GoodJob(w)
    <3>1. job[w].phase = "idle"
      BY <1>2
    <3> QED
      BY <3>1 DEF GoodJob, Started
  <2> QED
    BY <2>1 DEF Init, Jobs
<1>5. Registry
  <2>1. \A w \in Closer : ~Unique(w)
    BY <1>2 DEF Unique
  <2> QED
    BY <1>3, <2>1 DEF Registry
<1>6. Gates
  BY <1>3 DEF Init, Gates
<1>7. AllowedForProducer /\ AuthorizationUsedOnce /\ ReleasedByApprover
  BY <1>3 DEF AllowedForProducer, AuthorizationUsedOnce, ReleasedByApprover
<1> QED
  BY <1>7, <1>6, <1>5, <1>4, <1>1 DEF Inv

\* The jobs of other closers are as good as they were.
LEMMA Others ==
  ASSUME Jobs, NEW w \in Closer, UNCHANGED gate, job' = [job EXCEPT ![w] = job'[w]]
  PROVE  /\ job' = [v \in Closer |-> job'[v]]
         /\ \A v \in Closer \ {w} : job'[v] = job[v] /\ GoodJob(v)'
         /\ \A v \in Closer \ {w} : (Unique(v)' <=> Unique(v)) /\ Asked(v)' = Asked(v)
<1>1. job' = [v \in Closer |-> job'[v]]
  BY DEF Jobs
<1>2. \A v \in Closer \ {w} : job'[v] = job[v]
  BY DEF Jobs
<1>3. \A v \in Closer \ {w} : GoodJob(v)'
  BY <1>2, ZenonT(30) DEF Jobs, GoodJob, Genuine
<1>4. \A v \in Closer \ {w} : (Unique(v)' <=> Unique(v)) /\ Asked(v)' = Asked(v)
  BY <1>2 DEF Unique, Asked
<1> QED
  BY <1>4, <1>3, <1>2, <1>1

\* A step of a closer that neither asks the registry nor decides.
LEMMA Moved ==
  ASSUME Inv, NEW w \in Closer, UNCHANGED <<plan, gate, claimed, allowed>>,
         job' = [job EXCEPT ![w] = job'[w]], GoodJob(w)', ~Unique(w)'
  PROVE  Inv'
<1>1. /\ job' = [v \in Closer |-> job'[v]]
      /\ \A v \in Closer \ {w} : job'[v] = job[v] /\ GoodJob(v)'
      /\ \A v \in Closer \ {w} : (Unique(v)' <=> Unique(v)) /\ Asked(v)' = Asked(v)
  BY Others DEF Inv
<1>2. Jobs'
  BY <1>1 DEF Inv, Jobs
<1>3. Registry'
  BY <1>1 DEF Inv, Registry
<1>4. Log' /\ Gates'
  BY DEF Inv, Log, Gates
<1>5. AllowedForProducer' /\ AuthorizationUsedOnce' /\ ReleasedByApprover'
  BY DEF Inv, AllowedForProducer, AuthorizationUsedOnce, ReleasedByApprover
<1> QED
  BY <1>5, <1>4, <1>3, <1>2 DEF Inv

LEMMA Attributing == ASSUME Inv, NEW w \in Closer, Attribute(w) PROVE Inv'
<1>1. PICK task \in plan.tasks :
         \E p \in PopulationReads[task[1]], c \in CandidateReads(task[1]) :
            \E faults : Move(w, [phase |-> "attributed", deployment |-> task[1],
                                 subject |-> Key(task[1]), intent |-> task[2],
                                 population |-> p, candidates |-> c, faults |-> faults])
  BY DEF Attribute
<1>. DEFINE d == task[1]
<1>2. PICK p \in PopulationReads[d], c \in CandidateReads(d) :
         \E faults : Move(w, [phase |-> "attributed", deployment |-> d,
                              subject |-> Key(d), intent |-> task[2], population |-> p,
                              candidates |-> c, faults |-> faults])
  BY <1>1
<1>. PICK faults : Move(w, [phase |-> "attributed", deployment |-> d,
                            subject |-> Key(d), intent |-> task[2], population |-> p,
                            candidates |-> c, faults |-> faults])
  BY <1>2
<1>3. d \in Deployment
  BY CloseAssumption DEF Inv, Jobs
<1>4. /\ job'[w] = [phase |-> "attributed", deployment |-> d, subject |-> Key(d),
                    intent |-> task[2], population |-> p, candidates |-> c,
                    faults |-> faults]
      /\ job' = [job EXCEPT ![w] = job'[w]]
  BY DEF Move, Inv, Jobs
<1>5. /\ p.complete => p.identities[1] = Named[d]
      /\ \E x \in Deployment : c.subject = Key(x) /\ c.op = Origin[x].op
  BY <1>3, Populations, Candidates DEF Inv
<1>. HIDE DEF d
<1>6. GoodJob(w)' /\ ~Unique(w)'
  BY <1>5, <1>4, <1>3 DEF GoodJob, Started, Attributed, Unique
<1> QED
  BY <1>4, <1>6, Moved DEF Attribute

LEMMA Witnessing == ASSUME Inv, NEW w \in Closer, Witness(w) PROVE Inv'
<1>. DEFINE j == job[w]
<1>1. PICK e \in ChainReads(j.deployment), p \in ProducerReads(j.deployment) :
         \E faults :
            Move(w, [phase |-> "witnessed", deployment |-> j.deployment,
                     subject |-> j.subject, intent |-> j.intent,
                     population |-> j.population, candidates |-> j.candidates,
                     chain |-> e, producer |-> p, faults |-> faults])
  BY DEF Witness
<1>. PICK faults :
        Move(w, [phase |-> "witnessed", deployment |-> j.deployment,
                 subject |-> j.subject, intent |-> j.intent,
                 population |-> j.population, candidates |-> j.candidates,
                 chain |-> e, producer |-> p, faults |-> faults])
  BY <1>1
<1>2. Attributed(j)
  BY DEF Witness, Inv, Jobs, GoodJob, Started
<1>3. Authentic(p)
  BY <1>2, Producers DEF Inv, Attributed
<1>4. /\ job'[w] = [phase |-> "witnessed", deployment |-> j.deployment,
                    subject |-> j.subject, intent |-> j.intent,
                    population |-> j.population, candidates |-> j.candidates,
                    chain |-> e, producer |-> p, faults |-> faults]
      /\ job' = [job EXCEPT ![w] = job'[w]]
  BY DEF Move, Inv, Jobs
<1>. HIDE DEF j
<1>5. GoodJob(w)' /\ ~Unique(w)'
  BY <1>4, <1>3, <1>2 DEF GoodJob, Started, Attributed, Unique
<1> QED
  BY <1>4, <1>5, Moved DEF Witness, j

LEMMA Authorizing == ASSUME Inv, NEW w \in Closer, ReadAuthority(w) PROVE Inv'
<1>. DEFINE j == job[w]
<1>1. PICK a \in {Absent} \cup CleanupReads(j.deployment) \cup StagingReads
                     \cup RollbackReads(j.deployment) :
         \E faults : Move(w, Ready(j, a, faults))
  BY DEF ReadAuthority
<1>. PICK faults : Move(w, Ready(j, a, faults))
  BY <1>1
<1>2. Attributed(j) /\ Authentic(j.producer)
  BY DEF ReadAuthority, Inv, Jobs, GoodJob, Started
<1>3. a.kind # "production"
  BY Authorities
<1>4. job'[w] = Ready(j, a, faults) /\ job' = [job EXCEPT ![w] = job'[w]]
  BY DEF Move, Inv, Jobs
<1>. HIDE DEF j
<1>5. GoodJob(w)' /\ ~Unique(w)'
  BY <1>4, <1>3, <1>2 DEF Ready, GoodJob, Started, Attributed, Unique
<1> QED
  BY <1>4, <1>5, Moved DEF ReadAuthority, j

LEMMA GivingUp == ASSUME Inv, NEW w \in Closer, GiveUp(w) PROVE Inv'
<1>1. job'[w].phase = "idle" /\ job' = [job EXCEPT ![w] = job'[w]]
  BY DEF GiveUp, Move, Idle, Inv, Jobs
<1>2. GoodJob(w)' /\ ~Unique(w)'
  BY <1>1 DEF GoodJob, Started, Unique
<1> QED
  BY <1>1, <1>2, Moved DEF GiveUp

\* The registry answers that an authorization is unused to one closer only: whoever
\* asks after that is told that it has been seen.
LEMMA Asking == ASSUME Inv, NEW w \in Closer, ReadProduction(w) PROVE Inv'
<1>. DEFINE j == job[w]
<1>1. PICK g \in plan.grants, h \in plan.grants : \E pass \in gate[g] :
         \E a \in ProductionReads(g, pass, h) : \E faults :
            Move(w, Ready(j, a, faults)) /\ claimed' = claimed \cup {h}
  BY DEF ReadProduction
<1>. PICK pass \in gate[g] :
         \E a \in ProductionReads(g, pass, h) : \E faults :
            Move(w, Ready(j, a, faults)) /\ claimed' = claimed \cup {h}
  BY <1>1
<1>2. PICK a \in ProductionReads(g, pass, h) : \E faults :
         Move(w, Ready(j, a, faults)) /\ claimed' = claimed \cup {h}
  OBVIOUS
<1>. PICK faults : Move(w, Ready(j, a, faults)) /\ claimed' = claimed \cup {h}
  BY <1>2
<1>3. UNCHANGED <<plan, gate, allowed>>
  BY DEF ReadProduction
<1>4. Attributed(j) /\ Authentic(j.producer)
  BY DEF ReadProduction, Inv, Jobs, GoodJob, Started
<1>5. g \in DOMAIN Grant
  BY CloseAssumption DEF Inv, Jobs
<1>6. /\ a.kind = "production" /\ a.uniqueOf = h
      /\ a.uniqueness = "unique" => h \notin claimed
      /\ Genuine(a)
  BY <1>5, Productions DEF Inv
<1>7. job'[w] = Ready(j, a, faults) /\ job' = [job EXCEPT ![w] = job'[w]]
  BY <1>2 DEF Move, Inv, Jobs
<1>. HIDE DEF j
<1>8. /\ job' = [v \in Closer |-> job'[v]]
      /\ \A v \in Closer \ {w} : job'[v] = job[v] /\ GoodJob(v)'
      /\ \A v \in Closer \ {w} : (Unique(v)' <=> Unique(v)) /\ Asked(v)' = Asked(v)
  BY <1>3, <1>7, Others DEF Inv
<1>9. GoodJob(w)'
  <2>1. /\ job'[w].phase = "ready" /\ Attributed(job'[w])
        /\ job'[w].producer = j.producer /\ job'[w].authority = a
    BY <1>4, <1>7 DEF Ready, Attributed
  <2>2. Genuine(a)'
    BY <1>3, <1>6 DEF Genuine
  <2> QED
    BY <2>2, <2>1, <1>4 DEF GoodJob, Genuine, Started
<1>10. Asked(w)' = h /\ (Unique(w)' => h \notin claimed)
  BY <1>6, <1>7 DEF Ready, Asked, Unique
<1>11. Jobs'
  BY <1>9, <1>8, <1>3 DEF Inv, Jobs
<1>12. Registry'
  <2>1. /\ \A v \in Closer : Unique(v) => Asked(v) \in claimed
        /\ \A v \in Closer : Unique(v) =>
              \A n \in DOMAIN allowed : Asked(v) \notin allowed[n].grant
        /\ \A u, v \in Closer : Unique(u) /\ Unique(v) /\ Asked(u) = Asked(v) => u = v
        /\ \A n \in DOMAIN allowed : allowed[n].grant \subseteq claimed
    BY DEF Inv, Registry
  <2>2. ASSUME NEW v \in Closer, Unique(v)'
        PROVE  /\ Asked(v)' \in claimed'
               /\ \A n \in DOMAIN allowed' : Asked(v)' \notin allowed'[n].grant
    BY <2>2, <2>1, <1>10, <1>8, <1>3, <1>2
  <2>3. ASSUME NEW u \in Closer, NEW v \in Closer, Unique(u)', Unique(v)', Asked(u)' = Asked(v)'
        PROVE  u = v
    BY <2>3, <2>1, <1>10, <1>8
  <2>4. \A n \in DOMAIN allowed' : allowed'[n].grant \subseteq claimed'
    BY <2>1, <1>3, <1>2
  <2> QED
    BY <2>4, <2>3, <2>2 DEF Registry
<1>13. Log' /\ Gates'
  BY <1>3 DEF Inv, Log, Gates
<1>14. AllowedForProducer' /\ AuthorizationUsedOnce' /\ ReleasedByApprover'
  BY <1>3 DEF Inv, AllowedForProducer, AuthorizationUsedOnce, ReleasedByApprover
<1> QED
  BY <1>14, <1>13, <1>12, <1>11 DEF Inv

----
\* A retirement.
LEMMA LogGrows ==
  ASSUME Log, NEW r, allowed' = Append(allowed, r)
  PROVE  /\ Log'
         /\ DOMAIN allowed' = DOMAIN allowed \cup {Len(allowed) + 1}
         /\ Len(allowed) + 1 \notin DOMAIN allowed
         /\ \A n \in DOMAIN allowed : allowed'[n] = allowed[n]
         /\ allowed'[Len(allowed) + 1] = r
<1>1. PICK S : allowed \in Seq(S)
  BY DEF Log
<1>2. allowed \in Seq(S \cup {r})
  BY <1>1
<1>3. Append(allowed, r) \in Seq(S \cup {r})
  BY <1>2
<1>4. Log'
  BY <1>3 DEF Log
<1> QED
  BY <1>2, <1>4

\* The operation it is put down to created it, and unless it is a rollback the owner
\* it is named for made it.
LEMMA RetiredForProducer ==
  ASSUME Inv, NEW w \in Closer, job[w].phase = "ready", Allows(Query(w))
  PROVE  /\ job[w].candidates.op = Origin[job[w].deployment].op
         /\ job[w].intent # "creator_rollback" =>
                Origin[job[w].deployment].repository = Named[job[w].deployment].owner
<1>. DEFINE j == job[w]
            identity == j.population.identities[1]
            digest == GroupDigest(j.population)
<1>1. Attributed(j) /\ Authentic(j.producer)
  BY DEF Inv, Jobs, GoodJob, Started
<1>2. /\ j.population.complete
      /\ j.candidates.subject = j.subject
      /\ ProducerReason(j.producer, j.intent, j.subject, digest, identity,
                        j.candidates.op, now) = Passed
  <2>. DEFINE q == Query(w)
  <2>1. /\ q.population = j.population /\ q.candidates = j.candidates
        /\ q.subject = j.subject /\ q.producer = j.producer /\ q.intent = j.intent
        /\ q.at = now
    BY DEF Query
  <2>. HIDE DEF q, j
  <2>2. /\ q.population.complete
        /\ q.candidates.subject = q.subject
        /\ ProducerReason(q.producer, q.intent, q.subject, GroupDigest(q.population),
                          q.population.identities[1], q.candidates.op, q.at) = Passed
    <3>1. Allows(q)
      BY DEF q
    <3> QED
      BY <3>1, Permits
  <2> QED
    BY <2>1, <2>2
<1>3. j.candidates.op = Origin[j.deployment].op
  <2>1. PICK x \in Deployment : j.candidates.subject = Key(x) /\ j.candidates.op = Origin[x].op
    BY <1>1 DEF Attributed
  <2>2. x = j.deployment
    BY <2>1, <1>2, <1>1, KeysDiffer DEF Attributed
  <2> QED
    BY <2>1, <2>2
<1>4. ASSUME j.intent # "creator_rollback"
      PROVE  Origin[j.deployment].repository = identity.owner
  <2>. DEFINE e == j.producer
  <2>1. /\ e # Absent
        /\ e.kind = "shared" => /\ e.claim.subject = j.subject
                                /\ e.claim.repository = identity.owner
                                /\ e.signature = "verified"
        /\ e.kind # "shared" => e.op = j.candidates.op /\ e.repository = identity.owner
    <3>. HIDE DEF j, identity, digest
    <3> QED
      BY <1>2, <1>4, ProducerHolds
  <2>2. CASE e.kind = "shared"
    <3>1. PICK x \in Deployment : /\ e.claim.subject = Key(x)
                                  /\ e.claim.repository = Origin[x].repository
      BY <2>2, <2>1, <1>1 DEF Authentic
    <3>2. x = j.deployment
      BY <3>1, <2>2, <2>1, <1>1, KeysDiffer DEF Attributed
    <3> QED
      BY <3>2, <3>1, <2>2, <2>1
  <2>3. CASE e.kind # "shared"
    <3>1. PICK x \in Deployment : e.op = Origin[x].op /\ e.repository = Origin[x].repository
      BY <2>3, <2>1, <1>1 DEF Authentic
    <3>2. x = j.deployment
      BY <3>1, <2>3, <2>1, <1>3, <1>1, CloseAssumption, ZenonT(30) DEF Attributed
    <3> QED
      BY <3>2, <3>1, <2>3, <2>1
  <2> QED
    BY <2>2, <2>3
<1>5. identity = Named[j.deployment]
  BY <1>1, <1>2 DEF Attributed
<1> QED
  BY <1>5, <1>4, <1>3

\* A production authority that is allowed is about this deployment, was unused when
\* this closer asked, and was released by an approver.
LEMMA RetiredWithAuthority ==
  ASSUME Inv, NEW w \in Closer, job[w].phase = "ready", Allows(Query(w)),
         job[w].authority.kind = "production"
  PROVE  LET a == job[w].authority IN
         /\ a.id \in DOMAIN Grant /\ gate[a.id] # {}
         /\ Grant[a.id].deployment = job[w].deployment
         /\ Unique(w) /\ Asked(w) = a.id
         /\ \A pass \in gate[a.id] :
               Principal[pass.by].kind = "human" /\ Principal[pass.by].role = "member"
         /\ Principal[Grant[a.id].executor].kind = "machine"
         /\ Principal[Grant[a.id].executor].role = "non_member"
         /\ Principal[Grant[a.id].executor].admin = "non_member"
<1>. DEFINE a == job[w].authority
<1>1. /\ Attributed(job[w]) /\ Genuine(a)
      /\ Gates
  BY DEF Inv, Jobs, GoodJob, Started
<1>2. AuthorityReason(a, job[w].subject, now) = Passed
  <2>. DEFINE q == Query(w)
  <2>1. q.authority = a /\ q.subject = job[w].subject /\ q.at = now
    BY DEF Query
  <2>. HIDE DEF q
  <2>2. AuthorityReason(q.authority, q.subject, q.at) = Passed
    <3>1. Allows(q)
      BY DEF q
    <3> QED
      BY <3>1, Permits
  <2> QED
    BY <2>1, <2>2
<1>3. /\ a.subject = job[w].subject
      /\ a.uniqueness \notin {"unknown", "reused"} /\ a.uniqueOf = a.id
      /\ a.approver.kind = "human" /\ a.approver.role = "member"
      /\ a.executor.kind = "machine"
      /\ a.executor.role = "non_member" /\ a.executor.admin = "non_member"
      /\ a.mode = "github_environment" => BypassReason(a) = Passed
  BY <1>2, ProductionHolds
<1>4. Grant[a.id].deployment = job[w].deployment
  <2>1. a.subject = Key(Grant[a.id].deployment)
    BY <1>1 DEF Genuine
  <2>2. job[w].subject = Key(job[w].deployment)
    BY <1>1 DEF Attributed
  <2>. HIDE DEF a
  <2> QED
    BY <2>2, <2>1, <1>3, KeysDiffer
<1>5. Unique(w) /\ Asked(w) = a.id
  BY <1>1, <1>3 DEF Genuine, Unique, Asked
<1>6. ASSUME NEW pass \in gate[a.id]
      PROVE  Principal[pass.by].kind = "human" /\ Principal[pass.by].role = "member"
  <2>1. ShowsRelease(a, pass)
    BY <1>1 DEF Genuine
  <2>2. CASE pass.via = "approval"
    BY <2>2, <2>1, <1>3 DEF ShowsRelease
  <2>3. CASE pass.via # "approval"
    <3>1. a.bypass.configured = "enabled" /\ BypassReason(a) = Passed
      BY <2>3, <2>1, <1>3 DEF ShowsRelease
    <3>2. a.bypass.use \in {"used", "unknown"} /\ a.bypass.actor = {pass.by}
      BY <2>1, <2>3 DEF ShowsRelease
    <3>3. a.bypass.actor = {a.approver.name}
      BY <3>1, <3>2 DEF BypassReason, Passed, Gap, Invalid
    <3>4. pass.by = a.approver.name
      BY <3>2, <3>3
    <3> QED
      BY <3>4, <2>3, <2>1, <1>3 DEF ShowsRelease
  <2> QED
    BY <2>2, <2>3
<1> QED
  BY <1>6, <1>5, <1>4, <1>3, <1>1 DEF Genuine

LEMMA Deciding == ASSUME Inv, NEW w \in Closer, Decide(w) PROVE Inv'
<1>. DEFINE j == job[w]
            r == Retirement(w)
<1>1. /\ j.phase = "ready"
      /\ job'[w].phase = "idle" /\ job' = [job EXCEPT ![w] = job'[w]]
      /\ allowed' = IF Allows(Query(w)) THEN Append(allowed, r) ELSE allowed
      /\ UNCHANGED <<plan, gate, claimed>>
  BY DEF Decide, Move, Idle, Inv, Jobs
<1>2. GoodJob(w)' /\ ~Unique(w)'
  BY <1>1 DEF GoodJob, Started, Unique
<1>3. CASE ~Allows(Query(w))
  BY <1>3, <1>2, <1>1, Moved
<1>4. CASE Allows(Query(w))
  <2>. DEFINE m == Len(allowed) + 1
  <2>1. /\ Log' /\ DOMAIN allowed' = DOMAIN allowed \cup {m} /\ m \notin DOMAIN allowed
        /\ \A n \in DOMAIN allowed : allowed'[n] = allowed[n]
        /\ allowed'[m] = r
    BY <1>1, <1>4, LogGrows DEF Inv
  <2>. HIDE DEF m
  <2>2. /\ r.deployment = j.deployment /\ r.intent = j.intent /\ r.op = j.candidates.op
        /\ r.grant = IF j.authority.kind = "production" THEN {j.authority.id} ELSE {}
    BY DEF Retirement
  <2>. HIDE DEF r
  <2>3. /\ r.op = Origin[r.deployment].op
        /\ r.intent # "creator_rollback" =>
               Origin[r.deployment].repository = Named[r.deployment].owner
    BY <2>2, <1>4, <1>1, RetiredForProducer
  <2>4. ASSUME NEW g \in r.grant
        PROVE  /\ g \in DOMAIN Grant /\ gate[g] # {}
               /\ Grant[g].deployment = r.deployment
               /\ r.grant = {g}
               /\ Unique(w) /\ Asked(w) = g
               /\ \A pass \in gate[g] :
                     Principal[pass.by].kind = "human" /\ Principal[pass.by].role = "member"
               /\ Principal[Grant[g].executor].kind = "machine"
               /\ Principal[Grant[g].executor].role = "non_member"
               /\ Principal[Grant[g].executor].admin = "non_member"
    <3>1. j.authority.kind = "production" /\ g = j.authority.id /\ r.grant = {g}
      BY <2>2
    <3> QED
      BY <3>1, <2>2, <1>4, <1>1, RetiredWithAuthority
  <2>5. /\ job' = [v \in Closer |-> job'[v]]
        /\ \A v \in Closer \ {w} : job'[v] = job[v] /\ GoodJob(v)'
        /\ \A v \in Closer \ {w} : (Unique(v)' <=> Unique(v)) /\ Asked(v)' = Asked(v)
    BY <1>1, Others DEF Inv
  <2>6. Jobs'
    BY <2>5, <1>2, <1>1 DEF Inv, Jobs
  <2>7. Registry'
    <3>1. /\ \A v \in Closer : Unique(v) =>
                /\ Asked(v) \in claimed
                /\ \A n \in DOMAIN allowed : Asked(v) \notin allowed[n].grant
          /\ \A u, v \in Closer : Unique(u) /\ Unique(v) /\ Asked(u) = Asked(v) => u = v
          /\ \A n \in DOMAIN allowed : allowed[n].grant \subseteq claimed
      BY DEF Inv, Registry
    <3>2. ASSUME NEW v \in Closer, Unique(v)'
          PROVE  /\ v # w /\ Unique(v) /\ Asked(v)' = Asked(v)
                 /\ Asked(v) \notin r.grant
      <4>1. v # w
        BY <1>2, <3>2
      <4>2. Unique(v) /\ Asked(v)' = Asked(v)
        BY <4>1, <3>2, <2>5
      <4>3. ASSUME Asked(v) \in r.grant PROVE FALSE
        BY <4>3, <4>2, <4>1, <3>1, <2>4
      <4> QED
        BY <4>3, <4>2, <4>1
    <3>3. \A v \in Closer : Unique(v)' =>
             /\ Asked(v)' \in claimed'
             /\ \A n \in DOMAIN allowed' : Asked(v)' \notin allowed'[n].grant
      BY <3>2, <3>1, <2>1, <1>1
    <3>4. \A u, v \in Closer : Unique(u)' /\ Unique(v)' /\ Asked(u)' = Asked(v)' => u = v
      BY <3>1, <3>2
    <3>5. r.grant \subseteq claimed
      BY <2>4, <3>1
    <3>6. \A n \in DOMAIN allowed' : allowed'[n].grant \subseteq claimed'
      BY <3>5, <3>1, <2>1, <1>1
    <3> QED
      BY <3>6, <3>4, <3>3 DEF Registry
  <2>8. Gates'
    <3>1. \A n \in DOMAIN allowed' : \A g \in allowed'[n].grant : g \in DOMAIN Grant /\ gate[g] # {}
      BY <2>1, <2>4 DEF Inv, Gates
    <3> QED
      BY <1>1, <3>1 DEF Inv, Gates
  <2>9. AllowedForProducer'
    BY <2>1, <2>3 DEF Inv, AllowedForProducer
  <2>10. AuthorizationUsedOnce'
    <3>1. /\ \A n \in DOMAIN allowed : \A g \in allowed[n].grant :
                /\ Grant[g].deployment = allowed[n].deployment
                /\ \A k \in DOMAIN allowed : allowed[k].grant = {g} => n = k
      BY DEF Inv, AuthorizationUsedOnce
    <3>2. \A n \in DOMAIN allowed : r.grant \cap allowed[n].grant = {}
      BY <2>4 DEF Inv, Registry
    <3>3. ASSUME NEW n \in DOMAIN allowed', NEW k \in DOMAIN allowed', NEW g \in allowed'[n].grant
          PROVE  /\ Grant[g].deployment = allowed'[n].deployment
                 /\ allowed'[k].grant = {g} => n = k
      <4>1. CASE n = m /\ k = m
        BY <4>1, <3>3, <2>4, <2>1
      <4>2. CASE n = m /\ k # m
        BY <4>2, <3>3, <3>2, <2>4, <2>1
      <4>3. CASE n # m /\ k = m
        BY <4>3, <3>3, <3>2, <3>1, <2>1
      <4>4. CASE n # m /\ k # m
        BY <4>4, <3>3, <3>1, <2>1
      <4> QED
        BY <4>4, <4>3, <4>2, <4>1
    <3> QED
      BY <3>3 DEF AuthorizationUsedOnce
  <2>11. ReleasedByApprover'
    BY <2>4, <2>1, <1>1 DEF Inv, ReleasedByApprover
  <2> QED
    BY <2>11, <2>10, <2>9, <2>8, <2>7, <2>6, <2>1 DEF Inv
<1> QED
  BY <1>3, <1>4

\* A gate that somebody's authorization or retirement needed is open already.
LEMMA Opening ==
  ASSUME Inv, NEW g \in DOMAIN Grant, NEW p, OpenGate(g, p)
  PROVE  Inv'
<1>1. PICK pass : /\ gate' = [gate EXCEPT ![g] = {pass}]
                  /\ \/ pass.via = "approval" /\ Principal[pass.by].role = "member"
                     \/ pass.via = "bypass" /\ Grant[g].bypass = "enabled"
  <2>1. CASE /\ Principal[p].role = "member"
             /\ gate' = [gate EXCEPT ![g] = {[by |-> p, via |-> "approval"]}]
    <3>. WITNESS [by |-> p, via |-> "approval"]
    <3> QED
      BY <2>1
  <2>2. CASE /\ Grant[g].bypass = "enabled"
             /\ gate' = [gate EXCEPT ![g] = {[by |-> p, via |-> "bypass"]}]
    <3>. WITNESS [by |-> p, via |-> "bypass"]
    <3> QED
      BY <2>2
  <2> QED
    BY <2>1, <2>2 DEF OpenGate
<1>2. gate[g] = {} /\ UNCHANGED <<plan, job, claimed, allowed>>
  BY DEF OpenGate
<1>3. \A x \in DOMAIN Grant : gate'[x] = IF x = g THEN {pass} ELSE gate[x]
  BY <1>1 DEF Inv, Gates
<1>4. gate' = [x \in DOMAIN Grant |-> gate'[x]]
  BY <1>1 DEF Inv, Gates
<1>5. Gates'
  BY <1>4, <1>3, <1>2, <1>1, ZenonT(30) DEF Inv, Gates
<1>6. Jobs'
  <2>1. ASSUME NEW w \in Closer PROVE GoodJob(w)'
    <3>1. GoodJob(w)
      BY DEF Inv, Jobs
    <3>2. ASSUME job[w].phase = "ready", job[w].authority.kind = "production"
          PROVE  Genuine(job[w].authority)'
      <4>1. Genuine(job[w].authority)
        BY <3>1, <3>2 DEF GoodJob
      <4>2. job[w].authority.id # g
        BY <1>2, <4>1 DEF Genuine
      <4> QED
        BY <4>2, <4>1, <1>3, <1>2 DEF Genuine
    <3> QED
      BY <3>2, <3>1, <1>2 DEF GoodJob
  <2> QED
    BY <1>2, <2>1 DEF Inv, Jobs
<1>7. Log' /\ Registry' /\ AllowedForProducer' /\ AuthorizationUsedOnce'
  BY <1>2 DEF Inv, Log, Registry, Unique, Asked, AllowedForProducer, AuthorizationUsedOnce
<1>8. ReleasedByApprover'
  <2>1. \A n \in DOMAIN allowed : \A x \in allowed[n].grant : x \in DOMAIN Grant /\ x # g
    BY <1>2 DEF Inv, Gates
  <2> QED
    BY <2>1, <1>3, <1>2 DEF Inv, ReleasedByApprover
<1> QED
  BY <1>8, <1>7, <1>6, <1>5 DEF Inv

----
\* Of its producer, once, and released by a human.
LEMMA Steps == Inv /\ [Next]_vars => Inv'
<1> SUFFICES ASSUME Inv, [Next]_vars PROVE Inv'
  OBVIOUS
<1>1. CASE Tick \/ (\E f \in plan.facts : Turn(f)) \/ UNCHANGED vars
  <2>1. UNCHANGED <<plan, gate, claimed, job, allowed>>
    BY <1>1 DEF Tick, Turn, vars
  <2>2. Jobs'
    BY <2>1 DEF Inv, Jobs, GoodJob, Genuine
  <2>3. Log' /\ Registry' /\ Gates'
    BY <2>1 DEF Inv, Log, Registry, Unique, Asked, Gates
  <2>4. AllowedForProducer' /\ AuthorizationUsedOnce' /\ ReleasedByApprover'
    BY <2>1 DEF Inv, AllowedForProducer, AuthorizationUsedOnce, ReleasedByApprover
  <2> QED
    BY <2>4, <2>3, <2>2 DEF Inv
<1>2. ASSUME NEW g \in plan.grants, NEW p \in DOMAIN Principal, OpenGate(g, p)
      PROVE  Inv'
  BY <1>2, CloseAssumption, Opening DEF Inv, Jobs
<1>3. ASSUME NEW w \in plan.closers,
             \/ Attribute(w) \/ Witness(w) \/ ReadAuthority(w) \/ ReadProduction(w)
             \/ Decide(w) \/ GiveUp(w)
      PROVE  Inv'
  <2>1. w \in Closer
    BY CloseAssumption DEF Inv, Jobs
  <2> QED
    BY <1>3, <2>1, Attributing, Witnessing, Authorizing, Asking, Deciding, GivingUp
<1> QED
  BY <1>3, <1>2, <1>1 DEF Next

\* The invariant holds in every reachable state, whatever the closers plan to do and
\* however many readings of a query are bad.
THEOREM Invariance == Spec => []Inv
  BY Initial, Steps, PTL DEF Spec

\* close_policy.py:725, close_policy.py:872 and close_policy.py:1427: nothing is
\* retired for an owner that its names only claim, or put down to another operation.
THEOREM RetiredForItsProducer == Spec => []AllowedForProducer
<1>1. Inv => AllowedForProducer
  BY DEF Inv
<1> QED
  BY <1>1, Invariance, PTL

\* close_policy.py:1020: a production authorization retires its own deployment, and
\* that once.
THEOREM NeverReplayed == Spec => []AuthorizationUsedOnce
<1>1. Inv => AuthorizationUsedOnce
  BY DEF Inv
<1> QED
  BY <1>1, Invariance, PTL

\* close_policy.py:974 and close_policy.py:1085: behind every production retirement is
\* a human approver, and its executor can neither approve nor go past the gate.
THEOREM ReleasedByHuman == Spec => []ReleasedByApprover
<1>1. Inv => ReleasedByApprover
  BY DEF Inv
<1> QED
  BY <1>1, Invariance, PTL

----
\* Knowing less.  What each reading is a reading of, as far as leaving out
\* a part of it needs to know.
Says(r, fields) == fields \subseteq DOMAIN r

ReadsChain(e) == e = Absent \/ Says(e, {"agreement"})

ReadsAuthority(a) ==
    /\ Says(a, {"kind"})
    /\ a.kind = "ci" => Says(a, {"consumers"})
    /\ a.kind = "rollback" => Says(a, {"trigger"}) /\ Says(a.trigger, {"handoff"})
    /\ a.kind = "production" =>
          /\ Says(a, {"uniqueness", "bypass"})
          /\ a.bypass = Absent \/ Says(a.bypass, {"use"})

ReadsNames(j) == Says(j.population, {"complete"}) /\ Says(j.candidates, {"complete", "uniqueness"})

Read(j) ==
    /\ j.phase \in Started => ReadsNames(j)
    /\ j.phase \in {"witnessed", "ready"} => ReadsChain(j.chain)
    /\ j.phase = "ready" => ReadsAuthority(j.authority)

Readings == \A w \in Closer : Read(job[w])

LEMMA NamesRead ==
  ASSUME Jobs, NEW d \in Deployment, NEW p \in PopulationReads[d], NEW c \in CandidateReads(d)
  PROVE  Says(p, {"complete"}) /\ Says(c, {"complete", "uniqueness"})
<1>1. \A groups, complete : Says(ClassifyGroups(groups, complete), {"complete"})
  BY DEF ClassifyGroups, Says
<1>2. Says(p, {"complete"})
  BY <1>1 DEF PopulationReads
<1>3. plan.deployments \subseteq Deployment
  BY CloseAssumption DEF Jobs
<1>4. \A x \in Deployment : Says(CandidatesOf[x], {"complete", "uniqueness"})
  BY DEF CandidatesOf, Says
<1>5. CASE \E x \in plan.deployments : c = CandidatesOf[x]
  BY <1>5, <1>4, <1>3, <1>2
<1>6. CASE \/ c = [CandidatesOf[d] EXCEPT !.complete = FALSE]
           \/ c = [CandidatesOf[d] EXCEPT !.uniqueness = "unknown"]
           \/ c = [CandidatesOf[d] EXCEPT !.count = 2]
  <2>1. DOMAIN c = DOMAIN CandidatesOf[d]
    BY <1>6
  <2> QED
    BY <2>1, <1>4, <1>2 DEF Says
<1> QED
  BY <1>5, <1>6 DEF CandidateReads

LEMMA ChainsRead ==
  ASSUME NEW d, NEW e \in ChainReads(d)
  PROVE  ReadsChain(e)
<1>1. \A x : Says(ChainOf(x), {"agreement"})
  BY DEF ChainOf, Says
<1>. DEFINE wrong == [ChainOf(d) EXCEPT !.state = "active"]
<1>2. DOMAIN wrong = DOMAIN ChainOf(d)
  OBVIOUS
<1>3. CASE e = Absent \/ \E x : e = ChainOf(x)
  BY <1>1, <1>3 DEF ReadsChain
<1>4. CASE \/ e = [wrong EXCEPT !.finalized = FALSE]
           \/ e = [wrong EXCEPT !.independent = FALSE]
           \/ e = [wrong EXCEPT !.heightB = 2]
           \/ e = [wrong EXCEPT !.agreement = "disagreeing"]
           \/ e = [wrong EXCEPT !.deployments = {}]
  <2>. HIDE DEF wrong
  <2>1. DOMAIN e = DOMAIN wrong
    BY <1>4
  <2> QED
    BY <2>1, <1>2, <1>1 DEF ReadsChain, Says
<1>5. CASE e = [ChainOf(d) EXCEPT !.leases = 0] \/ e = [ChainOf(d) EXCEPT !.leaseDigest = {}]
  <2>1. DOMAIN e = DOMAIN ChainOf(d)
    BY <1>5
  <2> QED
    BY <1>1, <2>1 DEF ReadsChain, Says
<1> QED
  BY <1>5, <1>4, <1>3 DEF ChainReads

LEMMA AuthoritiesRead ==
  ASSUME NEW d, NEW a \in {Absent} \cup CleanupReads(d) \cup StagingReads \cup RollbackReads(d)
  PROVE  ReadsAuthority(a)
<1>1. CASE a = Absent
  BY <1>1 DEF Absent, ReadsAuthority, Says
<1>2. CASE a \in CleanupReads(d)
  <2>1. \E x, f : \/ a = CleanupOf(x, f)
                  \/ a = [CleanupOf(x, f) EXCEPT !.runState = "unknown"]
                  \/ a = [CleanupOf(x, f) EXCEPT !.consumers = "unknown"]
    BY <1>2 DEF CleanupReads
  <2>2. PICK x, f : \/ a = CleanupOf(x, f)
                    \/ a = [CleanupOf(x, f) EXCEPT !.runState = "unknown"]
                    \/ a = [CleanupOf(x, f) EXCEPT !.consumers = "unknown"]
    BY <2>1
  <2>3. Says(CleanupOf(x, f), {"kind", "consumers"}) /\ CleanupOf(x, f).kind = "ci"
    BY DEF CleanupOf, Says
  <2>4. Says(a, {"kind", "consumers"}) /\ a.kind = "ci"
    BY <2>2, <2>3 DEF Says
  <2> QED
    BY <2>4 DEF ReadsAuthority, Says
<1>3. CASE a \in StagingReads
  <2>1. PICK x, f : a = StagingOf(x, f)
    BY <1>3 DEF StagingReads
  <2> QED
    BY <2>1 DEF StagingOf, ReadsAuthority, Says
<1>4. CASE a \in RollbackReads(d)
  <2>1. ASSUME NEW x, NEW y
        PROVE  LET r == RollbackOf(x, y) IN
               /\ Says(r, {"kind", "trigger"}) /\ r.kind = "rollback"
               /\ Says(r.trigger, {"handoff"})
    BY DEF RollbackOf, Says
  <2>2. CASE \E x, y : a = RollbackOf(x, y)
    BY <2>1, <2>2 DEF ReadsAuthority, Says
  <2>3. CASE a = [RollbackOf(d, d) EXCEPT !.trigger = [@ EXCEPT !.handoff = "unknown"]]
    <3>1. PICK r : r = RollbackOf(d, d)
      OBVIOUS
    <3>2. /\ Says(r, {"kind", "trigger"}) /\ r.kind = "rollback"
          /\ Says(r.trigger, {"handoff"})
      BY <2>1, <3>1
    <3>3. PICK t : t = [r.trigger EXCEPT !.handoff = "unknown"]
      OBVIOUS
    <3>4. Says(t, {"handoff"})
      BY <3>2, <3>3 DEF Says
    <3>5. a = [r EXCEPT !.trigger = t]
      BY <3>3, <3>1, <2>3
    <3>6. Says(a, {"kind", "trigger"}) /\ a.kind = "rollback" /\ a.trigger = t
      BY <3>2, <3>5 DEF Says
    <3> QED
      BY <3>4, <3>6 DEF ReadsAuthority, Says
  <2> QED
    BY <2>3, <2>2, <1>4 DEF RollbackReads
<1> QED
  BY <1>4, <1>3, <1>2, <1>1

LEMMA ProductionsRead ==
  ASSUME NEW g, NEW pass, NEW h, NEW a \in ProductionReads(g, pass, h)
  PROVE  ReadsAuthority(a)
<1>. DEFINE Fields == {"kind", "uniqueness", "bypass"}
<1>1. PICK good : good = ProductionOf(g, pass, h, Uniqueness(h))
  OBVIOUS
<1>2. Says(good, Fields) /\ good.kind = "production"
  BY <1>1 DEF ProductionOf, Says
<1>3. good.bypass = Absent \/ Says(good.bypass, {"use"})
  <2>1. good.bypass = IF Grant[g].mode = "github_environment" THEN Bypass(g, pass) ELSE Absent
    BY <1>1 DEF ProductionOf
  <2>2. Says(Bypass(g, pass), {"use"})
    BY DEF Bypass, Says
  <2> QED
    BY <2>1, <2>2
<1>4. \/ a = good
      \/ a = [good EXCEPT !.uniqueness = "unknown"]
      \/ a = [good EXCEPT !.executor = [@ EXCEPT !.authentication = "unknown"]]
      \/ a = [good EXCEPT !.singleUse = "unknown"]
      \/ a = [good EXCEPT !.verified = Verified(h)]
      \/ good.bypass # Absent /\ a = [good EXCEPT !.bypass = [@ EXCEPT !.use = "unknown"]]
  BY <1>1 DEF ProductionReads
<1>5. CASE good.bypass # Absent /\ a = [good EXCEPT !.bypass = [@ EXCEPT !.use = "unknown"]]
  <2>1. PICK b : b = [good.bypass EXCEPT !.use = "unknown"]
    OBVIOUS
  <2>2. Says(b, {"use"})
    BY <2>1, <1>5, <1>3 DEF Says
  <2>3. a = [good EXCEPT !.bypass = b]
    BY <1>5, <2>1
  <2>4. Says(a, Fields) /\ a.kind = "production" /\ a.bypass = b
    BY <1>2, <2>3 DEF Says
  <2> QED
    BY <2>2, <2>4 DEF ReadsAuthority, Says
<1>6. CASE a = [good EXCEPT !.executor = [@ EXCEPT !.authentication = "unknown"]]
  <2>1. PICK x : x = [good.executor EXCEPT !.authentication = "unknown"]
    OBVIOUS
  <2>2. a = [good EXCEPT !.executor = x]
    BY <1>6, <2>1
  <2>3. Says(a, Fields) /\ a.kind = "production" /\ a.bypass = good.bypass
    BY <1>2, <2>2 DEF Says
  <2> QED
    BY <1>3, <2>3 DEF ReadsAuthority, Says
<1>7. CASE \/ a = good
           \/ a = [good EXCEPT !.uniqueness = "unknown"]
           \/ a = [good EXCEPT !.singleUse = "unknown"]
           \/ a = [good EXCEPT !.verified = Verified(h)]
  <2>1. Says(a, Fields) /\ a.kind = "production" /\ a.bypass = good.bypass
    BY <1>2, <1>7 DEF Says
  <2> QED
    BY <1>3, <2>1 DEF ReadsAuthority, Says
<1> QED
  BY <1>7, <1>6, <1>5, <1>4

\* Only the closer that moves reads anything.
LEMMA OthersRead ==
  ASSUME Jobs, Readings, NEW w \in Closer, NEW j, Move(w, j), Read(j)
  PROVE  Readings'
<1>1. \A v \in Closer : job'[v] = IF v = w THEN j ELSE job[v]
  BY DEF Move, Jobs
<1> QED
  BY <1>1 DEF Readings, Read, ReadsNames, ReadsChain, ReadsAuthority, Says

LEMMA ReadingsStep == Inv /\ Readings /\ [Next]_vars => Readings'
<1> SUFFICES ASSUME Inv, Readings, [Next]_vars PROVE Readings'
  OBVIOUS
<1>1. CASE UNCHANGED job
  BY <1>1 DEF Readings, Read, ReadsNames, ReadsChain, ReadsAuthority, Says
<1>2. ASSUME NEW w \in Closer, Attribute(w) PROVE Readings'
  <2>1. PICK task \in plan.tasks :
           \E p \in PopulationReads[task[1]], c \in CandidateReads(task[1]) :
              \E faults : Move(w, [phase |-> "attributed", deployment |-> task[1],
                                   subject |-> Key(task[1]), intent |-> task[2],
                                   population |-> p, candidates |-> c, faults |-> faults])
    BY <1>2 DEF Attribute
  <2>2. PICK p \in PopulationReads[task[1]], c \in CandidateReads(task[1]) :
           \E faults : Move(w, [phase |-> "attributed", deployment |-> task[1],
                                subject |-> Key(task[1]), intent |-> task[2],
                                population |-> p, candidates |-> c, faults |-> faults])
    BY <2>1
  <2>3. PICK j : /\ Move(w, j) /\ j.phase = "attributed"
                 /\ j.population = p /\ j.candidates = c
    BY <2>2
  <2>4. task[1] \in Deployment
    BY CloseAssumption DEF Inv, Jobs
  <2>5. Read(j)
    BY <2>3, <2>4, NamesRead DEF Inv, Read, ReadsNames
  <2> QED
    BY <2>3, <2>5, OthersRead DEF Inv
<1>3. ASSUME NEW w \in Closer, Witness(w) PROVE Readings'
  <2>1. PICK e \in ChainReads(job[w].deployment), p \in ProducerReads(job[w].deployment) :
           \E faults :
              Move(w, [phase |-> "witnessed", deployment |-> job[w].deployment,
                       subject |-> job[w].subject, intent |-> job[w].intent,
                       population |-> job[w].population,
                       candidates |-> job[w].candidates,
                       chain |-> e, producer |-> p, faults |-> faults])
    BY <1>3 DEF Witness
  <2>2. PICK j : /\ Move(w, j) /\ j.phase = "witnessed" /\ j.chain = e
                 /\ j.population = job[w].population /\ j.candidates = job[w].candidates
    BY <2>1
  <2>3. ReadsNames(job[w])
    BY <1>3 DEF Witness, Readings, Read, Started
  <2>4. Read(j)
    BY <2>2, <2>3, ChainsRead DEF Read, ReadsNames
  <2> QED
    BY <2>2, <2>4, OthersRead DEF Inv
<1>4. ASSUME NEW w \in Closer, NEW a, NEW faults, job[w].phase = "witnessed",
             ReadsAuthority(a), Move(w, Ready(job[w], a, faults))
      PROVE  Readings'
  <2>1. PICK j : /\ Move(w, j) /\ j.phase = "ready" /\ j.chain = job[w].chain
                 /\ j.population = job[w].population /\ j.candidates = job[w].candidates
                 /\ j.authority = a
    BY <1>4 DEF Ready
  <2>2. ReadsNames(job[w]) /\ ReadsChain(job[w].chain)
    BY <1>4 DEF Readings, Read, Started
  <2>3. Read(j)
    BY <2>2, <2>1, <1>4 DEF Read, ReadsNames
  <2> QED
    BY <2>1, <2>3, OthersRead DEF Inv
<1>5. ASSUME NEW w \in Closer, ReadAuthority(w) PROVE Readings'
  <2>1. job[w].phase = "witnessed"
    BY <1>5 DEF ReadAuthority
  <2>2. \E d : \E a \in {Absent} \cup CleanupReads(d) \cup StagingReads \cup RollbackReads(d) :
           \E faults : Move(w, Ready(job[w], a, faults))
    BY <1>5 DEF ReadAuthority
  <2> QED
    BY <2>2, <2>1, <1>4, AuthoritiesRead
<1>6. ASSUME NEW w \in Closer, ReadProduction(w) PROVE Readings'
  <2>1. job[w].phase = "witnessed"
    BY <1>6 DEF ReadProduction
  <2>2. \E g, h, pass : \E a \in ProductionReads(g, pass, h) :
           \E faults : Move(w, Ready(job[w], a, faults))
    BY <1>6 DEF ReadProduction
  <2> QED
    BY <2>2, <2>1, <1>4, ProductionsRead
<1>7. ASSUME NEW w \in Closer, Decide(w) \/ GiveUp(w) PROVE Readings'
  <2>1. Move(w, Idle) /\ Read(Idle)
    BY <1>7 DEF Decide, GiveUp, Read, Idle, Started
  <2> QED
    BY <2>1, OthersRead DEF Inv
<1>8. plan.closers \subseteq Closer
  BY CloseAssumption DEF Inv, Jobs
<1> QED
  BY <1>8, <1>7, <1>6, <1>5, <1>3, <1>2, <1>1 DEF Next, Tick, Turn, OpenGate, vars

\* What has been read of a closer's query says what it was read for, at every time.
LEMMA ReadingsInvariant == Spec => []Readings
<1>1. Init => Readings
  BY DEF Init, Readings, Read, Idle, Started
<1> QED
  BY <1>1, ReadingsStep, Invariance, PTL DEF Spec

\* What makes an authority good whatever is intended, of the parts that may be unread.
LEMMA AuthorityRead ==
  ASSUME NEW q, Allows(q)
  PROVE  /\ q.authority # Absent
         /\ q.authority.kind = "ci" => q.authority.consumers = "finished"
         /\ q.authority.kind = "rollback" => q.authority.trigger.handoff = "failed"
         /\ q.authority.kind = "production" =>
               /\ q.authority.uniqueness # "unknown"
               /\ q.authority.bypass # Absent => q.authority.bypass.use # "unknown"
<1>. DEFINE a == q.authority
            identity == q.population.identities[1]
            digest == GroupDigest(q.population)
<1>1. Authorize(q, identity, digest) = Passed
  BY Passes
<1>2. a # Absent /\ AuthorityReason(a, q.subject, q.at) = Passed
  BY <1>1 DEF Authorize, Else, Passed
<1>3. /\ q.intent = "ci_cleanup" => CleanupReason(a, identity) = Passed
      /\ q.intent = "staging_retirement" =>
            StagingReason(a, identity, q.producer, q.candidates) = Passed
      /\ q.intent = "production_retirement" =>
            ProductionReason(a, identity, q.producer) = Passed
      /\ q.intent \notin {"ci_cleanup", "staging_retirement", "production_retirement"} =>
            RollbackReason(a, q.subject, digest, identity, q.producer, q.candidates) = Passed
  BY <1>1, <1>2 DEF Authorize, Else
<1>4. ASSUME a.kind = "ci" PROVE a.consumers = "finished"
  BY <1>3, <1>4 DEF CleanupReason, StagingReason, ProductionReason, RollbackReason,
                    WrongType, Disagrees, Invalid, Passed
<1>5. ASSUME a.kind = "rollback" PROVE a.trigger.handoff = "failed"
  BY <1>2, <1>5 DEF AuthorityReason, RollbackAuthority, Passed, Invalid
<1>6. ASSUME a.kind = "production"
      PROVE  a.uniqueness # "unknown" /\ (a.bypass # Absent => a.bypass.use # "unknown")
  <2>1. ProductionAuthority(a, q.at) = Passed
    BY <1>2, <1>6 DEF AuthorityReason, Passed, Invalid
  <2>2. UniquenessReason(a, q.at) = Passed /\ ModeReason(a) = Passed
    BY <2>1 DEF ProductionAuthority, Else, Passed, Invalid
  <2>3. a.uniqueness # "unknown"
    BY <2>2 DEF UniquenessReason, Passed, Gap
  <2>4. a.mode = "github_environment" => BypassReason(a) = Passed
    BY <2>2 DEF ModeReason, Else, Passed
  <2>5. a.mode # "github_environment" => a.bypass = Absent
    BY <2>2 DEF ModeReason, Passed, Invalid
  <2>6. BypassReason(a) = Passed => a.bypass.use # "unknown"
    BY DEF BypassReason, Passed, Gap, Invalid
  <2> QED
    BY <2>6, <2>5, <2>4, <2>3
<1> QED
  BY <1>6, <1>5, <1>4, <1>2

Record(subject, intent, population, candidates, chain, producer, authority, at) ==
    [subject |-> subject, intent |-> intent, population |-> population,
     candidates |-> candidates, chain |-> chain, producer |-> producer,
     authority |-> authority, at |-> at]

\* A query that leaves something out of another one shows a gap, or is like it but for
\* the chain and the producer.
LEMMA OmissionShows ==
  ASSUME NEW s, NEW i, NEW p, NEW c, NEW e, NEW m, NEW a, NEW t,
         Says(p, {"complete"}), Says(c, {"complete", "uniqueness"}),
         ReadsChain(e), ReadsAuthority(a),
         NEW q \in Omissions(Record(s, i, p, c, e, m, a, t))
  PROVE  \/ q.authority = Absent
         \/ ~q.candidates.complete \/ q.candidates.uniqueness = "unknown"
         \/ ~q.population.complete
         \/ /\ q.chain = Absent \/ q.producer = Absent
            /\ q.subject = s /\ q.intent = i /\ q.population = p /\ q.candidates = c
            /\ q.authority = a /\ q.at = t
         \/ q.chain # Absent /\ q.chain.agreement = "unknown"
         \/ q.authority.kind = "ci" /\ q.authority.consumers = "unknown"
         \/ q.authority.kind = "rollback" /\ q.authority.trigger.handoff = "unknown"
         \/ q.authority.kind = "production" /\ q.authority.uniqueness = "unknown"
         \/ /\ q.authority.kind = "production" /\ q.authority.bypass # Absent
            /\ q.authority.bypass.use = "unknown"
<1>. DEFINE r == Record(s, i, p, c, e, m, a, t)
<1>1. CASE q = [r EXCEPT !.authority = Absent]
  BY <1>1 DEF Record
<1>2. CASE q = [r EXCEPT !.candidates.complete = FALSE]
  <2>1. q.candidates = [c EXCEPT !.complete = FALSE]
    BY <1>2 DEF Record
  <2> QED
    BY <2>1 DEF Says
<1>3. CASE q = [r EXCEPT !.candidates.uniqueness = "unknown"]
  <2>1. q.candidates = [c EXCEPT !.uniqueness = "unknown"]
    BY <1>3 DEF Record
  <2> QED
    BY <2>1 DEF Says
<1>4. CASE q = [r EXCEPT !.population.complete = FALSE]
  <2>1. q.population = [p EXCEPT !.complete = FALSE]
    BY <1>4 DEF Record
  <2> QED
    BY <2>1 DEF Says
<1>5. CASE \/ q = [r EXCEPT !.chain = Absent] \/ q = [r EXCEPT !.producer = Absent]
           \/ q = [r EXCEPT !.chain = Absent, !.producer = Absent]
  BY <1>5 DEF Record
<1>6. CASE r.chain # Absent /\ q = [r EXCEPT !.chain.agreement = "unknown"]
  <2>1. e # Absent /\ q.chain = [e EXCEPT !.agreement = "unknown"]
    BY <1>6 DEF Record
  <2>2. "agreement" \in DOMAIN e /\ "agreement" \notin DOMAIN Absent
    BY <2>1 DEF ReadsChain, Says, Absent
  <2>3. DOMAIN q.chain = DOMAIN e /\ q.chain.agreement = "unknown"
    BY <2>1, <2>2
  <2> QED
    BY <2>2, <2>3
<1>7. CASE r.authority.kind = "ci" /\ q = [r EXCEPT !.authority.consumers = "unknown"]
  <2>1. a.kind = "ci" /\ q.authority = [a EXCEPT !.consumers = "unknown"]
    BY <1>7 DEF Record
  <2> QED
    BY <2>1 DEF ReadsAuthority, Says
<1>8. CASE r.authority.kind = "rollback"
             /\ q = [r EXCEPT !.authority.trigger.handoff = "unknown"]
  <2>1. PICK x : x = [a.trigger EXCEPT !.handoff = "unknown"]
    OBVIOUS
  <2>2. a.kind = "rollback" /\ q.authority = [a EXCEPT !.trigger = x]
    BY <1>8, <2>1 DEF Record
  <2>3. x.handoff = "unknown"
    BY <2>1, <2>2 DEF ReadsAuthority, Says
  <2>4. q.authority.kind = "rollback" /\ q.authority.trigger = x
    BY <2>2 DEF ReadsAuthority, Says
  <2> QED
    BY <2>3, <2>4
<1>9. CASE r.authority.kind = "production"
             /\ q = [r EXCEPT !.authority.uniqueness = "unknown"]
  <2>1. a.kind = "production" /\ q.authority = [a EXCEPT !.uniqueness = "unknown"]
    BY <1>9 DEF Record
  <2> QED
    BY <2>1 DEF ReadsAuthority, Says
<1>10. CASE /\ r.authority.kind = "production" /\ r.authority.bypass # Absent
            /\ q = [r EXCEPT !.authority.bypass.use = "unknown"]
  <2>1. PICK x : x = [a.bypass EXCEPT !.use = "unknown"]
    OBVIOUS
  <2>2. /\ a.kind = "production" /\ a.bypass # Absent
        /\ q.authority = [a EXCEPT !.bypass = x]
    BY <1>10, <2>1 DEF Record
  <2>3. x.use = "unknown" /\ "use" \in DOMAIN x /\ "use" \notin DOMAIN Absent
    BY <2>1, <2>2 DEF ReadsAuthority, Says, Absent
  <2>4. q.authority.kind = "production" /\ q.authority.bypass = x
    BY <2>2 DEF ReadsAuthority, Says
  <2> QED
    BY <2>3, <2>4
<1>11. \/ q = [r EXCEPT !.authority = Absent]
       \/ q = [r EXCEPT !.candidates.complete = FALSE]
       \/ q = [r EXCEPT !.candidates.uniqueness = "unknown"]
       \/ q = [r EXCEPT !.population.complete = FALSE]
       \/ q = [r EXCEPT !.chain = Absent] \/ q = [r EXCEPT !.producer = Absent]
       \/ q = [r EXCEPT !.chain = Absent, !.producer = Absent]
       \/ r.chain # Absent /\ q = [r EXCEPT !.chain.agreement = "unknown"]
       \/ r.authority.kind = "ci" /\ q = [r EXCEPT !.authority.consumers = "unknown"]
       \/ /\ r.authority.kind = "rollback"
          /\ q = [r EXCEPT !.authority.trigger.handoff = "unknown"]
       \/ /\ r.authority.kind = "production"
          /\ q = [r EXCEPT !.authority.uniqueness = "unknown"]
       \/ /\ r.authority.kind = "production" /\ r.authority.bypass # Absent
          /\ q = [r EXCEPT !.authority.bypass.use = "unknown"]
  BY Zenon DEF Omissions
<1>. HIDE DEF r
<1> QED
  BY ONLY <1>11, <1>10, <1>9, <1>8, <1>7, <1>6, <1>5, <1>4, <1>3, <1>2, <1>1

\* Whatever is left out, the policy has a branch that refuses, unless it is the chain or
\* the producer of a rollback: for every query of the shape that the closers ask.
LEMMA OnlyUnwitnessed ==
  ASSUME NEW s, NEW i, NEW p, NEW c, NEW e, NEW m, NEW a, NEW t,
         Says(p, {"complete"}), Says(c, {"complete", "uniqueness"}),
         ReadsChain(e), ReadsAuthority(a),
         NEW q \in Omissions(Record(s, i, p, c, e, m, a, t)), Allows(q)
  PROVE  /\ q.intent = "creator_rollback"
         /\ q.subject = s /\ q.intent = i /\ q.population = p /\ q.candidates = c
         /\ q.authority = a /\ q.at = t
<1>1. /\ q.population.complete
      /\ q.candidates.complete /\ q.candidates.uniqueness = "unique"
      /\ q.chain = Absent => q.intent = "creator_rollback"
      /\ q.producer = Absent => q.intent = "creator_rollback"
  BY Passes DEF CandidatesUnique
<1>2. q.chain # Absent => q.chain.agreement = "agreeing"
  BY Passes DEF ChainReason, Passed
<1>3. /\ q.authority # Absent
      /\ q.authority.kind = "ci" => q.authority.consumers = "finished"
      /\ q.authority.kind = "rollback" => q.authority.trigger.handoff = "failed"
      /\ q.authority.kind = "production" =>
            /\ q.authority.uniqueness # "unknown"
            /\ q.authority.bypass # Absent => q.authority.bypass.use # "unknown"
  BY AuthorityRead
<1> QED
  BY <1>3, <1>2, <1>1, OmissionShows

----
\* Whether what was allowed was due.  Evidence that says that a fact
\* permits a retirement was true when it was observed, and the fact cannot
\* have left that state before.
Was(f, time) == fact[f] \in Permitting \/ ended[f] >= time

\* Evidence of a fact, good for an interval that has begun.
Shows(f, observed, until) ==
    /\ observed \in Nat /\ observed <= now /\ until = observed + Validity
    /\ f \in Fact /\ Was(f, observed)

\* Two independent finalized views that agree are true of their deployment.
Trusted(e) ==
    /\ e # Absent /\ e.independent /\ e.finalized /\ e.heightB = e.finality
    /\ e.agreement = "agreeing" /\ e.deployments # {} /\ e.state = "active"

ShowsActive(e) ==
    Trusted(e) =>
        \E d \in Deployment : e.subject = Key(d) /\ Shows(d, e.observed, e.until)

ShowsFinished(a) ==
    a.kind = "ci" /\ a.runState = "terminal" /\ a.consumers = "finished" =>
        \E f \in DOMAIN Attempt :
            /\ a.repository = Attempt[f].repository
            /\ a.run = Attempt[f].run /\ a.attempt = Attempt[f].attempt
            /\ Shows(f, a.observed, a.until)

ShowsRetired(a) ==
    a.kind = "staging" =>
        \E f \in DOMAIN Release :
            /\ a.repository = Release[f].repository /\ a.release = Release[f].release
            /\ Shows(f, a.observed, a.until)

ShowsFailed(a) ==
    a.kind = "rollback" /\ a.binding = "confirmed" /\ a.trigger.handoff = "failed" =>
        \E d \in Deployment :
            /\ a.subject = Key(d)
            /\ Shows(Origin[d].op, a.trigger.observed, a.trigger.until)

ShowsDue(j) ==
    /\ j.phase \in Started => j.deployment \in Deployment /\ j.intent \in CloseIntent
    /\ j.phase \in {"witnessed", "ready"} => ShowsActive(j.chain)
    /\ j.phase = "ready" =>
          ShowsFinished(j.authority) /\ ShowsRetired(j.authority) /\ ShowsFailed(j.authority)

Clocks ==
    /\ now \in Nat
    /\ fact = [f \in Fact |-> fact[f]] /\ ended \in [Fact -> Nat]

Timely == Clocks /\ \A w \in Closer : ShowsDue(job[w])

\* Nothing leaves a permitting state without its end being noted, at a time that is
\* no earlier than any observation of it.
LEMMA Remembered ==
  ASSUME Clocks, NEW f \in Fact, NEW time \in Nat, time <= now, Was(f, time),
         (\E g : Turn(g)) \/ UNCHANGED <<fact, ended>>
  PROVE  Was(f, time)'
<1>1. CASE UNCHANGED <<fact, ended>>
  BY <1>1 DEF Was
<1>2. ASSUME NEW g, Turn(g) PROVE Was(f, time)'
  <2>1. ended' = [ended EXCEPT ![g] = IF fact[g] \in Permitting THEN now ELSE @]
    BY <1>2 DEF Turn
  <2>2. CASE f # g
    <3>1. PICK s : fact' = [fact EXCEPT ![g] = s]
      BY <1>2 DEF Turn
    <3>2. fact'[f] = fact[f] /\ ended'[f] = ended[f]
      BY <3>1, <2>2, <2>1 DEF Clocks
    <3> QED
      BY <3>2 DEF Was
  <2>3. CASE f = g
    <3>1. ended'[f] = IF fact[f] \in Permitting THEN now ELSE ended[f]
      BY <2>1, <2>3 DEF Clocks
    <3> QED
      BY <3>1 DEF Was, Clocks
  <2> QED
    BY <2>2, <2>3
<1> QED
  BY <1>1, <1>2

LEMMA Clockwork == Clocks /\ [Next]_vars => Clocks' /\ now <= now'
<1> SUFFICES ASSUME Clocks, [Next]_vars PROVE Clocks' /\ now <= now'
  OBVIOUS
<1>1. CASE Tick
  BY <1>1 DEF Tick, Clocks
<1>2. ASSUME NEW g, Turn(g) PROVE Clocks' /\ now <= now'
  <2>1. PICK s : fact' = [fact EXCEPT ![g] = s]
    BY <1>2 DEF Turn
  <2>2. fact' = [f \in Fact |-> fact'[f]]
    BY <2>1 DEF Clocks
  <2>3. ended' \in [Fact -> Nat] /\ now' = now
    BY <1>2 DEF Turn, Clocks
  <2> QED
    BY <2>2, <2>3 DEF Clocks
<1>3. CASE UNCHANGED <<now, fact, ended>>
  BY <1>3 DEF Clocks
<1> QED
  BY <1>3, <1>2, <1>1 DEF Next, OpenGate, Attribute, Witness, ReadAuthority, ReadProduction,
                          Decide, GiveUp, vars

LEMMA ShowsStep ==
  ASSUME Clocks, [Next]_vars, NEW f, NEW observed, NEW until, Shows(f, observed, until)
  PROVE  Shows(f, observed, until)'
<1>1. Clocks' /\ now <= now'
  BY Clockwork
<1>2. (\E g : Turn(g)) \/ UNCHANGED <<fact, ended>>
  BY DEF Next, Tick, OpenGate, Attribute, Witness, ReadAuthority, ReadProduction,
         Decide, GiveUp, vars
<1>3. Was(f, observed)'
  BY <1>2, Remembered DEF Shows
<1>4. observed <= now'
  BY <1>1 DEF Shows, Clocks
<1> QED
  BY <1>3, <1>4 DEF Shows

\* Evidence that has been gathered stays good.
LEMMA StillDue ==
  ASSUME Clocks, [Next]_vars, NEW j, ShowsDue(j)
  PROVE  ShowsDue(j)'
<1>1. \A f, observed, until : Shows(f, observed, until) => Shows(f, observed, until)'
  BY ShowsStep
<1> QED
  BY <1>1 DEF ShowsDue, ShowsActive, ShowsFinished, ShowsRetired, ShowsFailed, Trusted

LEMMA OthersDue ==
  ASSUME Jobs, Timely, [Next]_vars, NEW w \in Closer, NEW j, Move(w, j), ShowsDue(j)
  PROVE  Timely'
<1>1. \A v \in Closer : job'[v] = IF v = w THEN j ELSE job[v]
  BY DEF Move, Jobs
<1>2. ASSUME NEW v \in Closer PROVE ShowsDue(job[v])'
  <2>1. PICK i : i = job'[v]
    OBVIOUS
  <2>2. ShowsDue(i)
    BY <1>1, <2>1 DEF Timely
  <2>3. ShowsDue(i)'
    BY <2>2, StillDue DEF Timely
  <2> QED
    BY <2>1, <2>3 DEF ShowsDue, ShowsActive, ShowsFinished, ShowsRetired, ShowsFailed, Trusted
<1> QED
  BY <1>2, Clockwork DEF Timely

LEMMA ShowsNow ==
  ASSUME Clocks, NEW f \in Fact, fact[f] \in Permitting
  PROVE  Shows(f, now, now + Validity)
  BY DEF Clocks, Shows, Was

LEMMA ChainsDue ==
  ASSUME Clocks, Jobs, NEW d \in Deployment, NEW e \in ChainReads(d)
  PROVE  ShowsActive(e)
<1>1. plan.deployments \subseteq Deployment
  BY CloseAssumption DEF Jobs
<1>2. ASSUME NEW x \in Deployment, NEW r, r = ChainOf(x)
      PROVE  /\ r.subject = Key(x) /\ r.state = fact[x]
             /\ r.observed = now /\ r.until = now + Validity
             /\ r.finality = 1
             /\ Says(r, {"state", "finalized", "independent", "heightB", "agreement",
                         "deployments"})
  BY <1>2 DEF ChainOf, Says
<1>3. ASSUME NEW x \in Deployment, NEW r, r.subject = Key(x), r.state = fact[x],
             r.observed = now, r.until = now + Validity
      PROVE  ShowsActive(r)
  <2> SUFFICES ASSUME r.state = "active" PROVE Shows(x, now, now + Validity)
    BY <1>3 DEF ShowsActive, Trusted
  <2> QED
    BY <1>3, ShowsNow DEF Fact, Permitting
<1>4. CASE e = Absent
  BY <1>4 DEF ShowsActive, Trusted
<1>5. ASSUME NEW x \in plan.deployments, e = ChainOf(x) PROVE ShowsActive(e)
  BY <1>5, <1>3, <1>2, <1>1
<1>. PICK r : r = ChainOf(d)
  OBVIOUS
<1>. PICK wrong : wrong = [r EXCEPT !.state = "active"]
  OBVIOUS
<1>6. CASE e = [r EXCEPT !.leases = 0] \/ e = [r EXCEPT !.leaseDigest = {}]
  <2>1. /\ e.subject = r.subject /\ e.state = r.state
        /\ e.observed = r.observed /\ e.until = r.until
    <3>1. r = ChainOf(d)
      OBVIOUS
    <3> QED
      BY ONLY <1>6, <3>1 DEF ChainOf
  <2> QED
    BY <2>1, <1>3, <1>2
<1>7. CASE \/ e = [wrong EXCEPT !.finalized = FALSE]
           \/ e = [wrong EXCEPT !.independent = FALSE]
           \/ e = [wrong EXCEPT !.heightB = 2]
           \/ e = [wrong EXCEPT !.agreement = "disagreeing"]
           \/ e = [wrong EXCEPT !.deployments = {}]
  <2>1. /\ DOMAIN wrong = DOMAIN r /\ wrong.finality = 1
        /\ "finality" \in DOMAIN r
        /\ Says(r, {"finalized", "independent", "heightB", "agreement", "deployments"})
    BY <1>2 DEF ChainOf, Says
  <2>2. CASE e = [wrong EXCEPT !.heightB = 2]
    <3>1. e.finality = 1 /\ e.heightB = 2
      BY <2>1, <2>2 DEF Says
    <3> QED
      BY <3>1 DEF ShowsActive, Trusted
  <2>3. CASE \/ e = [wrong EXCEPT !.finalized = FALSE]
             \/ e = [wrong EXCEPT !.independent = FALSE]
    <3>1. ~e.finalized \/ ~e.independent
      BY <2>1, <2>3 DEF Says
    <3> QED
      BY <3>1 DEF ShowsActive, Trusted
  <2>4. CASE \/ e = [wrong EXCEPT !.agreement = "disagreeing"]
             \/ e = [wrong EXCEPT !.deployments = {}]
    <3>1. e.agreement = "disagreeing" \/ e.deployments = {}
      BY <2>1, <2>4 DEF Says
    <3> QED
      BY <3>1 DEF ShowsActive, Trusted
  <2> QED
    BY <2>4, <2>3, <2>2, <1>7
<1>8. \/ e = Absent \/ \E x \in plan.deployments : e = ChainOf(x)
      \/ e = [r EXCEPT !.leases = 0] \/ e = [r EXCEPT !.leaseDigest = {}]
      \/ e = [wrong EXCEPT !.finalized = FALSE]
      \/ e = [wrong EXCEPT !.independent = FALSE]
      \/ e = [wrong EXCEPT !.heightB = 2]
      \/ e = [wrong EXCEPT !.agreement = "disagreeing"]
      \/ e = [wrong EXCEPT !.deployments = {}]
  BY DEF ChainReads
<1> QED
  BY <1>8, <1>7, <1>6, <1>5, <1>4

LEMMA AuthoritiesDue ==
  ASSUME Clocks, Jobs, NEW d \in Deployment,
         NEW a \in {Absent} \cup CleanupReads(d) \cup StagingReads \cup RollbackReads(d)
  PROVE  ShowsFinished(a) /\ ShowsRetired(a) /\ ShowsFailed(a)
<1>1. CASE a = Absent
  BY <1>1 DEF Absent, ShowsFinished, ShowsRetired, ShowsFailed
<1>2. CASE a \in CleanupReads(d)
  <2>1. \E x, f : /\ f \in DOMAIN Attempt
                  /\ \/ a = CleanupOf(x, f)
                     \/ a = [CleanupOf(x, f) EXCEPT !.runState = "unknown"]
                     \/ a = [CleanupOf(x, f) EXCEPT !.consumers = "unknown"]
    BY <1>2 DEF CleanupReads, NamedAttempt
  <2>2. PICK x, f : /\ f \in DOMAIN Attempt
                    /\ \/ a = CleanupOf(x, f)
                       \/ a = [CleanupOf(x, f) EXCEPT !.runState = "unknown"]
                       \/ a = [CleanupOf(x, f) EXCEPT !.consumers = "unknown"]
    BY <2>1
  <2>3. PICK r : r = CleanupOf(x, f)
    OBVIOUS
  <2>4. /\ a.kind = "ci" /\ a.repository = Attempt[f].repository
        /\ a.run = Attempt[f].run /\ a.attempt = Attempt[f].attempt
        /\ a.observed = now /\ a.until = now + Validity
        /\ a.runState = "terminal" /\ a.consumers = "finished" => fact[f] = "finished"
    BY <2>2, <2>3 DEF CleanupOf
  <2>5. f \in Fact
    BY <2>2 DEF Fact
  <2>6. a.runState = "terminal" /\ a.consumers = "finished" =>
           Shows(f, a.observed, a.until)
    BY <2>4, <2>5, ShowsNow DEF Permitting
  <2> QED
    BY <2>6, <2>4, <2>2 DEF ShowsFinished, ShowsRetired, ShowsFailed
<1>3. CASE a \in StagingReads
  <2>1. PICK x, f : f \in DOMAIN Release /\ a = StagingOf(x, f) /\ fact[f] = "retired"
    BY <1>3 DEF StagingReads
  <2>2. /\ a.kind = "staging" /\ a.repository = Release[f].repository
        /\ a.release = Release[f].release /\ a.observed = now /\ a.until = now + Validity
    BY <2>1 DEF StagingOf
  <2>3. Shows(f, a.observed, a.until)
    BY <2>1, <2>2, ShowsNow DEF Fact, Permitting
  <2> QED
    BY <2>3, <2>2, <2>1 DEF ShowsFinished, ShowsRetired, ShowsFailed
<1>4. CASE a \in RollbackReads(d)
  <2>1. plan.deployments \subseteq Deployment
    BY CloseAssumption DEF Jobs
  <2>2. ASSUME NEW x \in Deployment, NEW y, NEW r, r = RollbackOf(x, y)
        PROVE  /\ Says(r, {"kind", "trigger", "binding"}) /\ r.kind = "rollback"
               /\ r.subject = Key(x) /\ (r.binding = "confirmed" => x = y)
               /\ r.trigger.handoff = "failed" => fact[Origin[y].op] = "failed"
               /\ r.trigger.observed = now /\ r.trigger.until = now + Validity
               /\ Says(r.trigger, {"handoff"})
    BY <2>2 DEF RollbackOf, Says
  <2>3. ASSUME NEW x \in Deployment, NEW y, a = RollbackOf(x, y)
        PROVE  ShowsFinished(a) /\ ShowsRetired(a) /\ ShowsFailed(a)
    <3>1. /\ a.kind = "rollback"
          /\ a.subject = Key(x) /\ (a.binding = "confirmed" => x = y)
          /\ a.trigger.handoff = "failed" => fact[Origin[y].op] = "failed"
          /\ a.trigger.observed = now /\ a.trigger.until = now + Validity
      BY <2>2, <2>3
    <3>2. Origin[x].op \in Fact
      BY CloseAssumption DEF Fact
    <3>3. a.binding = "confirmed" /\ a.trigger.handoff = "failed" =>
             Shows(Origin[x].op, a.trigger.observed, a.trigger.until)
      BY <3>1, <3>2, ShowsNow DEF Permitting
    <3> QED
      BY <3>1, <3>3 DEF ShowsFinished, ShowsRetired, ShowsFailed
  <2>4. CASE a = [RollbackOf(d, d) EXCEPT !.trigger = [@ EXCEPT !.handoff = "unknown"]]
    <3>1. PICK r : r = RollbackOf(d, d)
      OBVIOUS
    <3>2. PICK t : t = [r.trigger EXCEPT !.handoff = "unknown"]
      OBVIOUS
    <3>3. a = [r EXCEPT !.trigger = t]
      BY <3>2, <3>1, <2>4
    <3>4. t.handoff = "unknown"
      BY <3>2, <3>1, <2>2 DEF Says
    <3>5. a.kind = "rollback" /\ a.trigger = t
      BY <3>3, <3>1, <2>2 DEF Says
    <3> QED
      BY <3>4, <3>5 DEF ShowsFinished, ShowsRetired, ShowsFailed
  <2> QED
    BY <2>4, <2>3, <2>1, <1>4 DEF RollbackReads
<1> QED
  BY <1>4, <1>3, <1>2, <1>1

LEMMA TimelyStep == Inv /\ Timely /\ [Next]_vars => Timely'
<1> SUFFICES ASSUME Inv, Timely, [Next]_vars PROVE Timely'
  OBVIOUS
<1>1. CASE UNCHANGED job
  <2>1. ASSUME NEW v \in Closer PROVE ShowsDue(job[v])'
    <3>1. PICK j : j = job[v]
      OBVIOUS
    <3>2. ShowsDue(j)'
      BY <3>1, StillDue DEF Timely
    <3>3. job'[v] = j
      BY <1>1, <3>1
    <3> QED
      BY <3>2, <3>3 DEF ShowsDue, ShowsActive, ShowsFinished, ShowsRetired, ShowsFailed,
                        Trusted
  <2> QED
    BY <2>1, Clockwork DEF Timely
<1>2. ASSUME NEW w \in Closer, Attribute(w) PROVE Timely'
  <2>1. PICK task \in plan.tasks : \E p, c, faults :
           Move(w, [phase |-> "attributed", deployment |-> task[1],
                    subject |-> Key(task[1]), intent |-> task[2],
                    population |-> p, candidates |-> c, faults |-> faults])
    BY <1>2 DEF Attribute
  <2>2. PICK j : /\ Move(w, j) /\ j.phase = "attributed" /\ j.deployment = task[1]
                 /\ j.intent = task[2]
    BY <2>1
  <2>3. task[1] \in Deployment /\ task[2] \in CloseIntent
    BY CloseAssumption DEF Inv, Jobs
  <2>4. ShowsDue(j)
    BY <2>2, <2>3 DEF ShowsDue
  <2> QED
    BY <2>2, <2>4, OthersDue DEF Inv
<1>3. ASSUME NEW w \in Closer, Witness(w) PROVE Timely'
  <2>1. PICK e \in ChainReads(job[w].deployment) : \E p, faults :
           Move(w, [phase |-> "witnessed", deployment |-> job[w].deployment,
                    subject |-> job[w].subject, intent |-> job[w].intent,
                    population |-> job[w].population,
                    candidates |-> job[w].candidates,
                    chain |-> e, producer |-> p, faults |-> faults])
    BY <1>3 DEF Witness
  <2>2. PICK j : /\ Move(w, j) /\ j.phase = "witnessed" /\ j.chain = e
                 /\ j.deployment = job[w].deployment /\ j.intent = job[w].intent
    BY <2>1
  <2>3. job[w].deployment \in Deployment /\ job[w].intent \in CloseIntent
    BY <1>3 DEF Witness, Timely, ShowsDue, Started
  <2>4. ShowsDue(j)
    BY <2>2, <2>3, ChainsDue DEF Inv, Timely, ShowsDue
  <2> QED
    BY <2>2, <2>4, OthersDue DEF Inv
<1>4. ASSUME NEW w \in Closer, NEW a, NEW faults, job[w].phase = "witnessed",
             ShowsFinished(a) /\ ShowsRetired(a) /\ ShowsFailed(a),
             Move(w, Ready(job[w], a, faults))
      PROVE  Timely'
  <2>1. PICK j : /\ Move(w, j) /\ j.phase = "ready" /\ j.chain = job[w].chain
                 /\ j.deployment = job[w].deployment /\ j.intent = job[w].intent
                 /\ j.authority = a
    BY <1>4 DEF Ready
  <2>2. /\ job[w].deployment \in Deployment /\ job[w].intent \in CloseIntent
        /\ ShowsActive(job[w].chain)
    BY <1>4 DEF Timely, ShowsDue, Started
  <2>3. ShowsDue(j)
    BY <2>2, <2>1, <1>4 DEF ShowsDue
  <2> QED
    BY <2>1, <2>3, OthersDue DEF Inv
<1>5. ASSUME NEW w \in Closer, ReadAuthority(w) PROVE Timely'
  <2>1. job[w].phase = "witnessed" /\ job[w].deployment \in Deployment
    BY <1>5 DEF ReadAuthority, Timely, ShowsDue, Started
  <2>2. PICK a \in {Absent} \cup CleanupReads(job[w].deployment) \cup StagingReads
                       \cup RollbackReads(job[w].deployment) :
           \E faults : Move(w, Ready(job[w], a, faults))
    BY <1>5 DEF ReadAuthority
  <2>3. ShowsFinished(a) /\ ShowsRetired(a) /\ ShowsFailed(a)
    BY <2>1, AuthoritiesDue DEF Inv, Timely
  <2> QED
    BY <2>3, <2>2, <2>1, <1>4
<1>6. ASSUME NEW w \in Closer, ReadProduction(w) PROVE Timely'
  <2>1. job[w].phase = "witnessed"
    BY <1>6 DEF ReadProduction
  <2>2. \E g \in plan.grants : \E h : \E pass \in gate[g] : \E a \in ProductionReads(g, pass, h) :
           \E faults : Move(w, Ready(job[w], a, faults))
    BY <1>6 DEF ReadProduction
  <2>3. PICK g \in plan.grants : \E h : \E pass \in gate[g] :
           \E a \in ProductionReads(g, pass, h) : \E faults : Move(w, Ready(job[w], a, faults))
    BY <2>2
  <2>. PICK h : \E pass \in gate[g] : \E a \in ProductionReads(g, pass, h) :
           \E faults : Move(w, Ready(job[w], a, faults))
    BY <2>3
  <2>4. PICK pass \in gate[g] : \E a \in ProductionReads(g, pass, h) :
           \E faults : Move(w, Ready(job[w], a, faults))
    OBVIOUS
  <2>5. PICK a \in ProductionReads(g, pass, h) :
           \E faults : Move(w, Ready(job[w], a, faults))
    BY <2>4
  <2>6. a.kind = "production"
    BY CloseAssumption, Productions DEF Inv, Jobs
  <2>7. ShowsFinished(a) /\ ShowsRetired(a) /\ ShowsFailed(a)
    BY <2>6 DEF ShowsFinished, ShowsRetired, ShowsFailed
  <2> QED
    BY <2>7, <2>5, <2>1, <1>4
<1>7. ASSUME NEW w \in Closer, Decide(w) \/ GiveUp(w) PROVE Timely'
  <2>1. Move(w, Idle) /\ ShowsDue(Idle)
    BY <1>7 DEF Decide, GiveUp, ShowsDue, Idle, Started
  <2> QED
    BY <2>1, OthersDue DEF Inv
<1>8. plan.closers \subseteq Closer
  BY CloseAssumption DEF Inv, Jobs
<1> QED
  BY <1>8, <1>7, <1>6, <1>5, <1>3, <1>2, <1>1 DEF Next, Tick, Turn, OpenGate, vars

\* Evidence that is still good shows what was due a moment ago.
LEMMA WithinInterval ==
  ASSUME Clocks, NEW f, NEW observed, NEW until, Shows(f, observed, until),
         Window(observed, now, until)
  PROVE  RecentlyDue(f)
  BY CloseAssumption DEF Clocks, Shows, Was, Window, RecentlyDue

\* A rollback that is allowed for what a closer gathered, with the chain and the producer
\* or without, is the failed operation's own.
LEMMA RollbackNow ==
  ASSUME Inv, Timely, NEW w \in Closer, job[w].phase = "ready", NEW q, Allows(q),
         q.intent = "creator_rollback", q.subject = job[w].subject,
         q.population = job[w].population, q.candidates = job[w].candidates,
         q.authority = job[w].authority, q.at = now
  PROVE  LET created == Origin[job[w].deployment].op IN
         /\ q.candidates.op = created /\ q.authority.op = created
         /\ RecentlyDue(created)
<1>. DEFINE j == job[w]
            d == j.deployment
            a == q.authority
            identity == q.population.identities[1]
            digest == GroupDigest(q.population)
<1>1. /\ Attributed(j) /\ d \in Deployment
      /\ ShowsFailed(a)
  BY DEF Inv, Jobs, GoodJob, Timely, ShowsDue, Started
<1>2. /\ q.candidates.subject = q.subject
      /\ AuthorityReason(a, q.subject, now) = Passed
  BY Permits
<1>3. RollbackReason(a, q.subject, digest, identity, q.producer, q.candidates) = Passed
  <2>1. Authorize(q, identity, digest) = Passed
    BY Passes
  <2> QED
    BY <2>1, <1>2 DEF Authorize, Else, Passed
<1>4. /\ a.kind = "rollback" /\ a.subject = q.subject /\ a.op = q.candidates.op
      /\ RollbackAuthority(a, now) = Passed
  <2>1. a.kind = "rollback" /\ a.op = q.candidates.op
    BY <1>3 DEF RollbackReason, WrongType, Disagrees, Passed
  <2> QED
    BY <2>1, <1>2 DEF AuthorityReason, Passed, Invalid
<1>5. q.candidates.op = Origin[d].op
  <2>1. PICK x \in Deployment : j.candidates.subject = Key(x) /\ j.candidates.op = Origin[x].op
    BY <1>1 DEF Attributed
  <2>2. x = d
    BY <2>1, <1>2, <1>1, KeysDiffer DEF Attributed
  <2> QED
    BY <2>2, <2>1
<1>6. RecentlyDue(Origin[d].op)
  <2>1. /\ a.binding = "confirmed" /\ a.trigger.handoff = "failed"
        /\ Window(a.trigger.observed, now, a.trigger.until)
    BY <1>4 DEF RollbackAuthority, Passed, Invalid
  <2>2. PICK x \in Deployment :
           /\ a.subject = Key(x)
           /\ Shows(Origin[x].op, a.trigger.observed, a.trigger.until)
    BY <2>1, <1>4, <1>1 DEF ShowsFailed
  <2>3. x = d
    BY <2>2, <1>4, <1>1, KeysDiffer DEF Attributed
  <2> QED
    BY <2>3, <2>2, <2>1, WithinInterval DEF Timely
<1> QED
  BY <1>6, <1>5, <1>4

\* What the parts of an allowed query establish together.
LEMMA DueNow ==
  ASSUME Inv, Timely, NEW w \in Closer, job[w].phase = "ready", Allows(Query(w)),
         NEW f \in DueOf(job[w].deployment, job[w].intent)
  PROVE  RecentlyDue(f)
<1>. DEFINE j == job[w]
            d == j.deployment
            i == j.intent
            a == j.authority
            identity == j.population.identities[1]
            digest == GroupDigest(j.population)
<1>1. /\ Attributed(j) /\ d \in Deployment /\ i \in CloseIntent
      /\ ShowsActive(j.chain)
      /\ ShowsFinished(a) /\ ShowsRetired(a) /\ ShowsFailed(a)
  BY DEF Inv, Jobs, GoodJob, Timely, ShowsDue, Started
<1>. PICK q : q = Query(w)
  OBVIOUS
<1>2. /\ q.subject = j.subject /\ q.intent = i /\ q.population = j.population
      /\ q.candidates = j.candidates /\ q.chain = j.chain /\ q.producer = j.producer
      /\ q.authority = a /\ q.at = now
  BY DEF Query
<1>3. /\ j.population.complete /\ identity = Named[d]
      /\ identity.class \in Permitted(i)
      /\ j.chain = Absent => i = "creator_rollback"
      /\ j.chain # Absent =>
            ChainReason(j.chain, j.subject, digest, j.population.observed, now) = Passed
      /\ a # Absent /\ AuthorityReason(a, j.subject, now) = Passed
      /\ Authorize(q, identity, digest) = Passed
  <2>1. /\ q.population.complete
        /\ q.chain = Absent => q.intent = "creator_rollback"
        /\ q.chain # Absent =>
              ChainReason(q.chain, q.subject, GroupDigest(q.population),
                          q.population.observed, q.at) = Passed
        /\ Authorize(q, q.population.identities[1], GroupDigest(q.population)) = Passed
        /\ q.population.identities[1].class \in Permitted(q.intent)
    BY Passes
  <2>2. a # Absent /\ AuthorityReason(a, j.subject, now) = Passed
    BY <1>2, <2>1 DEF Authorize, Else, Passed
  <2> QED
    BY <2>2, <2>1, <1>2, <1>1 DEF Attributed
<1>4. i # "creator_rollback" => RecentlyDue(d)
  <2>1. SUFFICES ASSUME i # "creator_rollback" PROVE RecentlyDue(d)
    OBVIOUS
  <2>2. /\ j.chain # Absent
        /\ ChainReason(j.chain, j.subject, digest, j.population.observed, now) = Passed
    BY <1>3, <2>1
  <2>3. /\ Trusted(j.chain) /\ j.chain.subject = j.subject
        /\ Window(j.chain.observed, now, j.chain.until)
    BY <2>2 DEF ChainReason, Trusted, Passed
  <2>4. PICK x \in Deployment :
           j.chain.subject = Key(x) /\ Shows(x, j.chain.observed, j.chain.until)
    BY <1>1, <2>3 DEF ShowsActive
  <2>5. x = d
    BY <2>4, <2>3, <1>1, KeysDiffer DEF Attributed
  <2> QED
    BY <2>5, <2>4, <2>3, WithinInterval DEF Timely
<1>5. CASE i = "production_retirement"
  BY <1>4, <1>5 DEF DueOf
<1>6. CASE i = "creator_rollback"
  <2>1. f = Origin[d].op
    BY <1>6 DEF DueOf
  <2>2. Allows(q)
    OBVIOUS
  <2> HIDE DEF a, i
  <2>3. RecentlyDue(Origin[d].op)
    BY <2>2, <1>6, <1>2, RollbackNow DEF i, a
  <2> QED
    BY <2>3, <2>1
<1>7. ASSUME i # "creator_rollback" PROVE Origin[d].repository = identity.owner
  <2>1. Origin[d].repository = Named[d].owner
    BY <1>7, RetiredForProducer
  <2> QED
    BY <1>3, <2>1
<1>8. CASE i = "ci_cleanup"
  <2>1. f \in Origin[d].retires \cup {d}
    BY <1>8 DEF DueOf
  <2>2. CleanupReason(a, identity) = Passed
    BY <1>8, <1>3, <1>2 DEF Authorize, Else, Passed
  <2>3. /\ a.kind = "ci" /\ a.repository = identity.owner
        /\ a.run = identity.run /\ a.attempt = identity.attempt
        /\ a.runState = "terminal" /\ a.consumers = "finished"
    BY <2>2 DEF CleanupReason, WrongType, Disagrees, Invalid, Passed
  <2>4. Window(a.observed, now, a.until)
    BY <1>3, <2>3 DEF AuthorityReason, Gap, Invalid, Passed
  <2>5. PICK x \in DOMAIN Attempt :
           /\ a.repository = Attempt[x].repository
           /\ a.run = Attempt[x].run /\ a.attempt = Attempt[x].attempt
           /\ Shows(x, a.observed, a.until)
    BY <1>1, <2>3 DEF ShowsFinished
  <2>6. identity.class \in CiClass
    BY <1>3, <1>8 DEF Permitted
  <2>7. Origin[d].retires \subseteq {x}
    BY <2>6, <2>5, <2>3, <1>8, <1>7, <1>3, <1>1, NamingAssumption
  <2>8. RecentlyDue(x)
    BY <2>4, <2>5, WithinInterval DEF Timely
  <2> QED
    BY <2>8, <2>7, <2>1, <1>8, <1>4
<1>9. CASE i = "staging_retirement"
  <2>1. f \in Origin[d].retires \cup {d}
    BY <1>9 DEF DueOf
  <2>2. StagingReason(a, identity, j.producer, j.candidates) = Passed
    BY <1>9, <1>3, <1>2 DEF Authorize, Else, Passed
  <2>3. /\ a.kind = "staging" /\ a.repository = identity.owner
        /\ a.release = identity.release
    BY <2>2 DEF StagingReason, Disagrees, Invalid, Passed
  <2>4. Window(a.observed, now, a.until)
    BY <1>3, <2>3 DEF AuthorityReason, Gap, Invalid, Passed
  <2>5. PICK x \in DOMAIN Release :
           /\ a.repository = Release[x].repository /\ a.release = Release[x].release
           /\ Shows(x, a.observed, a.until)
    BY <1>1, <2>3 DEF ShowsRetired
  <2>6. identity.class = "staging-payload"
    BY <1>3, <1>9 DEF Permitted
  <2>7. Origin[d].retires \subseteq {x}
    BY <2>6, <2>5, <2>3, <1>9, <1>7, <1>3, <1>1, NamingAssumption
  <2>8. RecentlyDue(x)
    BY <2>4, <2>5, WithinInterval DEF Timely
  <2> QED
    BY <2>8, <2>7, <2>1, <1>9, <1>4
<1> QED
  BY <1>9, <1>8, <1>6, <1>5, <1>1 DEF CloseIntent

\* The fact that a gathered piece of evidence shows was so when it was observed, and
\* cannot have stopped being so before that, in every reachable state.
LEMMA TimelyInvariant == Spec => []Timely
<1>1. Init => Timely
  <2> SUFFICES ASSUME Init PROVE Timely
    OBVIOUS
  <2>1. Clocks
    BY DEF Init, Clocks
  <2>2. \A w \in Closer : ShowsDue(job[w])
    BY DEF Init, Idle, ShowsDue, Started
  <2> QED
    BY <2>1, <2>2 DEF Timely
<1> QED
  BY <1>1, TimelyStep, Invariance, PTL DEF Spec

\* close_policy.py:647 and close_policy.py:911: whatever is allowed was due at most
\* Validity ago, however late its evidence comes and whatever happens meanwhile.
THEOREM RetiredWhenDue == Spec => AllowedWhenDue
<1>. DEFINE Due == \A w \in Closer :
                      allowed' # allowed /\ Decide(w) =>
                          \A f \in DueOf(job[w].deployment, job[w].intent) : RecentlyDue(f)
<1>1. Inv /\ Timely => Due
  <2> SUFFICES ASSUME Inv, Timely, NEW w \in Closer, Decide(w), allowed' # allowed,
                      NEW f \in DueOf(job[w].deployment, job[w].intent)
               PROVE  RecentlyDue(f)
    OBVIOUS
  <2>1. job[w].phase = "ready" /\ Allows(Query(w))
    BY DEF Decide
  <2> QED
    BY <2>1, DueNow
<1>2. Spec => [][Due]_vars
  <2>. HIDE DEF Due
  <2> QED
    BY <1>1, Invariance, TimelyInvariant, PTL
<1> QED
  BY <1>2 DEF AllowedWhenDue

\* close_policy.py:3 leaves all evidence to adapters: whatever is left out of a query, it
\* is allowed for nothing but the rollback of the operation that created the deployment,
\* and only if the handoff of that one had failed at most Validity ago
\* (close_policy.py:1472 and close_policy.py:1680).
THEOREM OmissionsAreExcused == Spec => []OmissionExcused
<1>1. Inv /\ Timely /\ Readings => OmissionExcused
  <2> SUFFICES ASSUME Inv, Timely, Readings, NEW w \in Closer, job[w].phase = "ready",
                      NEW q \in Omissions(Query(w)), Allows(q)
               PROVE  LET created == Origin[job[w].deployment].op IN
                      /\ q.intent = "creator_rollback"
                      /\ q.candidates.op = created /\ q.authority.op = created
                      /\ RecentlyDue(created)
    BY DEF OmissionExcused
  <2>1. Query(w) = Record(job[w].subject, job[w].intent, job[w].population,
                          job[w].candidates, job[w].chain, job[w].producer,
                          job[w].authority, now)
    BY DEF Query, Record
  <2>2. ReadsNames(job[w]) /\ ReadsChain(job[w].chain) /\ ReadsAuthority(job[w].authority)
    BY DEF Readings, Read, Started
  <2>3. /\ q.intent = "creator_rollback" /\ q.subject = job[w].subject
        /\ q.population = job[w].population /\ q.candidates = job[w].candidates
        /\ q.authority = job[w].authority /\ q.at = now
    BY <2>1, <2>2, OnlyUnwitnessed DEF ReadsNames
  <2> QED
    BY <2>3, RollbackNow
<1> QED
  BY <1>1, TimelyInvariant, ReadingsInvariant, Invariance, PTL
====
