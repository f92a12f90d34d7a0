---- MODULE ClosePolicy ----
\* Whether a deployment may be retired: one decision over what a caller
\* claims and what its adapters read.  A query is a record
\*   subject, intent, population, candidates, chain, producer, authority,
\*   at
\* in which chain, producer and authority may be absent.  The stages are
\* those of evaluate_close, in its order, and each answers with a reason
\* code or Passed.
\*
\* A digest is the value it is a digest of.  Of the source, provenance and
\* digest strings that must not be empty, each kind of evidence keeps one
\* Boolean, sourced: all of them are there.
EXTENDS WorkloadIdentity

CloseIntent ==
    {"ci_cleanup", "staging_retirement", "creator_rollback", "production_retirement"}

HoldReasons ==
    {"classification.incomplete", "classification.held", "classification.count_mismatch",
     "classification.lifecycle_mixed", "candidate.incomplete_or_non_unique",
     "producer_authentication.missing", "producer_authentication.shared_invalid",
     "producer_authentication.isolated_invalid", "chain_evidence.missing",
     "chain_evidence.wrong_population", "chain_evidence.trust_paths_incomplete",
     "chain_evidence.digest_or_interval_incomplete", "chain_evidence.population_mismatch",
     "chain_evidence.lease_population_incomplete", "chain_evidence.sources_disagree",
     "lifecycle_authority.missing", "lifecycle_authority.evidence_incomplete",
     "lifecycle_authority.replayed"}

DenyReasons ==
    {"class_policy.forbids_intent", "lifecycle_authority.invalid",
     "lifecycle_authority.wrong_type", "lifecycle_authority.identity_disagreement"}

Disposition(reason) ==
    IF reason \in HoldReasons THEN "hold" ELSE IF reason \in DenyReasons THEN "deny" ELSE "allow"

Passed == "passed"

\* The reason of one check or, if it passed, of the next.
Else(reason, next) == IF reason # Passed THEN reason ELSE next

Absent == [kind |-> "none"]

\* Mutant: evidence never goes out of date.
WindowWithoutEnd(start, at, end) == 0 < start /\ start <= at

Window(start, at, end) == 0 < start /\ start <= at /\ at <= end

\* The allocation that the journal prepared, from what is known before creation.
PreparedKey(owner, identity, op, ordinal, digest) ==
    [owner |-> owner, life |-> Lifecycle(identity), op |-> op, ordinal |-> ordinal,
     groups |-> digest]

----
\* What deployment this is.
Classified(population) ==
    LET ids == population.identities IN
    IF ~population.complete THEN "classification.incomplete"
    ELSE IF population.held THEN "classification.held"
    ELSE IF ids = <<>> \/ population.parsed # population.observed
              \/ Len(ids) # population.observed
         THEN "classification.count_mismatch"
    ELSE IF \E n \in DOMAIN ids : Lifecycle(ids[n]) # Lifecycle(ids[1])
         THEN "classification.lifecycle_mixed"
    ELSE Passed

Permitted(intent) ==
    CASE intent = "ci_cleanup" -> CiClass
      [] intent = "staging_retirement" -> {"staging-payload"}
      [] intent = "production_retirement" -> {"prod-payload"}
      [] OTHER -> CiClass \cup PayloadClass

CandidatesUnique(c, subject, identity, digest) ==
    /\ c.complete /\ c.count = 1 /\ c.uniqueness = "unique" /\ c.sourced
    /\ c.ordinal > 0
    /\ c.subject = subject
    /\ c.groups = digest
    /\ IF identity.class \in PayloadClass THEN c.reference # {} ELSE c.reference = {}
    /\ c.key = PreparedKey(subject.owner, identity, c.op, c.ordinal, digest)

\* The digest of a lease population is the set of its leases.
LeasesAccounted(e) ==
    \/ e.leasePopulation = "complete" /\ e.leases > 0 /\ e.leaseDigest # {}
    \/ e.leasePopulation = "exact_never_leased" /\ e.leases = 0 /\ e.leaseDigest = {}

\* Two independent finalized reads of the very deployment, still active.
ChainReason(e, subject, digest, observed, at) ==
    IF e.subject # subject \/ e.groups # digest THEN "chain_evidence.wrong_population"
    ELSE IF ~e.independent \/ ~e.finalized \/ e.finality <= 0
              \/ e.heightA # e.finality \/ e.heightB # e.finality
         THEN "chain_evidence.trust_paths_incomplete"
    ELSE IF ~e.sourced \/ ~Window(e.observed, at, e.until)
         THEN "chain_evidence.digest_or_interval_incomplete"
    ELSE IF e.deployments # {subject} \/ e.state # "active"
              \/ e.groupCount # observed \/ e.groupPopulation # digest
         THEN "chain_evidence.population_mismatch"
    ELSE IF ~LeasesAccounted(e) THEN "chain_evidence.lease_population_incomplete"
    ELSE IF e.agreement # "agreeing" THEN "chain_evidence.sources_disagree"
    ELSE Passed

----
\* Who produced it.
Attests(claim, subject, digest, identity, op) ==
    /\ claim.subject = subject /\ claim.groups = digest
    /\ claim.repository = identity.owner /\ claim.class = identity.class
    /\ claim.run = identity.run /\ claim.attempt = identity.attempt
    /\ claim.release = identity.release
    /\ claim.op = op

SharedValid(e, subject, digest, identity, op, at) ==
    /\ Attests(e.claim, subject, digest, identity, op)
    /\ e.claim.sourced /\ e.claim.issued > 0
    /\ identity.class \in PayloadClass => e.claim.reference # {} /\ e.claim.environment # {}
    /\ e.verified = e.claim
    /\ e.sourced /\ e.signature = "verified"
    /\ e.opUniqueness = "unique" /\ e.tokenUniqueness = "unique"
    /\ e.claim.issued <= e.observed /\ Window(e.observed, at, e.until)

\* Mutant: whoever signs for the owner produced it.
IsolatedOfAny(e, subject, identity, op, at) ==
    /\ e.signer = subject.owner /\ e.class = identity.class
    /\ e.op = op
    /\ identity.class \in PayloadClass => e.environment # {}
    /\ e.sourced /\ Window(e.observed, at, e.until)

IsolatedValid(e, subject, identity, op, at) ==
    /\ e.signer = subject.owner /\ e.repository = identity.owner /\ e.class = identity.class
    /\ e.op = op
    /\ identity.class \in PayloadClass => e.environment # {}
    /\ e.sourced /\ Window(e.observed, at, e.until)

\* A rollback needs no producer, but an attestation that is shown must hold.
ProducerReason(e, intent, subject, digest, identity, op, at) ==
    IF e = Absent
    THEN IF intent = "creator_rollback" THEN Passed ELSE "producer_authentication.missing"
    ELSE IF e.kind = "shared"
    THEN IF SharedValid(e, subject, digest, identity, op, at) THEN Passed
         ELSE "producer_authentication.shared_invalid"
    ELSE IF intent = "creator_rollback" \/ IsolatedValid(e, subject, identity, op, at)
         THEN Passed
    ELSE "producer_authentication.isolated_invalid"

\* The authorization reference that an attestation claims must be the creation's.
ReferenceDisagrees(e, c) == e.kind = "shared" /\ e.claim.reference # c.reference

Environment(e) ==
    IF e.kind = "shared" THEN e.claim.environment
    ELSE IF e.kind = "isolated" THEN e.environment
    ELSE {}
----
\* Whether the authority shown is good evidence: a gap in it holds, a
\* contradiction denies.
Gap == "lifecycle_authority.evidence_incomplete"
Replayed == "lifecycle_authority.replayed"
Invalid == "lifecycle_authority.invalid"

\* Mutant: a handoff that is not known to have succeeded has failed.
RollbackUnlessSucceeded(a, at) ==
    LET trigger == a.trigger IN
    IF /\ a.sourced
       /\ a.binding = "confirmed"
       /\ a.bindingMode \in {"transaction_event", "exact_chain_readback"}
       /\ Window(a.prepared, at, a.until)
       /\ trigger.handoff # "succeeded" /\ trigger.sourced
       /\ a.prepared <= trigger.observed
       /\ Window(trigger.observed, at, trigger.until)
    THEN Passed ELSE Invalid

RollbackAuthority(a, at) ==
    LET trigger == a.trigger IN
    IF /\ a.sourced
       /\ a.binding = "confirmed"
       /\ a.bindingMode \in {"transaction_event", "exact_chain_readback"}
       /\ Window(a.prepared, at, a.until)
       /\ trigger.handoff = "failed" /\ trigger.sourced
       /\ a.prepared <= trigger.observed
       /\ Window(trigger.observed, at, trigger.until)
    THEN Passed ELSE Invalid

\* Approved by an authenticated human of the role, executed by a machine that
\* has neither that role nor an admin's.  The last check is the code's for every
\* mode, and leaves nothing to the one it repeats where self-review is disabled.
PrincipalsReason(a) ==
    IF \E p \in {a.requester, a.approver, a.executor} : p.authentication # "verified" THEN Gap
    ELSE IF a.approver.kind # "human" THEN Invalid
    ELSE IF a.approver.role = "unknown" THEN Gap
    ELSE IF \/ a.approver.role # "member"
            \/ a.executor.kind # "machine"
            \/ a.executor.name = a.approver.name
            \/ "member" \in {a.executor.admin, a.executor.role}
         THEN Invalid
    ELSE IF {a.executor.admin, a.executor.role} # {"non_member"} THEN Gap
    ELSE IF a.requester.kind = "machine" /\ a.requester.name = a.approver.name THEN Invalid
    ELSE Passed

\* Mutant: the uniqueness of another authorization will do.
UniquenessOfAny(a, at) ==
    IF a.uniqueness = "unknown" THEN Gap
    ELSE IF a.uniqueness = "reused" THEN Replayed
    ELSE IF a.issued <= 0 \/ a.issued > a.observed \/ ~Window(a.observed, at, a.until)
         THEN Invalid
    ELSE Passed

UniquenessReason(a, at) ==
    IF a.uniqueness = "unknown" THEN Gap
    ELSE IF a.uniqueness = "reused" THEN Replayed
    ELSE IF \/ a.uniqueOf # a.id
            \/ a.issued <= 0 \/ a.issued > a.observed
            \/ ~Window(a.observed, at, a.until)
         THEN Invalid
    ELSE Passed

\* Mutant: who used the bypass does not matter.
BypassByAny(a) ==
    LET bypass == a.bypass IN
    IF bypass = Absent \/ bypass.observation # "verified" \/ bypass.configured = "unknown"
    THEN Gap
    ELSE IF bypass.configured = "disabled"
    THEN IF bypass.use = "unused" THEN Passed ELSE Invalid
    ELSE IF bypass.policy # "verified" \/ bypass.use = "unknown" THEN Gap
    ELSE Passed

\* What the environment lets an admin do, and whether one did it.
BypassReason(a) ==
    LET bypass == a.bypass IN
    IF \/ bypass = Absent
       \/ a.selfReview \notin {"enabled", "disabled"}
       \/ ~bypass.sourced \/ bypass.observation # "verified"
       \/ bypass.configured = "unknown"
    THEN Gap
    ELSE IF bypass.configured = "disabled"
    THEN IF bypass.use = "unused" THEN Passed ELSE Invalid
    ELSE IF bypass.configured # "enabled" THEN Invalid
    ELSE IF bypass.policy # "verified" THEN Gap
    ELSE IF a.requester.kind = "machine" /\ a.requester.admin # "non_member"
    THEN IF a.requester.admin = "member" THEN Invalid ELSE Gap
    ELSE IF bypass.use = "used" /\ bypass.actor = {} THEN Gap
    ELSE IF bypass.use = "used" /\ bypass.actor # {a.approver.name} THEN Invalid
    ELSE IF bypass.use = "unused" /\ bypass.actor # {} THEN Invalid
    ELSE IF bypass.use = "unknown" THEN Gap
    ELSE Passed

ModeReason(a) ==
    IF a.mode = "github_environment"
    THEN Else(BypassReason(a),
              IF a.workflow = {} \/ a.verifiedWorkflow # a.workflow THEN Invalid ELSE Passed)
    ELSE IF \/ a.selfReview # "not_applicable" \/ a.bypass # Absent
            \/ a.workflow # {} \/ a.verifiedWorkflow # {}
         THEN Invalid
    ELSE Passed

Proof(status) ==
    IF status = "verified" THEN Passed ELSE IF status = "unknown" THEN Gap ELSE Invalid

ProductionAuthority(a, at) ==
    LET bound == [id |-> a.id, environment |-> a.environment, release |-> a.release,
                  subject |-> a.subject, action |-> a.action]
        wrongAction == a.action # "production_retirement" \/ a.verified # bound IN
    Else(IF ~a.sourced THEN Invalid ELSE PrincipalsReason(a),
    Else(IF wrongAction THEN Invalid ELSE Proof(a.approval),
    Else(Proof(a.singleUse),
    Else(IF a.singleUseOf # a.id THEN Invalid ELSE UniquenessReason(a, at),
         ModeReason(a)))))

AuthorityReason(a, subject, at) ==
    IF a.subject # subject THEN Invalid
    ELSE IF a.kind = "rollback" THEN RollbackAuthority(a, at)
    ELSE IF a.kind = "production" THEN ProductionAuthority(a, at)
    ELSE IF ~a.sourced \/ ~Window(a.observed, at, a.until) THEN Gap
    ELSE Passed
----
\* Whether this authority, about this workload, allows what is intended.
Disagrees == "lifecycle_authority.identity_disagreement"
WrongType == "lifecycle_authority.wrong_type"

CleanupReason(a, identity) ==
    IF a.kind # "ci" THEN WrongType
    ELSE IF \/ a.repository # identity.owner
            \/ a.run # identity.run \/ a.attempt # identity.attempt
         THEN Disagrees
    ELSE IF a.runState # "terminal" \/ a.consumers # "finished" THEN Invalid
    ELSE Passed

StagingReason(a, identity, producer, c) ==
    IF a.kind # "staging" THEN Disagrees
    ELSE IF a.repository # identity.owner \/ a.release # identity.release THEN Disagrees
    ELSE IF a.reference = {} THEN Invalid
    ELSE IF ReferenceDisagrees(producer, c) THEN Disagrees
    ELSE Passed

ProductionReason(a, identity, producer) ==
    IF a.kind # "production" THEN Disagrees
    ELSE IF \/ a.repository # identity.owner \/ a.release # identity.release
            \/ Environment(producer) # a.environment
         THEN Disagrees
    ELSE IF a.reference = {} THEN Invalid
    ELSE Passed

\* The capability of the very operation that created the deployment.
RollbackReason(a, subject, digest, identity, producer, c) ==
    IF a.kind # "rollback" THEN WrongType
    ELSE IF \/ a.signer # subject.owner
            \/ a.groups # digest
            \/ a.op # c.op
            \/ a.life # Lifecycle(identity)
         THEN Disagrees
    ELSE IF identity.class \in PayloadClass
    THEN IF a.reference = {} \/ c.reference = {} THEN Invalid
         ELSE IF a.reference # c.reference \/ ReferenceDisagrees(producer, c) THEN Disagrees
         ELSE Passed
    ELSE IF a.reference # {} \/ c.reference # {} THEN Invalid
    ELSE Passed

Authorize(q, identity, digest) ==
    IF q.authority = Absent THEN "lifecycle_authority.missing"
    ELSE Else(AuthorityReason(q.authority, q.subject, q.at),
         CASE q.intent = "ci_cleanup" -> CleanupReason(q.authority, identity)
           [] q.intent = "staging_retirement" ->
                  StagingReason(q.authority, identity, q.producer, q.candidates)
           [] q.intent = "production_retirement" ->
                  ProductionReason(q.authority, identity, q.producer)
           [] OTHER ->
                  RollbackReason(q.authority, q.subject, digest, identity, q.producer,
                                 q.candidates))

\* The stages up to the authority.
Preclose(q, identity, digest) ==
    IF identity.class \notin Permitted(q.intent) THEN "class_policy.forbids_intent"
    ELSE IF ~CandidatesUnique(q.candidates, q.subject, identity, digest)
    THEN "candidate.incomplete_or_non_unique"
    ELSE IF q.chain = Absent
    THEN IF q.intent = "creator_rollback" THEN Passed ELSE "chain_evidence.missing"
    ELSE ChainReason(q.chain, q.subject, digest, q.population.observed, q.at)

\* The stages after the population is known to be of one workload.
Workload(q) ==
    LET identity == q.population.identities[1]
        digest == GroupDigest(q.population) IN
    Else(Preclose(q, identity, digest),
    Else(ProducerReason(q.producer, q.intent, q.subject, digest, identity, q.candidates.op,
                        q.at),
    Else(Authorize(q, identity, digest), "authorization.succeeded")))

EvaluateClose(q) == Else(Classified(q.population), Workload(q))

Allows(q) == Disposition(EvaluateClose(q)) = "allow"
====
