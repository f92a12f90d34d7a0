---- MODULE CreateJournal ----
\* The create journal: a sequence of entries that is only ever extended,
\* and the validation that each extension, and each decoding of a stored
\* journal, runs over the whole history.
\*
\* An entry's revision is its position and its predecessor digest is the
\* sequence before it.  The journal state of an entry is determined by its
\* payload (_PAYLOAD_TYPES and _OUTCOME_STATES admit one state for each),
\* so a payload carries that state as its tag.
EXTENDS Naturals, Sequences

CONSTANTS
    Op,             \* operation IDs
    Key,            \* producer, lifecycle and ordinal of an operation
    Owner,          \* canonical owner accounts
    Backend,        \* backend identities
    SelfManaged,    \* the backends that sign their own transactions
    Request,        \* request digests
    Groups,         \* digests of complete group populations
    Hash,           \* transaction hashes
    Token,          \* server-issued submission tokens
    NoTx,           \* no transaction hash and no token
    Subject,        \* deployment keys
    OwnerOf         \* the owner a deployment key names

ASSUME JournalConstants ==
    /\ SelfManaged \subseteq Backend
    /\ OwnerOf \in [Subject -> Owner]
    /\ Hash \cap Token = {}
    /\ NoTx \notin Hash \cup Token

JournalState ==
    {"PREPARED", "SUBMITTED", "REJECTED_BEFORE_SEND", "FALLBACK_SAFE",
     "CREATE_OUTCOME_UNKNOWN", "CREATED", "HANDOFF_FAILED",
     "CREATOR_ROLLBACK_REQUESTED", "EXECUTION_CLOSED", "SETTLEMENT"}

----
\* Evidence.  The field at is the time the evidence was observed; a
\* transaction event has none.
PreparedCreate ==
    [state: {"PREPARED"}, op: Op, key: Key, owner: Owner, backend: Backend,
     request: Request, groups: Groups, at: Nat]

SubmissionTx(backend) == IF backend \in SelfManaged THEN Hash ELSE Token

SubmissionEvidence ==
    {p \in [state: {"SUBMITTED"}, op: Op, backend: Backend, request: Request,
            tx: Hash \cup Token, at: Nat] : p.tx \in SubmissionTx(p.backend)}

RejectionEvidence ==
    [state: {"REJECTED_BEFORE_SEND"}, op: Op, backend: Backend, at: Nat]

NonCommitEvidence ==
    {p \in [state: {"FALLBACK_SAFE"}, op: Op, backend: Backend, owner: Owner,
            groups: Groups, tx: Hash \cup Token \cup {NoTx}, at: Nat] :
        p.tx \in SubmissionTx(p.backend) \cup {NoTx}}

UncertaintyEvidence == [state: {"CREATE_OUTCOME_UNKNOWN"}, op: Op, at: Nat]

\* Bound by a transaction event (tx is its hash) or by an exact chain read.
BoundDeployment ==
    [state: {"CREATED"}, op: Op, subject: Subject, groups: Groups,
     tx: Hash \cup {NoTx}, at: Nat]

HandoffFailure == [state: {"HANDOFF_FAILED"}, op: Op, subject: Subject, at: Nat]

CreatorRollbackRequest ==
    [state: {"CREATOR_ROLLBACK_REQUESTED"}, op: Op, subject: Subject, at: Nat]

ExecutionClosure ==
    [state: {"EXECUTION_CLOSED"}, op: Op, subject: Subject, groups: Groups, at: Nat]

\* Levels: 0 is UNMEASURED, 1 is UNSETTLED, 2 is SETTLED.
SettlementEvidence ==
    [state: {"SETTLEMENT"}, op: Op, subject: Subject, level: 0 .. 2, at: Nat]

TransitionPayload ==
    PreparedCreate \cup SubmissionEvidence \cup RejectionEvidence
        \cup NonCommitEvidence \cup UncertaintyEvidence \cup BoundDeployment
        \cup HandoffFailure \cup CreatorRollbackRequest \cup ExecutionClosure
        \cup SettlementEvidence

JournalEntry == [payload: TransitionPayload, at: Nat]

----
\* What a journal says about an operation.
OperationEntries(j, o) == {i \in DOMAIN j : j[i].payload.op = o}

EntriesIn(j, o, state) == {i \in OperationEntries(j, o) : j[i].payload.state = state}

IsLatest(j, i) == \A k \in OperationEntries(j, j[i].payload.op) : k <= i

\* The deployment bound to o (the journal has one CREATED entry for it at most).
IsBound(j, o, subject) ==
    \E i \in EntriesIn(j, o, "CREATED") : j[i].payload.subject = subject

AllocationKey(p) == <<p.owner, p.key>>

\* Mutant: a deployment may be found after the fallback was declared safe.
NextStatesAfterFallback(state) ==
    CASE state = "PREPARED" ->
            {"SUBMITTED", "REJECTED_BEFORE_SEND", "CREATE_OUTCOME_UNKNOWN"}
      [] state = "SUBMITTED" -> {"CREATE_OUTCOME_UNKNOWN", "CREATED", "FALLBACK_SAFE"}
      [] state = "REJECTED_BEFORE_SEND" -> {"FALLBACK_SAFE"}
      [] state = "CREATE_OUTCOME_UNKNOWN" -> {"CREATED", "FALLBACK_SAFE"}
      [] state = "CREATED" -> {"HANDOFF_FAILED", "EXECUTION_CLOSED"}
      [] state = "HANDOFF_FAILED" -> {"CREATOR_ROLLBACK_REQUESTED"}
      [] state = "CREATOR_ROLLBACK_REQUESTED" -> {"EXECUTION_CLOSED"}
      [] state \in {"EXECUTION_CLOSED", "SETTLEMENT"} -> {"SETTLEMENT"}
      [] state = "FALLBACK_SAFE" -> {"CREATED"}

NextStates(state) ==
    CASE state = "PREPARED" ->
            {"SUBMITTED", "REJECTED_BEFORE_SEND", "CREATE_OUTCOME_UNKNOWN"}
      [] state = "SUBMITTED" -> {"CREATE_OUTCOME_UNKNOWN", "CREATED", "FALLBACK_SAFE"}
      [] state = "REJECTED_BEFORE_SEND" -> {"FALLBACK_SAFE"}
      [] state = "CREATE_OUTCOME_UNKNOWN" -> {"CREATED", "FALLBACK_SAFE"}
      [] state = "CREATED" -> {"HANDOFF_FAILED", "EXECUTION_CLOSED"}
      [] state = "HANDOFF_FAILED" -> {"CREATOR_ROLLBACK_REQUESTED"}
      [] state = "CREATOR_ROLLBACK_REQUESTED" -> {"EXECUTION_CLOSED"}
      [] state \in {"EXECUTION_CLOSED", "SETTLEMENT"} -> {"SETTLEMENT"}
      [] state = "FALLBACK_SAFE" -> {}

----
\* _validate_entry

\* The first entry of an operation, which no other operation's allocation equals.
Begins(j, p) ==
    /\ p.state = "PREPARED"
    /\ \A i \in DOMAIN j :
          j[i].payload.state = "PREPARED" =>
              AllocationKey(j[i].payload) # AllocationKey(p)

SubmissionAgrees(prepared, p) ==
    /\ p.backend = prepared.backend
    /\ p.request = prepared.request
    /\ prepared.at <= p.at

\* Mutant: the proof may be about another transaction than the one submitted.
NonCommitOfAny(j, prepared, p) ==
    p.backend = prepared.backend /\ p.owner = prepared.owner /\ p.groups = prepared.groups

NonCommitAgrees(j, prepared, p) ==
    /\ p.backend = prepared.backend
    /\ p.owner = prepared.owner
    /\ p.groups = prepared.groups
    /\ \A i \in EntriesIn(j, p.op, "SUBMITTED") : p.tx = j[i].payload.tx

\* Mutant: a deployment that is bound already may be bound again.
DeploymentShared(j, prepared, p) ==
    /\ OwnerOf[p.subject] = prepared.owner
    /\ p.groups = prepared.groups
    /\ p.tx # NoTx =>
          \E i \in EntriesIn(j, p.op, "SUBMITTED") : j[i].payload.tx = p.tx

DeploymentAgrees(j, prepared, p) ==
    /\ OwnerOf[p.subject] = prepared.owner
    /\ p.groups = prepared.groups
    /\ p.tx # NoTx =>
          \E i \in EntriesIn(j, p.op, "SUBMITTED") : j[i].payload.tx = p.tx
    /\ \A i \in DOMAIN j :
          j[i].payload.state = "CREATED" => j[i].payload.subject # p.subject

\* Mutant: any deployment's closure with the right groups will do.
ClosureOfAny(j, prepared, p) == p.groups = prepared.groups

ClosureAgrees(j, prepared, p) ==
    IsBound(j, p.op, p.subject) /\ p.groups = prepared.groups

SettlementAdvances(last, p) == last.state = "SETTLEMENT" => last.level < p.level

Agrees(j, prepared, last, p) ==
    CASE p.state = "SUBMITTED" -> SubmissionAgrees(prepared, p)
      [] p.state = "REJECTED_BEFORE_SEND" -> p.backend = prepared.backend
      [] p.state = "FALLBACK_SAFE" -> NonCommitAgrees(j, prepared, p)
      [] p.state = "CREATE_OUTCOME_UNKNOWN" -> TRUE
      [] p.state = "CREATED" -> DeploymentAgrees(j, prepared, p)
      [] p.state \in {"HANDOFF_FAILED", "CREATOR_ROLLBACK_REQUESTED"} ->
            IsBound(j, p.op, p.subject)
      [] p.state = "EXECUTION_CLOSED" ->
            ClosureAgrees(j, prepared, p)
      [] p.state = "SETTLEMENT" ->
            IsBound(j, p.op, p.subject) /\ SettlementAdvances(last, p)

Continues(j, p, at) ==
    \E first, last \in OperationEntries(j, p.op) :
        /\ j[first].payload.state = "PREPARED"
        /\ IsLatest(j, last)
        /\ p.state \in NextStates(j[last].payload.state)
        /\ j[first].payload.at <= at
        /\ Agrees(j, j[first].payload, j[last].payload, p)

ValidateEntry(j, p, at) ==
    /\ p.at <= at
    /\ \A i \in DOMAIN j : i = Len(j) => j[i].at <= at
    /\ IF OperationEntries(j, p.op) = {} THEN Begins(j, p) ELSE Continues(j, p, at)

\* What the constructor of CreateJournal demands of its entries: it runs after
\* every append and when a stored journal is decoded.
ValidJournal(j) ==
    \A n \in DOMAIN j : ValidateEntry(SubSeq(j, 1, n - 1), j[n].payload, j[n].at)

Extended(j, p, at) == Append(j, [payload |-> p, at |-> at])

====
