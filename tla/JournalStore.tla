---- MODULE JournalStore ----
\* One durable create journal and the adapters that write it.  A writer
\* loads and decodes the journal, appends an entry to its copy, and the
\* store replaces the journal if its revision is still the one the writer
\* loaded.  Writers lose their copies in crashes and conflicts, and the
\* evidence they present may be late, repeated or about something else.
EXTENDS CreateJournal

CONSTANTS
    Writer,     \* the adapters that append to the journal
    Evidence,   \* the payloads they may come to present
    Time,       \* the times at which entries may be recorded
    DecoderLimit,   \* the entries that fit the bytes and nodes a decoder takes
    MaxEntries  \* bound on the length of the journal

ASSUME StoreAssumption ==
    /\ Evidence \subseteq TransitionPayload
    /\ Time \subseteq Nat
    /\ {DecoderLimit, MaxEntries} \subseteq Nat

VARIABLES
    stored,     \* the durable journal
    copy        \* what each writer has in memory

vars == <<stored, copy>>

NoCopy == [loaded |-> FALSE]

Copy(journal, base) == [loaded |-> TRUE, journal |-> journal, base |-> base]

Init ==
    /\ stored = <<>>
    /\ copy = [w \in Writer |-> NoCopy]

\* decode_create_journal: the bytes are accepted if they are not too many, nor their
\* values, and the whole history is valid.  No append asks the first of these, so a
\* journal may outgrow its decoder.
Load(w) ==
    /\ Len(stored) <= DecoderLimit
    /\ ValidJournal(stored)
    /\ copy' = [copy EXCEPT ![w] = Copy(stored, Len(stored))]
    /\ UNCHANGED stored

\* CreateJournal.append: the new journal is validated as a whole.
AppendTransition(w, p, at) ==
    /\ copy[w].loaded
    /\ Len(copy[w].journal) = copy[w].base
    /\ copy[w].base < MaxEntries
    /\ ValidJournal(Extended(copy[w].journal, p, at))
    /\ copy' = [copy EXCEPT ![w] = Copy(Extended(copy[w].journal, p, at), copy[w].base)]
    /\ UNCHANGED stored

\* The store's atomic append.
Persist(w) ==
    /\ copy[w].loaded
    /\ copy[w].base < Len(copy[w].journal)
    /\ Len(stored) = copy[w].base
    /\ stored' = copy[w].journal
    /\ copy' = [copy EXCEPT ![w] = Copy(copy[w].journal, Len(copy[w].journal))]

\* A crash, or a conflict after which the writer starts over.
Forget(w) ==
    /\ copy[w].loaded
    /\ copy' = [copy EXCEPT ![w] = NoCopy]
    /\ UNCHANGED stored

Next ==
    \E w \in Writer :
        \/ Load(w)
        \/ \E p \in Evidence, at \in Time : AppendTransition(w, p, at)
        \/ Persist(w)
        \/ Forget(w)

Spec == Init /\ [][Next]_vars

----
\* Properties.
States(j, o) == {j[i].payload.state : i \in OperationEntries(j, o)}

\* The store and the writers' copies are journals.
TypeOK ==
    /\ stored \in Seq(JournalEntry)
    /\ copy \in [Writer -> {NoCopy} \cup [loaded: {TRUE}, journal: Seq(JournalEntry), base: Nat]]

\* A deployment is bound by one operation and an operation to one deployment,
\* although writers race to bind what they read on the chain.
BoundOneToOne(j) ==
    \A i, k \in DOMAIN j :
        (j[i].payload.state = "CREATED" /\ j[k].payload.state = "CREATED" /\ i # k) =>
        /\ j[i].payload.subject # j[k].payload.subject
        /\ j[i].payload.op # j[k].payload.op

BindingOneToOne == BoundOneToOne(stored)

\* An operation that was declared safe to fall back from, or rejected before it was
\* sent, has no deployment, now or later; one rejected before send was not sent.
FateDecided(j) ==
    \A o \in Op :
        /\ "FALLBACK_SAFE" \in States(j, o) => "CREATED" \notin States(j, o)
        /\ "REJECTED_BEFORE_SEND" \in States(j, o) =>
              States(j, o) \cap {"SUBMITTED", "CREATED"} = {}

FallbackExcludesDeployment == FateDecided(stored)

\* What decides the fate of a recorded submission is evidence about that very
\* transaction or token, also when the proof was obtained from an older copy.
FateOfOwnSubmission(j) ==
    \A i, k \in DOMAIN j :
        (j[i].payload.state = "SUBMITTED" /\ j[k].payload.op = j[i].payload.op) =>
        /\ j[k].payload.state = "FALLBACK_SAFE" => j[k].payload.tx = j[i].payload.tx
        /\ j[k].payload.state = "CREATED" => j[k].payload.tx \in {j[i].payload.tx, NoTx}

EvidenceOfOwnSubmission == FateOfOwnSubmission(stored)

\* Whatever is recorded after a deployment was bound is about that deployment, in
\* the order handoff failure, rollback, closure, settlement.
AboutBound(j) ==
    \A i \in DOMAIN j :
        LET p == j[i].payload
            before(states) == \E k \in OperationEntries(j, p.op) :
                                 k < i /\ j[k].payload.state \in states IN
        /\ p.state \in {"HANDOFF_FAILED", "CREATOR_ROLLBACK_REQUESTED",
                        "EXECUTION_CLOSED", "SETTLEMENT"} =>
              /\ IsBound(j, p.op, p.subject)
              /\ before({"CREATED"})
        /\ p.state = "CREATOR_ROLLBACK_REQUESTED" => before({"HANDOFF_FAILED"})
        /\ p.state = "SETTLEMENT" => before({"EXECUTION_CLOSED"})

LaterEvidenceAboutBound == AboutBound(stored)

\* An operation's settlement only advances, over any number of entries.
SettledInOrder(j) ==
    \A i, k \in DOMAIN j :
        (/\ j[i].payload.state = "SETTLEMENT" /\ j[k].payload.state = "SETTLEMENT"
         /\ j[i].payload.op = j[k].payload.op /\ i < k) =>
        j[i].payload.level < j[k].payload.level

SettlementMonotone == SettledInOrder(stored)

\* An operation is prepared once, and an owner's allocation (producer, lifecycle
\* and ordinal) belongs to one operation.
PreparedUnique(j) ==
    \A i, k \in DOMAIN j :
        (j[i].payload.state = "PREPARED" /\ j[k].payload.state = "PREPARED" /\ i # k) =>
        /\ j[i].payload.op # j[k].payload.op
        /\ AllocationKey(j[i].payload) # AllocationKey(j[k].payload)

AllocationUnique == PreparedUnique(stored)

GrowsOnly ==
    /\ Len(stored) <= Len(stored')
    /\ \A i \in DOMAIN stored : stored'[i] = stored[i]

\* No entry, once stored, is lost or rewritten by any writer.
HistoryGrows == [][GrowsOnly]_vars

----
\* Why they hold: an inductive strengthening.

\* The states that may follow a state, immediately or later.
After(state) ==
    CASE state = "PREPARED" -> JournalState \ {"PREPARED"}
      [] state = "SUBMITTED" ->
            JournalState \ {"PREPARED", "SUBMITTED", "REJECTED_BEFORE_SEND"}
      [] state = "REJECTED_BEFORE_SEND" -> {"FALLBACK_SAFE"}
      [] state = "CREATE_OUTCOME_UNKNOWN" ->
            JournalState \ {"PREPARED", "SUBMITTED", "REJECTED_BEFORE_SEND",
                            "CREATE_OUTCOME_UNKNOWN"}
      [] state = "CREATED" ->
            {"HANDOFF_FAILED", "CREATOR_ROLLBACK_REQUESTED", "EXECUTION_CLOSED", "SETTLEMENT"}
      [] state = "HANDOFF_FAILED" ->
            {"CREATOR_ROLLBACK_REQUESTED", "EXECUTION_CLOSED", "SETTLEMENT"}
      [] state = "CREATOR_ROLLBACK_REQUESTED" -> {"EXECUTION_CLOSED", "SETTLEMENT"}
      [] state \in {"EXECUTION_CLOSED", "SETTLEMENT"} -> {"SETTLEMENT"}
      [] state = "FALLBACK_SAFE" -> {}

Ordered(j) ==
    \A i, k \in DOMAIN j :
        (i < k /\ j[i].payload.op = j[k].payload.op) =>
            j[k].payload.state \in After(j[i].payload.state)

Sound(j) ==
    /\ j \in Seq(JournalEntry)
    /\ Ordered(j)
    /\ BoundOneToOne(j)
    /\ FateOfOwnSubmission(j)
    /\ AboutBound(j)
    /\ SettledInOrder(j)
    /\ PreparedUnique(j)

\* The store and all copies are sound and valid, and a copy agrees with the store
\* on the history it was loaded with.
Inv ==
    /\ TypeOK
    /\ Sound(stored)
    /\ ValidJournal(stored)
    /\ \A w \in Writer : copy[w].loaded =>
          /\ Sound(copy[w].journal)
          /\ ValidJournal(copy[w].journal)
          /\ copy[w].base <= Len(copy[w].journal)
          /\ copy[w].base <= Len(stored)
          /\ \A i \in 1 .. copy[w].base : copy[w].journal[i] = stored[i]

----
\* The registry of operations and deployments that the journal implements.

\* What the journal makes of an operation, whatever order its evidence came in.
FateOf(j, o) ==
    IF \E i \in EntriesIn(j, o, "SETTLEMENT") : j[i].payload.level = 2 THEN "settled"
    ELSE IF EntriesIn(j, o, "EXECUTION_CLOSED") # {} THEN "closed"
    ELSE IF EntriesIn(j, o, "CREATED") # {} THEN "bound"
    ELSE IF EntriesIn(j, o, "FALLBACK_SAFE") # {} THEN "void"
    ELSE IF EntriesIn(j, o, "PREPARED") # {} THEN "open"
    ELSE "absent"

Registry ==
    INSTANCE BindingRegistry
    WITH fate <- [o \in Op |-> FateOf(stored, o)],
         bound <- {pair \in Op \X Subject : IsBound(stored, pair[1], pair[2])}

\* Writers, copies and conflicts implement the atomic registry.
ImplementsRegistry == Registry!RegistrySpec

====
