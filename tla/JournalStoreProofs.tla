---- MODULE JournalStoreProofs ----
\* Proofs about JournalStore, for journals of any length, any operations
\* and any number of writers.
EXTENDS JournalStore, SequenceTheorems, TLAPS

USE JournalConstants, StoreAssumption

----
\* Extending a journal by one validated entry.

\* x is j with one more entry, whose payload is p.
Extends(x, j, p) ==
    /\ Len(j) \in Nat
    /\ DOMAIN j = 1 .. Len(j)
    /\ DOMAIN x = 1 .. Len(j) + 1
    /\ \A i \in DOMAIN j : x[i] = j[i]
    /\ x[Len(j) + 1].payload = p

\* An appended journal is the old one with one more entry, and the validation of
\* its whole history covers that entry.
LEMMA ExtendedFacts ==
    ASSUME NEW j \in Seq(JournalEntry), NEW p \in TransitionPayload, NEW at \in Nat
    PROVE  /\ Extended(j, p, at) \in Seq(JournalEntry)
           /\ Len(Extended(j, p, at)) = Len(j) + 1
           /\ Extends(Extended(j, p, at), j, p)
           /\ ValidJournal(Extended(j, p, at)) => ValidateEntry(j, p, at)
  <1> DEFINE e == [payload |-> p, at |-> at]
             x == Append(j, e)
             n == Len(j) + 1
  <1>1. e \in JournalEntry /\ e.payload = p /\ e.at = at
    BY DEF JournalEntry
  <1> HIDE DEF e
  <1>2. /\ x \in Seq(JournalEntry)
        /\ Len(x) = n
        /\ x[n] = e
        /\ \A i \in 1 .. Len(j) : x[i] = j[i]
        /\ DOMAIN x = 1 .. n
    BY <1>1
  <1>3. DOMAIN j = 1 .. Len(j) /\ Len(j) \in Nat /\ n - 1 = Len(j) /\ n \in 1 .. n
    OBVIOUS
  <1>4. SubSeq(x, 1, Len(j)) = j
    BY <1>3, <1>2, <1>1
  <1> HIDE DEF x, n
  <1>5. ASSUME ValidJournal(x) PROVE ValidateEntry(j, p, at)
    <2>1. \A k \in DOMAIN x : ValidateEntry(SubSeq(x, 1, k - 1), x[k].payload, x[k].at)
      BY <1>5 DEF ValidJournal
    <2>2. ValidateEntry(SubSeq(x, 1, n - 1), x[n].payload, x[n].at)
      BY <2>1, <1>3, <1>2
    <2> QED
      BY <2>2, <1>4, <1>3, <1>2, <1>1
  <1>6. Extends(x, j, p)
    BY <1>3, <1>2, <1>1 DEF Extends, n
  <1>7. x = Extended(j, p, at)
    BY DEF x, e, Extended
  <1> QED
    BY <1>7, <1>6, <1>5, <1>2 DEF n

\* The journal state of a payload, and the level of a settlement.
LEMMA PayloadFacts ==
    ASSUME NEW p \in TransitionPayload
    PROVE  /\ p.state \in JournalState
           /\ p.op \in Op
           /\ p.state = "SETTLEMENT" => p.level \in Nat
           /\ p.state = "CREATED" => p.tx \in Hash \cup {NoTx} /\ p.subject \in Subject
  BY DEF TransitionPayload, JournalState, PreparedCreate, SubmissionEvidence,
         RejectionEvidence, NonCommitEvidence, UncertaintyEvidence, BoundDeployment,
         HandoffFailure, CreatorRollbackRequest, ExecutionClosure, SettlementEvidence

\* The states after a state contain its successors and are closed under them.
LEMMA AfterClosed ==
    ASSUME NEW s \in JournalState
    PROVE  /\ NextStates(s) \subseteq After(s)
           /\ "PREPARED" \notin NextStates(s)
           /\ \A t \in After(s) : NextStates(t) \subseteq After(s)
  BY DEF JournalState, NextStates, After

----
\* Each part of soundness survives a validated append.  In what follows j
\* is the old journal, x the new one and n its last position.

\* The validated entry continues its operation's latest entry.
LEMMA ContinuesLatest ==
    ASSUME NEW j \in Seq(JournalEntry), Ordered(j), NEW p \in TransitionPayload,
           NEW at \in Nat, ValidateEntry(j, p, at),
           NEW i \in DOMAIN j, j[i].payload.op = p.op
    PROVE  \E first, last \in DOMAIN j :
              /\ j[first].payload.op = p.op /\ j[last].payload.op = p.op
              /\ j[first].payload.state = "PREPARED"
              /\ \A k \in DOMAIN j : j[k].payload.op = p.op => k <= last
              /\ p.state \in NextStates(j[last].payload.state)
              /\ Agrees(j, j[first].payload, j[last].payload, p)
  <1>1. i \in OperationEntries(j, p.op)
    BY DEF OperationEntries
  <1>2. Continues(j, p, at)
    BY <1>1 DEF ValidateEntry
  <1> QED
    BY <1>2 DEF Continues, IsLatest, OperationEntries

\* What follows an entry of its own operation is one of the states after it.
LEMMA ComesAfter ==
    ASSUME NEW j \in Seq(JournalEntry), Ordered(j), NEW p \in TransitionPayload,
           NEW at \in Nat, ValidateEntry(j, p, at),
           NEW i \in DOMAIN j, j[i].payload.op = p.op
    PROVE  p.state \in After(j[i].payload.state)
  <1>1. PICK last \in DOMAIN j :
            /\ j[last].payload.op = p.op
            /\ \A k \in DOMAIN j : j[k].payload.op = p.op => k <= last
            /\ p.state \in NextStates(j[last].payload.state)
    BY ContinuesLatest
  <1>2. j[i] \in JournalEntry /\ j[last] \in JournalEntry
    OBVIOUS
  <1>3. j[i].payload.state \in JournalState /\ j[last].payload.state \in JournalState
    BY <1>2, PayloadFacts DEF JournalEntry
  <1>4. i <= last /\ i \in Nat /\ last \in Nat
    BY <1>1
  <1>5. CASE i = last
    BY <1>5, <1>3, <1>1, AfterClosed
  <1>6. CASE i < last
    <2>1. j[last].payload.state \in After(j[i].payload.state)
      BY <1>1, <1>6 DEF Ordered
    <2> QED
      BY <2>1, <1>3, <1>1, AfterClosed
  <1> QED
    BY <1>6, <1>5, <1>4

\* Order is kept.
LEMMA OrderedStep ==
    ASSUME NEW j \in Seq(JournalEntry), Ordered(j), NEW p \in TransitionPayload,
           NEW at \in Nat, ValidateEntry(j, p, at), NEW x, Extends(x, j, p)
    PROVE  Ordered(x)
  <1> SUFFICES ASSUME NEW i \in DOMAIN x, NEW k \in DOMAIN x, i < k,
                      x[i].payload.op = x[k].payload.op
               PROVE  x[k].payload.state \in After(x[i].payload.state)
    BY DEF Ordered
  <1>1. CASE k = Len(j) + 1
    <2>1. i \in DOMAIN j /\ x[i] = j[i] /\ x[k].payload = p
      BY <1>1 DEF Extends
    <2> QED
      BY <2>1, ComesAfter
  <1>2. CASE k \in DOMAIN j
    BY <1>2 DEF Extends, Ordered
  <1> QED
    BY <1>1, <1>2 DEF Extends

\* Bindings stay one to one.
LEMMA BoundStep ==
    ASSUME NEW j \in Seq(JournalEntry), Ordered(j), BoundOneToOne(j),
           NEW p \in TransitionPayload, NEW at \in Nat, ValidateEntry(j, p, at),
           NEW x, Extends(x, j, p)
    PROVE  BoundOneToOne(x)
  <1>1. ASSUME NEW i \in DOMAIN j, p.state = "CREATED", j[i].payload.state = "CREATED"
        PROVE  j[i].payload.subject # p.subject /\ j[i].payload.op # p.op
    <2>1. j[i].payload.op # p.op
      <3> SUFFICES ASSUME j[i].payload.op = p.op PROVE FALSE
        OBVIOUS
      <3>1. p.state \in After(j[i].payload.state)
        BY ComesAfter
      <3> QED
        BY <1>1, <3>1 DEF After
    <2>2. j[i].payload.subject # p.subject
      <3>1. OperationEntries(j, p.op) # {} /\ Continues(j, p, at)
        BY <1>1 DEF ValidateEntry, Begins
      <3>2. PICK first, last \in DOMAIN j :
                Agrees(j, j[first].payload, j[last].payload, p)
        BY <3>1 DEF Continues, OperationEntries
      <3>3. DeploymentAgrees(j, j[first].payload, p)
        BY <1>1, <3>2 DEF Agrees
      <3> QED
        BY <1>1, <3>3 DEF DeploymentAgrees
    <2> QED
      BY <2>1, <2>2
  <1> SUFFICES ASSUME NEW i \in DOMAIN x, NEW k \in DOMAIN x, i # k,
                      x[i].payload.state = "CREATED", x[k].payload.state = "CREATED"
               PROVE  /\ x[i].payload.subject # x[k].payload.subject
                      /\ x[i].payload.op # x[k].payload.op
    BY DEF BoundOneToOne
  <1>2. CASE i \in DOMAIN j /\ k \in DOMAIN j
    BY <1>2 DEF Extends, BoundOneToOne
  <1>3. CASE i = Len(j) + 1 /\ k \in DOMAIN j
    BY <1>1, <1>3 DEF Extends
  <1>4. CASE k = Len(j) + 1 /\ i \in DOMAIN j
    BY <1>1, <1>4 DEF Extends
  <1> QED
    BY <1>4, <1>3, <1>2 DEF Extends

\* Fates stay those of the recorded submission.
LEMMA SubmissionStep ==
    ASSUME NEW j \in Seq(JournalEntry), Ordered(j), FateOfOwnSubmission(j),
           NEW p \in TransitionPayload, NEW at \in Nat, ValidateEntry(j, p, at),
           NEW x, Extends(x, j, p)
    PROVE  FateOfOwnSubmission(x)
  <1>1. ASSUME NEW i \in DOMAIN j, j[i].payload.op = p.op,
               j[i].payload.state = "SUBMITTED"
        PROVE  /\ p.state = "FALLBACK_SAFE" => p.tx = j[i].payload.tx
               /\ p.state = "CREATED" => p.tx \in {j[i].payload.tx, NoTx}
    <2>1. PICK first, last \in DOMAIN j :
              Agrees(j, j[first].payload, j[last].payload, p)
      BY <1>1, ContinuesLatest
    <2>2. i \in EntriesIn(j, p.op, "SUBMITTED")
      BY <1>1 DEF EntriesIn, OperationEntries
    <2>3. ASSUME p.state = "FALLBACK_SAFE" PROVE p.tx = j[i].payload.tx
      <3>1. NonCommitAgrees(j, j[first].payload, p)
        BY <2>1, <2>3 DEF Agrees
      <3> QED
        BY <2>2, <3>1 DEF NonCommitAgrees
    <2>4. ASSUME p.state = "CREATED", p.tx # NoTx PROVE p.tx = j[i].payload.tx
      <3>1. DeploymentAgrees(j, j[first].payload, p)
        BY <2>1, <2>4 DEF Agrees
      <3>2. PICK k \in EntriesIn(j, p.op, "SUBMITTED") : j[k].payload.tx = p.tx
        BY <2>4, <3>1 DEF DeploymentAgrees
      <3>3. k \in DOMAIN j /\ j[k].payload.op = p.op /\ j[k].payload.state = "SUBMITTED"
        BY DEF EntriesIn, OperationEntries
      <3>4. i \in Nat /\ k \in Nat /\ "SUBMITTED" \notin After("SUBMITTED")
        BY <3>3 DEF After
      <3>5. i = k
        BY <3>4, <3>3, <1>1 DEF Ordered
      <3> QED
        BY <3>2, <3>5
    <2> QED
      BY <2>3, <2>4
  <1>2. ASSUME NEW k \in DOMAIN j, j[k].payload.op = p.op, p.state = "SUBMITTED"
        PROVE  j[k].payload.state \notin {"FALLBACK_SAFE", "CREATED"}
    <2>1. p.state \in After(j[k].payload.state)
      BY <1>2, ComesAfter
    <2> QED
      BY <1>2, <2>1 DEF After
  <1> SUFFICES ASSUME NEW i \in DOMAIN x, NEW k \in DOMAIN x,
                      x[i].payload.state = "SUBMITTED", x[k].payload.op = x[i].payload.op
               PROVE  /\ x[k].payload.state = "FALLBACK_SAFE" =>
                            x[k].payload.tx = x[i].payload.tx
                      /\ x[k].payload.state = "CREATED" =>
                            x[k].payload.tx \in {x[i].payload.tx, NoTx}
    BY DEF FateOfOwnSubmission
  <1>3. CASE i \in DOMAIN j /\ k \in DOMAIN j
    BY <1>3 DEF Extends, FateOfOwnSubmission
  <1>4. CASE i \in DOMAIN j /\ k = Len(j) + 1
    BY <1>1, <1>4 DEF Extends
  <1>5. CASE i = Len(j) + 1 /\ k \in DOMAIN j
    BY <1>2, <1>5 DEF Extends
  <1>6. CASE i = Len(j) + 1 /\ k = Len(j) + 1
    BY <1>6
  <1> QED
    BY <1>6, <1>5, <1>4, <1>3 DEF Extends

LateStates ==
    {"HANDOFF_FAILED", "CREATOR_ROLLBACK_REQUESTED", "EXECUTION_CLOSED", "SETTLEMENT"}

\* The part of AboutBound that is about one entry.
AboutBoundAt(j, i) ==
    LET p == j[i].payload
        before(states) == \E k \in OperationEntries(j, p.op) :
                             k < i /\ j[k].payload.state \in states IN
    /\ p.state \in LateStates => IsBound(j, p.op, p.subject) /\ before({"CREATED"})
    /\ p.state = "CREATOR_ROLLBACK_REQUESTED" => before({"HANDOFF_FAILED"})
    /\ p.state = "SETTLEMENT" => before({"EXECUTION_CLOSED"})

\* AboutBound, entry by entry.
LEMMA AboutBoundSplit == ASSUME NEW j PROVE AboutBound(j) <=> \A i \in DOMAIN j : AboutBoundAt(j, i)
  BY DEF AboutBound, AboutBoundAt, LateStates

\* What was said of a deployment stays about the bound one.
LEMMA AboutStep ==
    ASSUME NEW j \in Seq(JournalEntry), Ordered(j), AboutBound(j),
           NEW p \in TransitionPayload, NEW at \in Nat, ValidateEntry(j, p, at),
           NEW x, Extends(x, j, p)
    PROVE  AboutBound(x)
  <1>0. /\ Len(j) \in Nat /\ DOMAIN j = 1 .. Len(j) /\ DOMAIN x = 1 .. Len(j) + 1
        /\ \A i \in DOMAIN j : x[i] = j[i]
        /\ x[Len(j) + 1].payload = p
    BY DEF Extends
  <1>1. ASSUME NEW o, NEW d, IsBound(j, o, d) PROVE IsBound(x, o, d)
    BY <1>0, <1>1 DEF IsBound, EntriesIn, OperationEntries
  <1>2. ASSUME NEW i \in DOMAIN j PROVE AboutBoundAt(x, i)
    <2>1. AboutBoundAt(j, i)
      BY AboutBoundSplit
    <2>2. x[i] = j[i] /\ OperationEntries(j, j[i].payload.op) \subseteq
                            OperationEntries(x, x[i].payload.op)
      BY <1>0 DEF OperationEntries
    <2>3. \A k \in OperationEntries(j, j[i].payload.op) : x[k] = j[k]
      BY <1>0 DEF OperationEntries
    <2> QED
      BY <2>3, <2>2, <2>1, <1>1 DEF AboutBoundAt
  <1>3. AboutBoundAt(x, Len(j) + 1)
    <2> DEFINE n == Len(j) + 1
               Before(states) == \E k \in OperationEntries(x, p.op) :
                                    k < n /\ x[k].payload.state \in states
    <2> SUFFICES ASSUME p.state \in LateStates
                 PROVE  /\ IsBound(x, p.op, p.subject)
                        /\ Before({"CREATED"})
                        /\ p.state = "CREATOR_ROLLBACK_REQUESTED" =>
                              Before({"HANDOFF_FAILED"})
                        /\ p.state = "SETTLEMENT" => Before({"EXECUTION_CLOSED"})
      BY <1>0 DEF AboutBoundAt, LateStates
    <2>1. OperationEntries(j, p.op) # {} /\ Continues(j, p, at)
      BY DEF ValidateEntry, Begins, LateStates
    <2>2. PICK first, last \in DOMAIN j :
              /\ j[last].payload.op = p.op
              /\ p.state \in NextStates(j[last].payload.state)
              /\ Agrees(j, j[first].payload, j[last].payload, p)
      BY <2>1 DEF Continues, OperationEntries
    <2>3. IsBound(x, p.op, p.subject)
      <3>1. IsBound(j, p.op, p.subject)
        BY <2>2 DEF Agrees, ClosureAgrees, LateStates
      <3> QED
        BY <1>1, <3>1
    <2>4. last \in OperationEntries(x, p.op) /\ last < n /\ x[last] = j[last] /\ last \in Nat
      BY <1>0, <2>2 DEF OperationEntries
    <2>5. ASSUME NEW state, j[last].payload.state = state PROVE Before({state})
      BY <2>4, <2>5
    <2>6. ASSUME NEW state, NEW k \in OperationEntries(j, p.op), k < last,
                 j[k].payload.state \in {state}
          PROVE  Before({state})
      <3>1. k \in OperationEntries(x, p.op) /\ x[k] = j[k] /\ k \in Nat
        BY <1>0 DEF OperationEntries
      <3> QED
        BY <3>1, <2>6, <2>4
    <2>7. AboutBoundAt(j, last)
      BY AboutBoundSplit
    <2>8. j[last].payload.state \in JournalState
      <3>1. j[last] \in JournalEntry
        OBVIOUS
      <3> QED
        BY <3>1, PayloadFacts DEF JournalEntry
    <2>9. j[last].payload.state \in {"CREATED"} \cup LateStates
      BY <2>2, <2>8 DEF NextStates, LateStates, JournalState
    <2> HIDE DEF Before
    <2>10. Before({"CREATED"})
      BY <2>9, <2>7, <2>6, <2>5, <2>2 DEF AboutBoundAt
    <2>11. ASSUME p.state = "CREATOR_ROLLBACK_REQUESTED" PROVE Before({"HANDOFF_FAILED"})
      BY <2>11, <2>8, <2>5, <2>2 DEF NextStates, JournalState
    <2>12. ASSUME p.state = "SETTLEMENT" PROVE Before({"EXECUTION_CLOSED"})
      <3>1. j[last].payload.state \in {"EXECUTION_CLOSED", "SETTLEMENT"}
        BY <2>12, <2>8, <2>2 DEF NextStates, JournalState
      <3> QED
        BY <3>1, <2>7, <2>6, <2>5, <2>2 DEF AboutBoundAt
    <2> QED
      BY <2>12, <2>11, <2>10, <2>3
  <1> QED
    BY <1>3, <1>2, <1>0, AboutBoundSplit

\* Settlement keeps advancing.
LEMMA SettledStep ==
    ASSUME NEW j \in Seq(JournalEntry), Ordered(j), SettledInOrder(j),
           NEW p \in TransitionPayload, NEW at \in Nat, ValidateEntry(j, p, at),
           NEW x, Extends(x, j, p)
    PROVE  SettledInOrder(x)
  <1>1. ASSUME NEW i \in DOMAIN j, j[i].payload.op = p.op, p.state = "SETTLEMENT",
               j[i].payload.state = "SETTLEMENT"
        PROVE  j[i].payload.level < p.level
    <2>1. PICK first, last \in DOMAIN j :
              /\ j[last].payload.op = p.op
              /\ \A k \in DOMAIN j : j[k].payload.op = p.op => k <= last
              /\ p.state \in NextStates(j[last].payload.state)
              /\ Agrees(j, j[first].payload, j[last].payload, p)
      BY <1>1, ContinuesLatest
    <2>2. j[i] \in JournalEntry /\ j[last] \in JournalEntry
      OBVIOUS
    <2>3. i <= last /\ i \in Nat /\ last \in Nat
      BY <1>1, <2>1
    <2>4. j[last].payload.state = "SETTLEMENT"
      <3>1. CASE i = last
        BY <1>1, <3>1
      <3>2. CASE i < last
        BY <3>2, <2>1, <1>1 DEF Ordered, After
      <3> QED
        BY <3>2, <3>1, <2>3
    <2>5. j[last].payload.level < p.level
      BY <2>4, <2>1, <1>1 DEF Agrees, SettlementAdvances
    <2>6. /\ j[i].payload.level \in Nat /\ j[last].payload.level \in Nat
          /\ p.level \in Nat
      BY <2>4, <2>2, <1>1, PayloadFacts DEF JournalEntry
    <2>7. i < last => j[i].payload.level < j[last].payload.level
      BY <2>4, <2>1, <1>1 DEF SettledInOrder
    <2> QED
      BY <2>7, <2>6, <2>5, <2>3
  <1> SUFFICES ASSUME NEW i \in DOMAIN x, NEW k \in DOMAIN x, i < k,
                      x[i].payload.state = "SETTLEMENT", x[k].payload.state = "SETTLEMENT",
                      x[i].payload.op = x[k].payload.op
               PROVE  x[i].payload.level < x[k].payload.level
    BY DEF SettledInOrder
  <1>2. CASE k \in DOMAIN j
    BY <1>2 DEF Extends, SettledInOrder
  <1>3. CASE k = Len(j) + 1
    <2>1. i \in DOMAIN j /\ x[i] = j[i] /\ x[k].payload = p
      BY <1>3 DEF Extends
    <2> QED
      BY <1>1, <2>1
  <1> QED
    BY <1>2, <1>3 DEF Extends

\* Preparations stay unique.
LEMMA PreparedStep ==
    ASSUME NEW j \in Seq(JournalEntry), Ordered(j), PreparedUnique(j),
           NEW p \in TransitionPayload, NEW at \in Nat, ValidateEntry(j, p, at),
           NEW x, Extends(x, j, p)
    PROVE  PreparedUnique(x)
  <1>1. ASSUME NEW i \in DOMAIN j, p.state = "PREPARED", j[i].payload.state = "PREPARED"
        PROVE  j[i].payload.op # p.op /\ AllocationKey(j[i].payload) # AllocationKey(p)
    <2>1. ASSUME NEW k \in DOMAIN j, j[k].payload.op = p.op PROVE FALSE
      <3>1. PICK last \in DOMAIN j : p.state \in NextStates(j[last].payload.state)
        BY <2>1, ContinuesLatest
      <3>2. j[last] \in JournalEntry
        OBVIOUS
      <3>3. j[last].payload.state \in JournalState
        BY <3>2, PayloadFacts DEF JournalEntry
      <3> QED
        BY <3>3, <3>1, <1>1, AfterClosed
    <2>2. Begins(j, p)
      BY <2>1 DEF ValidateEntry, OperationEntries
    <2> QED
      BY <2>2, <2>1, <1>1 DEF Begins
  <1> SUFFICES ASSUME NEW i \in DOMAIN x, NEW k \in DOMAIN x, i # k,
                      x[i].payload.state = "PREPARED", x[k].payload.state = "PREPARED"
               PROVE  /\ x[i].payload.op # x[k].payload.op
                      /\ AllocationKey(x[i].payload) # AllocationKey(x[k].payload)
    BY DEF PreparedUnique
  <1>2. CASE i \in DOMAIN j /\ k \in DOMAIN j
    BY <1>2 DEF Extends, PreparedUnique
  <1>3. CASE i = Len(j) + 1 /\ k \in DOMAIN j
    BY <1>1, <1>3 DEF Extends
  <1>4. CASE k = Len(j) + 1 /\ i \in DOMAIN j
    BY <1>1, <1>4 DEF Extends
  <1> QED
    BY <1>4, <1>3, <1>2 DEF Extends

\* Soundness survives CreateJournal.append.
LEMMA SoundStep ==
    ASSUME NEW j, Sound(j), NEW p \in TransitionPayload, NEW at \in Nat,
           ValidJournal(Extended(j, p, at))
    PROVE  Sound(Extended(j, p, at))
  <1>1. j \in Seq(JournalEntry) /\ Ordered(j)
    BY DEF Sound
  <1>2. /\ Extended(j, p, at) \in Seq(JournalEntry)
        /\ Extends(Extended(j, p, at), j, p)
        /\ ValidateEntry(j, p, at)
    BY <1>1, ExtendedFacts
  <1> QED
    BY <1>1, <1>2, OrderedStep, BoundStep, SubmissionStep, AboutStep, SettledStep,
       PreparedStep DEF Sound

----
\* The inductive invariant.

\* The part of Inv that is about one writer's copy c of the store st.
CopySound(c, st) ==
    c.loaded =>
        /\ Sound(c.journal)
        /\ ValidJournal(c.journal)
        /\ c.base <= Len(c.journal)
        /\ c.base <= Len(st)
        /\ \A i \in 1 .. c.base : c.journal[i] = st[i]

Held == [loaded: {TRUE}, journal: Seq(JournalEntry), base: Nat]

\* The empty journal satisfies the invariant.
LEMMA InitInv == Init => Inv
  <1> SUFFICES ASSUME Init PROVE Inv
    OBVIOUS
  <1>1. stored = <<>> /\ stored \in Seq(JournalEntry) /\ DOMAIN stored = {}
    BY DEF Init
  <1>2. TypeOK
    BY <1>1 DEF Init, TypeOK
  <1>3. Sound(stored)
    BY <1>1 DEF Sound, Ordered, BoundOneToOne, FateOfOwnSubmission, AboutBound,
                SettledInOrder, PreparedUnique
  <1>4. ValidJournal(stored)
    BY <1>1 DEF ValidJournal
  <1>5. \A w \in Writer : ~copy[w].loaded
    BY DEF Init, NoCopy
  <1> QED
    BY <1>5, <1>4, <1>3, <1>2 DEF Inv

\* Every step of a writer keeps the invariant.
LEMMA NextInv == Inv /\ [Next]_vars => Inv'
  <1> SUFFICES ASSUME Inv, [Next]_vars PROVE Inv'
    OBVIOUS
  <1>0. /\ stored \in Seq(JournalEntry)
        /\ copy \in [Writer -> {NoCopy} \cup Held]
        /\ Sound(stored) /\ ValidJournal(stored)
        /\ \A w \in Writer : CopySound(copy[w], stored)
        /\ Len(stored) \in Nat
    <2>1. stored \in Seq(JournalEntry) /\ copy \in [Writer -> {NoCopy} \cup Held]
      BY DEF Inv, TypeOK, Held
    <2>2. Sound(stored) /\ ValidJournal(stored)
      BY DEF Inv
    <2>3. \A w \in Writer : CopySound(copy[w], stored)
      BY DEF Inv, CopySound
    <2>4. Len(stored) \in Nat
      BY <2>1
    <2> QED
      BY <2>4, <2>3, <2>2, <2>1
  <1>1. ASSUME stored' \in Seq(JournalEntry),
               copy' \in [Writer -> {NoCopy} \cup Held],
               Sound(stored'), ValidJournal(stored'),
               \A w \in Writer : CopySound(copy'[w], stored')
        PROVE  Inv'
    BY <1>1 DEF Inv, TypeOK, CopySound, Held, Sound, Ordered, BoundOneToOne,
                FateOfOwnSubmission, AboutBound, SettledInOrder, PreparedUnique,
                ValidJournal
  <1>2. ASSUME NEW w \in Writer, Load(w) PROVE Inv'
    <2> DEFINE c == Copy(stored, Len(stored))
    <2>1. c \in Held
      BY <1>0 DEF Copy, Held
    <2>2. CopySound(c, stored)
      BY <1>0 DEF Copy, CopySound
    <2>3. stored' = stored /\ copy' = [copy EXCEPT ![w] = c]
      BY <1>2 DEF Load
    <2> HIDE DEF c
    <2> QED
      BY <2>3, <2>2, <2>1, <1>1, <1>0
  <1>3. ASSUME NEW w \in Writer, NEW p \in Evidence, NEW at \in Time,
               AppendTransition(w, p, at)
        PROVE  Inv'
    <2> DEFINE j == copy[w].journal
               x == Extended(j, p, at)
               c == Copy(x, copy[w].base)
    <2>1. copy[w] \in Held /\ CopySound(copy[w], stored) /\ copy[w].loaded
      BY <1>0, <1>3 DEF AppendTransition, NoCopy
    <2>2. j \in Seq(JournalEntry) /\ copy[w].base \in Nat
      BY <2>1 DEF Held
    <2>3. p \in TransitionPayload /\ at \in Nat /\ ValidJournal(x) /\ Len(j) = copy[w].base
      BY <1>3 DEF AppendTransition
    <2>4. Sound(x)
      BY <2>1, <2>3, SoundStep DEF CopySound
    <2>5. x \in Seq(JournalEntry) /\ Len(x) = Len(j) + 1 /\ Extends(x, j, p)
      BY <2>2, <2>3, ExtendedFacts
    <2>6. /\ stored' = stored
          /\ copy' = [copy EXCEPT ![w] = c]
      BY <1>3 DEF AppendTransition
    <2> HIDE DEF x, j
    <2>7. c \in Held
      BY <2>2, <2>5 DEF Copy, Held
    <2>8. \A i \in 1 .. copy[w].base : x[i] = stored[i]
      BY <2>5, <2>3, <2>1 DEF CopySound, Extends, j
    <2>9. CopySound(c, stored)
      BY <2>8, <2>5, <2>4, <2>3, <2>2, <2>1 DEF CopySound, Copy
    <2> HIDE DEF c
    <2> QED
      BY <2>9, <2>7, <2>6, <1>1, <1>0
  <1>4. ASSUME NEW w \in Writer, Persist(w) PROVE Inv'
    <2> DEFINE j == copy[w].journal
               c == Copy(j, Len(j))
    <2>1. copy[w] \in Held /\ CopySound(copy[w], stored) /\ copy[w].loaded
      BY <1>0, <1>4 DEF Persist, NoCopy
    <2>2. /\ j \in Seq(JournalEntry) /\ copy[w].base \in Nat /\ Len(j) \in Nat
          /\ Sound(j) /\ ValidJournal(j)
      <3>1. j \in Seq(JournalEntry) /\ copy[w].base \in Nat
        BY <2>1 DEF Held
      <3>2. Sound(j) /\ ValidJournal(j)
        BY <2>1 DEF CopySound
      <3> QED
        BY <3>1, <3>2
    <2>3. /\ stored' = j /\ copy' = [copy EXCEPT ![w] = c]
          /\ Len(stored) = copy[w].base /\ copy[w].base < Len(j)
          /\ \A i \in 1 .. Len(stored) : j[i] = stored[i]
      BY <1>4, <2>1 DEF Persist, CopySound
    <2> HIDE DEF j
    <2>4. c \in Held /\ CopySound(c, j)
      BY <2>2 DEF Copy, Held, CopySound
    <2>5. ASSUME NEW v \in Writer, v # w PROVE CopySound(copy[v], j)
      <3> SUFFICES ASSUME copy[v].loaded PROVE CopySound(copy[v], j)
        BY DEF CopySound
      <3>1. copy[v] \in Held
        BY <1>0 DEF NoCopy
      <3>2. copy[v].base \in Nat
        BY <3>1 DEF Held
      <3> QED
        BY <3>2, <2>3, <2>2, <1>0 DEF CopySound
    <2> HIDE DEF c
    <2>6. \A v \in Writer : CopySound(copy'[v], stored')
      BY <2>5, <2>4, <2>3, <1>0
    <2> QED
      BY <2>6, <2>4, <2>3, <2>2, <1>1, <1>0
  <1>5. ASSUME NEW w \in Writer, Forget(w) PROVE Inv'
    <2>1. stored' = stored /\ copy' = [copy EXCEPT ![w] = NoCopy]
      BY <1>5 DEF Forget
    <2>2. CopySound(NoCopy, stored)
      BY DEF NoCopy, CopySound
    <2> QED
      BY <2>2, <2>1, <1>1, <1>0
  <1>6. CASE UNCHANGED vars
    BY <1>6, <1>1, <1>0 DEF vars
  <1> QED
    BY <1>6, <1>5, <1>4, <1>3, <1>2 DEF Next

\* The inductive invariant holds of every behaviour of the store.
THEOREM Invariance == Spec => []Inv
  <1>1. Inv /\ [Next]_vars => Inv'
    BY NextInv
  <1> QED
    BY InitInv, <1>1, PTL DEF Spec

\* One operation per deployment and one deployment per operation.
THEOREM OneToOne == Spec => []BindingOneToOne
  <1>1. Inv => BindingOneToOne
    BY DEF Inv, Sound, BindingOneToOne
  <1> QED
    BY <1>1, Invariance, PTL

\* What may be retried elsewhere was not created, and never is.
THEOREM FallbackExclusive == Spec => []FallbackExcludesDeployment
  <1>1. Inv => FallbackExcludesDeployment
    <2> SUFFICES ASSUME Inv,
                        NEW i \in DOMAIN stored, NEW k \in DOMAIN stored,
                        stored[i].payload.op = stored[k].payload.op
                 PROVE  /\ stored[i].payload.state = "FALLBACK_SAFE" =>
                              stored[k].payload.state # "CREATED"
                        /\ stored[i].payload.state = "REJECTED_BEFORE_SEND" =>
                              stored[k].payload.state \notin {"SUBMITTED", "CREATED"}
      BY DEF FallbackExcludesDeployment, FateDecided, States, OperationEntries
    <2>1. stored \in Seq(JournalEntry) /\ Ordered(stored)
      BY DEF Inv, Sound
    <2>2. i \in Nat /\ k \in Nat
      BY <2>1
    <2>3. CASE i < k
      BY <2>1, <2>3 DEF Ordered, After
    <2>4. CASE k < i
      BY <2>1, <2>4 DEF Ordered, After
    <2> QED
      BY <2>4, <2>3, <2>2
  <1> QED
    BY <1>1, Invariance, PTL

\* A recorded submission is decided by evidence about itself.
THEOREM OwnSubmission == Spec => []EvidenceOfOwnSubmission
  <1>1. Inv => EvidenceOfOwnSubmission
    BY DEF Inv, Sound, EvidenceOfOwnSubmission
  <1> QED
    BY <1>1, Invariance, PTL

\* Handoff failure, rollback, closure and settlement are about the bound deployment.
THEOREM AboutTheBound == Spec => []LaterEvidenceAboutBound
  <1>1. Inv => LaterEvidenceAboutBound
    BY DEF Inv, Sound, LaterEvidenceAboutBound
  <1> QED
    BY <1>1, Invariance, PTL

\* Settlement never goes back.
THEOREM SettlementAdvancesOnly == Spec => []SettlementMonotone
  <1>1. Inv => SettlementMonotone
    BY DEF Inv, Sound, SettlementMonotone
  <1> QED
    BY <1>1, Invariance, PTL

\* Operation IDs and allocations are used once.
THEOREM UniqueAllocations == Spec => []AllocationUnique
  <1>1. Inv => AllocationUnique
    BY DEF Inv, Sound, AllocationUnique
  <1> QED
    BY <1>1, Invariance, PTL

\* The stored journal is append-only, although the store compares revisions only.
THEOREM AppendOnly == Spec => HistoryGrows
  <1>1. Inv /\ [Next]_vars => [GrowsOnly]_vars
    <2> SUFFICES ASSUME Inv, Next PROVE GrowsOnly
      OBVIOUS
    <2>1. stored \in Seq(JournalEntry)
      BY DEF Inv, TypeOK
    <2>2. Len(stored) \in Nat /\ DOMAIN stored = 1 .. Len(stored)
      BY <2>1
    <2>3. ASSUME NEW w \in Writer, Persist(w) PROVE GrowsOnly
      <3>1. /\ copy[w].loaded /\ Len(stored) = copy[w].base
            /\ stored' = copy[w].journal /\ copy[w].base < Len(copy[w].journal)
        BY <2>3 DEF Persist
      <3>2. \A i \in 1 .. copy[w].base : copy[w].journal[i] = stored[i]
        BY <3>1 DEF Inv
      <3>3. copy[w].journal \in Seq(JournalEntry)
        BY <3>1 DEF Inv, Sound
      <3>4. Len(copy[w].journal) \in Nat
        BY <3>3
      <3> QED
        BY <3>4, <3>2, <3>1, <2>2 DEF GrowsOnly
    <2>4. ASSUME stored' = stored PROVE GrowsOnly
      BY <2>2, <2>4 DEF GrowsOnly
    <2> QED
      BY <2>3, <2>4 DEF Next, Load, AppendTransition, Forget
  <1> QED
    BY <1>1, Invariance, PTL DEF Spec, HistoryGrows

----
\* JournalStore implements BindingRegistry: a persisted entry is one step
\* of the registry or none, and nothing else is visible to it.

\* An adapter holds at most one entry that is not stored.
OneAhead == \A w \in Writer : copy[w].loaded => Len(copy[w].journal) <= copy[w].base + 1

LEMMA OneAheadStep == Inv /\ OneAhead /\ [Next]_vars => OneAhead'
<1> SUFFICES ASSUME Inv, OneAhead, [Next]_vars PROVE OneAhead'
  OBVIOUS
<1>1. copy \in [Writer -> {NoCopy} \cup Held] /\ stored \in Seq(JournalEntry)
  BY DEF Inv, TypeOK, Held
<1>2. ASSUME NEW w \in Writer, NEW c,
             c.loaded => Len(c.journal) <= c.base + 1, copy' = [copy EXCEPT ![w] = c]
      PROVE  OneAhead'
  BY <1>1, <1>2 DEF OneAhead
<1>3. ASSUME NEW w \in Writer, Load(w) PROVE OneAhead'
  <2>1. /\ Copy(stored, Len(stored)).journal = stored
        /\ Copy(stored, Len(stored)).base = Len(stored)
        /\ copy' = [copy EXCEPT ![w] = Copy(stored, Len(stored))]
    BY <1>3 DEF Load, Copy
  <2>2. Len(stored) <= Len(stored) + 1
    BY <1>1
  <2> QED
    BY <2>2, <2>1, <1>1 DEF OneAhead
<1>4. ASSUME NEW w \in Writer, NEW p \in Evidence, NEW at \in Time, AppendTransition(w, p, at)
      PROVE  OneAhead'
  <2>. DEFINE j == copy[w].journal
              c == Copy(Extended(j, p, at), copy[w].base)
  <2>1. copy[w] \in Held /\ Len(j) = copy[w].base /\ copy' = [copy EXCEPT ![w] = c]
    BY <1>1, <1>4 DEF AppendTransition, NoCopy
  <2>2. j \in Seq(JournalEntry) /\ p \in TransitionPayload /\ at \in Nat
    BY <2>1, StoreAssumption DEF Held
  <2>3. Len(Extended(j, p, at)) = Len(j) + 1
    BY <2>2, ExtendedFacts
  <2>4. Len(c.journal) <= c.base + 1
    <3>1. c.journal = Extended(j, p, at) /\ c.base = Len(j) /\ Len(j) \in Nat
      BY <2>1, <2>2 DEF Copy
    <3> QED
      BY <2>3, <3>1
  <2>. HIDE DEF c, j
  <2> QED
    BY <2>4, <2>1, <1>1 DEF OneAhead
<1>5. ASSUME NEW w \in Writer, Persist(w) PROVE OneAhead'
  <2>. DEFINE j == copy[w].journal
              c == Copy(j, Len(j))
  <2>1. copy[w] \in Held /\ copy' = [copy EXCEPT ![w] = c]
    BY <1>1, <1>5 DEF Persist, NoCopy
  <2>2. Len(c.journal) <= c.base + 1
    <3>1. c.journal = j /\ c.base = Len(j) /\ Len(j) \in Nat
      BY <2>1 DEF Copy, Held
    <3> QED
      BY <3>1
  <2>. HIDE DEF c, j
  <2> QED
    BY <2>2, <2>1, <1>1 DEF OneAhead
<1>6. ASSUME NEW w \in Writer, Forget(w) PROVE OneAhead'
  BY <1>1, <1>6 DEF Forget, NoCopy, OneAhead
<1>7. CASE UNCHANGED vars
  BY <1>7 DEF vars, OneAhead
<1> QED
  BY <1>7, <1>6, <1>5, <1>4, <1>3 DEF Next

THEOREM AtMostOneAhead == Spec => [](Inv /\ OneAhead)
<1>1. Init => OneAhead
  BY DEF Init, NoCopy, OneAhead
<1> QED
  BY <1>1, InitInv, NextInv, OneAheadStep, PTL DEF Spec

----
\* What one more entry does to the registry's view of a journal.
Has(j, o, state) == EntriesIn(j, o, state) # {}

Settled(j, o) == \E i \in EntriesIn(j, o, "SETTLEMENT") : j[i].payload.level = 2

LEMMA HasMore ==
  ASSUME NEW j, NEW p, NEW x, Extends(x, j, p)
  PROVE  /\ \A o, state : Has(x, o, state) <=> Has(j, o, state) \/ (p.op = o /\ p.state = state)
         /\ \A o : Settled(x, o) <=> \/ Settled(j, o)
                                     \/ p.op = o /\ p.state = "SETTLEMENT" /\ p.level = 2
         /\ \A o, d : IsBound(x, o, d) <=> \/ IsBound(j, o, d)
                                           \/ /\ p.op = o /\ p.state = "CREATED"
                                              /\ p.subject = d
<1>1. \A i \in DOMAIN x : i \in DOMAIN j \/ i = Len(j) + 1
  BY DEF Extends
<1>2. DOMAIN j \subseteq DOMAIN x /\ Len(j) + 1 \in DOMAIN x
  BY DEF Extends
<1>3. (\A i \in DOMAIN j : x[i] = j[i]) /\ x[Len(j) + 1].payload = p
  BY DEF Extends
<1>. DEFINE n == Len(j) + 1
<1>. HIDE DEF n
<1>4. \A o, state : \A i : i \in EntriesIn(x, o, state) <=>
          \/ i \in EntriesIn(j, o, state)
          \/ i = n /\ p.op = o /\ p.state = state
  <2>1. Len(j) + 1 \notin DOMAIN j
    BY DEF Extends
  <2> QED
    BY <2>1, <1>3, <1>2, <1>1 DEF EntriesIn, OperationEntries, n
<1>5. \A o, state : \A i \in EntriesIn(j, o, state) : x[i] = j[i]
  BY <1>3 DEF EntriesIn, OperationEntries
<1>6. x[n].payload = p
  BY <1>3 DEF n
<1> QED
  BY <1>6, <1>5, <1>4 DEF Has, Settled, IsBound

LEMMA FateHas ==
  ASSUME NEW j, NEW o
  PROVE  FateOf(j, o) =
            IF Settled(j, o) THEN "settled"
            ELSE IF Has(j, o, "EXECUTION_CLOSED") THEN "closed"
            ELSE IF Has(j, o, "CREATED") THEN "bound"
            ELSE IF Has(j, o, "FALLBACK_SAFE") THEN "void"
            ELSE IF Has(j, o, "PREPARED") THEN "open"
            ELSE "absent"
  BY DEF FateOf, Has, Settled

\* The states of an operation's history and of its next entry go together.
LEMMA HistoryAllows ==
  ASSUME NEW j, Sound(j), NEW p \in TransitionPayload, NEW at \in Nat,
         ValidateEntry(j, p, at), NEW x, Extends(x, j, p), Sound(x)
  PROVE  /\ p.state = "PREPARED" => \A state : ~Has(j, p.op, state)
         /\ p.state # "PREPARED" => Has(j, p.op, "PREPARED")
         /\ \A state : Has(j, p.op, state) => p.state \in After(state)
         /\ p.state = "EXECUTION_CLOSED" => Has(j, p.op, "CREATED")
         /\ p.state = "SETTLEMENT" => Has(j, p.op, "EXECUTION_CLOSED") /\ ~Settled(j, p.op)
<1>1. j \in Seq(JournalEntry) /\ Ordered(j)
  BY DEF Sound
<1>2. \A state : Has(j, p.op, state) => p.state \in After(state)
  <2>1. ASSUME NEW state, Has(j, p.op, state) PROVE p.state \in After(state)
    <3>1. PICK i \in DOMAIN j : j[i].payload.op = p.op /\ j[i].payload.state = state
      BY <2>1 DEF Has, EntriesIn, OperationEntries
    <3>2. p.state \in After(j[i].payload.state)
      BY <1>1, <3>1, ComesAfter
    <3> QED
      BY <3>1, <3>2
  <2> QED
    BY <2>1
<1>3. p.state = "PREPARED" => \A state : ~Has(j, p.op, state)
  <2>1. ASSUME p.state = "PREPARED", NEW i \in DOMAIN j, j[i].payload.op = p.op PROVE FALSE
    <3>1. PICK last \in DOMAIN j : p.state \in NextStates(j[last].payload.state)
      BY <1>1, <2>1, ContinuesLatest
    <3>2. j[last] \in JournalEntry
      BY <1>1
    <3>3. j[last].payload.state \in JournalState
      BY <3>2, PayloadFacts DEF JournalEntry
    <3> QED
      BY <3>3, <3>1, <2>1, AfterClosed
  <2> QED
    BY <2>1 DEF Has, EntriesIn, OperationEntries
<1>4. p.state # "PREPARED" => Has(j, p.op, "PREPARED")
  BY DEF ValidateEntry, Begins, Continues, Has, EntriesIn, OperationEntries
<1>5. p.state = "EXECUTION_CLOSED" => Has(j, p.op, "CREATED")
  <2>1. ASSUME p.state = "EXECUTION_CLOSED" PROVE IsBound(j, p.op, p.subject)
    <3>1. Continues(j, p, at)
      BY <2>1 DEF ValidateEntry, Begins
    <3>2. PICK first, last \in DOMAIN j : Agrees(j, j[first].payload, j[last].payload, p)
      BY <3>1 DEF Continues, OperationEntries
    <3> QED
      BY <2>1, <3>2 DEF Agrees, ClosureAgrees
  <2> QED
    BY <2>1 DEF IsBound, Has
<1>. DEFINE n == Len(j) + 1
<1>6. /\ n \in DOMAIN x /\ x[n].payload = p /\ Len(j) \in Nat
      /\ \A i \in DOMAIN x : i < n => i \in DOMAIN j
      /\ \A i \in DOMAIN j : x[i] = j[i] /\ i \in DOMAIN x /\ i < n
  BY DEF Extends
<1>. HIDE DEF n
<1>7. p.state = "SETTLEMENT" => Has(j, p.op, "EXECUTION_CLOSED")
  <2>1. ASSUME p.state = "SETTLEMENT"
        PROVE  \E k \in DOMAIN x : /\ x[k].payload.op = p.op /\ k < n
                                   /\ x[k].payload.state = "EXECUTION_CLOSED"
    BY <1>6, <2>1 DEF Sound, AboutBound, OperationEntries
  <2> QED
    BY <1>6, <2>1 DEF Has, EntriesIn, OperationEntries
<1>8. p.state = "SETTLEMENT" => ~Settled(j, p.op)
  <2>1. ASSUME p.state = "SETTLEMENT", NEW i \in DOMAIN j, j[i].payload.op = p.op,
               j[i].payload.state = "SETTLEMENT", j[i].payload.level = 2
        PROVE  FALSE
    <3>1. 2 < p.level
      BY <1>6, <2>1 DEF Sound, SettledInOrder
    <3>2. p.level \in 0 .. 2
      BY <2>1 DEF TransitionPayload, PreparedCreate, SubmissionEvidence,
                  RejectionEvidence, NonCommitEvidence, UncertaintyEvidence,
                  BoundDeployment, HandoffFailure, CreatorRollbackRequest,
                  ExecutionClosure, SettlementEvidence
    <3> QED
      BY <3>1, <3>2
  <2> QED
    BY <2>1 DEF Settled, EntriesIn, OperationEntries
<1> QED
  BY <1>8, <1>7, <1>5, <1>4, <1>3, <1>2

----
\* The registry's steps.
Fates(j) == [o \in Op |-> FateOf(j, o)]

Bindings(j) == {pair \in Op \X Subject : IsBound(j, pair[1], pair[2])}

\* How one operation fares when its entry is stored.
FateMoves(j, x, o, from, to) ==
    /\ FateOf(j, o) = from
    /\ Fates(x) = [Fates(j) EXCEPT ![o] = to]

LEMMA EntryMoves ==
  ASSUME NEW j, Sound(j), NEW p \in TransitionPayload, NEW at \in Nat,
         ValidateEntry(j, p, at), NEW x, Extends(x, j, p), Sound(x)
  PROVE  \/ Fates(x) = Fates(j) /\ p.state # "CREATED"
         \/ FateMoves(j, x, p.op, "absent", "open") /\ p.state # "CREATED"
         \/ FateMoves(j, x, p.op, "open", "void") /\ p.state # "CREATED"
         \/ FateMoves(j, x, p.op, "open", "bound") /\ p.state = "CREATED"
         \/ FateMoves(j, x, p.op, "bound", "closed") /\ p.state # "CREATED"
         \/ FateMoves(j, x, p.op, "closed", "settled") /\ p.state # "CREATED"
<1>. DEFINE o == p.op
<1>1. o \in Op /\ p.state \in JournalState
  BY PayloadFacts
<1>2. \A q \in Op : q # o => FateOf(x, q) = FateOf(j, q)
  BY HasMore, FateHas
<1>3. ASSUME FateOf(x, o) = FateOf(j, o) PROVE Fates(x) = Fates(j)
  BY <1>2, <1>3 DEF Fates
<1>4. ASSUME NEW from, NEW to, FateOf(j, o) = from, FateOf(x, o) = to
      PROVE  FateMoves(j, x, o, from, to)
  BY <1>4, <1>2, <1>1 DEF Fates, FateMoves
<1>5. /\ \A state : Has(x, o, state) <=> Has(j, o, state) \/ p.state = state
      /\ Settled(x, o) <=> Settled(j, o) \/ (p.state = "SETTLEMENT" /\ p.level = 2)
  BY HasMore
<1>6. /\ p.state = "PREPARED" => \A state : ~Has(j, o, state)
      /\ p.state # "PREPARED" => Has(j, o, "PREPARED")
      /\ \A state : Has(j, o, state) => p.state \in After(state)
      /\ p.state = "EXECUTION_CLOSED" => Has(j, o, "CREATED")
      /\ p.state = "SETTLEMENT" => Has(j, o, "EXECUTION_CLOSED") /\ ~Settled(j, o)
  BY HistoryAllows
<1>7. Settled(j, o) => Has(j, o, "SETTLEMENT")
  BY DEF Settled, Has
<1>. HIDE DEF o
<1>8. CASE p.state = "PREPARED"
  <2>1. FateOf(j, o) = "absent" /\ FateOf(x, o) = "open"
    BY <1>8, <1>7, <1>6, <1>5, FateHas
  <2> QED
    BY <2>1, <1>8, <1>4 DEF o
<1>9. CASE p.state = "FALLBACK_SAFE"
  <2>1. /\ ~Has(j, o, "CREATED") /\ ~Has(j, o, "FALLBACK_SAFE")
        /\ ~Has(j, o, "EXECUTION_CLOSED") /\ ~Has(j, o, "SETTLEMENT")
    BY <1>6, <1>9 DEF After
  <2>2. FateOf(j, o) = "open" /\ FateOf(x, o) = "void"
    BY <2>1, <1>9, <1>7, <1>6, <1>5, FateHas
  <2> QED
    BY <2>2, <1>9, <1>4 DEF o
<1>10. CASE p.state = "CREATED"
  <2>1. /\ ~Has(j, o, "CREATED") /\ ~Has(j, o, "FALLBACK_SAFE")
        /\ ~Has(j, o, "EXECUTION_CLOSED") /\ ~Has(j, o, "SETTLEMENT")
    BY <1>6, <1>10 DEF After
  <2>2. FateOf(j, o) = "open" /\ FateOf(x, o) = "bound"
    BY <2>1, <1>10, <1>7, <1>6, <1>5, FateHas
  <2> QED
    BY <2>2, <1>10, <1>4 DEF o
<1>11. CASE p.state = "EXECUTION_CLOSED"
  <2>1. ~Has(j, o, "EXECUTION_CLOSED") /\ ~Has(j, o, "SETTLEMENT")
    BY <1>6, <1>11 DEF After
  <2>2. FateOf(j, o) = "bound" /\ FateOf(x, o) = "closed"
    BY <2>1, <1>11, <1>7, <1>6, <1>5, FateHas
  <2> QED
    BY <2>2, <1>11, <1>4 DEF o
<1>12. CASE p.state = "SETTLEMENT"
  <2>1. FateOf(j, o) = "closed" /\ FateOf(x, o) \in {"closed", "settled"}
    BY <1>12, <1>6, <1>5, FateHas
  <2>2. CASE FateOf(x, o) = "closed"
    BY <2>2, <2>1, <1>12, <1>3
  <2>3. CASE FateOf(x, o) = "settled"
    BY <2>3, <2>1, <1>12, <1>4 DEF o
  <2> QED
    BY <2>3, <2>2, <2>1
<1>13. CASE p.state \notin {"PREPARED", "FALLBACK_SAFE", "CREATED", "EXECUTION_CLOSED",
                            "SETTLEMENT"}
  <2>1. FateOf(x, o) = FateOf(j, o)
    BY <1>5, <1>13, FateHas
  <2> QED
    BY <2>1, <1>13, <1>3
<1> QED
  BY <1>13, <1>12, <1>11, <1>10, <1>9, <1>8

\* Only a CREATED entry binds, and what it binds was free.
LEMMA EntryBinds ==
  ASSUME NEW j, NEW p \in TransitionPayload, NEW x, Extends(x, j, p), Sound(x)
  PROVE  /\ p.state # "CREATED" => Bindings(x) = Bindings(j)
         /\ p.state = "CREATED" =>
               /\ p.subject \in Subject
               /\ Bindings(x) = Bindings(j) \cup {<<p.op, p.subject>>}
               /\ \A pair \in Bindings(j) : pair[1] # p.op /\ pair[2] # p.subject
<1>1. \A o, d : IsBound(x, o, d) <=> \/ IsBound(j, o, d)
                                     \/ p.op = o /\ p.state = "CREATED" /\ p.subject = d
  BY HasMore
<1>2. p.op \in Op /\ (p.state = "CREATED" => p.subject \in Subject)
  BY PayloadFacts
<1>3. CASE p.state # "CREATED"
  BY <1>1, <1>3 DEF Bindings
<1>4. CASE p.state = "CREATED"
  <2>1. Bindings(x) = Bindings(j) \cup {<<p.op, p.subject>>}
    <3>1. ASSUME NEW o \in Op, NEW d \in Subject
          PROVE  <<o, d>> \in Bindings(x) <=>
                     <<o, d>> \in Bindings(j) \/ <<o, d>> = <<p.op, p.subject>>
      BY <3>1, <1>4, <1>1 DEF Bindings
    <3>2. /\ Bindings(x) \subseteq Op \X Subject /\ Bindings(j) \subseteq Op \X Subject
          /\ <<p.op, p.subject>> \in Op \X Subject
      BY <1>2, <1>4 DEF Bindings
    <3> QED
      BY <3>1, <3>2
  <2>2. ASSUME NEW pair \in Bindings(j) PROVE pair[1] # p.op /\ pair[2] # p.subject
    <3>1. PICK i \in DOMAIN j : /\ j[i].payload.op = pair[1]
                                /\ j[i].payload.state = "CREATED"
                                /\ j[i].payload.subject = pair[2]
      BY DEF Bindings, IsBound, EntriesIn, OperationEntries
    <3>2. /\ i \in DOMAIN x /\ x[i] = j[i] /\ i # Len(j) + 1
          /\ Len(j) + 1 \in DOMAIN x /\ x[Len(j) + 1].payload = p
      BY DEF Extends
    <3> QED
      BY <3>2, <3>1, <1>4 DEF Sound, BoundOneToOne
  <2> QED
    BY <2>2, <2>1, <1>4, <1>2
<1> QED
  BY <1>3, <1>4

\* What is persisted is the stored journal and one valid entry more.
LEMMA PersistsEntry ==
  ASSUME Inv, OneAhead, NEW w \in Writer, Persist(w)
  PROVE  \E p \in TransitionPayload, at \in Nat :
            ValidateEntry(stored, p, at) /\ Extends(stored', stored, p) /\ Sound(stored')
<1>. DEFINE x == copy[w].journal
            n == Len(stored) + 1
<1>1. /\ copy[w].loaded /\ Len(stored) = copy[w].base
      /\ copy[w].base < Len(x) /\ stored' = x
      /\ Len(x) <= copy[w].base + 1
  BY DEF Persist, OneAhead
<1>2. /\ Sound(x) /\ ValidJournal(x)
      /\ \A i \in 1 .. copy[w].base : x[i] = stored[i]
  BY <1>1 DEF Inv
<1>3. stored \in Seq(JournalEntry) /\ x \in Seq(JournalEntry)
  BY <1>2 DEF Inv, TypeOK, Sound
<1>4. Len(stored) \in Nat /\ Len(x) \in Nat /\ DOMAIN x = 1 .. Len(x)
      /\ DOMAIN stored = 1 .. Len(stored)
  BY <1>3
<1>. HIDE DEF x
<1>5. Len(x) = n /\ n \in DOMAIN x /\ n - 1 = Len(stored)
  BY <1>1, <1>4
<1>6. \A i \in 1 .. Len(stored) : x[i] = stored[i]
  BY <1>1, <1>2
<1>7. SubSeq(x, 1, n - 1) = stored
  <2>1. SubSeq(x, 1, Len(stored)) \in Seq(JournalEntry)
    BY <1>5, <1>4, <1>3
  <2>2. /\ Len(SubSeq(x, 1, Len(stored))) = Len(stored)
        /\ \A i \in 1 .. Len(stored) : SubSeq(x, 1, Len(stored))[i] = stored[i]
    BY <1>6, <1>5, <1>4, <1>3
  <2>3. SubSeq(x, 1, Len(stored)) = stored
    BY <2>2, <2>1, <1>3, SeqEqual
  <2> QED
    BY <1>5, <2>3
<1>8. x[n] \in JournalEntry
  BY <1>3, <1>5
<1>9. x[n].payload \in TransitionPayload /\ x[n].at \in Nat
  BY <1>8 DEF JournalEntry
<1>10. ValidateEntry(stored, x[n].payload, x[n].at)
  BY <1>7, <1>5, <1>2 DEF ValidJournal
<1>11. Extends(x, stored, x[n].payload)
  BY <1>6, <1>5, <1>4 DEF Extends
<1> QED
  BY <1>11, <1>10, <1>9, <1>2, <1>1

LEMMA RegistryStep == Inv /\ OneAhead /\ [Next]_vars => [Registry!RegistryNext]_(Registry!registryVars)
<1> SUFFICES ASSUME Inv, OneAhead, [Next]_vars
             PROVE  [Registry!RegistryNext]_(Registry!registryVars)
  OBVIOUS
<1>1. CASE stored' = stored
  BY <1>1 DEF Registry!registryVars
<1>2. ASSUME NEW w \in Writer, Persist(w)
      PROVE  [Registry!RegistryNext]_(Registry!registryVars)
  <2>1. PICK p \in TransitionPayload, at \in Nat :
           ValidateEntry(stored, p, at) /\ Extends(stored', stored, p) /\ Sound(stored')
    BY <1>2, PersistsEntry
  <2>. DEFINE x == stored'
  <2>2. /\ \/ Fates(x) = Fates(stored) /\ p.state # "CREATED"
           \/ FateMoves(stored, x, p.op, "absent", "open") /\ p.state # "CREATED"
           \/ FateMoves(stored, x, p.op, "open", "void") /\ p.state # "CREATED"
           \/ FateMoves(stored, x, p.op, "open", "bound") /\ p.state = "CREATED"
           \/ FateMoves(stored, x, p.op, "bound", "closed") /\ p.state # "CREATED"
           \/ FateMoves(stored, x, p.op, "closed", "settled") /\ p.state # "CREATED"
    BY <2>1, EntryMoves DEF Inv
  <2>3. /\ p.state # "CREATED" => Bindings(x) = Bindings(stored)
        /\ p.state = "CREATED" =>
              /\ p.subject \in Subject
              /\ Bindings(x) = Bindings(stored) \cup {<<p.op, p.subject>>}
              /\ \A pair \in Bindings(stored) : pair[1] # p.op /\ pair[2] # p.subject
    BY <2>1, EntryBinds
  <2>4. p.op \in Op /\ Fates(stored)[p.op] = FateOf(stored, p.op)
    BY PayloadFacts DEF Fates
  <2>5. /\ Registry!registryVars = <<Fates(stored), Bindings(stored)>>
        /\ (Registry!registryVars)' = <<Fates(x), Bindings(x)>>
    BY DEF Registry!registryVars, Fates, Bindings
  <2> QED
    BY <2>5, <2>4, <2>3, <2>2
    DEF FateMoves, Fates, Bindings, Registry!registryVars, Registry!RegistryNext,
        Registry!Move, Registry!Bind
<1> QED
  BY <1>1, <1>2 DEF Next, Load, AppendTransition, Forget, vars

\* create_journal.py:983: an append with a compare-and-swap on the revision implements
\* the registry, in which every operation moves alone and at once.
THEOREM JournalRefines == Spec => ImplementsRegistry
<1>1. Init => Registry!RegistryInit
  <2> SUFFICES ASSUME Init PROVE Registry!RegistryInit
    OBVIOUS
  <2>1. DOMAIN stored = {}
    BY DEF Init
  <2>2. \A o, state : EntriesIn(stored, o, state) = {}
    BY <2>1 DEF EntriesIn, OperationEntries
  <2> QED
    BY <2>2 DEF Registry!RegistryInit, FateOf, IsBound
<1> QED
  BY <1>1, AtMostOneAhead, RegistryStep, PTL DEF Spec, ImplementsRegistry, Registry!RegistrySpec

====
