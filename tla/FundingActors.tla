---- MODULE FundingActors ----
\* Funding services at work on one operation.  Each loads the committed
\* financial state and, separately, the broker's ACK of it, proposes the
\* next state, and the broker replaces the state if it is still the one
\* the proposal was made from.  The ACK of a reserved intent lets its
\* proposer sign once, that of a broadcast claim lets it send once; both
\* are lost in a crash.  Principals are revoked and reinstated under a new
\* epoch, and the services' view of them may be old.
EXTENDS OperationExposure, Functions

CONSTANTS
    Worker,         \* processes of the funding services
    Maximum,        \* the authenticated maximum proposals
    Plan,           \* the effects the services may want: an intent but for its
                    \* principal's epoch and its time
    Debit,          \* the debits each plan's transaction may turn out to make
    Ttl,            \* how long a principal observation is valid
    MaxTime,        \* bound on the clock
    MaxEpoch,       \* bound on revocation epochs
    MaxCrashes      \* bound on crashes

Intent(p, epoch, at) ==
    [op |-> p.op, quote |-> p.quote, effect |-> p.effect, attempt |-> p.attempt,
     actor |-> p.actor, principal |-> p.principal, epoch |-> epoch,
     subject |-> p.subject, wallet |-> p.wallet, sequence |-> p.sequence, doc |-> p.doc,
     purpose |-> p.purpose, maximum |-> p.maximum, fee |-> p.fee, createdAt |-> at]

\* A transaction debits no more than its messages allow, and at least its fee.
ASSUME FundingAssumption ==
    /\ Maximum \subseteq OperationMaximumLiability
    /\ IsFiniteSet(Plan)
    /\ \A p \in Plan : \A epoch \in 0 .. MaxEpoch, at \in 1 .. MaxTime :
          Intent(p, epoch, at) \in FinancialEffectIntent
    /\ \A p, q \in Plan : Intent(p, 0, 1) = Intent(q, 0, 1) => p = q
    /\ \A p \in Plan : \A v \in Debit[p] :
          v \in NativeLiabilityVector /\ Covers(p.maximum, v) /\ Covers(v, p.fee)
    /\ Ttl \in Nat /\ MaxTime \in Nat \ {0} /\ MaxEpoch \in Nat /\ MaxCrashes \in Nat

VARIABLES
    db,         \* the committed states: none, or the operation's one
    job,        \* what each worker holds in memory
    standing,   \* the registry's word on each principal
    lapsed,     \* the principals' past epochs and when each was revoked
    wire,       \* what became of each plan's transaction, and its debit
    uses,       \* how often each plan was signed and sent
    clock,
    crashes

vars == <<db, job, standing, lapsed, wire, uses, clock, crashes>>

Idle == [kind |-> "idle"]

Init ==
    /\ db = {}
    /\ job = [w \in Worker |-> Idle]
    /\ standing = [s \in Principal |-> [epoch |-> 0, active |-> TRUE]]
    /\ lapsed = {}
    /\ wire = [p \in Plan |-> [state |-> "unsigned", debit |-> NoDebit]]
    /\ uses = [p \in Plan |-> [sign |-> 0, send |-> 0]]
    /\ clock = 1
    /\ crashes = 0

----
\* Reading and proposing.

\* The maximum is proposed before anything is committed.
ProposeMaximum(w, m) ==
    /\ job[w] = Idle
    /\ db = {}
    /\ MaximumCurrent(m, clock)
    /\ job' = [job EXCEPT ![w] =
                 [kind |-> "propose", base |-> {}, next |-> ProposeOperationMaximum(m),
                  may |-> "nothing", plan |-> {}]]
    /\ UNCHANGED <<db, standing, lapsed, wire, uses, clock, crashes>>

\* decode_financial_operation_state: stored bytes are validated as a whole.
Load(w) ==
    /\ job[w] = Idle
    /\ \E st \in db :
          /\ ValidOperation(st)
          /\ job' = [job EXCEPT ![w] = [kind |-> "loaded", base |-> st]]
    /\ UNCHANGED <<db, standing, lapsed, wire, uses, clock, crashes>>

Seen(s) ==
    [principal |-> s, epoch |-> standing[s].epoch, active |-> standing[s].active,
     observedAt |-> clock, validUntil |-> clock + Ttl]

\* The ACK and the principal are those of now; what was loaded may be older.
Acknowledge(w, s) ==
    /\ job[w].kind = "loaded"
    /\ \E st \in db :
          job' = [job EXCEPT ![w] =
                    [kind |-> "ready", base |-> job[w].base, seen |-> Seen(s),
                     ack |-> [state |-> st, observedAt |-> clock]]]
    /\ UNCHANGED <<db, standing, lapsed, wire, uses, clock, crashes>>

ProposeEffect(w, p, epoch) ==
    LET intent == Intent(p, epoch, clock) IN
    /\ job[w].kind = "ready"
    /\ ProposesEffect(job[w].base, intent, job[w].seen, job[w].ack, clock)
    /\ job' = [job EXCEPT ![w] =
                 [kind |-> "propose", base |-> {job[w].base},
                  next |-> WithEffect(job[w].base, intent), may |-> "sign", plan |-> {p}]]
    /\ UNCHANGED <<db, standing, lapsed, wire, uses, clock, crashes>>

\* The plan of a retained intent.
PlansOf(intent) == {p \in Plan : Intent(p, intent.epoch, intent.createdAt) = intent}

\* No worker may still sign p: its reservation was lost before the signature.
Unsigned(p) ==
    /\ wire[p].state = "unsigned"
    /\ \A w \in Worker : job[w].kind = "sign" => job[w].plan # p

\* Authenticated evidence.  What it says of a signature is true of the intent, what
\* it says of an outcome is true of the transaction it names, and either may be
\* presented with any earlier time or for another effect.
TruthfulObservations(intent, seen) ==
    {[state |-> "PROVEN_NOT_SIGNED", intent |-> intent, observedAt |-> t] :
        t \in {t \in 1 .. clock : \A p \in PlansOf(intent) : Unsigned(p)}}
    \cup
    {[state |-> "SIGNED", intent |-> intent, observedAt |-> t, tx |-> intent.doc] :
        t \in {t \in 1 .. clock : \A p \in PlansOf(intent) : wire[p].state # "unsigned"}}
    \cup
    {[state |-> "BROADCAST_CLAIMED_UNKNOWN", intent |-> intent, observedAt |-> t,
      tx |-> intent.doc, principal |-> seen] : t \in 1 .. clock}
    \cup
    {[state |-> IF wire[p].state = "confirmed" THEN "CONFIRMED" ELSE "FAILED",
      intent |-> intent, observedAt |-> clock, tx |-> p.doc, actual |-> wire[p].debit] :
        p \in {p \in Plan : wire[p].state \in {"confirmed", "failed"}}}

ProposeObservation(w, i, k) ==
    LET st == job[w].base IN
    /\ job[w].kind = "ready"
    /\ {i, k} \subseteq DOMAIN st.effects
    /\ \E o \in TruthfulObservations(st.effects[k].intent, job[w].seen) :
          /\ ProposesObservation(st, i, o, job[w].ack, clock)
          /\ job' = [job EXCEPT ![w] =
                       [kind |-> "propose", base |-> {st},
                        next |-> WithObservation(st, i, o),
                        may |-> IF o.state = "BROADCAST_CLAIMED_UNKNOWN"
                                THEN "send" ELSE "nothing",
                        plan |-> PlansOf(st.effects[i].intent)]]
    /\ UNCHANGED <<db, standing, lapsed, wire, uses, clock, crashes>>

----
\* The broker's compare-and-swap, and the one use of what it grants.
Persist(w) ==
    /\ job[w].kind = "propose"
    /\ db = job[w].base
    /\ db' = {job[w].next}
    /\ \/ /\ job[w].may = "nothing"
          /\ job' = [job EXCEPT ![w] = Idle]
       \/ /\ job[w].may # "nothing"
          /\ \E p \in job[w].plan :
                job' = [job EXCEPT ![w] = [kind |-> job[w].may, plan |-> p]]
    /\ UNCHANGED <<standing, lapsed, wire, uses, clock, crashes>>

Sign(w) ==
    /\ job[w].kind = "sign"
    /\ wire' = [wire EXCEPT ![job[w].plan] = [state |-> "signed", debit |-> @.debit]]
    /\ uses' = [uses EXCEPT ![job[w].plan] = [sign |-> @.sign + 1, send |-> @.send]]
    /\ job' = [job EXCEPT ![w] = Idle]
    /\ UNCHANGED <<db, standing, lapsed, clock, crashes>>

Send(w) ==
    /\ job[w].kind = "send"
    /\ wire' = [wire EXCEPT ![job[w].plan] = [state |-> "sent", debit |-> @.debit]]
    /\ uses' = [uses EXCEPT ![job[w].plan] = [sign |-> @.sign, send |-> @.send + 1]]
    /\ job' = [job EXCEPT ![w] = Idle]
    /\ UNCHANGED <<db, standing, lapsed, clock, crashes>>

\* A lost swap or a rejected proposal: start over from a fresh read.
GiveUp(w) ==
    /\ \/ job[w].kind \in {"loaded", "ready"} /\ {job[w].base} # db
       \/ job[w].kind = "propose" /\ job[w].base # db
       \/ job[w].kind = "ready" /\ job[w].seen.observedAt < clock
    /\ job' = [job EXCEPT ![w] = Idle]
    /\ UNCHANGED <<db, standing, lapsed, wire, uses, clock, crashes>>

Crash(w) ==
    /\ job[w] # Idle
    /\ crashes < MaxCrashes
    /\ crashes' = crashes + 1
    /\ job' = [job EXCEPT ![w] = Idle]
    /\ UNCHANGED <<db, standing, lapsed, wire, uses, clock>>

----
\* Time, the registry of principals and the chain.
Tick ==
    /\ clock < MaxTime
    /\ clock' = clock + 1
    /\ UNCHANGED <<db, job, standing, lapsed, wire, uses, crashes>>

Revoke(s) ==
    /\ standing[s].active
    /\ standing[s].epoch < MaxEpoch
    /\ standing' = [standing EXCEPT ![s] = [epoch |-> @.epoch, active |-> FALSE]]
    /\ lapsed' = lapsed \cup {[principal |-> s, epoch |-> standing[s].epoch, at |-> clock]}
    /\ UNCHANGED <<db, job, wire, uses, clock, crashes>>

Reinstate(s) ==
    /\ ~standing[s].active
    /\ standing' = [standing EXCEPT ![s] = [epoch |-> @.epoch + 1, active |-> TRUE]]
    /\ UNCHANGED <<db, job, lapsed, wire, uses, clock, crashes>>

Land(p, outcome, v) ==
    /\ wire[p].state = "sent"
    /\ wire' = [wire EXCEPT ![p] = [state |-> outcome, debit |-> v]]
    /\ UNCHANGED <<db, job, standing, lapsed, uses, clock, crashes>>

----
WorkerStep(w) ==
    \/ \E m \in Maximum : ProposeMaximum(w, m)
    \/ Load(w)
    \/ \E s \in Principal : Acknowledge(w, s)
    \/ \E p \in Plan, epoch \in 0 .. MaxEpoch : ProposeEffect(w, p, epoch)
    \/ \E i, k \in 1 .. Cardinality(Plan) : ProposeObservation(w, i, k)
    \/ Persist(w)
    \/ Sign(w)
    \/ Send(w)
    \/ GiveUp(w)
    \/ Crash(w)

Surroundings ==
    \/ Tick
    \/ \E s \in Principal : Revoke(s) \/ Reinstate(s)
    \/ \E p \in Plan : \E v \in Debit[p] : Land(p, "confirmed", v) \/ Land(p, "failed", v)

Next == Surroundings \/ \E w \in Worker : WorkerStep(w)

Spec == Init /\ [][Next]_vars

----
\* Properties.
Ack == [state: FinancialOperationState, observedAt: Nat]

Job ==
    {Idle}
    \cup [kind: {"loaded"}, base: FinancialOperationState]
    \cup [kind: {"ready"}, base: FinancialOperationState,
          seen: ServicePrincipalObservation, ack: Ack]
    \cup [kind: {"propose"}, base: SUBSET FinancialOperationState,
          next: FinancialOperationState, may: {"nothing", "sign", "send"},
          plan: SUBSET Plan]
    \cup [kind: {"sign", "send"}, plan: Plan]

\* The committed state, and what workers hold, are typed records; the operation
\* has one committed state at most.
TypeOK ==
    /\ db \subseteq FinancialOperationState
    /\ \A st, other \in db : st = other
    /\ job \in [Worker -> Job]
    /\ standing \in [Principal -> [epoch: 0 .. MaxEpoch, active: BOOLEAN]]
    /\ lapsed \subseteq [principal: Principal, epoch: 0 .. MaxEpoch, at: 1 .. MaxTime]
    /\ wire \in [Plan -> [state: {"unsigned", "signed", "sent", "confirmed", "failed"},
                          debit: NativeLiabilityVector]]
    /\ uses \in [Plan -> [sign: Nat, send: Nat]]
    /\ clock \in 1 .. MaxTime
    /\ crashes \in Nat

Retains(st, p) == \E i \in DOMAIN st.effects : p \in PlansOf(st.effects[i].intent)

MayBeSigned(p) == \E w \in Worker : job[w].kind = "sign" /\ job[w].plan = p

\* What p's transaction debited, or may still debit.
Liability(p) ==
    CASE wire[p].state \in {"confirmed", "failed"} -> wire[p].debit
      [] wire[p].state \in {"signed", "sent"} -> p.maximum
      [] wire[p].state = "unsigned" -> IF MayBeSigned(p) THEN p.maximum ELSE NoDebit

\* All that was debited and all that signed or signable transactions may still
\* debit is retained and within the operation's lifetime maximum, although proofs
\* of non-signature and actual debits free what was reserved and it is used again.
SpendWithinMaximum ==
    /\ \A p \in Plan : Liability(p) # NoDebit => \E st \in db : Retains(st, p)
    /\ \A st \in db :
          Covers(st.maximum.native, AddNativeLiabilities([p \in Plan |-> Liability(p)]))

\* No intent is signed twice or sent twice, whoever restarts, retries or races, and
\* nothing is sent that was not signed.
UsedOnce == \A p \in Plan : uses[p].sign <= 1 /\ uses[p].send <= uses[p].sign

\* Nothing but the create is signed, or may be, unless the create is confirmed on
\* the chain and made the very deployment that is funded.
FundsConfirmedCreate ==
    \A p \in Plan :
        (p.purpose # "CREATE" /\ (uses[p].sign > 0 \/ MayBeSigned(p))) =>
            \E c \in Plan : /\ c.purpose = "CREATE"
                            /\ c.subject = p.subject
                            /\ wire[c].state = "confirmed"

\* st retains p's intent under a principal's past epoch.
RetainsUnder(st, p, past) ==
    \E i \in DOMAIN st.effects :
        LET intent == st.effects[i].intent IN
        /\ p \in PlansOf(intent)
        /\ intent.principal = past.principal
        /\ intent.epoch = past.epoch

\* Worker w holds a proposal to sign or to send under the past epoch, or the grant.
Wields(w, past) ==
    \/ /\ job[w].kind = "propose"
       /\ job[w].may # "nothing"
       /\ \E p \in job[w].plan : RetainsUnder(job[w].next, p, past)
    \/ /\ job[w].kind \in {"sign", "send"}
       /\ \E st \in db : RetainsUnder(st, job[w].plan, past)

RevocationStep ==
    \A past \in lapsed : clock > past.at + Ttl =>
        \A w \in Worker : Wields(w, past)' => Wields(w, past)

\* Once the last observation made of a principal's epoch before its revocation has
\* run out, nobody comes to hold a proposal or a grant to sign or send under that
\* epoch who did not hold one already: neither by an old copy of the state, nor by
\* an observation of the next epoch, nor by somebody else's swap.  What was
\* proposed in time is not bounded: the code compares no clock when the proposal
\* is committed and its grant is used.
RevokedGainsNothing == [][RevocationStep]_vars

\* A recorded outcome is the one the chain gave to this intent's own transaction.
OutcomesAttributed ==
    \A st \in db : \A i \in DOMAIN st.effects : \A p \in PlansOf(st.effects[i].intent) :
        LET rec == st.effects[i] IN
        /\ EffectState(rec) = "PROVEN_NOT_SIGNED" => Liability(p) = NoDebit
        /\ EffectState(rec) \in Terminal => wire[p].debit = ChargedDebit(rec)
        /\ EffectState(rec) = "CONFIRMED" <=> /\ EffectState(rec) \in Terminal
                                             /\ wire[p].state = "confirmed"

----
\* What the services implement.

\* The records of p in these states: one at most, as identities are unique.
RecordsOf(states, p) ==
    {rec \in UNION {Range(st.effects) : st \in states} : p \in PlansOf(rec.intent)}

StageOf(rec) ==
    CASE EffectState(rec) = "CONFIRMED" -> "confirmed"
      [] EffectState(rec) = "FAILED" -> "failed"
      [] EffectState(rec) = "PROVEN_NOT_SIGNED" -> "void"
      [] OTHER -> "held"

\* What the escrow holds for p, and why, by p's record.
ChargeOf(states, p) ==
    IF RecordsOf(states, p) = {} THEN [stage |-> "none", amount |-> NoDebit]
    ELSE LET rec == CHOOSE rec \in RecordsOf(states, p) : TRUE IN
         [stage |-> StageOf(rec), amount |-> ChargedDebit(rec)]

Escrow ==
    INSTANCE SpendingEscrow WITH
        Effect <- Plan,
        Ceiling <- {m.native : m \in Maximum},
        ceiling <- {st.maximum.native : st \in db},
        charge <- [p \in Plan |-> ChargeOf(db, p)],
        tx <- wire

\* The services implement the escrow: whatever races, is lost in a crash or comes
\* late, the swaps and the one-use grants look like its atomic steps.
\* operation_exposure.py:548 validates each record alone.
ImplementsEscrow == Escrow!EscrowSpec

====
