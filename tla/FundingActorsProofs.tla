---- MODULE FundingActorsProofs ----
\* Proofs about FundingActors, for every set of workers, plans, maxima and
\* principals.
EXTENDS FundingActors, FiniteSetTheorems, TLAPS

----
\* Plans, records and states.

\* An intent's plan is found again in it, and no other one.
LEMMA OnePlan ==
    ASSUME NEW intent, NEW p \in PlansOf(intent), NEW q \in PlansOf(intent)
    PROVE  p = q
  <1>1. p \in Plan /\ q \in Plan
        /\ Intent(p, intent.epoch, intent.createdAt) = Intent(q, intent.epoch, intent.createdAt)
    BY DEF PlansOf
  <1>2. Intent(p, 0, 1) = Intent(q, 0, 1)
    BY <1>1 DEF Intent
  <1> QED
    BY <1>1, <1>2, FundingAssumption

LEMMA PlanFields ==
    ASSUME NEW intent, NEW p \in PlansOf(intent)
    PROVE  /\ p \in Plan
           /\ intent.doc = p.doc /\ intent.subject = p.subject
           /\ intent.purpose = p.purpose /\ intent.maximum = p.maximum
           /\ intent.fee = p.fee /\ intent.effect = p.effect
  BY DEF PlansOf, Intent

LEMMA PlanIntended ==
    ASSUME NEW p \in Plan, NEW epoch \in 0 .. MaxEpoch, NEW at \in 1 .. MaxTime
    PROVE  /\ PlansOf(Intent(p, epoch, at)) = {p}
           /\ Intent(p, epoch, at) \in FinancialEffectIntent
           /\ p.doc \in SignDoc
  <1>1. /\ Intent(p, epoch, at).epoch = epoch
        /\ Intent(p, epoch, at).createdAt = at
        /\ Intent(p, epoch, at).doc = p.doc
    BY DEF Intent
  <1>2. p \in PlansOf(Intent(p, epoch, at))
    BY <1>1 DEF PlansOf
  <1>3. Intent(p, epoch, at) \in FinancialEffectIntent
    BY FundingAssumption
  <1>4. Intent(p, epoch, at).doc \in SignDoc
    BY <1>3 DEF FinancialEffectIntent
  <1> QED
    BY <1>4, <1>3, <1>2, <1>1, OnePlan DEF PlansOf

\* A record with one more observation.
More(rec, o) == [intent |-> rec.intent, observations |-> Append(rec.observations, o)]

LEMMA MoreFacts ==
    ASSUME NEW rec \in FinancialEffectRecord, NEW o \in FinancialEffectObservation
    PROVE  /\ More(rec, o) \in FinancialEffectRecord
           /\ More(rec, o).intent = rec.intent
           /\ EffectState(More(rec, o)) = o.state
           /\ LatestTime(More(rec, o)) = o.observedAt
           /\ o.state \in Terminal => ChargedDebit(More(rec, o)) = o.actual
           /\ \A n \in DOMAIN More(rec, o).observations :
                 \/ More(rec, o).observations[n] = o
                 \/ /\ n \in DOMAIN rec.observations
                    /\ More(rec, o).observations[n] = rec.observations[n]
           /\ \A n \in DOMAIN rec.observations :
                 /\ n \in DOMAIN More(rec, o).observations
                 /\ More(rec, o).observations[n] = rec.observations[n]
  <1> DEFINE obs == rec.observations
             more == Append(obs, o)
  <1>1. obs \in Seq(FinancialEffectObservation) /\ rec.intent \in FinancialEffectIntent
    BY DEF FinancialEffectRecord
  <1>2. /\ more \in Seq(FinancialEffectObservation) /\ more # <<>>
        /\ Len(more) = Len(obs) + 1 /\ more[Len(more)] = o
        /\ \A n \in DOMAIN more : more[n] = o \/ (n \in DOMAIN obs /\ more[n] = obs[n])
        /\ \A n \in DOMAIN obs : n \in DOMAIN more /\ more[n] = obs[n]
    BY <1>1
  <1>3. More(rec, o).observations = more /\ More(rec, o).intent = rec.intent
    BY DEF More
  <1>4. More(rec, o) \in FinancialEffectRecord
    BY <1>1, <1>2 DEF More, FinancialEffectRecord
  <1> HIDE DEF more, obs
  <1>5. EffectState(More(rec, o)) = o.state /\ LatestTime(More(rec, o)) = o.observedAt
    BY <1>2, <1>3 DEF EffectState, LatestTime
  <1>6. o.state \in Terminal => ChargedDebit(More(rec, o)) = o.actual
    BY <1>5, <1>3, <1>2 DEF ChargedDebit, Terminal
  <1> QED
    BY <1>6, <1>5, <1>4, <1>3, <1>2 DEF obs

\* The appended observation is among those the record then has
\* (operation_exposure.py:810).
LEMMA MoreIncludes ==
    ASSUME NEW rec \in FinancialEffectRecord, NEW o \in FinancialEffectObservation
    PROVE  \E n \in DOMAIN More(rec, o).observations : More(rec, o).observations[n] = o
  <1> DEFINE obs == rec.observations
             more == Append(obs, o)
  <1>1. obs \in Seq(FinancialEffectObservation)
    BY DEF FinancialEffectRecord
  <1>2. /\ more \in Seq(FinancialEffectObservation) /\ more # <<>>
        /\ Len(more) = Len(obs) + 1 /\ more[Len(more)] = o
    BY <1>1
  <1>3. More(rec, o).observations = more
    BY DEF More
  <1> HIDE DEF more, obs
  <1>4. Len(more) \in DOMAIN more
    BY <1>2
  <1> QED
    BY <1>4, <1>3, <1>2

Fresh(intent) == [intent |-> intent, observations |-> <<>>]

LEMMA FreshFacts ==
    ASSUME NEW intent \in FinancialEffectIntent
    PROVE  /\ Fresh(intent) \in FinancialEffectRecord
           /\ Fresh(intent).intent = intent
           /\ DOMAIN Fresh(intent).observations = {}
           /\ EffectState(Fresh(intent)) = "SIGN_RESERVED_UNKNOWN"
           /\ LatestTime(Fresh(intent)) = intent.createdAt
           /\ ChargedDebit(Fresh(intent)) = intent.maximum
  BY DEF Fresh, FinancialEffectRecord, EffectState, LatestTime, ChargedDebit, Terminal

LEMMA EffectTyped ==
    ASSUME NEW st \in FinancialOperationState, NEW k \in DOMAIN st.effects
    PROVE  /\ st.effects[k] \in FinancialEffectRecord
           /\ st.effects[k].intent \in FinancialEffectIntent
           /\ k \in Nat /\ k >= 1 /\ 1 \in DOMAIN st.effects
  <1> DEFINE effects == st.effects
  <1>1. effects \in Seq(FinancialEffectRecord)
    BY DEF FinancialOperationState
  <1>2. effects[k] \in FinancialEffectRecord
    BY <1>1
  <1>3. k \in Nat /\ k >= 1 /\ 1 \in DOMAIN effects
    BY <1>1
  <1>4. effects[k].intent \in FinancialEffectIntent
    BY <1>2 DEF FinancialEffectRecord
  <1> QED
    BY <1>4, <1>3, <1>2

\* The state n is st with a new effect.
Reserves(st, n, intent) ==
    /\ n.maximum = st.maximum /\ n.revision = st.revision + 1
    /\ \A k \in DOMAIN st.effects : k \in DOMAIN n.effects /\ n.effects[k] = st.effects[k]
    /\ \E m \in DOMAIN n.effects :
          /\ m \notin DOMAIN st.effects
          /\ n.effects[m] = Fresh(intent)
          /\ \A k \in DOMAIN n.effects : k \in DOMAIN st.effects \/ k = m

LEMMA WithEffectFacts ==
    ASSUME NEW st \in FinancialOperationState, NEW intent \in FinancialEffectIntent
    PROVE  /\ WithEffect(st, intent) \in FinancialOperationState
           /\ Reserves(st, WithEffect(st, intent), intent)
  <1> DEFINE old == st.effects
             new == Append(old, Fresh(intent))
  <1>1. old \in Seq(FinancialEffectRecord) /\ Fresh(intent) \in FinancialEffectRecord
        /\ st.maximum \in OperationMaximumLiability /\ st.revision \in Nat
    BY FreshFacts DEF FinancialOperationState
  <1>2. WithEffect(st, intent) =
            [maximum |-> st.maximum, revision |-> st.revision + 1, effects |-> new]
    BY DEF WithEffect, Fresh
  <1>3. /\ new \in Seq(FinancialEffectRecord)
        /\ \A k \in DOMAIN old : k \in DOMAIN new /\ new[k] = old[k]
        /\ Len(old) + 1 \in DOMAIN new /\ Len(old) + 1 \notin DOMAIN old
        /\ new[Len(old) + 1] = Fresh(intent)
        /\ \A k \in DOMAIN new : k \in DOMAIN old \/ k = Len(old) + 1
    BY <1>1
  <1> HIDE DEF old, new
  <1>4. WithEffect(st, intent) \in FinancialOperationState
    BY <1>3, <1>2, <1>1 DEF FinancialOperationState
  <1>5. Reserves(st, WithEffect(st, intent), intent)
    BY <1>2, <1>3 DEF Reserves, old
  <1> QED
    BY <1>4, <1>5

\* The state n is st with one more observation of its effect i.
Records(st, n, i, o) ==
    /\ n.maximum = st.maximum /\ n.revision = st.revision + 1
    /\ DOMAIN n.effects = DOMAIN st.effects
    /\ n.effects[i] = More(st.effects[i], o)
    /\ \A k \in DOMAIN st.effects : k # i => n.effects[k] = st.effects[k]

LEMMA WithObservationFacts ==
    ASSUME NEW st \in FinancialOperationState, NEW i \in DOMAIN st.effects,
           NEW o \in FinancialEffectObservation
    PROVE  /\ WithObservation(st, i, o) \in FinancialOperationState
           /\ Records(st, WithObservation(st, i, o), i, o)
           /\ st.effects[i] \in FinancialEffectRecord
  <1> DEFINE old == st.effects
             new == [old EXCEPT ![i] = More(old[i], o)]
  <1>1. old \in Seq(FinancialEffectRecord)
        /\ st.maximum \in OperationMaximumLiability /\ st.revision \in Nat
    BY DEF FinancialOperationState
  <1>2. old[i] \in FinancialEffectRecord
    BY <1>1
  <1>3. WithObservation(st, i, o) =
            [maximum |-> st.maximum, revision |-> st.revision + 1, effects |-> new]
    BY DEF WithObservation, More
  <1>4. More(old[i], o) \in FinancialEffectRecord
    BY <1>2, MoreFacts
  <1>5. /\ new \in Seq(FinancialEffectRecord)
        /\ DOMAIN new = DOMAIN old
        /\ new[i] = More(old[i], o)
        /\ \A k \in DOMAIN old : k # i => new[k] = old[k]
    BY <1>1, <1>4
  <1> HIDE DEF old, new
  <1>6. WithObservation(st, i, o) \in FinancialOperationState
    BY <1>5, <1>3, <1>1 DEF FinancialOperationState
  <1>7. Records(st, WithObservation(st, i, o), i, o)
    BY <1>3, <1>5 DEF Records, old
  <1> QED
    BY <1>7, <1>6, <1>2 DEF old

----
\* Types.  A revoked principal's next epoch is within the bound.
Typed ==
    /\ TypeOK
    /\ \A s \in Principal : ~standing[s].active => standing[s].epoch < MaxEpoch

LEMMA JobFields ==
    ASSUME NEW j \in Job
    PROVE  /\ j.kind \in {"idle", "loaded", "ready", "propose", "sign", "send"}
           /\ j.kind = "idle" <=> j = Idle
           /\ j.kind \in {"loaded", "ready"} => j.base \in FinancialOperationState
           /\ j.kind = "ready" => j.seen \in ServicePrincipalObservation /\ j.ack \in Ack
           /\ j.kind = "propose" =>
                /\ j.base \subseteq FinancialOperationState
                /\ j.next \in FinancialOperationState
                /\ j.may \in {"nothing", "sign", "send"} /\ j.plan \subseteq Plan
           /\ j.kind \in {"sign", "send"} => j.plan \in Plan
  BY DEF Job, Idle

LEMMA BoundsTyped ==
    /\ Ttl \in Nat /\ MaxTime \in Nat /\ MaxTime >= 1 /\ MaxEpoch \in Nat
    /\ 0 \in 0 .. MaxEpoch /\ 1 \in 1 .. MaxTime
  BY FundingAssumption

LEMMA NoDebitType == NoDebit \in NativeLiabilityVector
  BY DEF NoDebit, NativeLiabilityVector

LEMMA EmptyType ==
    ASSUME NEW m \in Maximum
    PROVE  ProposeOperationMaximum(m) \in FinancialOperationState
  BY FundingAssumption DEF ProposeOperationMaximum, FinancialOperationState

LEMMA SeenType ==
    ASSUME Typed, NEW s \in Principal
    PROVE  Seen(s) \in ServicePrincipalObservation
  BY BoundsTyped DEF Typed, TypeOK, Seen, ServicePrincipalObservation

\* What a worker can present of a retained intent, in one place.
LEMMA Presented ==
    ASSUME Typed, NEW intent \in FinancialEffectIntent,
           NEW seen \in ServicePrincipalObservation, NEW o \in TruthfulObservations(intent, seen)
    PROVE  /\ o \in FinancialEffectObservation
           /\ o.intent = intent
           /\ o.observedAt \in 1 .. clock
           /\ \/ o.state = "PROVEN_NOT_SIGNED" /\ \A p \in PlansOf(intent) : Unsigned(p)
              \/ /\ o.state = "SIGNED" /\ o.tx = intent.doc
                 /\ \A p \in PlansOf(intent) : wire[p].state # "unsigned"
              \/ /\ o.state = "BROADCAST_CLAIMED_UNKNOWN" /\ o.tx = intent.doc
                 /\ o.principal = seen
              \/ \E p \in Plan :
                    /\ wire[p].state \in {"confirmed", "failed"}
                    /\ o.state = IF wire[p].state = "confirmed" THEN "CONFIRMED" ELSE "FAILED"
                    /\ o.tx = p.doc /\ o.actual = wire[p].debit
  <1>1. clock \in 1 .. MaxTime /\ clock \in Nat /\ clock >= 1
    BY BoundsTyped DEF Typed, TypeOK
  <1>2. intent.doc \in SignDoc
    BY DEF FinancialEffectIntent
  <1>3. ASSUME NEW t \in 1 .. clock, \A p \in PlansOf(intent) : Unsigned(p),
               o = [state |-> "PROVEN_NOT_SIGNED", intent |-> intent, observedAt |-> t]
        PROVE  /\ o \in FinancialEffectObservation /\ o.intent = intent
               /\ o.observedAt = t /\ o.state = "PROVEN_NOT_SIGNED"
    BY <1>1, <1>3 DEF FinancialEffectObservation
  <1>4. ASSUME NEW t \in 1 .. clock,
               o = [state |-> "SIGNED", intent |-> intent, observedAt |-> t,
                    tx |-> intent.doc]
        PROVE  /\ o \in FinancialEffectObservation /\ o.intent = intent
               /\ o.observedAt = t /\ o.state = "SIGNED" /\ o.tx = intent.doc
    BY <1>4, <1>2, <1>1 DEF FinancialEffectObservation
  <1>5. ASSUME NEW t \in 1 .. clock,
               o = [state |-> "BROADCAST_CLAIMED_UNKNOWN", intent |-> intent,
                    observedAt |-> t, tx |-> intent.doc, principal |-> seen]
        PROVE  /\ o \in FinancialEffectObservation /\ o.intent = intent
               /\ o.observedAt = t /\ o.state = "BROADCAST_CLAIMED_UNKNOWN"
               /\ o.tx = intent.doc /\ o.principal = seen
    BY <1>5, <1>2, <1>1 DEF FinancialEffectObservation
  <1>6. ASSUME NEW p \in Plan, wire[p].state \in {"confirmed", "failed"},
               o = [state |-> IF wire[p].state = "confirmed" THEN "CONFIRMED" ELSE "FAILED",
                    intent |-> intent, observedAt |-> clock, tx |-> p.doc,
                    actual |-> wire[p].debit]
        PROVE  /\ o \in FinancialEffectObservation /\ o.intent = intent
               /\ o.observedAt = clock /\ o.tx = p.doc /\ o.actual = wire[p].debit
               /\ o.state = IF wire[p].state = "confirmed" THEN "CONFIRMED" ELSE "FAILED"
    <2>1. p.doc \in SignDoc
      BY PlanIntended, BoundsTyped
    <2>2. wire[p].debit \in NativeLiabilityVector
      BY DEF Typed, TypeOK
    <2> QED
      BY <2>2, <2>1, <1>6, <1>1 DEF FinancialEffectObservation, Terminal
  <1>7. \/ \E t \in 1 .. clock :
              /\ \A p \in PlansOf(intent) : Unsigned(p)
              /\ o = [state |-> "PROVEN_NOT_SIGNED", intent |-> intent, observedAt |-> t]
        \/ \E t \in 1 .. clock :
              /\ \A p \in PlansOf(intent) : wire[p].state # "unsigned"
              /\ o = [state |-> "SIGNED", intent |-> intent, observedAt |-> t,
                      tx |-> intent.doc]
        \/ \E t \in 1 .. clock :
              o = [state |-> "BROADCAST_CLAIMED_UNKNOWN", intent |-> intent,
                   observedAt |-> t, tx |-> intent.doc, principal |-> seen]
        \/ \E p \in Plan :
              /\ wire[p].state \in {"confirmed", "failed"}
              /\ o = [state |-> IF wire[p].state = "confirmed" THEN "CONFIRMED" ELSE "FAILED",
                      intent |-> intent, observedAt |-> clock, tx |-> p.doc,
                      actual |-> wire[p].debit]
    BY Zenon DEF TruthfulObservations
  <1> QED
    BY <1>7, <1>6, <1>5, <1>4, <1>3, <1>1

LEMMA InitTyped == Init => Typed
<1> SUFFICES ASSUME Init PROVE Typed
  OBVIOUS
<1>1. Idle \in Job
  BY DEF Job
<1>2. job \in [Worker -> Job]
  BY <1>1 DEF Init
<1>3. /\ standing \in [Principal -> [epoch: 0 .. MaxEpoch, active: BOOLEAN]]
      /\ \A s \in Principal : standing[s].active
  BY BoundsTyped DEF Init
<1>4. wire \in [Plan -> [state: {"unsigned", "signed", "sent", "confirmed", "failed"},
                         debit: NativeLiabilityVector]]
  BY NoDebitType DEF Init
<1>5. uses \in [Plan -> [sign: Nat, send: Nat]]
  BY DEF Init
<1>6. db = {} /\ lapsed = {} /\ clock \in 1 .. MaxTime /\ crashes \in Nat
  BY BoundsTyped DEF Init
<1> QED
  BY <1>6, <1>5, <1>4, <1>3, <1>2 DEF Typed, TypeOK

\* A worker's step on its own job.
Private(w, j) ==
    /\ job' = [job EXCEPT ![w] = j]
    /\ UNCHANGED <<db, standing, lapsed, wire, uses, clock>>

LEMMA PrivateTyped ==
    ASSUME Typed, NEW w, NEW j \in Job, Private(w, j), crashes' \in Nat
    PROVE  Typed'
  BY DEF Typed, TypeOK, Private

\* What the private steps put into the job.
LEMMA ProposeMaximumTyped ==
    ASSUME Typed, NEW w \in Worker, NEW m \in Maximum, ProposeMaximum(w, m)
    PROVE  \E j \in Job : /\ Private(w, j)
                          /\ j = [kind |-> "propose", base |-> {},
                                  next |-> ProposeOperationMaximum(m),
                                  may |-> "nothing", plan |-> {}]
  <1> DEFINE j == [kind |-> "propose", base |-> {}, next |-> ProposeOperationMaximum(m),
                   may |-> "nothing", plan |-> {}]
  <1>1. ProposeOperationMaximum(m) \in FinancialOperationState
    BY EmptyType
  <1>2. j \in Job
    BY <1>1 DEF Job
  <1> QED
    BY <1>2 DEF ProposeMaximum, Private

LEMMA LoadTyped ==
    ASSUME Typed, NEW w \in Worker, Load(w)
    PROVE  \E j \in Job : /\ Private(w, j)
                          /\ \E st \in db : j = [kind |-> "loaded", base |-> st]
  <1>1. PICK st \in db : job' = [job EXCEPT ![w] = [kind |-> "loaded", base |-> st]]
    BY DEF Load
  <1>2. [kind |-> "loaded", base |-> st] \in Job
    BY DEF Typed, TypeOK, Job
  <1> QED
    BY <1>1, <1>2 DEF Load, Private

LEMMA AcknowledgeTyped ==
    ASSUME Typed, NEW w \in Worker, NEW s \in Principal, Acknowledge(w, s)
    PROVE  \E j \in Job :
              /\ Private(w, j)
              /\ j.kind = "ready" /\ j.base = job[w].base /\ j.seen = Seen(s)
              /\ job[w].kind = "loaded"
  <1>1. PICK st \in db :
            job' = [job EXCEPT ![w] = [kind |-> "ready", base |-> job[w].base,
                                       seen |-> Seen(s),
                                       ack |-> [state |-> st, observedAt |-> clock]]]
    BY DEF Acknowledge
  <1> DEFINE j == [kind |-> "ready", base |-> job[w].base, seen |-> Seen(s),
                   ack |-> [state |-> st, observedAt |-> clock]]
  <1>2. job[w].kind = "loaded" /\ job[w].base \in FinancialOperationState
    BY JobFields DEF Acknowledge, Typed, TypeOK
  <1>3. [state |-> st, observedAt |-> clock] \in Ack
    BY DEF Ack, Typed, TypeOK
  <1>4. j \in Job
    BY <1>2, <1>3, SeenType DEF Job
  <1>5. Private(w, j)
    BY <1>1 DEF Acknowledge, Private
  <1> QED
    BY <1>5, <1>4, <1>2

LEMMA ProposeEffectTyped ==
    ASSUME Typed, NEW w \in Worker, NEW p \in Plan, NEW epoch \in 0 .. MaxEpoch,
           ProposeEffect(w, p, epoch)
    PROVE  \E j \in Job :
              /\ Private(w, j)
              /\ job[w].kind = "ready"
              /\ j.kind = "propose" /\ j.base = {job[w].base}
              /\ j.next = WithEffect(job[w].base, Intent(p, epoch, clock))
              /\ j.may = "sign" /\ j.plan = {p}
              /\ Intent(p, epoch, clock) \in FinancialEffectIntent
              /\ PlansOf(Intent(p, epoch, clock)) = {p}
              /\ ProposesEffect(job[w].base, Intent(p, epoch, clock), job[w].seen,
                                job[w].ack, clock)
  <1> DEFINE j == [kind |-> "propose", base |-> {job[w].base},
                   next |-> WithEffect(job[w].base, Intent(p, epoch, clock)),
                   may |-> "sign", plan |-> {p}]
  <1>1. job[w].kind = "ready" /\ job[w].base \in FinancialOperationState
    BY JobFields DEF ProposeEffect, Typed, TypeOK
  <1>2. clock \in 1 .. MaxTime
    BY DEF Typed, TypeOK
  <1>3. /\ Intent(p, epoch, clock) \in FinancialEffectIntent
        /\ PlansOf(Intent(p, epoch, clock)) = {p}
    BY <1>2, PlanIntended
  <1>4. WithEffect(job[w].base, Intent(p, epoch, clock)) \in FinancialOperationState
    BY <1>1, <1>3, WithEffectFacts
  <1>5. j \in Job
    BY <1>1, <1>4 DEF Job
  <1>6. Private(w, j)
    BY DEF ProposeEffect, Private
  <1>7. ProposesEffect(job[w].base, Intent(p, epoch, clock), job[w].seen, job[w].ack, clock)
    BY DEF ProposeEffect
  <1> QED
    BY <1>7, <1>6, <1>5, <1>3, <1>1

LEMMA ProposeObservationTyped ==
    ASSUME Typed, NEW w \in Worker, NEW i, NEW k, ProposeObservation(w, i, k)
    PROVE  \E j \in Job, o \in FinancialEffectObservation :
              /\ Private(w, j)
              /\ job[w].kind = "ready" /\ i \in DOMAIN job[w].base.effects
              /\ j.kind = "propose" /\ j.base = {job[w].base}
              /\ j.next = WithObservation(job[w].base, i, o)
              /\ j.may = IF o.state = "BROADCAST_CLAIMED_UNKNOWN" THEN "send" ELSE "nothing"
              /\ j.plan = PlansOf(job[w].base.effects[i].intent)
              /\ ProposesObservation(job[w].base, i, o, job[w].ack, clock)
              /\ o \in TruthfulObservations(job[w].base.effects[i].intent, job[w].seen)
  <1> DEFINE st == job[w].base
  <1>1. /\ job[w].kind = "ready" /\ st \in FinancialOperationState
        /\ job[w].seen \in ServicePrincipalObservation
    BY JobFields DEF ProposeObservation, Typed, TypeOK
  <1>2. {i, k} \subseteq DOMAIN st.effects
    BY DEF ProposeObservation
  <1>3. PICK o \in TruthfulObservations(st.effects[k].intent, job[w].seen) :
            /\ ProposesObservation(st, i, o, job[w].ack, clock)
            /\ job' = [job EXCEPT ![w] =
                         [kind |-> "propose", base |-> {st},
                          next |-> WithObservation(st, i, o),
                          may |-> IF o.state = "BROADCAST_CLAIMED_UNKNOWN"
                                  THEN "send" ELSE "nothing",
                          plan |-> PlansOf(st.effects[i].intent)]]
    BY DEF ProposeObservation
  <1> DEFINE j == [kind |-> "propose", base |-> {st}, next |-> WithObservation(st, i, o),
                   may |-> IF o.state = "BROADCAST_CLAIMED_UNKNOWN"
                           THEN "send" ELSE "nothing",
                   plan |-> PlansOf(st.effects[i].intent)]
  <1>4. st.effects[k].intent \in FinancialEffectIntent
    BY <1>1, <1>2, EffectTyped
  <1>5. o \in FinancialEffectObservation /\ o.intent = st.effects[k].intent
    BY <1>4, <1>3, <1>1, Presented
  <1>6. WithObservation(st, i, o) \in FinancialOperationState
    BY <1>5, <1>2, <1>1, WithObservationFacts
  <1>7. j \in Job
    <2>1. PlansOf(st.effects[i].intent) \subseteq Plan
      BY DEF PlansOf
    <2> HIDE DEF st
    <2> QED
      BY <2>1, <1>6, <1>1 DEF Job
  <1>8. Private(w, j)
    BY <1>3 DEF ProposeObservation, Private
  <1>9. o.intent = st.effects[i].intent
    BY <1>3 DEF ProposesObservation, Observable
  <1> QED
    BY <1>9, <1>8, <1>7, <1>5, <1>3, <1>2, <1>1

\* A swap replaces the one committed state and hands out what it grants.
LEMMA PersistTyped ==
    ASSUME Typed, NEW w \in Worker, Persist(w)
    PROVE  /\ Typed'
           /\ job[w].kind = "propose" /\ db = job[w].base /\ db' = {job[w].next}
           /\ UNCHANGED <<standing, lapsed, wire, uses, clock>>
           /\ \/ job[w].may = "nothing" /\ job' = [job EXCEPT ![w] = Idle]
              \/ /\ job[w].may \in {"sign", "send"}
                 /\ \E p \in job[w].plan :
                       job' = [job EXCEPT ![w] = [kind |-> job[w].may, plan |-> p]]
  <1>1. /\ job[w] \in Job /\ job[w].kind = "propose" /\ db' = {job[w].next}
        /\ db = job[w].base
        /\ job \in [Worker -> Job]
        /\ UNCHANGED <<standing, lapsed, wire, uses, clock, crashes>>
    BY DEF Persist, Typed, TypeOK
  <1>2. /\ job[w].next \in FinancialOperationState
        /\ job[w].may \in {"nothing", "sign", "send"} /\ job[w].plan \subseteq Plan
    BY <1>1, JobFields
  <1>3. Idle \in Job
    BY DEF Job
  <1>4. \/ job[w].may = "nothing" /\ job' = [job EXCEPT ![w] = Idle]
        \/ /\ job[w].may \in {"sign", "send"}
           /\ \E p \in job[w].plan :
                 job' = [job EXCEPT ![w] = [kind |-> job[w].may, plan |-> p]]
    BY <1>2 DEF Persist
  <1>5. job' \in [Worker -> Job]
    <2>1. CASE job' = [job EXCEPT ![w] = Idle]
      BY <2>1, <1>3, <1>1
    <2>2. ASSUME NEW p \in job[w].plan, job[w].may \in {"sign", "send"},
                 job' = [job EXCEPT ![w] = [kind |-> job[w].may, plan |-> p]]
          PROVE  job' \in [Worker -> Job]
      <3>1. [kind |-> job[w].may, plan |-> p] \in Job
        BY <1>2, <2>2 DEF Job
      <3> QED
        BY <3>1, <2>2, <1>1
    <2> QED
      BY <2>2, <2>1, <1>4
  <1>6. Typed'
    BY <1>5, <1>2, <1>1 DEF Typed, TypeOK
  <1> QED
    BY <1>6, <1>4, <1>1

LEMMA UseTyped ==
    ASSUME Typed, NEW w \in Worker, Sign(w) \/ Send(w)
    PROVE  /\ Typed'
           /\ job[w].plan \in Plan /\ job[w].kind \in {"sign", "send"}
  <1>1. job[w] \in Job /\ job[w].kind \in {"sign", "send"}
    BY DEF Sign, Send, Typed, TypeOK
  <1>2. job[w].plan \in Plan
    BY <1>1, JobFields
  <1>3. Idle \in Job
    BY DEF Job
  <1>4. job' \in [Worker -> Job]
    BY <1>3 DEF Sign, Send, Typed, TypeOK
  <1> DEFINE p == job[w].plan
             Wire == [state: {"unsigned", "signed", "sent", "confirmed", "failed"},
                      debit: NativeLiabilityVector]
             Use == [sign: Nat, send: Nat]
  <1>5. wire' \in [Plan -> Wire]
    <2>1. wire \in [Plan -> Wire] /\ wire[p] \in Wire
      BY <1>2 DEF Typed, TypeOK
    <2>2. \A t \in Wire, s \in {"signed", "sent"} :
             [state |-> s, debit |-> t.debit] \in Wire
      OBVIOUS
    <2>3. \E s \in {"signed", "sent"} :
             wire' = [wire EXCEPT ![p] = [state |-> s, debit |-> wire[p].debit]]
      BY DEF Sign, Send
    <2> HIDE DEF Wire, p
    <2> QED
      BY <2>3, <2>2, <2>1
  <1>6. uses' \in [Plan -> Use]
    <2>1. uses \in [Plan -> Use] /\ uses[p] \in Use
      BY <1>2 DEF Typed, TypeOK
    <2>2. \A u \in Use : /\ [sign |-> u.sign + 1, send |-> u.send] \in Use
                          /\ [sign |-> u.sign, send |-> u.send + 1] \in Use
      OBVIOUS
    <2>3. \/ uses' = [uses EXCEPT ![p] = [sign |-> uses[p].sign + 1, send |-> uses[p].send]]
          \/ uses' = [uses EXCEPT ![p] = [sign |-> uses[p].sign, send |-> uses[p].send + 1]]
      BY DEF Sign, Send
    <2> HIDE DEF Use, p
    <2> QED
      BY <2>3, <2>2, <2>1
  <1>7. UNCHANGED <<db, standing, lapsed, clock, crashes>>
    BY DEF Sign, Send
  <1> QED
    BY <1>7, <1>6, <1>5, <1>4, <1>2, <1>1 DEF Typed, TypeOK

LEMMA SurroundingsTyped == ASSUME Typed, Surroundings PROVE Typed'
  <1>1. CASE Tick
    <2>1. clock' \in 1 .. MaxTime
      BY <1>1, BoundsTyped DEF Tick, Typed, TypeOK
    <2> QED
      BY <1>1, <2>1 DEF Tick, Typed, TypeOK
  <1>2. ASSUME NEW s \in Principal, Revoke(s) PROVE Typed'
    <2>1. [principal |-> s, epoch |-> standing[s].epoch, at |-> clock]
              \in [principal: Principal, epoch: 0 .. MaxEpoch, at: 1 .. MaxTime]
      BY DEF Typed, TypeOK
    <2>2. standing' \in [Principal -> [epoch: 0 .. MaxEpoch, active: BOOLEAN]]
      BY <1>2 DEF Revoke, Typed, TypeOK
    <2>3. \A r \in Principal : ~standing'[r].active => standing'[r].epoch < MaxEpoch
      BY <1>2 DEF Revoke, Typed, TypeOK
    <2> QED
      BY <2>3, <2>2, <2>1, <1>2 DEF Revoke, Typed, TypeOK
  <1>3. ASSUME NEW s \in Principal, Reinstate(s) PROVE Typed'
    <2>1. /\ ~standing[s].active /\ standing[s].epoch \in 0 .. MaxEpoch
          /\ standing[s].epoch < MaxEpoch
      BY <1>3 DEF Reinstate, Typed, TypeOK
    <2>2. standing[s].epoch + 1 \in 0 .. MaxEpoch
      BY <2>1, BoundsTyped
    <2>3. /\ standing' = [standing EXCEPT ![s] = [epoch |-> standing[s].epoch + 1,
                                                  active |-> TRUE]]
          /\ UNCHANGED <<db, job, lapsed, wire, uses, clock, crashes>>
      BY <1>3 DEF Reinstate
    <2> QED
      BY <2>2, <2>3 DEF Typed, TypeOK
  <1>4. ASSUME NEW p \in Plan, NEW v \in Debit[p], NEW outcome \in {"confirmed", "failed"},
               Land(p, outcome, v)
        PROVE  Typed'
    <2>1. v \in NativeLiabilityVector
      BY FundingAssumption
    <2> QED
      BY <1>4, <2>1 DEF Land, Typed, TypeOK
  <1> QED
    BY <1>4, <1>3, <1>2, <1>1 DEF Surroundings

LEMMA IdleTyped == ASSUME Typed, NEW w, GiveUp(w) \/ Crash(w) PROVE Typed' /\ Private(w, Idle)
  <1>1. Idle \in Job
    BY DEF Job
  <1>2. Private(w, Idle) /\ crashes' \in Nat
    BY DEF GiveUp, Crash, Private, Typed, TypeOK
  <1> QED
    BY <1>1, <1>2, PrivateTyped

LEMMA NextTyped == Typed /\ [Next]_vars => Typed'
<1> SUFFICES ASSUME Typed, [Next]_vars PROVE Typed'
  OBVIOUS
<1>1. CASE UNCHANGED vars
  BY <1>1 DEF vars, Typed, TypeOK
<1>2. CASE Surroundings
  BY <1>2, SurroundingsTyped
<1>3. ASSUME NEW w \in Worker, WorkerStep(w) PROVE Typed'
  <2>1. ASSUME NEW m \in Maximum, ProposeMaximum(w, m) PROVE Typed'
    BY <2>1, ProposeMaximumTyped, PrivateTyped DEF ProposeMaximum, Typed, TypeOK
  <2>2. CASE Load(w)
    BY <2>2, LoadTyped, PrivateTyped DEF Load, Typed, TypeOK
  <2>3. ASSUME NEW s \in Principal, Acknowledge(w, s) PROVE Typed'
    BY <2>3, AcknowledgeTyped, PrivateTyped DEF Acknowledge, Typed, TypeOK
  <2>4. ASSUME NEW p \in Plan, NEW epoch \in 0 .. MaxEpoch, ProposeEffect(w, p, epoch)
        PROVE  Typed'
    BY <2>4, ProposeEffectTyped, PrivateTyped DEF ProposeEffect, Typed, TypeOK
  <2>5. ASSUME NEW i, NEW k, ProposeObservation(w, i, k) PROVE Typed'
    <3>1. crashes' = crashes
      BY <2>5 DEF ProposeObservation
    <3>2. PICK j \in Job : Private(w, j)
      BY <2>5, ProposeObservationTyped
    <3>3. crashes' \in Nat
      BY <3>1 DEF Typed, TypeOK
    <3> QED
      BY <3>2, <3>3, PrivateTyped
  <2>6. CASE Persist(w)
    BY <2>6, PersistTyped
  <2>7. CASE Sign(w) \/ Send(w)
    BY <2>7, UseTyped
  <2>8. CASE GiveUp(w) \/ Crash(w)
    BY <2>8, IdleTyped
  <2> QED
    BY <2>8, <2>7, <2>6, <2>5, <2>4, <2>3, <2>2, <2>1, <1>3 DEF WorkerStep
<1> QED
  BY <1>3, <1>2, <1>1 DEF Next

\* What is committed, in memory and on the wire stays well typed, and the operation
\* has one committed state at most.  operation_exposure.py:548 constructs that state.
THEOREM TypeCorrect == Spec => []TypeOK
<1>1. Typed => TypeOK
  BY DEF Typed
<1> QED
  BY <1>1, InitTyped, NextTyped, PTL DEF Spec

----
\* The states that are committed or held, and where new ones come from.
Held(j) ==
    IF j.kind \in {"loaded", "ready"} THEN {j.base}
    ELSE IF j.kind = "propose" THEN {j.next}
    ELSE {}

Known == db \cup UNION {Held(job[w]) : w \in Worker}

LEMMA KnownTyped == ASSUME Typed, NEW st \in Known PROVE st \in FinancialOperationState
  <1>1. CASE st \in db
    BY <1>1 DEF Typed, TypeOK
  <1>2. ASSUME NEW w \in Worker, st \in Held(job[w]) PROVE st \in FinancialOperationState
    <2>1. job[w] \in Job
      BY DEF Typed, TypeOK
    <2> QED
      BY <1>2, <2>1, JobFields DEF Held
  <1> QED
    BY <1>1, <1>2 DEF Known

\* The ways in which a state is made.
ByMaximum(st) == \E m \in Maximum : st = ProposeOperationMaximum(m)

ByEffect(st) ==
    \E w \in Worker, p \in Plan, epoch \in 0 .. MaxEpoch :
        LET intent == Intent(p, epoch, clock) IN
        /\ job[w].kind = "ready"
        /\ st = WithEffect(job[w].base, intent)
        /\ ProposesEffect(job[w].base, intent, job[w].seen, job[w].ack, clock)

ByObservation(st) ==
    \E w \in Worker : \E i \in DOMAIN job[w].base.effects :
    \E o \in TruthfulObservations(job[w].base.effects[i].intent, job[w].seen) :
        /\ job[w].kind = "ready"
        /\ st = WithObservation(job[w].base, i, o)
        /\ ProposesObservation(job[w].base, i, o, job[w].ack, clock)

LEMMA KnownMoves ==
    ASSUME Typed, [Next]_vars, NEW st \in Known'
    PROVE  st \in Known \/ ByMaximum(st) \/ ByEffect(st) \/ ByObservation(st)
  <1>1. ASSUME NEW w \in Worker, NEW j \in Job, Private(w, j)
        PROVE  st \in Known \/ st \in Held(j)
    <2>1. job' = [job EXCEPT ![w] = j] /\ db' = db
      BY <1>1 DEF Private
    <2>2. \A v \in Worker : job'[v] = job[v] \/ job'[v] = j
      BY <2>1 DEF Typed, TypeOK
    <2>3. st \in db' \/ \E v \in Worker : st \in Held(job'[v])
      BY DEF Known
    <2> QED
      BY <2>3, <2>2, <2>1 DEF Known
  <1>2. ASSUME UNCHANGED <<db, job>> PROVE st \in Known
    BY <1>2 DEF Known
  <1>3. CASE Surroundings
    BY <1>2, <1>3 DEF Surroundings, Tick, Revoke, Reinstate, Land
  <1>4. ASSUME NEW w \in Worker, NEW m \in Maximum, ProposeMaximum(w, m)
        PROVE  st \in Known \/ ByMaximum(st)
    <2>1. PICK j \in Job : Private(w, j) /\ j.kind = "propose"
                           /\ j.next = ProposeOperationMaximum(m)
      BY <1>4, ProposeMaximumTyped
    <2> QED
      BY <1>1, <2>1 DEF Held, ByMaximum
  <1>5. ASSUME NEW w \in Worker, Load(w) PROVE st \in Known
    <2>1. PICK j \in Job : Private(w, j) /\ j.kind = "loaded" /\ j.base \in db
      BY <1>5, LoadTyped
    <2> QED
      BY <1>1, <2>1 DEF Held, Known
  <1>6. ASSUME NEW w \in Worker, NEW s \in Principal, Acknowledge(w, s) PROVE st \in Known
    <2>1. PICK j \in Job : Private(w, j) /\ j.kind = "ready" /\ j.base = job[w].base
                           /\ job[w].kind = "loaded"
      BY <1>6, AcknowledgeTyped
    <2>2. Held(j) = Held(job[w])
      BY <2>1 DEF Held
    <2> QED
      BY <2>2, <2>1, <1>1 DEF Known
  <1>7. ASSUME NEW w \in Worker, NEW p \in Plan, NEW epoch \in 0 .. MaxEpoch,
               ProposeEffect(w, p, epoch)
        PROVE  st \in Known \/ ByEffect(st)
    <2>1. PICK j \in Job :
              /\ Private(w, j) /\ j.kind = "propose" /\ job[w].kind = "ready"
              /\ j.next = WithEffect(job[w].base, Intent(p, epoch, clock))
              /\ ProposesEffect(job[w].base, Intent(p, epoch, clock), job[w].seen,
                                job[w].ack, clock)
      BY <1>7, ProposeEffectTyped
    <2> QED
      BY <1>1, <2>1 DEF Held, ByEffect
  <1>8. ASSUME NEW w \in Worker, NEW i, NEW k, ProposeObservation(w, i, k)
        PROVE  st \in Known \/ ByObservation(st)
    <2>1. PICK j \in Job, o \in FinancialEffectObservation :
              /\ Private(w, j) /\ j.kind = "propose" /\ job[w].kind = "ready"
              /\ i \in DOMAIN job[w].base.effects
              /\ j.next = WithObservation(job[w].base, i, o)
              /\ ProposesObservation(job[w].base, i, o, job[w].ack, clock)
              /\ o \in TruthfulObservations(job[w].base.effects[i].intent, job[w].seen)
      BY <1>8, ProposeObservationTyped
    <2>2. st \in Known \/ st = j.next
      BY <1>1, <2>1 DEF Held
    <2> QED
      BY <2>1, <2>2 DEF ByObservation
  <1>9. ASSUME NEW w \in Worker, Persist(w) PROVE st \in Known
    <2>1. job[w].kind = "propose" /\ db' = {job[w].next}
      BY <1>9, PersistTyped
    <2>2. PICK j : job' = [job EXCEPT ![w] = j] /\ j.kind \in {"idle", "sign", "send"}
      <3>1. CASE job' = [job EXCEPT ![w] = Idle]
        <4>1. Idle.kind \in {"idle", "sign", "send"}
          BY DEF Idle
        <4> QED
          BY <3>1, <4>1
      <3>2. ASSUME NEW p, job[w].may \in {"sign", "send"},
                   job' = [job EXCEPT ![w] = [kind |-> job[w].may, plan |-> p]]
            PROVE  \E j : job' = [job EXCEPT ![w] = j] /\ j.kind \in {"idle", "sign", "send"}
        <4>1. [kind |-> job[w].may, plan |-> p].kind \in {"sign", "send"}
          BY <3>2
        <4> QED
          BY <3>2, <4>1
      <3> QED
        BY <3>2, <3>1, <1>9, PersistTyped
    <2>3. \A v \in Worker : job'[v] = job[v] \/ job'[v] = j
      BY <2>2 DEF Typed, TypeOK
    <2>4. st \in db' \/ \E v \in Worker : st \in Held(job'[v])
      BY DEF Known
    <2>5. Held(j) = {} /\ job[w].next \in Held(job[w])
      BY <2>1, <2>2 DEF Held
    <2> QED
      BY <2>5, <2>4, <2>3, <2>1 DEF Known
  <1>10. ASSUME NEW w \in Worker, Sign(w) \/ Send(w) \/ GiveUp(w) \/ Crash(w)
         PROVE  st \in Known
    <2>1. job' = [job EXCEPT ![w] = Idle] /\ db' = db
      BY <1>10 DEF Sign, Send, GiveUp, Crash
    <2>2. \A v \in Worker : job'[v] = job[v] \/ job'[v] = Idle
      BY <2>1 DEF Typed, TypeOK
    <2>3. Held(Idle) = {}
      BY DEF Held, Idle
    <2>4. st \in db' \/ \E v \in Worker : st \in Held(job'[v])
      BY DEF Known
    <2> QED
      BY <2>4, <2>3, <2>2, <2>1 DEF Known
  <1>11. ASSUME NEW w \in Worker, WorkerStep(w)
         PROVE  st \in Known \/ ByMaximum(st) \/ ByEffect(st) \/ ByObservation(st)
    BY <1>11, <1>10, <1>9, <1>8, <1>7, <1>6, <1>5, <1>4 DEF WorkerStep
  <1> QED
    BY <1>11, <1>3, <1>2 DEF Next, vars

----
\* Every such state is valid, and its records are a plan's, of the past,
\* and within the validity of what was known of their principals.
Attributed(rec) ==
    /\ PlansOf(rec.intent) # {}
    /\ \A n \in DOMAIN rec.observations :
          rec.observations[n].state # "PROVEN_NOT_SIGNED" =>
              rec.observations[n].tx = rec.intent.doc

Timely(rec, now) ==
    /\ rec.intent.createdAt <= now
    /\ \A n \in DOMAIN rec.observations : rec.observations[n].observedAt <= now

InForce(rec, past) ==
    (rec.intent.principal = past.principal /\ rec.intent.epoch = past.epoch) =>
        /\ rec.intent.createdAt <= past.at + Ttl
        /\ \A n \in DOMAIN rec.observations :
              rec.observations[n].state = "BROADCAST_CLAIMED_UNKNOWN" =>
                  rec.observations[n].observedAt <= past.at + Ttl

Sound(rec, now, lapses) ==
    /\ Attributed(rec)
    /\ Timely(rec, now)
    /\ \A past \in lapses : InForce(rec, past)

StatesSound ==
    \A st \in Known :
        /\ ValidOperation(st)
        /\ \A i \in DOMAIN st.effects : Sound(st.effects[i], clock, lapsed)

\* What a worker has seen of its principal was so before any later revocation.
LapsesBound ==
    /\ \A past \in lapsed :
          /\ past.at <= clock
          /\ past.epoch <= standing[past.principal].epoch
          /\ past.epoch = standing[past.principal].epoch => ~standing[past.principal].active
    /\ \A w \in Worker : job[w].kind = "ready" =>
          /\ job[w].seen.observedAt <= clock
          /\ job[w].seen.validUntil = job[w].seen.observedAt + Ttl
          /\ \A past \in lapsed :
                (/\ job[w].seen.active
                 /\ job[w].seen.principal = past.principal
                 /\ job[w].seen.epoch = past.epoch) => job[w].seen.observedAt <= past.at

LEMMA EmptyValid ==
    ASSUME NEW m PROVE ValidOperation(ProposeOperationMaximum(m))
  <1> DEFINE st == ProposeOperationMaximum(m)
  <1>1. st.effects = <<>> /\ st.revision = 0 /\ DOMAIN st.effects = {}
    BY DEF ProposeOperationMaximum
  <1> HIDE DEF st
  <1>2. Events(st.effects) = 0
    <2>1. UNION {{i} \X (0 .. Len(st.effects[i].observations)) : i \in DOMAIN st.effects} = {}
      BY <1>1, Zenon
    <2> QED
      BY <2>1, FS_EmptySet DEF Events
  <1>3. FinancialNativeUsage(st.effects).names = {}
    BY <1>1 DEF FinancialNativeUsage, AddNativeLiabilities
  <1>4. Covers(st.maximum.native, FinancialNativeUsage(st.effects))
    BY <1>3 DEF Covers
  <1>5. ValidOperation(st)
    BY <1>4, <1>2, <1>1 DEF ValidOperation, IdentitiesUnique, CreateFirst
  <1> QED
    BY <1>5 DEF st

\* Only an acknowledgement makes a worker ready.
LEMMA ReadyMoves ==
    ASSUME Typed, [Next]_vars, NEW w \in Worker, job'[w].kind = "ready"
    PROVE  \/ job'[w] = job[w]
           \/ /\ \E s \in Principal : job'[w].seen = Seen(s)
              /\ UNCHANGED <<standing, lapsed, clock>>
  <1>1. ASSUME NEW v \in Worker, NEW j \in Job, Private(v, j), j.kind # "ready"
        PROVE  job'[w] = job[w]
    BY <1>1 DEF Private, Typed, TypeOK
  <1>2. ASSUME NEW v \in Worker, WorkerStep(v), v # w PROVE job'[w] = job[w]
    BY <1>2 DEF WorkerStep, Typed, TypeOK, ProposeMaximum, Load, Acknowledge, ProposeEffect,
                ProposeObservation, Persist, Sign, Send, GiveUp, Crash
  <1>3. ASSUME NEW m \in Maximum, ProposeMaximum(w, m) PROVE job'[w] = job[w]
    BY <1>1, <1>3, ProposeMaximumTyped
  <1>4. CASE Load(w)
    BY <1>1, <1>4, LoadTyped
  <1>5. ASSUME NEW s \in Principal, Acknowledge(w, s)
        PROVE  job'[w].seen = Seen(s) /\ UNCHANGED <<standing, lapsed, clock>>
    <2>1. PICK j \in Job : Private(w, j) /\ j.seen = Seen(s)
      BY <1>5, AcknowledgeTyped
    <2> QED
      BY <2>1 DEF Private, Typed, TypeOK
  <1>6. ASSUME NEW p \in Plan, NEW epoch \in 0 .. MaxEpoch, ProposeEffect(w, p, epoch)
        PROVE  job'[w] = job[w]
    BY <1>1, <1>6, ProposeEffectTyped
  <1>7. ASSUME NEW i, NEW k, ProposeObservation(w, i, k) PROVE job'[w] = job[w]
    BY <1>1, <1>7, ProposeObservationTyped
  <1>8. CASE Persist(w)
    <2>1. CASE job' = [job EXCEPT ![w] = Idle]
      BY <2>1 DEF Idle, Typed, TypeOK
    <2>2. ASSUME NEW p, job[w].may \in {"sign", "send"},
                 job' = [job EXCEPT ![w] = [kind |-> job[w].may, plan |-> p]]
          PROVE  job'[w] = job[w]
      <3>1. job'[w] = [kind |-> job[w].may, plan |-> p]
        BY <2>2 DEF Typed, TypeOK
      <3>2. job'[w].kind = job[w].may
        BY <3>1
      <3> QED
        BY <2>2, <3>2
    <2> QED
      BY <2>2, <2>1, <1>8, PersistTyped
  <1>9. CASE Sign(w) \/ Send(w) \/ GiveUp(w) \/ Crash(w)
    <2>1. job' = [job EXCEPT ![w] = Idle]
      BY <1>9 DEF Sign, Send, GiveUp, Crash
    <2> QED
      BY <2>1 DEF Idle, Typed, TypeOK
  <1>10. CASE Surroundings \/ UNCHANGED vars
    BY <1>10 DEF vars, Surroundings, Tick, Revoke, Reinstate, Land
  <1>11. ASSUME WorkerStep(w)
         PROVE  \/ job'[w] = job[w]
                \/ /\ \E s \in Principal : job'[w].seen = Seen(s)
                   /\ UNCHANGED <<standing, lapsed, clock>>
    BY <1>11, <1>9, <1>8, <1>7, <1>6, <1>5, <1>4, <1>3 DEF WorkerStep
  <1> QED
    BY <1>11, <1>10, <1>2 DEF Next

\* What the registry and the clock do in a step.
LEMMA RegistryMoves ==
    ASSUME Typed, [Next]_vars
    PROVE  \/ UNCHANGED <<standing, lapsed, clock>>
           \/ clock' = clock + 1 /\ UNCHANGED <<standing, lapsed>>
           \/ \E s \in Principal :
                 /\ standing[s].active
                 /\ standing' = [standing EXCEPT ![s] = [epoch |-> standing[s].epoch,
                                                         active |-> FALSE]]
                 /\ lapsed' = lapsed \cup
                        {[principal |-> s, epoch |-> standing[s].epoch, at |-> clock]}
                 /\ clock' = clock
           \/ \E s \in Principal :
                 /\ standing' = [standing EXCEPT ![s] = [epoch |-> standing[s].epoch + 1,
                                                         active |-> TRUE]]
                 /\ UNCHANGED <<lapsed, clock>>
  <1>1. ASSUME NEW w \in Worker, WorkerStep(w) PROVE UNCHANGED <<standing, lapsed, clock>>
    BY <1>1 DEF WorkerStep, ProposeMaximum, Load, Acknowledge, ProposeEffect,
                ProposeObservation, Persist, Sign, Send, GiveUp, Crash
  <1>2. CASE Tick
    BY <1>2 DEF Tick
  <1>3. ASSUME NEW s \in Principal, Revoke(s)
        PROVE  /\ standing[s].active
               /\ standing' = [standing EXCEPT ![s] = [epoch |-> standing[s].epoch,
                                                       active |-> FALSE]]
               /\ lapsed' = lapsed \cup
                        {[principal |-> s, epoch |-> standing[s].epoch, at |-> clock]}
               /\ clock' = clock
    BY <1>3 DEF Revoke
  <1>4. ASSUME NEW s \in Principal, Reinstate(s)
        PROVE  /\ standing' = [standing EXCEPT ![s] = [epoch |-> standing[s].epoch + 1,
                                                       active |-> TRUE]]
               /\ UNCHANGED <<lapsed, clock>>
    BY <1>4 DEF Reinstate
  <1>5. ASSUME NEW p, NEW outcome, NEW v, Land(p, outcome, v)
        PROVE  UNCHANGED <<standing, lapsed, clock>>
    BY <1>5 DEF Land
  <1>6. CASE UNCHANGED vars
    BY <1>6 DEF vars
  <1> QED
    BY <1>6, <1>5, <1>4, <1>3, <1>2, <1>1 DEF Next, Surroundings

LEMMA LapsesStep == ASSUME Typed, LapsesBound, [Next]_vars PROVE LapsesBound'
  <1>1. /\ clock \in Nat /\ \A s \in Principal : standing[s].epoch \in Nat
        /\ \A past \in lapsed : past.principal \in Principal /\ past.at \in Nat
                                /\ past.epoch \in Nat
        /\ standing \in [Principal -> [epoch: 0 .. MaxEpoch, active: BOOLEAN]]
    BY BoundsTyped DEF Typed, TypeOK
  <1>2. \A w \in Worker : job[w].kind = "ready" => job[w].seen.observedAt \in Nat
    BY JobFields DEF Typed, TypeOK, ServicePrincipalObservation
  <1> DEFINE Old(seen) ==
               /\ seen.observedAt <= clock
               /\ seen.validUntil = seen.observedAt + Ttl
               /\ \A past \in lapsed :
                    (/\ seen.active
                     /\ seen.principal = past.principal
                     /\ seen.epoch = past.epoch) => seen.observedAt <= past.at
             New(seen) ==
               /\ seen.observedAt <= clock'
               /\ seen.validUntil = seen.observedAt + Ttl
               /\ \A past \in lapsed' :
                    (/\ seen.active
                     /\ seen.principal = past.principal
                     /\ seen.epoch = past.epoch) => seen.observedAt <= past.at
  <1>3. ASSUME NEW seen, seen.observedAt \in Nat, Old(seen) PROVE New(seen)
    <2>1. CASE UNCHANGED <<lapsed, clock>>
      BY <1>3, <2>1
    <2>2. CASE clock' = clock + 1 /\ UNCHANGED lapsed
      BY <2>2, <1>3, <1>1
    <2>3. ASSUME NEW s \in Principal, clock' = clock,
                 lapsed' = lapsed \cup
                        {[principal |-> s, epoch |-> standing[s].epoch, at |-> clock]}
          PROVE  New(seen)
      BY <1>3, <2>3
    <2> QED
      BY <2>3, <2>2, <2>1, RegistryMoves
  <1>4. ASSUME NEW s \in Principal PROVE Old(Seen(s))
    BY <1>1 DEF Seen, LapsesBound
  <1>5. ASSUME NEW w \in Worker, job'[w].kind = "ready" PROVE New(job'[w].seen)
    <2>1. CASE job'[w] = job[w]
      <3>1. Old(job[w].seen) /\ job[w].seen.observedAt \in Nat
        BY <2>1, <1>5, <1>2 DEF LapsesBound
      <3> HIDE DEF Old, New
      <3> QED
        BY <3>1, <2>1, <1>3
    <2>2. ASSUME NEW s \in Principal, job'[w].seen = Seen(s) PROVE New(job'[w].seen)
      <3>1. Old(Seen(s))
        BY <1>4
      <3>2. Seen(s).observedAt \in Nat
        BY <1>1 DEF Seen
      <3> HIDE DEF Old, New
      <3> QED
        BY <3>2, <3>1, <2>2, <1>3
    <2> HIDE DEF New
    <2> QED
      BY <2>2, <2>1, <1>5, ReadyMoves
  <1>6. \A past \in lapsed' :
          /\ past.at <= clock'
          /\ past.epoch <= standing'[past.principal].epoch
          /\ past.epoch = standing'[past.principal].epoch =>
                ~standing'[past.principal].active
    <2>1. CASE UNCHANGED <<standing, lapsed, clock>>
      BY <2>1 DEF LapsesBound
    <2>2. CASE clock' = clock + 1 /\ UNCHANGED <<standing, lapsed>>
      BY <1>1, <2>2 DEF LapsesBound
    <2>3. ASSUME NEW s \in Principal, clock' = clock,
                 standing' = [standing EXCEPT ![s] = [epoch |-> standing[s].epoch,
                                                      active |-> FALSE]],
                 lapsed' = lapsed \cup
                        {[principal |-> s, epoch |-> standing[s].epoch, at |-> clock]}
          PROVE  \A past \in lapsed' :
                    /\ past.at <= clock'
                    /\ past.epoch <= standing'[past.principal].epoch
                    /\ past.epoch = standing'[past.principal].epoch =>
                          ~standing'[past.principal].active
      BY <1>1, <2>3 DEF LapsesBound
    <2>4. ASSUME NEW s \in Principal,
                 standing' = [standing EXCEPT ![s] = [epoch |-> standing[s].epoch + 1,
                                                      active |-> TRUE]],
                 UNCHANGED <<lapsed, clock>>
          PROVE  \A past \in lapsed' :
                    /\ past.at <= clock'
                    /\ past.epoch <= standing'[past.principal].epoch
                    /\ past.epoch = standing'[past.principal].epoch =>
                          ~standing'[past.principal].active
      BY <1>1, <2>4 DEF LapsesBound
    <2> QED
      BY <2>4, <2>3, <2>2, <2>1, RegistryMoves
  <1> QED
    BY <1>5, <1>6 DEF LapsesBound

LEMMA StatesSoundStep ==
    ASSUME Typed, LapsesBound, StatesSound, [Next]_vars PROVE StatesSound'
  <1>1. /\ clock \in Nat /\ clock \in 1 .. MaxTime /\ Ttl \in Nat
        /\ \A past \in lapsed : past.at \in Nat
    BY BoundsTyped DEF Typed, TypeOK
  <1>2. ASSUME NEW rec \in FinancialEffectRecord
        PROVE  /\ rec.intent.createdAt \in Nat
               /\ \A n \in DOMAIN rec.observations : rec.observations[n].observedAt \in Nat
    <2>1. rec.intent.createdAt \in Nat
      BY DEF FinancialEffectRecord, FinancialEffectIntent
    <2>2. ASSUME NEW n \in DOMAIN rec.observations PROVE rec.observations[n].observedAt \in Nat
      <3> DEFINE obs == rec.observations
      <3>1. obs \in Seq(FinancialEffectObservation)
        BY DEF FinancialEffectRecord
      <3>2. obs[n] \in FinancialEffectObservation
        BY <3>1
      <3>3. \A o \in FinancialEffectObservation : o.observedAt \in Nat
        BY DEF FinancialEffectObservation
      <3> QED
        BY <3>2, <3>3
    <2> QED
      BY <2>1, <2>2
  \* Time and revocations leave a sound record sound.
  <1>3. ASSUME NEW rec \in FinancialEffectRecord, Sound(rec, clock, lapsed)
        PROVE  Sound(rec, clock', lapsed')
    <2>1. /\ rec.intent.createdAt \in Nat /\ rec.intent.createdAt <= clock
          /\ \A n \in DOMAIN rec.observations : /\ rec.observations[n].observedAt \in Nat
                                                /\ rec.observations[n].observedAt <= clock
      BY <1>2, <1>3 DEF Sound, Timely
    <2>2. clock' >= clock /\ clock' \in Nat
      BY <1>1, RegistryMoves
    <2>3. Timely(rec, clock')
      BY <2>2, <2>1, <1>1 DEF Timely
    <2>4. ASSUME NEW past \in lapsed' PROVE InForce(rec, past)
      <3>1. past \in lapsed \/ past.at = clock
        BY RegistryMoves
      <3>2. CASE past.at = clock
        BY <3>2, <2>1, <1>1 DEF InForce
      <3> QED
        BY <3>2, <3>1, <1>3 DEF Sound
    <2> QED
      BY <2>4, <2>3, <1>3 DEF Sound
  <1>4. ASSUME NEW st \in Known
        PROVE  /\ st \in FinancialOperationState
               /\ ValidOperation(st)
               /\ \A i \in DOMAIN st.effects : /\ st.effects[i] \in FinancialEffectRecord
                                               /\ Sound(st.effects[i], clock, lapsed)
                                               /\ Sound(st.effects[i], clock', lapsed')
    <2>1. st \in FinancialOperationState
      BY KnownTyped
    <2>2. ValidOperation(st) /\ \A i \in DOMAIN st.effects : Sound(st.effects[i], clock, lapsed)
      BY DEF StatesSound
    <2>3. ASSUME NEW i \in DOMAIN st.effects PROVE st.effects[i] \in FinancialEffectRecord
      BY <2>1, EffectTyped
    <2> QED
      BY <2>3, <2>2, <2>1, <1>3
  <1> SUFFICES ASSUME NEW st \in Known'
               PROVE  /\ ValidOperation(st)
                      /\ \A i \in DOMAIN st.effects : Sound(st.effects[i], clock', lapsed')
    BY DEF StatesSound
  <1>5. CASE st \in Known
    BY <1>4, <1>5
  <1>6. CASE ByMaximum(st)
    <2>1. PICK m \in Maximum : st = ProposeOperationMaximum(m)
      BY <1>6 DEF ByMaximum
    <2>2. DOMAIN st.effects = {}
      BY <2>1 DEF ProposeOperationMaximum
    <2> QED
      BY <2>1, <2>2, EmptyValid
  <1>7. CASE ByEffect(st)
    <2>1. PICK w \in Worker, p \in Plan, epoch \in 0 .. MaxEpoch :
              /\ job[w].kind = "ready"
              /\ st = WithEffect(job[w].base, Intent(p, epoch, clock))
              /\ ProposesEffect(job[w].base, Intent(p, epoch, clock), job[w].seen,
                                job[w].ack, clock)
      BY <1>7 DEF ByEffect
    <2> DEFINE old == job[w].base
               intent == Intent(p, epoch, clock)
               seen == job[w].seen
    <2>2. old \in Known
      BY <2>1 DEF Known, Held
    <2>3. intent \in FinancialEffectIntent /\ PlansOf(intent) = {p}
      BY <1>1, PlanIntended
    <2>4. Reserves(old, st, intent)
      BY <2>3, <2>2, <2>1, <1>4, WithEffectFacts
    <2>5. ValidOperation(st) /\ PrincipalCurrent(intent, seen, clock)
      BY <2>1 DEF ProposesEffect
    <2>6. Sound(Fresh(intent), clock, lapsed)
      <3>1. Fresh(intent).intent = intent /\ DOMAIN Fresh(intent).observations = {}
        BY <2>3, FreshFacts
      <3>2. Attributed(Fresh(intent))
        BY <2>3, <3>1 DEF Attributed
      <3>3. intent.createdAt = clock
        BY DEF Intent
      <3>4. Timely(Fresh(intent), clock)
        BY <3>3, <3>1, <1>1 DEF Timely
      <3>5. /\ intent.principal = seen.principal /\ intent.epoch = seen.epoch /\ seen.active
            /\ clock <= seen.validUntil
        BY <2>5 DEF PrincipalCurrent
      <3>6. /\ seen.observedAt \in Nat /\ seen.validUntil = seen.observedAt + Ttl
            /\ \A past \in lapsed :
                  (seen.active /\ seen.principal = past.principal /\ seen.epoch = past.epoch) =>
                      seen.observedAt <= past.at
        <4>1. seen \in ServicePrincipalObservation
          BY <2>1, JobFields DEF Typed, TypeOK
        <4> QED
          BY <2>1, <4>1 DEF LapsesBound, ServicePrincipalObservation
      <3> HIDE DEF seen, intent
      <3>7. ASSUME NEW past \in lapsed PROVE InForce(Fresh(intent), past)
        BY <3>6, <3>5, <3>3, <3>1, <1>1 DEF InForce
      <3> QED
        BY <3>7, <3>4, <3>2 DEF Sound
    <2>7. Sound(Fresh(intent), clock', lapsed')
      BY <2>6, <2>3, <1>3, FreshFacts
    <2> HIDE DEF old, intent
    <2>8. ASSUME NEW i \in DOMAIN st.effects
          PROVE  st.effects[i] = Fresh(intent)
                 \/ (i \in DOMAIN old.effects /\ st.effects[i] = old.effects[i])
      BY <2>4 DEF Reserves
    <2>9. ASSUME NEW i \in DOMAIN st.effects PROVE Sound(st.effects[i], clock', lapsed')
      <3>1. CASE st.effects[i] = Fresh(intent)
        BY <2>7, <3>1
      <3>2. CASE i \in DOMAIN old.effects /\ st.effects[i] = old.effects[i]
        BY <3>2, <2>2, <1>4
      <3> QED
        BY <3>2, <3>1, <2>8
    <2> QED
      BY <2>5, <2>9
  <1>8. CASE ByObservation(st)
    <2>1. PICK w \in Worker : \E i \in DOMAIN job[w].base.effects :
              \E o \in TruthfulObservations(job[w].base.effects[i].intent, job[w].seen) :
                  /\ job[w].kind = "ready"
                  /\ st = WithObservation(job[w].base, i, o)
                  /\ ProposesObservation(job[w].base, i, o, job[w].ack, clock)
      BY <1>8 DEF ByObservation
    <2> DEFINE old == job[w].base
               seen == job[w].seen
    <2>2. PICK i \in DOMAIN old.effects :
              \E o \in TruthfulObservations(old.effects[i].intent, seen) :
                  /\ job[w].kind = "ready"
                  /\ st = WithObservation(old, i, o)
                  /\ ProposesObservation(old, i, o, job[w].ack, clock)
      BY <2>1
    <2>3. PICK o \in TruthfulObservations(old.effects[i].intent, seen) :
              /\ job[w].kind = "ready"
              /\ st = WithObservation(old, i, o)
              /\ ProposesObservation(old, i, o, job[w].ack, clock)
      BY <2>2
    <2> DEFINE rec == old.effects[i]
    <2>4. old \in Known
      BY <2>3 DEF Known, Held
    <2>5. /\ old \in FinancialOperationState /\ rec \in FinancialEffectRecord
          /\ rec.intent \in FinancialEffectIntent /\ Sound(rec, clock, lapsed)
      BY <1>4, <2>4, EffectTyped
    <2>6. seen \in ServicePrincipalObservation
      BY <2>3, JobFields DEF Typed, TypeOK
    <2>7. ValidOperation(st) /\ Observable(rec, o) /\ o.observedAt <= clock
      BY <2>3 DEF ProposesObservation
    <2> HIDE DEF old, seen, rec
    <2>8. o \in FinancialEffectObservation
      BY <2>6, <2>5, <2>3, Presented DEF rec
    <2>9. Records(old, st, i, o)
      BY <2>8, <2>5, <2>3, <2>2, WithObservationFacts
    <2>10. Sound(More(rec, o), clock, lapsed)
      <3>1. /\ More(rec, o).intent = rec.intent
            /\ \A n \in DOMAIN More(rec, o).observations :
                  \/ More(rec, o).observations[n] = o
                  \/ /\ n \in DOMAIN rec.observations
                     /\ More(rec, o).observations[n] = rec.observations[n]
        BY <2>5, <2>8, MoreFacts
      <3>2. o.state # "PROVEN_NOT_SIGNED" => o.tx = rec.intent.doc
        <4>1. CASE o.state \in {"PROVEN_NOT_SIGNED", "SIGNED", "BROADCAST_CLAIMED_UNKNOWN"}
          BY <4>1, <2>6, <2>5, <2>3, Presented DEF rec
        <4>2. CASE o.state \in Terminal
          <5>1. EffectState(rec) = "BROADCAST_CLAIMED_UNKNOWN"
            BY <2>7, <4>2 DEF Observable, AllowedStates, Terminal
          <5>2. PICK n \in DOMAIN rec.observations :
                    rec.observations[n].state = "BROADCAST_CLAIMED_UNKNOWN"
            <6> DEFINE obs == rec.observations
            <6>1. obs \in Seq(FinancialEffectObservation)
              BY <2>5 DEF FinancialEffectRecord
            <6>2. obs # <<>> /\ obs[Len(obs)].state = "BROADCAST_CLAIMED_UNKNOWN"
              BY <5>1 DEF EffectState
            <6>3. Len(obs) \in DOMAIN obs
              BY <6>1, <6>2
            <6> QED
              BY <6>2, <6>3
          <5>3. rec.observations[n].tx = rec.intent.doc
            BY <2>5, <5>2 DEF Sound, Attributed
          <5>4. o.tx = rec.observations[n].tx
            BY <2>7, <4>2 DEF Observable, SameTransaction, Terminal
          <5> QED
            BY <5>3, <5>4
        <4>3. o.state \in {"PROVEN_NOT_SIGNED", "SIGNED", "BROADCAST_CLAIMED_UNKNOWN"}
              \/ o.state \in Terminal
          BY <2>8 DEF FinancialEffectObservation
        <4> QED
          BY <4>3, <4>2, <4>1
      <3>3. Attributed(More(rec, o))
        BY <3>2, <3>1, <2>5 DEF Sound, Attributed
      <3>4. Timely(More(rec, o), clock)
        BY <3>1, <2>7, <2>5 DEF Sound, Timely
      <3>5. ASSUME NEW past \in lapsed, o.state = "BROADCAST_CLAIMED_UNKNOWN",
                   rec.intent.principal = past.principal, rec.intent.epoch = past.epoch
            PROVE  o.observedAt <= past.at + Ttl
        <4>1. o.principal = seen /\ o.observedAt \in Nat
          <5>1. o.principal = seen
            BY <3>5, <2>6, <2>5, <2>3, Presented DEF rec, Terminal
          <5>2. o.observedAt \in Nat
            BY <2>8 DEF FinancialEffectObservation
          <5> QED
            BY <5>1, <5>2
        <4>2. PrincipalBound(rec.intent, o)
          BY <2>7, <3>5 DEF Observable
        <4>3. /\ seen.principal = past.principal /\ seen.epoch = past.epoch /\ seen.active
              /\ o.observedAt <= seen.validUntil
          BY <4>2, <4>1, <3>5 DEF PrincipalBound
        <4>4. seen.observedAt \in Nat
          BY <2>6 DEF ServicePrincipalObservation
        <4>5. seen.validUntil = seen.observedAt + Ttl /\ seen.observedAt <= past.at
          BY <2>3, <4>3 DEF LapsesBound, seen
        <4> QED
          BY <4>5, <4>4, <4>3, <4>1, <1>1
      <3>6. ASSUME NEW past \in lapsed PROVE InForce(More(rec, o), past)
        <4>1. InForce(rec, past)
          BY <2>5 DEF Sound
        <4> QED
          BY <4>1, <3>5, <3>1 DEF InForce
      <3> QED
        BY <3>6, <3>4, <3>3 DEF Sound
    <2>11. Sound(More(rec, o), clock', lapsed')
      BY <2>10, <2>8, <2>5, <1>3, MoreFacts
    <2>12. ASSUME NEW k \in DOMAIN st.effects PROVE Sound(st.effects[k], clock', lapsed')
      <3>1. CASE k = i
        BY <3>1, <2>11, <2>9 DEF Records, rec
      <3>2. CASE k # i
        <4>1. k \in DOMAIN old.effects /\ st.effects[k] = old.effects[k]
          BY <2>9, <3>2 DEF Records
        <4> QED
          BY <4>1, <2>4, <1>4
      <3> QED
        BY <3>1, <3>2
    <2> QED
      BY <2>7, <2>12
  <1> QED
    BY <1>8, <1>7, <1>6, <1>5, KnownMoves

----
\* What the committed state says of a transaction is true, and each grant
\* is one that nobody else has or had.
Signable == {p \in Plan : MayBeSigned(p)}

Sendable == {p \in Plan : \E w \in Worker : job[w].kind = "send" /\ job[w].plan = p}

Sent == {"BROADCAST_CLAIMED_UNKNOWN"} \cup Terminal

Truth(rec, wr, signable) ==
    \A p \in PlansOf(rec.intent) :
        /\ EffectState(rec) = "PROVEN_NOT_SIGNED" =>
              wr[p].state = "unsigned" /\ p \notin signable
        /\ EffectState(rec) \in {"SIGNED"} \cup Sent => wr[p].state # "unsigned"
        /\ EffectState(rec) \in Terminal =>
              /\ wr[p].state \in {"confirmed", "failed"}
              /\ wr[p].debit = ChargedDebit(rec)
              /\ EffectState(rec) = "CONFIRMED" <=> wr[p].state = "confirmed"

AllTrue(st, wr, signable) == \A i \in DOMAIN st.effects : Truth(st.effects[i], wr, signable)

\* What proposals are made of.
Derived(j) ==
    \/ /\ j.base = {} /\ DOMAIN j.next.effects = {} /\ j.may = "nothing"
       /\ j.next.maximum \in Maximum
    \/ \E st \in FinancialOperationState, p \in Plan, intent \in FinancialEffectIntent :
          /\ j.base = {st} /\ Reserves(st, j.next, intent)
          /\ PlansOf(intent) = {p} /\ j.may = "sign" /\ j.plan = {p}
    \/ \E st \in FinancialOperationState : \E i \in DOMAIN st.effects :
       \E o \in FinancialEffectObservation :
          /\ j.base = {st} /\ Records(st, j.next, i, o) /\ Observable(st.effects[i], o)
          /\ j.may = IF o.state = "BROADCAST_CLAIMED_UNKNOWN" THEN "send" ELSE "nothing"
          /\ j.plan = PlansOf(st.effects[i].intent)

\* The states that a worker's job is based on.
Bases(j) ==
    IF j.kind \in {"loaded", "ready"} THEN {j.base}
    ELSE IF j.kind = "propose" THEN j.base
    ELSE {}

BasesCommitted ==
    \A w \in Worker : \A st \in Bases(job[w]) : \E d \in db : st.revision <= d.revision

ProposalsDerived == \A w \in Worker : job[w].kind = "propose" => Derived(job[w])

\* A proposal is true of what it would replace; one that is late is not stored.
RecordsTrue ==
    /\ \A st \in db : AllTrue(st, wire, Signable)
    /\ \A w \in Worker :
          (job[w].kind = "propose" /\ job[w].base = db) =>
              AllTrue(job[w].next, wire, Signable)

Claimed(st, p) ==
    \E i \in DOMAIN st.effects :
        p \in PlansOf(st.effects[i].intent) /\ EffectState(st.effects[i]) \in Sent

Counted(p) ==
    /\ uses[p].sign = IF wire[p].state = "unsigned" THEN 0 ELSE 1
    /\ uses[p].send = IF wire[p].state \in {"unsigned", "signed"} THEN 0 ELSE 1

GrantsUnique ==
    /\ \A v, w \in Worker :
          (/\ job[v].kind \in {"sign", "send"} /\ job[w].kind = job[v].kind
           /\ job[w].plan = job[v].plan) => v = w
    /\ \A p \in Plan :
          /\ Counted(p)
          /\ p \in Signable => wire[p].state = "unsigned"
          /\ p \in Sendable => wire[p].state = "signed"
          /\ p \in Signable \/ wire[p].state # "unsigned" => \E st \in db : Retains(st, p)
          /\ p \in Sendable \/ wire[p].state \in {"sent", "confirmed", "failed"} =>
                \E st \in db : Claimed(st, p)

DebitsAllowed ==
    \A p \in Plan : wire[p].state \in {"confirmed", "failed"} => wire[p].debit \in Debit[p]

Inv ==
    /\ Typed
    /\ LapsesBound
    /\ StatesSound
    /\ ProposalsDerived
    /\ BasesCommitted
    /\ RecordsTrue
    /\ GrantsUnique
    /\ DebitsAllowed

\* A retained plan is that of one effect.
LEMMA OneEffect ==
    ASSUME NEW st, ValidOperation(st), NEW i \in DOMAIN st.effects, NEW k \in DOMAIN st.effects,
           NEW p \in PlansOf(st.effects[i].intent),
           \/ p \in PlansOf(st.effects[k].intent)
           \/ st.effects[k].intent.doc = p.doc
    PROVE  i = k
  <1>1. st.effects[i].intent.doc = p.doc
    BY PlanFields
  <1>2. st.effects[k].intent.doc = p.doc
    BY PlanFields
  <1> QED
    BY <1>1, <1>2 DEF ValidOperation, IdentitiesUnique

LEMMA EffectStates ==
    ASSUME NEW rec \in FinancialEffectRecord PROVE EffectState(rec) \in FinancialEffectState
  <1> DEFINE obs == rec.observations
  <1>1. obs \in Seq(FinancialEffectObservation)
    BY DEF FinancialEffectRecord
  <1>2. CASE obs = <<>>
    BY <1>2 DEF EffectState, FinancialEffectState
  <1>3. CASE obs # <<>>
    <2>1. obs[Len(obs)] \in FinancialEffectObservation
      BY <1>1, <1>3
    <2>2. \A o \in FinancialEffectObservation : o.state \in FinancialEffectState
      BY DEF FinancialEffectObservation, FinancialEffectState, Terminal
    <2>3. EffectState(rec) = obs[Len(obs)].state
      BY <1>3 DEF EffectState
    <2> QED
      BY <2>3, <2>2, <2>1
  <1> QED
    BY <1>2, <1>3

LEMMA MaximumProposed ==
    ASSUME Inv, NEW w \in Worker, NEW m \in Maximum, ProposeMaximum(w, m)
    PROVE  \E j \in Job : /\ Private(w, j) /\ j.kind = "propose" /\ Derived(j)
                          /\ \A st \in j.base : st \in Bases(job[w])
                          /\ AllTrue(j.next, wire, Signable)
  <1>1. PICK j \in Job :
            /\ Private(w, j)
            /\ j = [kind |-> "propose", base |-> {}, next |-> ProposeOperationMaximum(m),
                    may |-> "nothing", plan |-> {}]
    BY ProposeMaximumTyped DEF Inv
  <1>2. j.base = {} /\ j.next = ProposeOperationMaximum(m) /\ j.may = "nothing"
        /\ j.kind = "propose"
    BY <1>1
  <1>3. DOMAIN j.next.effects = {} /\ j.next.maximum \in Maximum
    BY <1>2 DEF ProposeOperationMaximum
  <1>4. Derived(j)
    BY <1>2, <1>3 DEF Derived
  <1>5. AllTrue(j.next, wire, Signable)
    BY <1>3 DEF AllTrue
  <1> QED
    BY <1>5, <1>4, <1>2, <1>1

LEMMA EffectProposed ==
    ASSUME Inv, NEW w \in Worker, NEW p \in Plan, NEW epoch \in 0 .. MaxEpoch,
           ProposeEffect(w, p, epoch)
    PROVE  \E j \in Job : /\ Private(w, j) /\ j.kind = "propose" /\ Derived(j)
                          /\ \A st \in j.base : st \in Bases(job[w])
                          /\ j.base = db => AllTrue(j.next, wire, Signable)
  <1> DEFINE st == job[w].base
             intent == Intent(p, epoch, clock)
  <1>1. PICK j \in Job :
              /\ Private(w, j)
              /\ job[w].kind = "ready"
              /\ j.kind = "propose" /\ j.base = {st}
              /\ j.next = WithEffect(st, intent)
              /\ j.may = "sign" /\ j.plan = {p}
              /\ intent \in FinancialEffectIntent
              /\ PlansOf(intent) = {p}
    BY ProposeEffectTyped DEF Inv
  <1>2. st \in FinancialOperationState /\ st \in Bases(job[w])
    BY <1>1, JobFields DEF Inv, Typed, TypeOK, Bases
  <1> HIDE DEF st, intent
  <1>3. Reserves(st, j.next, intent)
    BY <1>1, <1>2, WithEffectFacts
  <1>4. Derived(j)
    BY <1>3, <1>2, <1>1 DEF Derived
  <1>5. ASSUME j.base = db PROVE AllTrue(j.next, wire, Signable)
    <2>1. AllTrue(st, wire, Signable)
      BY <1>1, <1>5 DEF Inv, RecordsTrue
    <2>2. Truth(Fresh(intent), wire, Signable)
      BY <1>1, FreshFacts DEF Truth, Sent, Terminal
    <2> QED
      BY <2>2, <2>1, <1>3 DEF AllTrue, Reserves
  <1> QED
    BY <1>5, <1>4, <1>2, <1>1

LEMMA ObservationProposed ==
    ASSUME Inv, NEW w \in Worker, NEW i, NEW k, ProposeObservation(w, i, k)
    PROVE  \E j \in Job : /\ Private(w, j) /\ j.kind = "propose" /\ Derived(j)
                          /\ \A st \in j.base : st \in Bases(job[w])
                          /\ j.base = db => AllTrue(j.next, wire, Signable)
  <1> DEFINE st == job[w].base
             rec == st.effects[i]
  <1>1. PICK j \in Job, o \in FinancialEffectObservation :
              /\ Private(w, j)
              /\ job[w].kind = "ready" /\ i \in DOMAIN st.effects
              /\ j.kind = "propose" /\ j.base = {st}
              /\ j.next = WithObservation(st, i, o)
              /\ j.may = IF o.state = "BROADCAST_CLAIMED_UNKNOWN" THEN "send" ELSE "nothing"
              /\ j.plan = PlansOf(rec.intent)
              /\ ProposesObservation(st, i, o, job[w].ack, clock)
              /\ o \in TruthfulObservations(rec.intent, job[w].seen)
    BY ProposeObservationTyped DEF Inv
  <1>2. /\ st \in FinancialOperationState /\ st \in Bases(job[w])
        /\ job[w].seen \in ServicePrincipalObservation
    BY <1>1, JobFields DEF Inv, Typed, TypeOK, Bases
  <1>3. Observable(rec, o)
    BY <1>1 DEF ProposesObservation
  <1>4. rec \in FinancialEffectRecord /\ rec.intent \in FinancialEffectIntent
    BY <1>1, <1>2, EffectTyped
  <1>5. Records(st, j.next, i, o)
    BY <1>1, <1>2, WithObservationFacts
  <1>6. Derived(j)
    <2> HIDE DEF st
    <2> QED
      BY <1>5, <1>3, <1>2, <1>1 DEF Derived
  <1>7. ASSUME j.base = db PROVE AllTrue(j.next, wire, Signable)
    <2>1. AllTrue(st, wire, Signable) /\ st \in db
      BY <1>1, <1>7 DEF Inv, RecordsTrue
    <2>2. Truth(rec, wire, Signable)
      BY <1>1, <2>1 DEF AllTrue
    <2>3. ValidOperation(st) /\ Sound(rec, clock, lapsed)
      BY <1>1, <2>1 DEF Inv, StatesSound, Known
    <2> HIDE DEF st, rec
    <2>4. /\ EffectState(More(rec, o)) = o.state /\ More(rec, o).intent = rec.intent
          /\ o.state \in Terminal => ChargedDebit(More(rec, o)) = o.actual
      BY <1>1, <1>4, MoreFacts
    <2>5. Truth(More(rec, o), wire, Signable)
      <3>1. CASE o.state = "PROVEN_NOT_SIGNED"
        <4>1. \A p \in PlansOf(rec.intent) : Unsigned(p)
          BY <3>1, <1>4, <1>2, <1>1, Presented DEF Inv
        <4> QED
          BY <4>1, <3>1, <2>4 DEF Truth, Unsigned, Signable, MayBeSigned, Sent, Terminal
      <3>2. CASE o.state = "SIGNED"
        <4>1. \A p \in PlansOf(rec.intent) : wire[p].state # "unsigned"
          BY <3>2, <1>4, <1>2, <1>1, Presented DEF Inv
        <4> QED
          BY <4>1, <3>2, <2>4 DEF Truth, Sent, Terminal
      <3>3. CASE o.state = "BROADCAST_CLAIMED_UNKNOWN"
        <4>1. EffectState(rec) = "SIGNED"
          BY <1>3, <3>3 DEF Observable, AllowedStates, Terminal
        <4> QED
          BY <4>1, <3>3, <2>4, <2>2 DEF Truth, Sent, Terminal
      <3>4. CASE o.state \in Terminal
        <4>1. PICK q \in Plan :
                  /\ wire[q].state \in {"confirmed", "failed"}
                  /\ o.state = IF wire[q].state = "confirmed" THEN "CONFIRMED" ELSE "FAILED"
                  /\ o.tx = q.doc /\ o.actual = wire[q].debit
          BY <3>4, <1>4, <1>2, <1>1, Presented DEF Inv, Terminal
        <4>2. PICK d \in db : Retains(d, q)
          BY <4>1 DEF Inv, GrantsUnique
        <4>3. d = st
          BY <2>1, <1>7, <1>1
        <4>4. PICK n \in DOMAIN st.effects : q \in PlansOf(st.effects[n].intent)
          BY <4>2, <4>3 DEF Retains
        \* The outcome is of the transaction that this effect's claim names.
        <4>5. q.doc = rec.intent.doc
          <5>1. /\ More(rec, o) \in FinancialEffectRecord
                /\ \E m \in DOMAIN More(rec, o).observations : More(rec, o).observations[m] = o
            <6> DEFINE obs == rec.observations
            <6>1. obs \in Seq(FinancialEffectObservation)
              BY <1>4 DEF FinancialEffectRecord
            <6>2. Len(obs) + 1 \in DOMAIN Append(obs, o) /\ Append(obs, o)[Len(obs) + 1] = o
              BY <6>1
            <6> QED
              BY <6>2, <1>4, <1>1, MoreFacts DEF More
          <5>2. i \in DOMAIN j.next.effects /\ j.next.effects[i] = More(rec, o)
            BY <1>1, <1>5 DEF Records, rec, st
          <5>3. EffectState(rec) = "BROADCAST_CLAIMED_UNKNOWN"
            BY <1>3, <3>4 DEF Observable, AllowedStates, Terminal
          <5>4. PICK m \in DOMAIN rec.observations :
                    rec.observations[m].state = "BROADCAST_CLAIMED_UNKNOWN"
            <6> DEFINE obs == rec.observations
            <6>1. obs \in Seq(FinancialEffectObservation)
              BY <1>4 DEF FinancialEffectRecord
            <6>2. obs # <<>> /\ obs[Len(obs)].state = "BROADCAST_CLAIMED_UNKNOWN"
              BY <5>3 DEF EffectState
            <6>3. Len(obs) \in DOMAIN obs
              BY <6>1, <6>2
            <6> QED
              BY <6>2, <6>3
          <5>5. rec.observations[m].tx = rec.intent.doc
            BY <2>3, <5>4 DEF Sound, Attributed
          <5>6. o.tx = rec.observations[m].tx
            BY <1>3, <3>4 DEF Observable, SameTransaction, Terminal
          <5> QED
            BY <5>6, <5>5, <4>1
        <4>6. n = i
          BY <4>5, <4>4, <2>3, <1>1, OneEffect DEF rec
        <4>7. \A p \in PlansOf(rec.intent) : p = q
          BY <4>4, <4>6, OnePlan DEF rec
        <4> QED
          BY <4>7, <4>1, <3>4, <2>4 DEF Truth, Terminal
      <3>5. o.state \in {"PROVEN_NOT_SIGNED", "SIGNED", "BROADCAST_CLAIMED_UNKNOWN"} \cup Terminal
        BY DEF FinancialEffectObservation
      <3> QED
        BY <3>5, <3>4, <3>3, <3>2, <3>1
    <2>6. ASSUME NEW n \in DOMAIN j.next.effects
          PROVE  Truth(j.next.effects[n], wire, Signable)
      <3>1. CASE n = i
        BY <3>1, <2>5, <1>5 DEF Records, rec
      <3>2. CASE n # i
        BY <3>2, <2>1, <1>5 DEF Records, AllTrue
      <3> QED
        BY <3>1, <3>2
    <2> QED
      BY <2>6 DEF AllTrue
  <1> QED
    BY <1>7, <1>6, <1>2, <1>1

LEMMA InitInv == Init => Inv
<1> SUFFICES ASSUME Init PROVE Inv
  OBVIOUS
<1>1. Typed
  BY InitTyped
<1>2. /\ db = {} /\ lapsed = {} /\ \A w \in Worker : job[w] = Idle
      /\ \A p \in Plan : /\ wire[p].state = "unsigned"
                         /\ uses[p].sign = 0 /\ uses[p].send = 0
  BY DEF Init
<1>3. \A w \in Worker : job[w].kind = "idle" /\ Held(job[w]) = {} /\ Bases(job[w]) = {}
  BY <1>2 DEF Idle, Held, Bases
<1>4. LapsesBound
  BY <1>2, <1>3 DEF LapsesBound
<1>5. StatesSound
  BY <1>2, <1>3 DEF StatesSound, Known
<1>6. ProposalsDerived /\ BasesCommitted /\ RecordsTrue
  BY <1>2, <1>3 DEF ProposalsDerived, BasesCommitted, RecordsTrue
<1>7. Signable = {} /\ Sendable = {}
  BY <1>3 DEF Signable, MayBeSigned, Sendable
<1>8. GrantsUnique /\ DebitsAllowed
  BY <1>7, <1>3, <1>2 DEF GrantsUnique, Counted, DebitsAllowed
<1> QED
  BY <1>8, <1>6, <1>5, <1>4, <1>1 DEF Inv

\* What is true of a record stays true: a signature needs the grant, and what was
\* signed, sent or landed is not undone.
LEMMA TruthLasts ==
    ASSUME NEW rec, NEW wr, NEW signable, NEW wr2, NEW signable2,
           Truth(rec, wr, signable),
           \A q \in Plan :
              /\ q \in signable2 => q \in signable
              /\ \/ wr2[q] = wr[q]
                 \/ /\ wr[q].state = "unsigned" /\ q \in signable
                    /\ wr2[q].state # "unsigned"
                 \/ wr[q].state \in {"signed", "sent"} /\ wr2[q].state # "unsigned"
    PROVE  Truth(rec, wr2, signable2)
  <1> SUFFICES ASSUME NEW p \in PlansOf(rec.intent)
               PROVE  /\ EffectState(rec) = "PROVEN_NOT_SIGNED" =>
                            wr2[p].state = "unsigned" /\ p \notin signable2
                      /\ EffectState(rec) \in {"SIGNED"} \cup Sent =>
                            wr2[p].state # "unsigned"
                      /\ EffectState(rec) \in Terminal =>
                            /\ wr2[p].state \in {"confirmed", "failed"}
                            /\ wr2[p].debit = ChargedDebit(rec)
                            /\ EffectState(rec) = "CONFIRMED" <=> wr2[p].state = "confirmed"
    BY DEF Truth
  <1>1. p \in Plan
    BY DEF PlansOf
  <1>2. /\ EffectState(rec) = "PROVEN_NOT_SIGNED" =>
              wr[p].state = "unsigned" /\ p \notin signable
        /\ EffectState(rec) \in {"SIGNED"} \cup Sent => wr[p].state # "unsigned"
        /\ EffectState(rec) \in Terminal =>
              /\ wr[p].state \in {"confirmed", "failed"}
              /\ wr[p].debit = ChargedDebit(rec)
              /\ EffectState(rec) = "CONFIRMED" <=> wr[p].state = "confirmed"
    BY DEF Truth
  <1>3. Terminal \subseteq Sent
    BY DEF Sent
  <1> QED
    BY <1>3, <1>2, <1>1

\* The facts on grants that hold for the records of one state hold for more.
LEMMA CalmStep ==
    ASSUME Inv, NEW w \in Worker, NEW j \in Job, Private(w, j),
           j.kind \notin {"sign", "send"},
           j.kind = "propose" => Derived(j),
           \A st \in Bases(j) : \E d \in db : st.revision <= d.revision,
           (j.kind = "propose" /\ j.base = db) => AllTrue(j.next, wire, Signable)
    PROVE  ProposalsDerived' /\ BasesCommitted' /\ RecordsTrue' /\ GrantsUnique'
           /\ DebitsAllowed'
  <1>1. /\ UNCHANGED <<db, wire, uses>>
        /\ \A v \in Worker : job'[v] = job[v] \/ (v = w /\ job'[v] = j)
    BY DEF Private, Inv, Typed, TypeOK
  <1>2. \A v \in Worker : job'[v].kind \in {"sign", "send"} => job'[v] = job[v]
    BY <1>1
  <1>3. \A p \in Plan : /\ p \in Signable' => p \in Signable
                        /\ p \in Sendable' => p \in Sendable
    BY <1>2 DEF Signable, MayBeSigned, Sendable
  <1>4. ProposalsDerived'
    BY <1>1 DEF Inv, ProposalsDerived
  <1>5. BasesCommitted'
    BY <1>1 DEF Inv, BasesCommitted
  <1>6. ASSUME NEW st, AllTrue(st, wire, Signable) PROVE AllTrue(st, wire', Signable')
    <2>1. wire' = wire
      BY <1>1
    <2>2. ASSUME NEW i \in DOMAIN st.effects PROVE Truth(st.effects[i], wire', Signable')
      <3>1. Truth(st.effects[i], wire, Signable)
        BY <1>6 DEF AllTrue
      <3> QED
        BY <3>1, <2>1, <1>3, TruthLasts
    <2> QED
      BY <2>2 DEF AllTrue
  <1>7. RecordsTrue'
    <2>1. \A st \in db' : AllTrue(st, wire', Signable')
      BY <1>1, <1>6 DEF Inv, RecordsTrue
    <2>2. ASSUME NEW v \in Worker, job'[v].kind = "propose", job'[v].base = db'
          PROVE  AllTrue(job'[v].next, wire', Signable')
      <3>1. AllTrue(job'[v].next, wire, Signable)
        BY <1>1, <2>2 DEF Inv, RecordsTrue
      <3> QED
        BY <1>6, <3>1
    <2> QED
      BY <2>1, <2>2 DEF RecordsTrue
  <1>8. \A u, v \in Worker :
          (/\ job'[u].kind \in {"sign", "send"} /\ job'[v].kind = job'[u].kind
           /\ job'[v].plan = job'[u].plan) => u = v
    BY <1>2 DEF Inv, GrantsUnique
  <1>9. GrantsUnique'
    <2>1. ASSUME NEW p \in Plan
          PROVE  /\ Counted(p)'
                 /\ (p \in Signable)' => wire'[p].state = "unsigned"
                 /\ (p \in Sendable)' => wire'[p].state = "signed"
                 /\ ((p \in Signable)' \/ wire'[p].state # "unsigned") =>
                        \E st \in db' : Retains(st, p)
                 /\ ((p \in Sendable)' \/ wire'[p].state \in {"sent", "confirmed", "failed"})
                        => \E st \in db' : Claimed(st, p)
      BY <1>1, <1>3 DEF Inv, GrantsUnique, Counted
    <2> QED
      BY <1>8, <2>1 DEF GrantsUnique
  <1>10. DebitsAllowed'
    BY <1>1 DEF Inv, DebitsAllowed
  <1> QED
    BY <1>10, <1>9, <1>7, <1>5, <1>4

LEMMA QuietStep ==
    ASSUME Inv, UNCHANGED <<db, job, wire, uses>>
    PROVE  ProposalsDerived' /\ BasesCommitted' /\ RecordsTrue' /\ GrantsUnique'
           /\ DebitsAllowed'
  <1>1. Signable' = Signable /\ Sendable' = Sendable
    BY DEF Signable, MayBeSigned, Sendable
  <1>2. ProposalsDerived' /\ BasesCommitted' /\ DebitsAllowed'
    BY DEF Inv, ProposalsDerived, BasesCommitted, DebitsAllowed
  <1>3. RecordsTrue'
    BY <1>1 DEF Inv, RecordsTrue
  <1>4. GrantsUnique'
    BY <1>1 DEF Inv, GrantsUnique, Counted
  <1> QED
    BY <1>4, <1>3, <1>2

\* What the swap of a derived proposal grants was never granted.
LEMMA SwapGrants ==
    ASSUME Inv, NEW w \in Worker, Persist(w)
    PROVE  /\ \A st \in db : \A p \in Plan : /\ Retains(st, p) => Retains(job[w].next, p)
                                             /\ Claimed(st, p) => Claimed(job[w].next, p)
           /\ \A st \in db : st.revision < job[w].next.revision
           /\ job[w].may = "sign" => \A p \in job[w].plan :
                 /\ p \notin Signable /\ wire[p].state = "unsigned"
                 /\ Retains(job[w].next, p)
                 /\ \A i \in DOMAIN job[w].next.effects :
                       p \in PlansOf(job[w].next.effects[i].intent) =>
                           EffectState(job[w].next.effects[i]) = "SIGN_RESERVED_UNKNOWN"
           /\ job[w].may = "send" => \A p \in job[w].plan :
                 /\ p \notin Sendable /\ wire[p].state = "signed"
                 /\ Claimed(job[w].next, p)
  <1> DEFINE n == job[w].next
  <1>1. /\ job[w].kind = "propose" /\ db = job[w].base
        /\ n \in FinancialOperationState /\ ValidOperation(n)
    <2>1. job[w].kind = "propose" /\ db = job[w].base
      BY DEF Persist
    <2>2. n \in Known
      BY <2>1 DEF Known, Held
    <2> QED
      BY <2>1, <2>2, KnownTyped DEF Inv, StatesSound
  <1>2. Derived(job[w])
    BY <1>1 DEF Inv, ProposalsDerived
  <1>3. CASE db = {} /\ DOMAIN n.effects = {} /\ job[w].may = "nothing"
    BY <1>3
  <1>4. ASSUME NEW st \in FinancialOperationState, NEW p \in Plan,
               NEW intent \in FinancialEffectIntent,
               db = {st}, Reserves(st, n, intent), PlansOf(intent) = {p},
               job[w].may = "sign", job[w].plan = {p}
        PROVE  /\ \A q \in Plan : /\ Retains(st, q) => Retains(n, q)
                                  /\ Claimed(st, q) => Claimed(n, q)
               /\ st.revision < n.revision
               /\ p \notin Signable /\ wire[p].state = "unsigned" /\ Retains(n, p)
               /\ \A i \in DOMAIN n.effects :
                     p \in PlansOf(n.effects[i].intent) =>
                         EffectState(n.effects[i]) = "SIGN_RESERVED_UNKNOWN"
    <2>1. st.revision \in Nat /\ n.revision = st.revision + 1
      BY <1>4 DEF FinancialOperationState, Reserves
    <2>2. PICK m \in DOMAIN n.effects :
              /\ m \notin DOMAIN st.effects /\ n.effects[m] = Fresh(intent)
              /\ \A k \in DOMAIN st.effects : k \in DOMAIN n.effects
                                              /\ n.effects[k] = st.effects[k]
      BY <1>4 DEF Reserves
    <2>3. n.effects[m].intent = intent
          /\ EffectState(n.effects[m]) = "SIGN_RESERVED_UNKNOWN"
      BY <2>2, FreshFacts
    <2>4. \A q \in Plan : /\ Retains(st, q) => Retains(n, q)
                          /\ Claimed(st, q) => Claimed(n, q)
      BY <2>2 DEF Retains, Claimed
    <2>5. p \in PlansOf(n.effects[m].intent)
      BY <1>4, <2>3
    <2>6. \A i \in DOMAIN n.effects : p \in PlansOf(n.effects[i].intent) => i = m
      BY <2>5, <2>2, <1>1, OneEffect
    <2>7. ~Retains(st, p)
      BY <2>2, <2>6 DEF Retains
    <2>8. p \notin Signable /\ wire[p].state = "unsigned"
      BY <1>4, <2>7 DEF Inv, GrantsUnique
    <2> QED
      BY <2>8, <2>6, <2>5, <2>4, <2>3, <2>2, <2>1 DEF Retains
  <1>5. ASSUME NEW st \in FinancialOperationState, NEW i \in DOMAIN st.effects,
               NEW o \in FinancialEffectObservation,
               db = {st}, Records(st, n, i, o), Observable(st.effects[i], o)
        PROVE  /\ \A q \in Plan : /\ Retains(st, q) => Retains(n, q)
                                  /\ Claimed(st, q) => Claimed(n, q)
               /\ st.revision < n.revision
               /\ o.state = "BROADCAST_CLAIMED_UNKNOWN" =>
                     \A p \in PlansOf(st.effects[i].intent) :
                         /\ p \notin Sendable /\ wire[p].state = "signed"
                         /\ Claimed(n, p)
    <2> DEFINE rec == st.effects[i]
    <2>1. st.revision \in Nat /\ n.revision = st.revision + 1
      BY <1>5 DEF FinancialOperationState, Records
    <2>2. rec \in FinancialEffectRecord
      BY EffectTyped
    <2>3. More(rec, o).intent = rec.intent /\ EffectState(More(rec, o)) = o.state
      BY <2>2, MoreFacts
    <2>4. /\ DOMAIN n.effects = DOMAIN st.effects /\ n.effects[i] = More(rec, o)
          /\ \A k \in DOMAIN st.effects : k # i => n.effects[k] = st.effects[k]
      BY <1>5 DEF Records
    <2>5. EffectState(rec) \in Sent => o.state \in Sent
      BY <1>5 DEF Observable, AllowedStates, Sent, Terminal
    <2> HIDE DEF rec
    <2>6. \A k \in DOMAIN st.effects : n.effects[k].intent = st.effects[k].intent
      BY <2>3, <2>4 DEF rec
    <2>7. \A k \in DOMAIN st.effects :
             EffectState(st.effects[k]) \in Sent => EffectState(n.effects[k]) \in Sent
      BY <2>5, <2>4, <2>3 DEF rec
    <2>8. \A q \in Plan : /\ Retains(st, q) => Retains(n, q)
                          /\ Claimed(st, q) => Claimed(n, q)
      BY <2>7, <2>6, <2>4 DEF Retains, Claimed
    <2>9. ASSUME o.state = "BROADCAST_CLAIMED_UNKNOWN", NEW p \in PlansOf(rec.intent)
          PROVE  p \notin Sendable /\ wire[p].state = "signed" /\ Claimed(n, p)
      <3>1. p \in Plan
        BY DEF PlansOf
      <3>2. EffectState(rec) = "SIGNED"
        BY <1>5, <2>9 DEF Observable, AllowedStates, Terminal, rec
      <3>3. ~Claimed(st, p)
        <4>1. ValidOperation(st)
          BY <1>5 DEF Inv, StatesSound, Known
        <4>2. \A k \in DOMAIN st.effects : p \in PlansOf(st.effects[k].intent) => k = i
          BY <2>9, <4>1, OneEffect DEF rec
        <4> QED
          BY <3>2, <4>2 DEF Claimed, Sent, Terminal, rec
      <3>4. Truth(rec, wire, Signable)
        BY <1>5 DEF Inv, RecordsTrue, AllTrue, rec
      <3>5. wire[p].state # "unsigned"
        BY <3>4, <3>2, <2>9 DEF Truth
      <3>6. wire[p].state \in {"unsigned", "signed", "sent", "confirmed", "failed"}
        BY <3>1 DEF Inv, Typed, TypeOK
      <3>7. p \notin Sendable /\ wire[p].state \notin {"sent", "confirmed", "failed"}
        BY <3>3, <3>1, <1>5 DEF Inv, GrantsUnique
      <3>8. Claimed(n, p)
        BY <2>9, <2>6, <2>4, <2>3 DEF Claimed, Sent, rec
      <3> QED
        BY <3>8, <3>7, <3>6, <3>5
    <2> QED
      BY <2>9, <2>8, <2>1 DEF rec
  <1> HIDE DEF n
  <1>6. CASE \E st \in FinancialOperationState, p \in Plan, intent \in FinancialEffectIntent :
                /\ job[w].base = {st} /\ Reserves(st, n, intent)
                /\ PlansOf(intent) = {p} /\ job[w].may = "sign" /\ job[w].plan = {p}
    BY <1>6, <1>4, <1>1 DEF n
  <1>7. CASE \E st \in FinancialOperationState : \E i \in DOMAIN st.effects :
             \E o \in FinancialEffectObservation :
                /\ job[w].base = {st} /\ Records(st, n, i, o) /\ Observable(st.effects[i], o)
                /\ job[w].may = IF o.state = "BROADCAST_CLAIMED_UNKNOWN"
                                THEN "send" ELSE "nothing"
                /\ job[w].plan = PlansOf(st.effects[i].intent)
    <2>1. PICK st \in FinancialOperationState : \E i \in DOMAIN st.effects :
             \E o \in FinancialEffectObservation :
                /\ job[w].base = {st} /\ Records(st, n, i, o) /\ Observable(st.effects[i], o)
                /\ job[w].may = IF o.state = "BROADCAST_CLAIMED_UNKNOWN"
                                THEN "send" ELSE "nothing"
                /\ job[w].plan = PlansOf(st.effects[i].intent)
      BY <1>7
    <2>2. PICK i \in DOMAIN st.effects : \E o \in FinancialEffectObservation :
                /\ job[w].base = {st} /\ Records(st, n, i, o) /\ Observable(st.effects[i], o)
                /\ job[w].may = IF o.state = "BROADCAST_CLAIMED_UNKNOWN"
                                THEN "send" ELSE "nothing"
                /\ job[w].plan = PlansOf(st.effects[i].intent)
      BY <2>1
    <2>3. PICK o \in FinancialEffectObservation :
                /\ job[w].base = {st} /\ Records(st, n, i, o) /\ Observable(st.effects[i], o)
                /\ job[w].may = IF o.state = "BROADCAST_CLAIMED_UNKNOWN"
                                THEN "send" ELSE "nothing"
                /\ job[w].plan = PlansOf(st.effects[i].intent)
      BY <2>2
    <2>4. db = {st} /\ job[w].may # "sign"
      BY <1>1, <2>3
    <2>5. /\ \A q \in Plan : /\ Retains(st, q) => Retains(n, q)
                             /\ Claimed(st, q) => Claimed(n, q)
          /\ st.revision < n.revision
          /\ job[w].may = "send" => \A p \in job[w].plan :
                /\ p \notin Sendable /\ wire[p].state = "signed" /\ Claimed(n, p)
      BY <2>4, <2>3, <1>5
    <2> QED
      BY <2>4, <2>5 DEF n
  <1> QED
    BY <1>7, <1>6, <1>3, <1>2, <1>1 DEF Derived, n

LEMMA PersistStep ==
    ASSUME Inv, NEW w \in Worker, Persist(w)
    PROVE  ProposalsDerived' /\ BasesCommitted' /\ RecordsTrue' /\ GrantsUnique'
           /\ DebitsAllowed'
  <1> DEFINE n == job[w].next
  <1>1. /\ job[w].kind = "propose" /\ db = job[w].base /\ db' = {n}
        /\ UNCHANGED <<wire, uses>>
        /\ n \in FinancialOperationState
        /\ job[w].may \in {"nothing", "sign", "send"}
    BY PersistTyped, JobFields DEF Inv, Typed, TypeOK
  <1>2. PICK j :
            /\ job' = [job EXCEPT ![w] = j] /\ j.kind \notin {"loaded", "ready", "propose"}
            /\ j.kind \in {"sign", "send"} => j.kind = job[w].may /\ j.plan \in job[w].plan
    <2>1. CASE job' = [job EXCEPT ![w] = Idle]
      <3>1. Idle.kind = "idle"
        BY DEF Idle
      <3> QED
        BY <2>1, <3>1
    <2>2. ASSUME job[w].may \in {"sign", "send"}, NEW p \in job[w].plan,
                 job' = [job EXCEPT ![w] = [kind |-> job[w].may, plan |-> p]]
          PROVE  \E j :
                    /\ job' = [job EXCEPT ![w] = j]
                    /\ j.kind \notin {"loaded", "ready", "propose"}
                    /\ j.kind \in {"sign", "send"} =>
                          j.kind = job[w].may /\ j.plan \in job[w].plan
      <3>1. [kind |-> job[w].may, plan |-> p].kind = job[w].may
            /\ [kind |-> job[w].may, plan |-> p].plan = p
        OBVIOUS
      <3> QED
        BY <2>2, <3>1
    <2> QED
      BY <2>1, <2>2, PersistTyped DEF Inv
  <1>3. /\ job'[w] = j
        /\ \A v \in Worker : v # w => job'[v] = job[v]
    BY <1>2 DEF Inv, Typed, TypeOK
  <1> HIDE DEF n
  <1>4. /\ \A st \in db : \A p \in Plan : /\ Retains(st, p) => Retains(n, p)
                                          /\ Claimed(st, p) => Claimed(n, p)
        /\ \A st \in db : st.revision < n.revision
        /\ job[w].may = "sign" => \A p \in job[w].plan :
              /\ p \notin Signable /\ wire[p].state = "unsigned" /\ Retains(n, p)
              /\ \A i \in DOMAIN n.effects :
                    p \in PlansOf(n.effects[i].intent) =>
                        EffectState(n.effects[i]) = "SIGN_RESERVED_UNKNOWN"
        /\ job[w].may = "send" => \A p \in job[w].plan :
              p \notin Sendable /\ wire[p].state = "signed" /\ Claimed(n, p)
    BY SwapGrants DEF n
  <1>5. \A st \in db : st.revision \in Nat
    BY DEF Inv, Typed, TypeOK, FinancialOperationState
  <1>6. n.revision \in Nat
    BY <1>1 DEF FinancialOperationState
  <1>7. \A p \in Plan :
           /\ p \in Signable' => p \in Signable \/ (j.kind = "sign" /\ p = j.plan)
           /\ p \in Sendable' => p \in Sendable \/ (j.kind = "send" /\ p = j.plan)
    BY <1>3 DEF Signable, MayBeSigned, Sendable
  <1>8. ProposalsDerived'
    BY <1>2, <1>3 DEF Inv, ProposalsDerived
  <1>9. BasesCommitted'
    <2>1. ASSUME NEW v \in Worker, NEW st \in Bases(job'[v]) PROVE st.revision <= n.revision
      <3>1. v # w /\ st \in Bases(job[v])
        BY <2>1, <1>3, <1>2 DEF Bases
      <3>2. PICK d \in db : st.revision <= d.revision
        BY <3>1 DEF Inv, BasesCommitted
      <3>3. st.revision \in Nat
        <4>1. job[v] \in Job
          BY DEF Inv, Typed, TypeOK
        <4>2. st \in FinancialOperationState
          BY <3>1, <4>1, JobFields DEF Bases
        <4> QED
          BY <4>2 DEF FinancialOperationState
      <3> QED
        BY <3>3, <3>2, <1>6, <1>5, <1>4
    <2> QED
      BY <1>1, <2>1 DEF BasesCommitted
  <1>10. AllTrue(n, wire', Signable')
    <2>1. AllTrue(n, wire, Signable)
      BY <1>1 DEF Inv, RecordsTrue, n
    <2>2. ASSUME NEW i \in DOMAIN n.effects PROVE Truth(n.effects[i], wire, Signable')
      <3>1. Truth(n.effects[i], wire, Signable)
        BY <2>1 DEF AllTrue
      <3>2. CASE j.kind = "sign" /\ j.plan \in PlansOf(n.effects[i].intent)
        <4>1. EffectState(n.effects[i]) = "SIGN_RESERVED_UNKNOWN"
          BY <3>2, <1>4, <1>2
        <4> QED
          BY <4>1 DEF Truth, Sent, Terminal
      <3>3. CASE ~(j.kind = "sign" /\ j.plan \in PlansOf(n.effects[i].intent))
        <4>1. \A p \in PlansOf(n.effects[i].intent) : p \in Signable' => p \in Signable
          BY <1>7, <3>3 DEF PlansOf
        <4> QED
          BY <3>1, <4>1 DEF Truth
      <3> QED
        BY <3>2, <3>3
    <2> QED
      BY <1>1, <2>2 DEF AllTrue
  \* A proposal made of an earlier state is not one to replace this one.
  <1>11. ASSUME NEW v \in Worker, job'[v].kind = "propose", job'[v].base = db' PROVE FALSE
    <2>1. v # w /\ n \in Bases(job[v])
      BY <1>11, <1>3, <1>2, <1>1 DEF Bases
    <2>2. PICK d \in db : n.revision <= d.revision
      BY <2>1 DEF Inv, BasesCommitted
    <2> QED
      BY <2>2, <1>6, <1>5, <1>4
  <1>12. RecordsTrue'
    BY <1>11, <1>10, <1>1 DEF RecordsTrue
  <1>13. ASSUME NEW u \in Worker, NEW v \in Worker,
                job'[u].kind \in {"sign", "send"}, job'[v].kind = job'[u].kind,
                job'[v].plan = job'[u].plan
         PROVE  u = v
    <2>1. CASE u # w /\ v # w
      BY <2>1, <1>13, <1>3 DEF Inv, GrantsUnique
    <2>2. ASSUME NEW x \in Worker, x # w, job[x].kind = j.kind, job[x].plan = j.plan,
                 j.kind \in {"sign", "send"}
          PROVE  FALSE
      <3>1. job[x].plan \in Plan
        BY <2>2, JobFields DEF Inv, Typed, TypeOK
      <3>2. CASE j.kind = "sign"
        <4>1. job[x].plan \in Signable
          BY <3>2, <3>1, <2>2 DEF Signable, MayBeSigned
        <4> QED
          BY <4>1, <3>2, <2>2, <1>4, <1>2
      <3>3. CASE j.kind = "send"
        <4>1. job[x].plan \in Sendable
          BY <3>3, <3>1, <2>2 DEF Sendable
        <4> QED
          BY <4>1, <3>3, <2>2, <1>4, <1>2
      <3> QED
        BY <3>3, <3>2, <2>2
    <2> QED
      BY <2>2, <2>1, <1>13, <1>3
  <1>14. ASSUME NEW p \in Plan
         PROVE  /\ Counted(p)'
                /\ p \in Signable' => wire'[p].state = "unsigned"
                /\ p \in Sendable' => wire'[p].state = "signed"
                /\ (p \in Signable' \/ wire'[p].state # "unsigned") =>
                       \E st \in db' : Retains(st, p)
                /\ (p \in Sendable' \/ wire'[p].state \in {"sent", "confirmed", "failed"})
                       => \E st \in db' : Claimed(st, p)
    <2>1. Counted(p)'
      BY <1>1 DEF Inv, GrantsUnique, Counted
    <2>2. (p \in Signable \/ wire[p].state # "unsigned") => Retains(n, p)
      BY <1>4 DEF Inv, GrantsUnique
    <2>3. (p \in Sendable \/ wire[p].state \in {"sent", "confirmed", "failed"}) =>
              Claimed(n, p)
      BY <1>4 DEF Inv, GrantsUnique
    <2>4. /\ p \in Signable => wire[p].state = "unsigned"
          /\ p \in Sendable => wire[p].state = "signed"
      BY DEF Inv, GrantsUnique
    <2> QED
      BY <2>4, <2>3, <2>2, <2>1, <1>7, <1>4, <1>2, <1>1
  <1>15. GrantsUnique'
    BY <1>13, <1>14 DEF GrantsUnique
  <1>16. DebitsAllowed'
    BY <1>1 DEF Inv, DebitsAllowed
  <1> QED
    BY <1>16, <1>15, <1>12, <1>9, <1>8

\* The worker that uses its grant is the only one that had it; what the transaction
\* does next is told by no record yet.
LEMMA WireStep ==
    ASSUME Inv, NEW p \in Plan, db' = db,
           \A v \in Worker : job'[v] = job[v] \/ job'[v] = Idle,
           \A q \in Plan : q # p => wire'[q] = wire[q] /\ uses'[q] = uses[q],
           Counted(p)',
           \/ /\ p \in Signable /\ p \notin Signable'
              /\ wire[p].state = "unsigned" /\ wire'[p].state = "signed"
           \/ /\ p \in Sendable /\ p \notin Sendable'
              /\ wire[p].state = "signed" /\ wire'[p].state = "sent"
           \/ /\ wire[p].state = "sent" /\ wire'[p].state \in {"confirmed", "failed"}
              /\ wire'[p].debit \in Debit[p]
    PROVE  ProposalsDerived' /\ BasesCommitted' /\ RecordsTrue' /\ GrantsUnique'
           /\ DebitsAllowed'
  <1>1. Idle.kind = "idle" /\ Bases(Idle) = {}
    BY DEF Idle, Bases
  <1>2. \A v \in Worker : job'[v].kind # "idle" => job'[v] = job[v]
    BY <1>1
  <1>3. \A q \in Plan : /\ q \in Signable' => q \in Signable
                        /\ q \in Sendable' => q \in Sendable
    BY <1>2 DEF Signable, MayBeSigned, Sendable
  <1>4. ProposalsDerived'
    BY <1>2 DEF Inv, ProposalsDerived
  <1>5. BasesCommitted'
    BY <1>1 DEF Inv, BasesCommitted
  <1>6. ASSUME NEW st, AllTrue(st, wire, Signable) PROVE AllTrue(st, wire', Signable')
    <2>1. ASSUME NEW q \in Plan
          PROVE  /\ q \in Signable' => q \in Signable
                 /\ \/ wire'[q] = wire[q]
                    \/ /\ wire[q].state = "unsigned" /\ q \in Signable
                       /\ wire'[q].state # "unsigned"
                    \/ wire[q].state \in {"signed", "sent"} /\ wire'[q].state # "unsigned"
      BY <1>3
    <2>2. ASSUME NEW i \in DOMAIN st.effects PROVE Truth(st.effects[i], wire', Signable')
      <3>1. Truth(st.effects[i], wire, Signable)
        BY <1>6 DEF AllTrue
      <3> QED
        BY <2>1, <3>1, TruthLasts
    <2> QED
      BY <2>2 DEF AllTrue
  <1>7. RecordsTrue'
    <2>1. \A st \in db' : AllTrue(st, wire', Signable')
      BY <1>6 DEF Inv, RecordsTrue
    <2>2. ASSUME NEW v \in Worker, job'[v].kind = "propose", job'[v].base = db'
          PROVE  AllTrue(job'[v].next, wire', Signable')
      <3>1. AllTrue(job'[v].next, wire, Signable)
        BY <1>2, <2>2 DEF Inv, RecordsTrue
      <3> QED
        BY <1>6, <3>1
    <2> QED
      BY <2>1, <2>2 DEF RecordsTrue
  <1>8. \A u, v \in Worker :
          (/\ job'[u].kind \in {"sign", "send"} /\ job'[v].kind = job'[u].kind
           /\ job'[v].plan = job'[u].plan) => u = v
    BY <1>2 DEF Inv, GrantsUnique
  <1>9. ASSUME NEW q \in Plan
        PROVE  /\ Counted(q)'
               /\ q \in Signable' => wire'[q].state = "unsigned"
               /\ q \in Sendable' => wire'[q].state = "signed"
               /\ (q \in Signable' \/ wire'[q].state # "unsigned") =>
                      \E st \in db' : Retains(st, q)
               /\ (q \in Sendable' \/ wire'[q].state \in {"sent", "confirmed", "failed"})
                      => \E st \in db' : Claimed(st, q)
    <2>1. /\ Counted(q)
          /\ q \in Signable => wire[q].state = "unsigned"
          /\ q \in Sendable => wire[q].state = "signed"
          /\ (q \in Signable \/ wire[q].state # "unsigned") => \E st \in db : Retains(st, q)
          /\ (q \in Sendable \/ wire[q].state \in {"sent", "confirmed", "failed"}) =>
                \E st \in db : Claimed(st, q)
      BY DEF Inv, GrantsUnique
    <2>2. CASE q # p
      BY <2>2, <2>1, <1>3 DEF Counted
    <2>3. CASE q = p
      BY <2>3, <2>1, <1>3
    <2> QED
      BY <2>2, <2>3
  <1>10. GrantsUnique'
    BY <1>8, <1>9 DEF GrantsUnique
  <1>11. DebitsAllowed'
    BY DEF Inv, DebitsAllowed
  <1> QED
    BY <1>11, <1>10, <1>7, <1>5, <1>4

LEMMA SignStep ==
    ASSUME Inv, NEW w \in Worker, Sign(w)
    PROVE  ProposalsDerived' /\ BasesCommitted' /\ RecordsTrue' /\ GrantsUnique'
           /\ DebitsAllowed'
  <1>1. PICK p \in Plan : job[w].plan = p /\ job[w].kind = "sign"
    BY UseTyped DEF Inv, Sign
  <1>2. /\ wire' = [wire EXCEPT ![p] = [state |-> "signed", debit |-> wire[p].debit]]
        /\ uses' = [uses EXCEPT ![p] = [sign |-> uses[p].sign + 1, send |-> uses[p].send]]
        /\ job' = [job EXCEPT ![w] = Idle] /\ db' = db
    BY <1>1 DEF Sign
  <1>3. /\ job \in [Worker -> Job] /\ DOMAIN wire = Plan /\ DOMAIN uses = Plan
    BY DEF Inv, Typed, TypeOK
  <1>4. p \in Signable
    BY <1>1 DEF Signable, MayBeSigned
  <1>5. wire[p].state = "unsigned" /\ Counted(p)
    BY <1>1, <1>4 DEF Inv, GrantsUnique
  <1>6. /\ wire'[p].state = "signed"
        /\ uses'[p].sign = uses[p].sign + 1 /\ uses'[p].send = uses[p].send
        /\ \A q \in Plan : q # p => wire'[q] = wire[q] /\ uses'[q] = uses[q]
    BY <1>3, <1>2, <1>1
  <1>7. Counted(p)'
    BY <1>5, <1>6 DEF Counted
  <1>8. /\ \A v \in Worker : job'[v] = job[v] \/ job'[v] = Idle
        /\ job'[w] = Idle /\ \A v \in Worker : v # w => job'[v] = job[v]
    BY <1>2, <1>3
  <1>9. p \notin Signable'
    <2>1. ASSUME NEW v \in Worker, job'[v].kind = "sign", job'[v].plan = p PROVE FALSE
      <3>1. v # w
        BY <1>8, <2>1 DEF Idle
      <3>2. job[v].kind = "sign" /\ job[v].plan = p
        BY <3>1, <2>1, <1>8
      <3> QED
        BY <3>2, <3>1, <1>1 DEF Inv, GrantsUnique
    <2> QED
      BY <2>1 DEF Signable, MayBeSigned
  <1> QED
    BY <1>9, <1>8, <1>7, <1>6, <1>5, <1>4, <1>2, <1>1, WireStep

LEMMA SendStep ==
    ASSUME Inv, NEW w \in Worker, Send(w)
    PROVE  ProposalsDerived' /\ BasesCommitted' /\ RecordsTrue' /\ GrantsUnique'
           /\ DebitsAllowed'
  <1>1. PICK p \in Plan : job[w].plan = p /\ job[w].kind = "send"
    BY UseTyped DEF Inv, Send
  <1>2. /\ wire' = [wire EXCEPT ![p] = [state |-> "sent", debit |-> wire[p].debit]]
        /\ uses' = [uses EXCEPT ![p] = [sign |-> uses[p].sign, send |-> uses[p].send + 1]]
        /\ job' = [job EXCEPT ![w] = Idle] /\ db' = db
    BY <1>1 DEF Send
  <1>3. /\ job \in [Worker -> Job] /\ DOMAIN wire = Plan /\ DOMAIN uses = Plan
    BY DEF Inv, Typed, TypeOK
  <1>4. p \in Sendable
    BY <1>1 DEF Sendable
  <1>5. wire[p].state = "signed" /\ Counted(p)
    BY <1>1, <1>4 DEF Inv, GrantsUnique
  <1>6. /\ wire'[p].state = "sent"
        /\ uses'[p].sign = uses[p].sign /\ uses'[p].send = uses[p].send + 1
        /\ \A q \in Plan : q # p => wire'[q] = wire[q] /\ uses'[q] = uses[q]
    BY <1>3, <1>2, <1>1
  <1>7. Counted(p)'
    BY <1>5, <1>6 DEF Counted
  <1>8. /\ \A v \in Worker : job'[v] = job[v] \/ job'[v] = Idle
        /\ job'[w] = Idle /\ \A v \in Worker : v # w => job'[v] = job[v]
    BY <1>2, <1>3
  <1>9. p \notin Sendable'
    <2>1. ASSUME NEW v \in Worker, job'[v].kind = "send", job'[v].plan = p PROVE FALSE
      <3>1. v # w
        BY <1>8, <2>1 DEF Idle
      <3>2. job[v].kind = "send" /\ job[v].plan = p
        BY <3>1, <2>1, <1>8
      <3> QED
        BY <3>2, <3>1, <1>1 DEF Inv, GrantsUnique
    <2> QED
      BY <2>1 DEF Sendable
  <1> QED
    BY <1>9, <1>8, <1>7, <1>6, <1>5, <1>4, <1>2, <1>1, WireStep

LEMMA SurroundingsStep ==
    ASSUME Inv, Surroundings
    PROVE  ProposalsDerived' /\ BasesCommitted' /\ RecordsTrue' /\ GrantsUnique'
           /\ DebitsAllowed'
  <1>1. CASE UNCHANGED <<db, job, wire, uses>>
    BY <1>1, QuietStep
  <1>2. ASSUME NEW p \in Plan, NEW outcome \in {"confirmed", "failed"}, NEW v \in Debit[p],
               Land(p, outcome, v)
        PROVE  ProposalsDerived' /\ BasesCommitted' /\ RecordsTrue' /\ GrantsUnique'
               /\ DebitsAllowed'
    <2>1. /\ wire[p].state = "sent" /\ UNCHANGED <<db, job, uses>>
          /\ wire' = [wire EXCEPT ![p] = [state |-> outcome, debit |-> v]]
          /\ DOMAIN wire = Plan
      BY <1>2 DEF Land, Inv, Typed, TypeOK
    <2>2. /\ wire'[p].state = outcome /\ wire'[p].debit = v
          /\ \A q \in Plan : q # p => wire'[q] = wire[q]
      BY <2>1
    <2>3. Counted(p)'
      BY <2>1, <2>2 DEF Inv, GrantsUnique, Counted
    <2> QED
      BY <2>3, <2>2, <2>1, WireStep
  <1> QED
    BY <1>1, <1>2 DEF Surroundings, Tick, Revoke, Reinstate

LEMMA WorkerKept ==
    ASSUME Inv, NEW w \in Worker, WorkerStep(w)
    PROVE  ProposalsDerived' /\ BasesCommitted' /\ RecordsTrue' /\ GrantsUnique'
           /\ DebitsAllowed'
  <1> DEFINE Kept == ProposalsDerived' /\ BasesCommitted' /\ RecordsTrue' /\ GrantsUnique'
                     /\ DebitsAllowed'
  <1>1. ASSUME NEW j \in Job, Private(w, j), j.kind = "propose", Derived(j),
               \A st \in j.base : st \in Bases(job[w]),
               j.base = db => AllTrue(j.next, wire, Signable)
        PROVE  Kept
    <2>1. \A st \in Bases(j) : \E d \in db : st.revision <= d.revision
      BY <1>1 DEF Bases, Inv, BasesCommitted
    <2> QED
      BY <1>1, <2>1, CalmStep
  <1>2. ASSUME NEW m \in Maximum, ProposeMaximum(w, m) PROVE Kept
    BY <1>1, <1>2, MaximumProposed
  <1>3. CASE Load(w)
    <2>1. PICK j \in Job : /\ Private(w, j)
                           /\ \E st \in db : j = [kind |-> "loaded", base |-> st]
      BY <1>3, LoadTyped DEF Inv
    <2>2. j.kind = "loaded" /\ j.base \in db
      BY <2>1
    <2>3. \A st \in Bases(j) : \E d \in db : st.revision <= d.revision
      <3>1. j.base.revision \in Nat
        BY <2>2 DEF Inv, Typed, TypeOK, FinancialOperationState
      <3> QED
        BY <2>2, <3>1 DEF Bases
    <2> QED
      BY <2>3, <2>2, <2>1, CalmStep
  <1>4. ASSUME NEW s \in Principal, Acknowledge(w, s) PROVE Kept
    <2>1. PICK j \in Job : /\ Private(w, j)
                           /\ j.kind = "ready" /\ j.base = job[w].base
                           /\ job[w].kind = "loaded"
      BY <1>4, AcknowledgeTyped DEF Inv
    <2>2. \A st \in Bases(j) : \E d \in db : st.revision <= d.revision
      BY <2>1 DEF Bases, Inv, BasesCommitted
    <2> QED
      BY <2>1, <2>2, CalmStep
  <1>5. ASSUME NEW p \in Plan, NEW epoch \in 0 .. MaxEpoch, ProposeEffect(w, p, epoch)
        PROVE  Kept
    BY <1>1, <1>5, EffectProposed
  <1>6. ASSUME NEW i, NEW k, ProposeObservation(w, i, k) PROVE Kept
    BY <1>1, <1>6, ObservationProposed
  <1>7. CASE GiveUp(w) \/ Crash(w)
    <2>1. Private(w, Idle) /\ Idle \in Job
      BY <1>7, IdleTyped DEF Inv, Job
    <2>2. Idle.kind = "idle" /\ Bases(Idle) = {}
      BY DEF Idle, Bases
    <2> QED
      BY <2>1, <2>2, CalmStep
  <1>8. CASE Persist(w)
    BY <1>8, PersistStep
  <1>9. CASE Sign(w)
    BY <1>9, SignStep
  <1>10. CASE Send(w)
    BY <1>10, SendStep
  <1> QED
    BY <1>10, <1>9, <1>8, <1>7, <1>6, <1>5, <1>4, <1>3, <1>2 DEF WorkerStep

LEMMA NextInv == Inv /\ [Next]_vars => Inv'
<1> SUFFICES ASSUME Inv, [Next]_vars PROVE Inv'
  OBVIOUS
<1>1. Typed'
  BY NextTyped DEF Inv
<1>2. LapsesBound'
  BY LapsesStep DEF Inv
<1>3. StatesSound'
  BY StatesSoundStep DEF Inv
<1>4. CASE UNCHANGED vars
  BY <1>4, <1>3, <1>2, <1>1, QuietStep DEF vars, Inv
<1>5. CASE Surroundings
  BY <1>5, <1>3, <1>2, <1>1, SurroundingsStep DEF Inv
<1>6. ASSUME NEW w \in Worker, WorkerStep(w) PROVE Inv'
  BY <1>6, <1>3, <1>2, <1>1, WorkerKept DEF Inv
<1> QED
  BY <1>6, <1>5, <1>4 DEF Next

\* The inductive invariant: states valid and made of committed ones, records true of
\* their transactions, grants unique.  operation_exposure.py:548 validates every state
\* as a whole; the swap of the committed one is the broker's.
THEOREM Invariance == Spec => []Inv
  BY InitInv, NextInv, PTL DEF Spec

----
\* What follows from the invariant.

\* An intent is signed once and sent once, after its signature: the one-use grants
\* that operation_exposure.py:785 leaves to the broker are never given twice.
THEOREM NeverUsedTwice == Spec => []UsedOnce
<1>1. Inv => UsedOnce
  BY DEF Inv, GrantsUnique, Counted, UsedOnce
<1> QED
  BY <1>1, Invariance, PTL

\* Who holds nothing to sign or to send wields no epoch.
LEMMA NothingWielded ==
    ASSUME NEW w, NEW past,
           \/ job'[w].kind \notin {"propose", "sign", "send"}
           \/ job'[w].kind = "propose" /\ job'[w].may = "nothing"
    PROVE  ~Wields(w, past)'
  BY DEF Wields

\* A reservation is proposed under an observed epoch, which no later revocation has
\* outlived: operation_exposure.py:725 compares the observation with the clock.
LEMMA ReservedInTime ==
    ASSUME Inv, Inv', NEW w \in Worker, NEW p \in Plan, NEW epoch \in 0 .. MaxEpoch,
           ProposeEffect(w, p, epoch), NEW past \in lapsed, clock > past.at + Ttl
    PROVE  ~Wields(w, past)'
  <1> DEFINE intent == Intent(p, epoch, clock)
  <1>1. PICK j \in Job :
            /\ Private(w, j)
            /\ job[w].kind = "ready"
            /\ j.kind = "propose" /\ j.base = {job[w].base}
            /\ j.next = WithEffect(job[w].base, intent)
            /\ j.may = "sign" /\ j.plan = {p}
            /\ intent \in FinancialEffectIntent
            /\ PlansOf(intent) = {p}
    BY ProposeEffectTyped DEF Inv
  <1>2. job'[w] = j /\ lapsed' = lapsed /\ clock' = clock
    BY <1>1 DEF Private, Inv, Typed, TypeOK
  <1>3. job[w].base \in FinancialOperationState
    BY <1>1, JobFields DEF Inv, Typed, TypeOK
  <1>4. Reserves(job[w].base, j.next, intent)
    BY <1>1, <1>3, WithEffectFacts
  <1>5. PICK m \in DOMAIN j.next.effects : j.next.effects[m] = Fresh(intent)
    BY <1>4 DEF Reserves
  <1>6. j.next \in Known'
    BY <1>2, <1>1 DEF Known, Held
  <1>7. ValidOperation(j.next) /\ InForce(j.next.effects[m], past)
    BY <1>6, <1>5, <1>2 DEF Inv, StatesSound, Sound
  <1>8. j.next.effects[m].intent = intent /\ intent.createdAt = clock
    BY <1>5, <1>1, FreshFacts DEF Intent
  <1>9. clock \in Nat /\ past.at \in Nat /\ Ttl \in Nat
    BY BoundsTyped DEF Inv, Typed, TypeOK
  <1>10. ~(intent.principal = past.principal /\ intent.epoch = past.epoch)
    BY <1>9, <1>8, <1>7 DEF InForce
  <1> HIDE DEF intent
  <1>11. ~RetainsUnder(j.next, p, past)
    <2>1. ASSUME NEW i \in DOMAIN j.next.effects, p \in PlansOf(j.next.effects[i].intent)
          PROVE  i = m
      BY <2>1, <1>8, <1>7, <1>1, OneEffect
    <2> QED
      BY <2>1, <1>10, <1>8 DEF RetainsUnder
  <1> QED
    BY <1>11, <1>2, <1>1 DEF Wields

\* A broadcast is claimed under an epoch observed to be in force at the claim.
LEMMA ClaimedInTime ==
    ASSUME Inv, Inv', NEW w \in Worker, NEW i, NEW k, ProposeObservation(w, i, k),
           NEW past \in lapsed, clock > past.at + Ttl
    PROVE  ~Wields(w, past)'
  <1> DEFINE st == job[w].base
  <1>1. PICK j \in Job, o \in FinancialEffectObservation :
              /\ Private(w, j)
              /\ job[w].kind = "ready" /\ i \in DOMAIN st.effects
              /\ j.kind = "propose" /\ j.base = {st}
              /\ j.next = WithObservation(st, i, o)
              /\ j.may = IF o.state = "BROADCAST_CLAIMED_UNKNOWN" THEN "send" ELSE "nothing"
              /\ j.plan = PlansOf(st.effects[i].intent)
              /\ ProposesObservation(st, i, o, job[w].ack, clock)
    BY ProposeObservationTyped DEF Inv
  <1>2. job'[w] = j /\ lapsed' = lapsed /\ clock' = clock
    BY <1>1 DEF Private, Inv, Typed, TypeOK
  <1>3. CASE o.state # "BROADCAST_CLAIMED_UNKNOWN"
    BY <1>3, <1>2, <1>1, NothingWielded
  <1>4. CASE o.state = "BROADCAST_CLAIMED_UNKNOWN"
    <2>1. st \in FinancialOperationState
      BY <1>1, JobFields DEF Inv, Typed, TypeOK
    <2>2. Records(st, j.next, i, o) /\ st.effects[i] \in FinancialEffectRecord
      BY <2>1, <1>1, WithObservationFacts
    <2> DEFINE rec == More(st.effects[i], o)
    <2>3. i \in DOMAIN j.next.effects /\ j.next.effects[i] = rec
      BY <2>2, <1>1 DEF Records
    <2>4. j.next \in Known'
      BY <1>2, <1>1 DEF Known, Held
    <2>5. ValidOperation(j.next) /\ InForce(rec, past)
      BY <2>4, <2>3, <1>2 DEF Inv, StatesSound, Sound
    <2>6. /\ rec.intent = st.effects[i].intent
          /\ \E n \in DOMAIN rec.observations : rec.observations[n] = o
      BY <2>2, MoreFacts, MoreIncludes
    <2>7. o.observedAt = clock
      BY <1>4, <1>1 DEF ProposesObservation
    <2>8. clock \in Nat /\ past.at \in Nat /\ Ttl \in Nat
      BY BoundsTyped DEF Inv, Typed, TypeOK
    <2> HIDE DEF rec
    <2>9. ~(rec.intent.principal = past.principal /\ rec.intent.epoch = past.epoch)
      BY <2>8, <2>7, <2>6, <2>5, <1>4 DEF InForce
    <2>10. ASSUME NEW p \in j.plan, NEW n \in DOMAIN j.next.effects,
                  p \in PlansOf(j.next.effects[n].intent)
           PROVE  n = i
      <3>1. p \in PlansOf(j.next.effects[i].intent)
        BY <2>10, <2>6, <2>3, <1>1
      <3> QED
        BY <3>1, <2>10, <2>5, <2>3, OneEffect
    <2>11. \A p \in j.plan : ~RetainsUnder(j.next, p, past)
      BY <2>10, <2>9, <2>3 DEF RetainsUnder
    <2> QED
      BY <2>11, <1>2, <1>1 DEF Wields
  <1> QED
    BY <1>4, <1>3

\* A swap retains the intents of what it replaces, epoch and all.
LEMMA SwapRetains ==
    ASSUME Inv, NEW w \in Worker, Persist(w), NEW st \in db, NEW p \in Plan,
           Retains(st, p), NEW past, RetainsUnder(job[w].next, p, past)
    PROVE  RetainsUnder(st, p, past)
  <1> DEFINE n == job[w].next
  <1>1. /\ job[w].kind = "propose" /\ db = job[w].base /\ n \in Known
        /\ Derived(job[w])
    BY DEF Persist, Known, Held, Inv, ProposalsDerived
  <1>2. ValidOperation(n)
    BY <1>1 DEF Inv, StatesSound
  <1>3. PICK i \in DOMAIN st.effects : p \in PlansOf(st.effects[i].intent)
    BY DEF Retains
  <1>4. i \in DOMAIN n.effects /\ n.effects[i].intent = st.effects[i].intent
    <2>1. ASSUME NEW intent, Reserves(st, n, intent)
          PROVE  i \in DOMAIN n.effects /\ n.effects[i].intent = st.effects[i].intent
      BY <2>1 DEF Reserves
    <2>2. ASSUME NEW k \in DOMAIN st.effects, NEW o, Records(st, n, k, o)
          PROVE  i \in DOMAIN n.effects /\ n.effects[i].intent = st.effects[i].intent
      BY <2>2 DEF Records, More
    <2> QED
      BY <2>2, <2>1, <1>1 DEF Derived
  <1> HIDE DEF n
  <1>5. PICK k \in DOMAIN n.effects :
            /\ p \in PlansOf(n.effects[k].intent)
            /\ n.effects[k].intent.principal = past.principal
            /\ n.effects[k].intent.epoch = past.epoch
    BY DEF RetainsUnder, n
  <1>6. k = i
    BY <1>5, <1>4, <1>3, <1>2, OneEffect
  <1> QED
    BY <1>6, <1>5, <1>4, <1>3 DEF RetainsUnder

\* A swap hands its proposer the grant it proposed, and nobody else another one.
LEMMA SwapWields ==
    ASSUME Inv, NEW w \in Worker, Persist(w), NEW v \in Worker, NEW past, Wields(v, past)'
    PROVE  Wields(v, past)
  <1>1. /\ job[w].kind = "propose" /\ db' = {job[w].next}
        /\ \/ job' = [job EXCEPT ![w] = Idle]
           \/ /\ job[w].may \in {"sign", "send"}
              /\ \E p \in job[w].plan :
                    job' = [job EXCEPT ![w] = [kind |-> job[w].may, plan |-> p]]
    BY PersistTyped DEF Inv
  <1>2. CASE v = w
    <2>1. CASE job' = [job EXCEPT ![w] = Idle]
      <3>1. job'[v].kind = "idle"
        BY <2>1, <1>2 DEF Idle, Inv, Typed, TypeOK
      <3> QED
        BY <3>1, NothingWielded
    <2>2. ASSUME job[w].may \in {"sign", "send"}, NEW p \in job[w].plan,
                 job' = [job EXCEPT ![w] = [kind |-> job[w].may, plan |-> p]]
          PROVE  Wields(v, past)
      <3>1. job'[v] = [kind |-> job[w].may, plan |-> p]
        BY <2>2, <1>2 DEF Inv, Typed, TypeOK
      <3>2. RetainsUnder(job[w].next, p, past)
        <4>1. job'[v].kind \in {"sign", "send"} /\ job'[v].plan = p
          BY <3>1, <2>2
        <4>2. \E st \in db' : RetainsUnder(st, p, past)
          BY <4>1 DEF Wields, RetainsUnder
        <4> QED
          BY <4>2, <1>1
      <3> QED
        BY <3>2, <2>2, <1>2, <1>1 DEF Wields
    <2> QED
      BY <2>2, <2>1, <1>1
  <1>3. CASE v # w
    <2>1. job'[v] = job[v] /\ job[v] \in Job
      BY <1>3, <1>1 DEF Inv, Typed, TypeOK
    <2>2. CASE job[v].kind = "propose"
      BY <2>2, <2>1 DEF Wields, RetainsUnder
    <2>3. CASE job[v].kind \in {"sign", "send"}
      <3>1. job[v].plan \in Plan
        BY <2>3, <2>1, JobFields
      <3>2. RetainsUnder(job[w].next, job[v].plan, past)
        <4>1. \E st \in db' : RetainsUnder(st, job[v].plan, past)
          BY <2>3, <2>1 DEF Wields, RetainsUnder
        <4> QED
          BY <4>1, <1>1
      <3>3. \E st \in db : Retains(st, job[v].plan)
        <4>1. CASE job[v].kind = "sign"
          BY <4>1, <3>1 DEF Inv, GrantsUnique, Signable, MayBeSigned
        <4>2. CASE job[v].kind = "send"
          BY <4>2, <3>1 DEF Inv, GrantsUnique, Sendable, Claimed, Retains
        <4> QED
          BY <4>2, <4>1, <2>3
      <3>4. \E st \in db : RetainsUnder(st, job[v].plan, past)
        BY <3>3, <3>2, <3>1, SwapRetains
      <3> QED
        BY <3>4, <2>3 DEF Wields
    <2> QED
      BY <2>3, <2>2, <2>1, NothingWielded
  <1> QED
    BY <1>3, <1>2

\* A revoked epoch gives nobody a new proposal or grant once what was observed of
\* it before has run out (operation_exposure.py:725 and :506).
THEOREM RevocationEnds == Spec => RevokedGainsNothing
<1>1. Inv /\ Inv' /\ [Next]_vars => [RevocationStep]_vars
  <2> SUFFICES ASSUME Inv, Inv', [Next]_vars, NEW past \in lapsed, clock > past.at + Ttl,
                      NEW v \in Worker, Wields(v, past)'
               PROVE  Wields(v, past)
    BY DEF RevocationStep
  <2>1. ASSUME job'[v] = job[v], db' = db PROVE Wields(v, past)
    BY <2>1 DEF Wields, RetainsUnder
  <2>2. ASSUME NEW w \in Worker, WorkerStep(w) PROVE Wields(v, past)
    <3>1. ASSUME v # w, ~Persist(w) PROVE Wields(v, past)
      <4>1. job'[v] = job[v] /\ db' = db
        BY <3>1, <2>2
           DEF WorkerStep, ProposeMaximum, Load, Acknowledge, ProposeEffect,
               ProposeObservation, Sign, Send, GiveUp, Crash, Inv, Typed, TypeOK
      <4> QED
        BY <4>1, <2>1
    <3>2. CASE Persist(w)
      BY <3>2, SwapWields
    <3>3. ASSUME NEW m \in Maximum, ProposeMaximum(w, m), v = w PROVE Wields(v, past)
      <4>1. job'[v].kind = "propose" /\ job'[v].may = "nothing"
        BY <3>3 DEF ProposeMaximum, Inv, Typed, TypeOK
      <4> QED
        BY <4>1, NothingWielded
    <3>4. ASSUME Load(w) \/ (\E s \in Principal : Acknowledge(w, s)) \/ Sign(w) \/ Send(w)
                 \/ GiveUp(w) \/ Crash(w),
                 v = w
          PROVE  Wields(v, past)
      <4>1. job'[v].kind \in {"idle", "loaded", "ready"}
        BY <3>4 DEF Load, Acknowledge, Sign, Send, GiveUp, Crash, Idle, Inv, Typed, TypeOK
      <4> QED
        BY <4>1, NothingWielded
    <3>5. ASSUME NEW p \in Plan, NEW epoch \in 0 .. MaxEpoch, ProposeEffect(w, p, epoch),
                 v = w
          PROVE  Wields(v, past)
      BY <3>5, ReservedInTime
    <3>6. ASSUME NEW i, NEW k, ProposeObservation(w, i, k), v = w PROVE Wields(v, past)
      BY <3>6, ClaimedInTime
    <3> QED
      BY <3>6, <3>5, <3>4, <3>3, <3>2, <3>1, <2>2 DEF WorkerStep
  <2>3. CASE Surroundings \/ UNCHANGED vars
    <3>1. job' = job /\ db' = db
      BY <2>3 DEF vars, Surroundings, Tick, Revoke, Reinstate, Land
    <3> QED
      BY <3>1, <2>1
  <2> QED
    BY <2>3, <2>2 DEF Next
<1> QED
  BY <1>1, Invariance, PTL DEF Spec, RevokedGainsNothing

\* A recorded outcome is the one the chain gave to this very intent's transaction,
\* although evidence may be old, or of another effect (operation_exposure.py:500).
THEOREM OutcomesTrue == Spec => []OutcomesAttributed
<1>1. ASSUME Inv PROVE OutcomesAttributed
  <2>1. ASSUME NEW st \in db, NEW i \in DOMAIN st.effects,
               NEW p \in PlansOf(st.effects[i].intent)
        PROVE  /\ EffectState(st.effects[i]) = "PROVEN_NOT_SIGNED" =>
                      Liability(p) = NoDebit
               /\ EffectState(st.effects[i]) \in Terminal =>
                      wire[p].debit = ChargedDebit(st.effects[i])
               /\ EffectState(st.effects[i]) = "CONFIRMED" <=>
                      /\ EffectState(st.effects[i]) \in Terminal
                      /\ wire[p].state = "confirmed"
    <3>1. Truth(st.effects[i], wire, Signable)
      BY <1>1 DEF Inv, RecordsTrue, AllTrue
    <3>2. p \in Plan
      BY DEF PlansOf
    <3>3. EffectState(st.effects[i]) = "PROVEN_NOT_SIGNED" =>
              wire[p].state = "unsigned" /\ ~MayBeSigned(p)
      BY <3>1, <3>2 DEF Truth, Signable
    <3>4. EffectState(st.effects[i]) = "PROVEN_NOT_SIGNED" => Liability(p) = NoDebit
      BY <3>3 DEF Liability
    <3> QED
      BY <3>1, <3>4 DEF Truth, Terminal
  <2> QED
    BY <2>1 DEF OutcomesAttributed
<1> QED
  BY <1>1, Invariance, PTL

\* Nothing but the create is signed before the create of that very deployment is
\* confirmed on the chain (operation_exposure.py:579 and :763).
THEOREM CreateConfirmed == Spec => []FundsConfirmedCreate
<1>1. ASSUME Inv PROVE FundsConfirmedCreate
  <2>1. SUFFICES ASSUME NEW p \in Plan, p.purpose # "CREATE",
                        uses[p].sign > 0 \/ MayBeSigned(p)
                 PROVE  \E c \in Plan : /\ c.purpose = "CREATE"
                                        /\ c.subject = p.subject
                                        /\ wire[c].state = "confirmed"
    BY DEF FundsConfirmedCreate
  <2>2. wire[p].state # "unsigned" \/ p \in Signable
    <3>1. uses[p].sign = IF wire[p].state = "unsigned" THEN 0 ELSE 1
      BY <1>1 DEF Inv, GrantsUnique, Counted
    <3> QED
      BY <2>1, <3>1 DEF Signable
  <2>3. PICK st \in db : Retains(st, p)
    BY <1>1, <2>2 DEF Inv, GrantsUnique
  <2>4. PICK i \in DOMAIN st.effects : p \in PlansOf(st.effects[i].intent)
    BY <2>3 DEF Retains
  <2>5. /\ st \in FinancialOperationState /\ CreateFirst(st.effects)
        /\ \A k \in DOMAIN st.effects : Sound(st.effects[k], clock, lapsed)
    BY <1>1 DEF Inv, Typed, TypeOK, StatesSound, Known, ValidOperation
  <2>6. i \in Nat /\ i >= 1 /\ 1 \in DOMAIN st.effects
    BY <2>5, EffectTyped
  <2>7. st.effects[i].intent.purpose # "CREATE" /\ st.effects[i].intent.subject = p.subject
    BY <2>1, <2>4, PlanFields
  <2>8. st.effects[1].intent.purpose = "CREATE"
    BY <2>5, <2>6 DEF CreateFirst
  <2>9. i > 1
    BY <2>8, <2>7, <2>6
  <2>10. /\ EffectState(st.effects[1]) = "CONFIRMED"
         /\ st.effects[1].intent.subject = p.subject
    BY <2>9, <2>7, <2>6, <2>5 DEF CreateFirst
  <2>11. PICK c \in Plan : c \in PlansOf(st.effects[1].intent)
    BY <2>5, <2>6 DEF Sound, Attributed, PlansOf
  <2>12. c.purpose = "CREATE" /\ c.subject = p.subject
    BY <2>11, <2>10, <2>8, PlanFields
  <2>13. Truth(st.effects[1], wire, Signable)
    BY <1>1, <2>6 DEF Inv, RecordsTrue, AllTrue
  <2>14. wire[c].state = "confirmed"
    BY <2>13, <2>11, <2>10 DEF Truth, Terminal
  <2> QED
    BY <2>12, <2>14
<1> QED
  BY <1>1, Invariance, PTL

LEMMA CoversItself == ASSUME NEW v \in NativeLiabilityVector PROVE Covers(v, v)
  BY DEF Covers, NativeLiabilityVector

\* What is retained of a plan charges all that its transaction may debit.
LEMMA LiabilityCharged ==
    ASSUME Inv, NEW st \in db, NEW i \in DOMAIN st.effects,
           NEW p \in PlansOf(st.effects[i].intent)
    PROVE  Liability(p) = NoDebit \/ Covers(ChargedDebit(st.effects[i]), Liability(p))
  <1> DEFINE rec == st.effects[i]
  <1>1. p \in Plan /\ rec.intent.maximum = p.maximum
    BY PlanFields
  <1>2. st \in FinancialOperationState
    BY DEF Inv, Typed, TypeOK
  <1>3. rec \in FinancialEffectRecord /\ rec.intent.maximum \in NativeLiabilityVector
    BY <1>2, EffectTyped DEF FinancialEffectIntent
  <1>4. Truth(rec, wire, Signable)
    BY DEF Inv, RecordsTrue, AllTrue
  <1>5. wire[p].state \in {"unsigned", "signed", "sent", "confirmed", "failed"}
        /\ wire[p].debit \in NativeLiabilityVector
    BY <1>1 DEF Inv, Typed, TypeOK
  <1> HIDE DEF rec
  <1>6. CASE EffectState(rec) = "PROVEN_NOT_SIGNED"
    <2>1. wire[p].state = "unsigned" /\ ~MayBeSigned(p)
      BY <1>6, <1>4, <1>1 DEF Truth, Signable, rec
    <2> QED
      BY <2>1 DEF Liability
  <1>7. CASE EffectState(rec) \in Terminal
    <2>1. wire[p].state \in {"confirmed", "failed"} /\ wire[p].debit = ChargedDebit(rec)
      BY <1>4, <1>7 DEF Truth, rec
    <2>2. Liability(p) = wire[p].debit
      BY <2>1 DEF Liability
    <2> QED
      BY <2>2, <2>1, <1>5, CoversItself DEF rec
  <1>8. CASE EffectState(rec) \notin {"PROVEN_NOT_SIGNED"} \cup Terminal
    <2>1. ChargedDebit(rec) = p.maximum
      BY <1>1, <1>8 DEF ChargedDebit, rec
    <2>2. CASE wire[p].state \in {"confirmed", "failed"}
      <3>1. Covers(p.maximum, wire[p].debit)
        BY <1>1, <2>2, FundingAssumption DEF Inv, DebitsAllowed
      <3>2. Liability(p) = wire[p].debit
        BY <2>2 DEF Liability
      <3> QED
        BY <3>2, <3>1, <2>1 DEF rec
    <2>3. CASE wire[p].state \in {"unsigned", "signed", "sent"}
      <3>1. Liability(p) \in {NoDebit, p.maximum}
        BY <2>3 DEF Liability
      <3>2. Covers(p.maximum, p.maximum)
        BY <1>1, <1>3, CoversItself DEF rec
      <3> QED
        BY <3>2, <3>1, <2>1 DEF rec
    <2> QED
      BY <2>3, <2>2, <1>5
  <1> QED
    BY <1>8, <1>7, <1>6 DEF rec

LEMMA ChargeTyped ==
    ASSUME NEW rec \in FinancialEffectRecord PROVE ChargedDebit(rec) \in NativeLiabilityVector
  <1> DEFINE obs == rec.observations
  <1>1. /\ obs \in Seq(FinancialEffectObservation)
        /\ rec.intent.maximum \in NativeLiabilityVector
    BY DEF FinancialEffectRecord, FinancialEffectIntent
  <1>2. CASE EffectState(rec) \in Terminal
    <2>1. obs # <<>> /\ obs[Len(obs)].state \in Terminal
      BY <1>2 DEF EffectState, Terminal
    <2>2. obs[Len(obs)] \in FinancialEffectObservation
      BY <1>1, <2>1
    <2>3. \A o \in FinancialEffectObservation :
             o.state \in Terminal => o.actual \in NativeLiabilityVector
      BY DEF FinancialEffectObservation, Terminal
    <2>4. ChargedDebit(rec) = obs[Len(obs)].actual
      BY <1>2 DEF ChargedDebit, Terminal
    <2> QED
      BY <2>4, <2>3, <2>2, <2>1
  <1>3. CASE EffectState(rec) \notin Terminal
    BY <1>1, <1>3, NoDebitType DEF ChargedDebit
  <1> QED
    BY <1>2, <1>3

\* Units of finitely many vectors are finitely many.
LEMMA UnitsFinite ==
    ASSUME NEW charges, IsFiniteSet(DOMAIN charges), NEW d \in Denomination,
           \A i \in DOMAIN charges : charges[i] \in NativeLiabilityVector
    PROVE  IsFiniteSet(Units(charges, d))
  <1> DEFINE Block(i) == {i} \X (1 .. charges[i].amount[d])
  <1>1. ASSUME NEW i \in DOMAIN charges PROVE IsFiniteSet(Block(i))
    <2>1. charges[i].amount[d] \in Nat
      BY DEF NativeLiabilityVector
    <2>2. IsFiniteSet(1 .. charges[i].amount[d])
      BY <2>1, FS_Interval
    <2> QED
      BY <2>2, FS_Singleton, FS_Product
  <1> DEFINE Blocks == {Block(i) : i \in DOMAIN charges}
             block == [i \in DOMAIN charges |-> Block(i)]
  <1>2. IsFiniteSet(Blocks)
    <2>1. block \in Surjection(DOMAIN charges, Blocks)
      BY DEF Surjection
    <2> QED
      BY <2>1, FS_Surjection
  <1>3. \A T \in Blocks : IsFiniteSet(T)
    BY <1>1
  <1>4. IsFiniteSet(UNION Blocks)
    BY <1>2, <1>3, FS_UNION
  <1>5. Units(charges, d) = UNION Blocks
    BY DEF Units
  <1> QED
    BY <1>4, <1>5

\* Vectors that are covered, each by one of its own, sum to no more.
LEMMA SumCovered ==
    ASSUME NEW due, NEW charges, NEW own \in [DOMAIN due -> DOMAIN charges],
           IsFiniteSet(DOMAIN charges), NEW d \in Denomination,
           \A i \in DOMAIN charges : charges[i] \in NativeLiabilityVector,
           \A p \in DOMAIN due :
              due[p] # NoDebit => /\ due[p].amount[d] \in Nat
                                  /\ due[p].amount[d] <= charges[own[p]].amount[d],
           \A p, q \in DOMAIN due :
              (due[p] # NoDebit /\ due[q] # NoDebit /\ own[p] = own[q]) => p = q
    PROVE  /\ Cardinality(Units(due, d)) \in Nat
           /\ Cardinality(Units(charges, d)) \in Nat
           /\ Cardinality(Units(due, d)) <= Cardinality(Units(charges, d))
  <1> DEFINE S == Units(due, d)
             T == Units(charges, d)
             f == [u \in S |-> <<own[u[1]], u[2]>>]
  <1>1. IsFiniteSet(T)
    BY UnitsFinite
  <1>2. ASSUME NEW u \in S
        PROVE  \E p \in DOMAIN due : \E k \in 1 .. due[p].amount[d] :
                  /\ u = <<p, k>> /\ due[p] # NoDebit
                  /\ <<own[p], k>> \in T
    <2>1. PICK p \in DOMAIN due : u \in {p} \X (1 .. due[p].amount[d])
      BY DEF Units
    <2>2. PICK k \in 1 .. due[p].amount[d] : u = <<p, k>>
      BY <2>1
    <2>3. due[p] # NoDebit
      <3>1. ASSUME due[p] = NoDebit PROVE FALSE
        <4>1. NoDebit.amount[d] = 0
          BY DEF NoDebit
        <4>2. k \in 1 .. 0
          BY <4>1, <3>1, <2>2
        <4> QED
          BY <4>2
      <3> QED
        BY <3>1
    <2>4. /\ due[p].amount[d] \in Nat
          /\ due[p].amount[d] <= charges[own[p]].amount[d]
      BY <2>3
    <2>5. own[p] \in DOMAIN charges /\ charges[own[p]].amount[d] \in Nat
      BY DEF NativeLiabilityVector
    <2>6. k \in 1 .. charges[own[p]].amount[d]
      BY <2>5, <2>4, <2>2
    <2>7. <<own[p], k>> \in {own[p]} \X (1 .. charges[own[p]].amount[d])
      BY <2>6
    <2>8. <<own[p], k>> \in T
      BY <2>5, <2>7 DEF Units
    <2> QED
      BY <2>8, <2>3, <2>2
  <1> HIDE DEF S, T
  <1>3. f \in [S -> T]
    <2>1. ASSUME NEW u \in S PROVE <<own[u[1]], u[2]>> \in T
      <3>1. \E p \in DOMAIN due : \E k : u = <<p, k>> /\ <<own[p], k>> \in T
        BY <1>2
      <3> QED
        BY <3>1
    <2> QED
      BY <2>1
  <1>4. ASSUME NEW u \in S, NEW v \in S, f[u] = f[v] PROVE u = v
    <2>1. PICK p \in DOMAIN due : \E k : u = <<p, k>> /\ due[p] # NoDebit
      BY <1>2
    <2>2. PICK q \in DOMAIN due : \E m : v = <<q, m>> /\ due[q] # NoDebit
      BY <1>2
    <2>3. u = <<p, u[2]>> /\ v = <<q, v[2]>>
      BY <2>1, <2>2
    <2>4. f[u] = <<own[p], u[2]>> /\ f[v] = <<own[q], v[2]>>
      BY <2>3
    <2>5. own[p] = own[q] /\ u[2] = v[2]
      BY <1>4, <2>4
    <2>6. p = q
      BY <2>5, <2>2, <2>1
    <2> QED
      BY <2>6, <2>5, <2>3
  <1>5. f \in Injection(S, T)
    BY <1>3, <1>4 DEF Injection, IsInjective
  <1> HIDE DEF f
  <1>6. IsFiniteSet(S) /\ Cardinality(S) <= Cardinality(T)
    BY <1>1, <1>5, FS_Injection
  <1>7. Cardinality(S) \in Nat /\ Cardinality(T) \in Nat
    BY <1>1, <1>6, FS_CardinalityType
  <1> QED
    BY <1>6, <1>7 DEF S, T

\* What is due of a covered sum, each part within one of its own, is covered.
LEMMA DueCovered ==
    ASSUME NEW most \in NativeLiabilityVector, NEW charges, IsFiniteSet(DOMAIN charges),
           Covers(most, AddNativeLiabilities(charges)),
           \A i \in DOMAIN charges : charges[i] \in NativeLiabilityVector,
           NEW due, NEW own,
           \A p \in DOMAIN due : due[p] # NoDebit =>
               /\ due[p] \in NativeLiabilityVector
               /\ own[p] \in DOMAIN charges /\ Covers(charges[own[p]], due[p]),
           \A p, q \in DOMAIN due :
               (due[p] # NoDebit /\ due[q] # NoDebit /\ own[p] = own[q]) => p = q
    PROVE  Covers(most, AddNativeLiabilities(due))
  <1> DEFINE some == CHOOSE i \in DOMAIN charges : TRUE
             place == [p \in DOMAIN due |-> IF due[p] # NoDebit THEN own[p] ELSE some]
  <1>1. ASSUME NEW d \in AddNativeLiabilities(due).names
        PROVE  /\ d \in most.names
               /\ AddNativeLiabilities(due).amount[d] <= most.amount[d]
    <2>1. PICK q \in DOMAIN due : d \in due[q].names
      BY DEF AddNativeLiabilities
    <2>2. due[q] # NoDebit
      BY <2>1 DEF NoDebit
    <2>3. /\ own[q] \in DOMAIN charges /\ Covers(charges[own[q]], due[q])
          /\ d \in Denomination
      BY <2>1, <2>2 DEF NativeLiabilityVector
    <2>4. d \in AddNativeLiabilities(charges).names
      BY <2>1, <2>3 DEF Covers, AddNativeLiabilities
    <2>5. /\ d \in most.names
          /\ AddNativeLiabilities(charges).amount[d] <= most.amount[d]
      BY <2>4 DEF Covers
    <2>6. place \in [DOMAIN due -> DOMAIN charges]
      <3>1. some \in DOMAIN charges
        BY <2>3
      <3> HIDE DEF some
      <3> QED
        BY <3>1
    <2>7. ASSUME NEW p \in DOMAIN due, due[p] # NoDebit
          PROVE  /\ due[p].amount[d] \in Nat
                 /\ due[p].amount[d] <= charges[place[p]].amount[d]
      <3>1. place[p] = own[p]
        BY <2>7
      <3>2. /\ own[p] \in DOMAIN charges /\ Covers(charges[own[p]], due[p])
            /\ due[p] \in NativeLiabilityVector /\ charges[own[p]] \in NativeLiabilityVector
        BY <2>7
      <3> HIDE DEF place
      <3> QED
        BY <3>2, <3>1, <2>3 DEF Covers, NativeLiabilityVector
    <2>8. ASSUME NEW p \in DOMAIN due, NEW r \in DOMAIN due,
                 due[p] # NoDebit, due[r] # NoDebit, place[p] = place[r]
          PROVE  p = r
      BY <2>8
    <2>9. /\ Cardinality(Units(due, d)) \in Nat
          /\ Cardinality(Units(charges, d)) \in Nat
          /\ Cardinality(Units(due, d)) <= Cardinality(Units(charges, d))
      <3> HIDE DEF place
      <3> QED
        BY <2>8, <2>7, <2>6, <2>3, SumCovered
    <2>10. /\ AddNativeLiabilities(due).amount[d] = Cardinality(Units(due, d))
           /\ AddNativeLiabilities(charges).amount[d] = Cardinality(Units(charges, d))
      BY <2>3 DEF AddNativeLiabilities
    <2>11. most.amount[d] \in Nat
      BY <2>3 DEF NativeLiabilityVector
    <2> QED
      BY <2>11, <2>10, <2>9, <2>5
  <1> QED
    BY <1>1 DEF Covers

LEMMA EffectsFinite ==
    ASSUME NEW st \in FinancialOperationState PROVE IsFiniteSet(DOMAIN st.effects)
  <1> DEFINE effects == st.effects
  <1>1. effects \in Seq(FinancialEffectRecord)
    BY DEF FinancialOperationState
  <1>2. PICK n \in Nat : DOMAIN effects = 1 .. n
    BY <1>1
  <1>3. IsFiniteSet(1 .. n)
    BY FS_Interval
  <1> QED
    BY <1>2, <1>3

LEMMA LiabilityRetained ==
    ASSUME Inv, NEW p \in Plan, Liability(p) # NoDebit
    PROVE  /\ \E st \in db : Retains(st, p)
           /\ Liability(p) \in NativeLiabilityVector
  <1>1. wire[p].state \in {"unsigned", "signed", "sent", "confirmed", "failed"}
        /\ wire[p].debit \in NativeLiabilityVector
    BY DEF Inv, Typed, TypeOK
  <1>2. wire[p].state # "unsigned" \/ p \in Signable
    BY <1>1 DEF Liability, Signable
  <1>3. PICK st \in db : Retains(st, p)
    BY <1>2 DEF Inv, GrantsUnique
  <1>4. PICK i \in DOMAIN st.effects : p \in PlansOf(st.effects[i].intent)
    BY <1>3 DEF Retains
  <1>5. st.effects[i].intent \in FinancialEffectIntent
    BY EffectTyped DEF Inv, Typed, TypeOK
  <1>6. p.maximum \in NativeLiabilityVector
    BY <1>4, <1>5, PlanFields DEF FinancialEffectIntent
  <1> QED
    BY <1>6, <1>3, <1>1, NoDebitType DEF Liability

\* All that was debited, and all that may still be, is retained and within the
\* operation's lifetime maximum (operation_exposure.py:529 and :599).
THEOREM SpendBounded == Spec => []SpendWithinMaximum
<1>1. ASSUME Inv, NEW st \in db
      PROVE  Covers(st.maximum.native, AddNativeLiabilities([p \in Plan |-> Liability(p)]))
  <2> DEFINE due == [p \in Plan |-> Liability(p)]
             charges == [i \in DOMAIN st.effects |-> ChargedDebit(st.effects[i])]
             Of(p) == {i \in DOMAIN st.effects : p \in PlansOf(st.effects[i].intent)}
             own == [p \in Plan |-> CHOOSE i \in Of(p) : TRUE]
  <2>1. /\ st \in FinancialOperationState /\ ValidOperation(st)
        /\ \A other \in db : other = st
    BY <1>1 DEF Inv, Typed, TypeOK, StatesSound, Known
  <2>2. IsFiniteSet(DOMAIN charges)
    BY <2>1, EffectsFinite
  <2>3. ASSUME NEW i \in DOMAIN charges PROVE charges[i] \in NativeLiabilityVector
    <3>1. st.effects[i] \in FinancialEffectRecord
      BY <2>1, EffectTyped
    <3> QED
      BY <3>1, ChargeTyped
  <2>4. ASSUME NEW p \in Plan, Liability(p) # NoDebit
        PROVE  /\ own[p] \in DOMAIN charges /\ p \in PlansOf(st.effects[own[p]].intent)
               /\ Covers(charges[own[p]], Liability(p))
               /\ Liability(p) \in NativeLiabilityVector
    <3>1. Retains(st, p) /\ Liability(p) \in NativeLiabilityVector
      BY <2>4, <2>1, <1>1, LiabilityRetained
    <3>2. Of(p) # {}
      BY <3>1 DEF Retains
    <3>3. own[p] \in Of(p)
      BY <3>2
    <3>4. own[p] \in DOMAIN charges /\ p \in PlansOf(st.effects[own[p]].intent)
      BY <3>3
    <3>5. Covers(charges[own[p]], Liability(p))
      BY <3>4, <2>4, <1>1, LiabilityCharged
    <3> QED
      BY <3>5, <3>4, <3>1
  <2>5. Covers(st.maximum.native, AddNativeLiabilities(charges))
    BY <2>1 DEF ValidOperation, FinancialNativeUsage
  <2>6. ASSUME NEW p \in Plan, NEW q \in Plan, Liability(p) # NoDebit, Liability(q) # NoDebit,
               own[p] = own[q]
        PROVE  p = q
    <3>1. p \in PlansOf(st.effects[own[p]].intent) /\ q \in PlansOf(st.effects[own[p]].intent)
      BY <2>4, <2>6
    <3> QED
      BY <3>1, OnePlan
  <2>7. DOMAIN due = Plan /\ \A p \in Plan : due[p] = Liability(p)
    OBVIOUS
  <2>8. st.maximum.native \in NativeLiabilityVector
    BY <2>1 DEF FinancialOperationState, OperationMaximumLiability
  <2> HIDE DEF due, charges, own
  <2> QED
    BY <2>8, <2>7, <2>6, <2>5, <2>4, <2>3, <2>2, DueCovered DEF due
<1>2. ASSUME Inv PROVE SpendWithinMaximum
  BY <1>1, <1>2, LiabilityRetained DEF SpendWithinMaximum
<1> QED
  BY <1>2, Invariance, PTL

----
\* The services implement the escrow.

\* The escrow's instance of Liabilities has the same operators.
LEMMA SameCardinality == ASSUME NEW S PROVE Escrow!Cardinality(S) = Cardinality(S)
  BY Zenon DEF Escrow!Cardinality, Cardinality

LEMMA SameVectors ==
    ASSUME NEW v, NEW other, NEW vectors
    PROVE  /\ Escrow!Covers(v, other) <=> Covers(v, other)
           /\ Escrow!AddNativeLiabilities(vectors) = AddNativeLiabilities(vectors)
           /\ Escrow!NoDebit = NoDebit
  <1>1. \A d : Escrow!Units(vectors, d) = Units(vectors, d)
    BY DEF Escrow!Units, Units
  <1>2. Escrow!AddNativeLiabilities(vectors) = AddNativeLiabilities(vectors)
    BY <1>1, SameCardinality DEF Escrow!AddNativeLiabilities, AddNativeLiabilities
  <1> QED
    BY <1>2 DEF Escrow!Covers, Covers, Escrow!NoDebit, NoDebit

\* A plan without a record is charged nothing.
None == [stage |-> "none", amount |-> NoDebit]

LEMMA NotCharged ==
    ASSUME NEW st, NEW p, \A i \in DOMAIN st.effects : p \notin PlansOf(st.effects[i].intent)
    PROVE  ChargeOf({st}, p) = None
  <1>1. RecordsOf({st}, p) = {}
    BY DEF RecordsOf, Range
  <1> QED
    BY <1>1 DEF ChargeOf, None

LEMMA NothingCharged == ASSUME NEW p PROVE ChargeOf({}, p) = None
  <1>1. RecordsOf({}, p) = {}
    BY DEF RecordsOf
  <1> QED
    BY <1>1 DEF ChargeOf, None

\* A retained plan is charged as its one record says.
LEMMA Charged ==
    ASSUME NEW st, ValidOperation(st), NEW i \in DOMAIN st.effects,
           NEW p \in PlansOf(st.effects[i].intent)
    PROVE  /\ ChargeOf({st}, p).stage = StageOf(st.effects[i])
           /\ ChargeOf({st}, p).amount = ChargedDebit(st.effects[i])
           /\ ChargeOf({st}, p) =
                  [stage |-> StageOf(st.effects[i]), amount |-> ChargedDebit(st.effects[i])]
  <1>1. \A k \in DOMAIN st.effects : p \in PlansOf(st.effects[k].intent) => k = i
    BY OneEffect
  <1>2. RecordsOf({st}, p) = {st.effects[i]}
    BY <1>1 DEF RecordsOf, Range
  <1>3. ChargeOf({st}, p) =
            [stage |-> StageOf(st.effects[i]), amount |-> ChargedDebit(st.effects[i])]
    BY <1>2 DEF ChargeOf
  <1> QED
    BY <1>3

LEMMA Stages ==
    ASSUME NEW rec
    PROVE  /\ StageOf(rec) \in {"confirmed", "failed", "void", "held"}
           /\ StageOf(rec) = "confirmed" <=> EffectState(rec) = "CONFIRMED"
           /\ StageOf(rec) = "held" <=>
                  EffectState(rec) \notin {"PROVEN_NOT_SIGNED"} \cup Terminal
           /\ StageOf(rec) = "held" => ChargedDebit(rec) = rec.intent.maximum
           /\ EffectState(rec) = "PROVEN_NOT_SIGNED" =>
                  StageOf(rec) = "void" /\ ChargedDebit(rec) = NoDebit
           /\ EffectState(rec) = "FAILED" => StageOf(rec) = "failed"
  BY DEF StageOf, ChargedDebit, Terminal

\* What is charged for all plans is within the maximum of a valid state.
LEMMA ChargesCovered ==
    ASSUME NEW st \in FinancialOperationState, ValidOperation(st)
    PROVE  Covers(st.maximum.native,
                  AddNativeLiabilities([p \in Plan |-> ChargeOf({st}, p).amount]))
  <1> DEFINE due == [p \in Plan |-> ChargeOf({st}, p).amount]
             charges == [i \in DOMAIN st.effects |-> ChargedDebit(st.effects[i])]
             Of(p) == {i \in DOMAIN st.effects : p \in PlansOf(st.effects[i].intent)}
             own == [p \in Plan |-> CHOOSE i \in Of(p) : TRUE]
  <1>1. IsFiniteSet(DOMAIN charges)
    BY EffectsFinite
  <1>2. ASSUME NEW i \in DOMAIN charges PROVE charges[i] \in NativeLiabilityVector
    <2>1. st.effects[i] \in FinancialEffectRecord
      BY EffectTyped
    <2> QED
      BY <2>1, ChargeTyped
  <1>3. ASSUME NEW p \in Plan, due[p] # NoDebit
        PROVE  /\ own[p] \in DOMAIN charges /\ p \in PlansOf(st.effects[own[p]].intent)
               /\ due[p] \in NativeLiabilityVector /\ Covers(charges[own[p]], due[p])
    <2>1. due[p] = ChargeOf({st}, p).amount
      OBVIOUS
    <2>2. Of(p) # {}
      <3>1. SUFFICES ASSUME Of(p) = {} PROVE FALSE
        OBVIOUS
      <3>2. ChargeOf({st}, p) = None
        BY <3>1, NotCharged
      <3> QED
        BY <3>2, <2>1, <1>3 DEF None
    <2>3. own[p] \in Of(p)
      BY <2>2
    <2>4. own[p] \in DOMAIN charges /\ p \in PlansOf(st.effects[own[p]].intent)
      BY <2>3
    <2>5. due[p] = charges[own[p]]
      BY <2>1, <2>4, Charged
    <2> QED
      BY <2>5, <2>4, <1>2, CoversItself
  <1>4. Covers(st.maximum.native, AddNativeLiabilities(charges))
    BY DEF ValidOperation, FinancialNativeUsage
  <1>5. ASSUME NEW p \in Plan, NEW q \in Plan, due[p] # NoDebit, due[q] # NoDebit,
               own[p] = own[q]
        PROVE  p = q
    <2>1. p \in PlansOf(st.effects[own[p]].intent) /\ q \in PlansOf(st.effects[own[p]].intent)
      BY <1>3, <1>5
    <2> QED
      BY <2>1, OnePlan
  <1>6. st.maximum.native \in NativeLiabilityVector /\ DOMAIN due = Plan
    BY DEF FinancialOperationState, OperationMaximumLiability
  <1> HIDE DEF due, charges, own
  <1>7. Covers(st.maximum.native, AddNativeLiabilities(due))
    BY <1>6, <1>5, <1>4, <1>3, <1>2, <1>1, DueCovered
  <1> QED
    BY <1>7 DEF due

----
\* Each swap of the committed state is a step of the escrow, or none.
LEMMA Swapped ==
    ASSUME Inv, NEW w \in Worker, Persist(w)
    PROVE  /\ db = job[w].base /\ db' = {job[w].next} /\ wire' = wire
           /\ Derived(job[w])
           /\ job[w].next \in FinancialOperationState /\ ValidOperation(job[w].next)
           /\ AllTrue(job[w].next, wire, Signable)
  <1>1. job[w].kind = "propose" /\ db = job[w].base /\ db' = {job[w].next} /\ wire' = wire
    BY DEF Persist
  <1>2. job[w].next \in Known
    BY <1>1 DEF Known, Held
  <1>3. Derived(job[w]) /\ AllTrue(job[w].next, wire, Signable)
    BY <1>1 DEF Inv, ProposalsDerived, RecordsTrue
  <1> QED
    BY <1>3, <1>2, <1>1, KnownTyped DEF Inv, StatesSound

LEMMA Committed ==
    ASSUME Inv, NEW st \in db
    PROVE  /\ db = {st} /\ st \in FinancialOperationState /\ ValidOperation(st)
           /\ AllTrue(st, wire, Signable)
           /\ \A i \in DOMAIN st.effects : PlansOf(st.effects[i].intent) # {}
  <1>1. db = {st} /\ st \in FinancialOperationState
    BY DEF Inv, Typed, TypeOK
  <1>2. st \in Known
    BY DEF Known
  <1>3. ValidOperation(st) /\ \A i \in DOMAIN st.effects : Attributed(st.effects[i])
    BY <1>2 DEF Inv, StatesSound, Sound
  <1> QED
    BY <1>1, <1>3 DEF Attributed, Inv, RecordsTrue

LEMMA EscrowUnchanged ==
    ASSUME {st.maximum.native : st \in db'} = {st.maximum.native : st \in db},
           \A p \in Plan : ChargeOf(db', p) = ChargeOf(db, p),
           wire' = wire
    PROVE  UNCHANGED Escrow!escrowVars
  BY DEF Escrow!escrowVars

LEMMA EscrowStart == Init => Escrow!EscrowInit
  <1>1. Escrow!NoDebit = NoDebit
    BY SameVectors
  <1>2. \A p : ChargeOf({}, p) = Escrow!NoCharge
    BY <1>1, NothingCharged DEF None, Escrow!NoCharge
  <1> QED
    BY <1>1, <1>2 DEF Init, Escrow!EscrowInit

LEMMA OpenStep ==
    ASSUME NEW n, db = {}, db' = {n}, wire' = wire, DOMAIN n.effects = {}, n.maximum \in Maximum
    PROVE  Escrow!EscrowNext
  <1>1. \A p : ChargeOf({n}, p) = ChargeOf({}, p)
    BY NotCharged, NothingCharged
  <1>2. n.maximum.native \in {m.native : m \in Maximum}
    OBVIOUS
  <1>3. {st.maximum.native : st \in db'} = {n.maximum.native}
    OBVIOUS
  <1>4. {st.maximum.native : st \in db} = {}
    OBVIOUS
  <1>5. Escrow!Open(n.maximum.native)
    BY <1>4, <1>3, <1>1 DEF Escrow!Open
  <1> QED
    BY <1>2, <1>5 DEF Escrow!EscrowNext

\* The reserved effect was not retained, and the others' records are as they were.
LEMMA ReserveCharges ==
    ASSUME NEW st, NEW n, ValidOperation(st), ValidOperation(n), NEW p \in Plan,
           NEW intent \in FinancialEffectIntent,
           Reserves(st, n, intent), PlansOf(intent) = {p}
    PROVE  /\ ChargeOf({st}, p) = None
           /\ ChargeOf({n}, p) = [stage |-> "held", amount |-> p.maximum]
           /\ \A q : q # p => ChargeOf({n}, q) = ChargeOf({st}, q)
  <1>1. PICK m \in DOMAIN n.effects :
            /\ m \notin DOMAIN st.effects
            /\ n.effects[m] = Fresh(intent)
            /\ \A k \in DOMAIN n.effects : k \in DOMAIN st.effects \/ k = m
    BY DEF Reserves
  <1>2. \A k \in DOMAIN st.effects : k \in DOMAIN n.effects /\ n.effects[k] = st.effects[k]
    BY DEF Reserves
  <1>3. /\ n.effects[m].intent = intent /\ p \in PlansOf(n.effects[m].intent)
        /\ intent.maximum = p.maximum
    BY <1>1, FreshFacts, PlanFields
  <1>4. \A k \in DOMAIN st.effects : p \notin PlansOf(st.effects[k].intent)
    BY <1>3, <1>2, <1>1, OneEffect
  <1>5. ChargeOf({n}, p) = [stage |-> "held", amount |-> p.maximum]
    <2>1. EffectState(n.effects[m]) \notin {"PROVEN_NOT_SIGNED"} \cup Terminal
      BY <1>1, FreshFacts DEF Terminal
    <2>2. StageOf(n.effects[m]) = "held" /\ ChargedDebit(n.effects[m]) = p.maximum
      BY <1>3, <2>1, Stages
    <2> QED
      BY <1>3, <2>2, Charged
  <1>6. ASSUME NEW q, q # p PROVE ChargeOf({n}, q) = ChargeOf({st}, q)
    <2>1. CASE \A k \in DOMAIN st.effects : q \notin PlansOf(st.effects[k].intent)
      <3>1. \A k \in DOMAIN n.effects : q \notin PlansOf(n.effects[k].intent)
        BY <2>1, <1>6, <1>3, <1>2, <1>1
      <3> QED
        BY <2>1, <3>1, NotCharged
    <2>2. ASSUME NEW k \in DOMAIN st.effects, q \in PlansOf(st.effects[k].intent)
          PROVE  ChargeOf({n}, q) = ChargeOf({st}, q)
      <3> DEFINE charge == [stage |-> StageOf(st.effects[k]),
                            amount |-> ChargedDebit(st.effects[k])]
      <3>1. k \in DOMAIN n.effects /\ n.effects[k] = st.effects[k]
        BY <1>2
      <3>2. ChargeOf({st}, q) = charge
        BY <2>2, Charged
      <3>3. q \in PlansOf(n.effects[k].intent)
        BY <2>2, <3>1
      <3>4. ChargeOf({n}, q) =
                [stage |-> StageOf(n.effects[k]), amount |-> ChargedDebit(n.effects[k])]
        BY <3>1, <3>3, Charged
      <3> QED
        BY <3>4, <3>2, <3>1
    <2> QED
      BY <2>1, <2>2
  <1> QED
    BY <1>6, <1>5, <1>4, NotCharged

\* The create is the first effect; the others find it confirmed.
LEMMA ReserveInTurn ==
    ASSUME Inv, NEW st, db = {st}, NEW n \in FinancialOperationState, ValidOperation(n),
           NEW p \in Plan, NEW intent \in FinancialEffectIntent,
           Reserves(st, n, intent), PlansOf(intent) = {p}
    PROVE  \/ p.purpose = "CREATE" /\ \A q : ChargeOf({st}, q) = None
           \/ /\ p.purpose # "CREATE"
              /\ \E c \in Plan : /\ c.purpose = "CREATE" /\ c.subject = p.subject
                                 /\ ChargeOf({st}, c).stage = "confirmed"
  <1>1. PICK m \in DOMAIN n.effects :
            /\ m \notin DOMAIN st.effects
            /\ n.effects[m] = Fresh(intent)
            /\ \A k \in DOMAIN n.effects : k \in DOMAIN st.effects \/ k = m
    BY DEF Reserves
  <1>2. \A k \in DOMAIN st.effects : k \in DOMAIN n.effects /\ n.effects[k] = st.effects[k]
    BY DEF Reserves
  <1>3. /\ n.effects[m].intent = intent
        /\ intent.purpose = p.purpose /\ intent.subject = p.subject
        /\ EffectState(n.effects[m]) # "CONFIRMED"
    BY <1>1, FreshFacts, PlanFields
  <1>4. \A k \in DOMAIN n.effects : k \in Nat /\ k >= 1 /\ 1 \in DOMAIN n.effects
    BY EffectTyped
  <1>5. CreateFirst(n.effects)
    BY DEF ValidOperation
  <1>6. CASE p.purpose = "CREATE"
    <2>1. m = 1
      BY <1>6, <1>5, <1>4, <1>3 DEF CreateFirst
    <2>2. \A k \in DOMAIN n.effects : k = 1
      BY <2>1, <1>5, <1>4, <1>3 DEF CreateFirst
    <2>3. DOMAIN st.effects = {}
      BY <2>2, <2>1, <1>2, <1>1
    <2> QED
      BY <1>6, <2>3, NotCharged
  <1>7. CASE p.purpose # "CREATE"
    <2>1. m > 1
      BY <1>7, <1>5, <1>4, <1>3 DEF CreateFirst
    <2>2. /\ EffectState(n.effects[1]) = "CONFIRMED"
          /\ n.effects[1].intent.purpose = "CREATE"
          /\ n.effects[1].intent.subject = p.subject
      BY <2>1, <1>5, <1>4, <1>3 DEF CreateFirst
    <2>3. 1 \in DOMAIN st.effects /\ n.effects[1] = st.effects[1]
      BY <2>2, <1>4, <1>3, <1>2, <1>1
    <2>4. PICK c : c \in PlansOf(st.effects[1].intent)
      BY <2>3, Committed
    <2>5. c \in Plan /\ c.purpose = "CREATE" /\ c.subject = p.subject
      BY <2>4, <2>3, <2>2, PlanFields
    <2>6. ValidOperation(st)
      BY Committed
    <2>7. StageOf(st.effects[1]) = "confirmed"
      BY <2>2, <2>3, Stages
    <2>8. ChargeOf({st}, c).stage = "confirmed"
      BY <2>7, <2>6, <2>4, <2>3, Charged
    <2> QED
      BY <2>8, <2>5, <1>7
  <1> QED
    BY <1>6, <1>7

LEMMA ReserveStep ==
    ASSUME Inv, NEW st, NEW n \in FinancialOperationState, NEW p \in Plan,
           NEW intent \in FinancialEffectIntent,
           db = {st}, db' = {n}, wire' = wire, wire[p].state = "unsigned",
           ValidOperation(n), Reserves(st, n, intent), PlansOf(intent) = {p}
    PROVE  Escrow!EscrowNext
  <1> DEFINE held == [stage |-> "held", amount |-> p.maximum]
             charge == [q \in Plan |-> ChargeOf({st}, q)]
             next == [q \in Plan |-> ChargeOf({n}, q)]
  <1>1. ValidOperation(st)
    BY Committed
  <1>2. n.maximum = st.maximum
    BY DEF Reserves
  <1>3. /\ ChargeOf({st}, p) = None /\ ChargeOf({n}, p) = held
        /\ \A q : q # p => ChargeOf({n}, q) = ChargeOf({st}, q)
    BY <1>1, ReserveCharges
  <1>4. \/ p.purpose = "CREATE" /\ \A q : ChargeOf({st}, q) = None
        \/ /\ p.purpose # "CREATE"
           /\ \E c \in Plan : /\ c.purpose = "CREATE" /\ c.subject = p.subject
                              /\ ChargeOf({st}, c).stage = "confirmed"
    BY ReserveInTurn
  <1>5. Covers(st.maximum.native, AddNativeLiabilities([q \in Plan |-> ChargeOf({n}, q).amount]))
    BY <1>2, ChargesCovered
  <1>6. None = Escrow!NoCharge
    BY SameVectors DEF None, Escrow!NoCharge
  <1>7. charge[p] = Escrow!NoCharge /\ next = [charge EXCEPT ![p] = held]
    BY <1>3, <1>6
  <1>8. [q \in Plan |-> next[q].amount] = [q \in Plan |-> ChargeOf({n}, q).amount]
    OBVIOUS
  <1>9. Escrow!Covers(st.maximum.native, Escrow!Taken(next))
    BY <1>5, <1>8, SameVectors DEF Escrow!Taken
  <1>10. Escrow!InTurn(p)
    <2>1. CASE p.purpose = "CREATE" /\ \A q : ChargeOf({st}, q) = None
      BY <1>6, <2>1 DEF Escrow!InTurn
    <2>2. ASSUME p.purpose # "CREATE",
                 NEW c \in Plan, c.purpose = "CREATE", c.subject = p.subject,
                 ChargeOf({st}, c).stage = "confirmed"
          PROVE  Escrow!InTurn(p)
      BY <2>2 DEF Escrow!InTurn
    <2> QED
      BY <2>2, <2>1, <1>4
  <1>11. /\ {s.maximum.native : s \in db'} = {st.maximum.native}
         /\ {s.maximum.native : s \in db} = {st.maximum.native}
    BY <1>2
  <1>12. /\ [q \in Plan |-> ChargeOf(db, q)] = charge
         /\ [q \in Plan |-> ChargeOf(db', q)] = next
    OBVIOUS
  <1> HIDE DEF charge, next
  <1>13. Escrow!Reserve(p)
    BY <1>12, <1>11, <1>10, <1>9, <1>7 DEF Escrow!Reserve
  <1> QED
    BY <1>13 DEF Escrow!EscrowNext

\* Of a reserved, signed or broadcast effect all that it may debit is held.
LEMMA HeldCharge ==
    ASSUME NEW st, ValidOperation(st), NEW i \in DOMAIN st.effects,
           NEW p \in PlansOf(st.effects[i].intent),
           EffectState(st.effects[i]) \notin {"PROVEN_NOT_SIGNED"} \cup Terminal
    PROVE  ChargeOf({st}, p) = [stage |-> "held", amount |-> p.maximum]
  <1>1. StageOf(st.effects[i]) = "held"
        /\ ChargedDebit(st.effects[i]) = st.effects[i].intent.maximum
    BY Stages
  <1>2. st.effects[i].intent.maximum = p.maximum
    BY PlanFields
  <1> QED
    BY <1>1, <1>2, Charged

\* One more observation changes what one held effect is charged, or nothing.
Recharged(st, n, i, o, p) ==
    /\ i \in DOMAIN n.effects /\ p \in PlansOf(n.effects[i].intent)
    /\ EffectState(n.effects[i]) = o.state
    /\ ChargeOf({st}, p) = [stage |-> "held", amount |-> p.maximum]
    /\ ChargeOf({n}, p) =
           [stage |-> StageOf(n.effects[i]), amount |-> ChargedDebit(n.effects[i])]
    /\ o.state \in {"SIGNED", "BROADCAST_CLAIMED_UNKNOWN"} =>
           ChargeOf({n}, p) = ChargeOf({st}, p)
    /\ \A q : q # p => ChargeOf({n}, q) = ChargeOf({st}, q)

LEMMA ObserveCharges ==
    ASSUME NEW st \in FinancialOperationState, NEW n, ValidOperation(st), ValidOperation(n),
           NEW i \in DOMAIN st.effects, NEW o \in FinancialEffectObservation,
           Records(st, n, i, o), Observable(st.effects[i], o),
           NEW p \in PlansOf(st.effects[i].intent)
    PROVE  Recharged(st, n, i, o, p)
  <1>1. /\ st.effects[i] \in FinancialEffectRecord
        /\ n.effects[i] = More(st.effects[i], o)
        /\ DOMAIN n.effects = DOMAIN st.effects
        /\ \A k \in DOMAIN st.effects : k # i => n.effects[k] = st.effects[k]
    BY EffectTyped DEF Records
  <1>2. i \in DOMAIN n.effects /\ p \in PlansOf(n.effects[i].intent)
        /\ EffectState(n.effects[i]) = o.state
    BY <1>1, MoreFacts
  <1>3. EffectState(st.effects[i]) \notin {"PROVEN_NOT_SIGNED"} \cup Terminal
    BY DEF Observable, AllowedStates, Terminal
  <1>4. ChargeOf({st}, p) = [stage |-> "held", amount |-> p.maximum]
    BY <1>3, HeldCharge
  <1>5. ChargeOf({n}, p) =
            [stage |-> StageOf(n.effects[i]), amount |-> ChargedDebit(n.effects[i])]
    BY <1>2, Charged
  <1>6. ASSUME o.state \in {"SIGNED", "BROADCAST_CLAIMED_UNKNOWN"}
        PROVE  ChargeOf({n}, p) = ChargeOf({st}, p)
    <2>1. EffectState(n.effects[i]) \notin {"PROVEN_NOT_SIGNED"} \cup Terminal
      BY <1>2, <1>6 DEF Terminal
    <2> QED
      BY <2>1, <1>4, <1>2, HeldCharge
  <1>7. ASSUME NEW q, q # p PROVE ChargeOf({n}, q) = ChargeOf({st}, q)
    <2>1. CASE \A k \in DOMAIN st.effects : q \notin PlansOf(st.effects[k].intent)
      <3>1. q \notin PlansOf(n.effects[i].intent)
        BY <1>2, <1>7, OnePlan
      <3>2. \A k \in DOMAIN n.effects : q \notin PlansOf(n.effects[k].intent)
        BY <3>1, <2>1, <1>1
      <3> QED
        BY <2>1, <3>2, NotCharged
    <2>2. ASSUME NEW k \in DOMAIN st.effects, q \in PlansOf(st.effects[k].intent)
          PROVE  ChargeOf({n}, q) = ChargeOf({st}, q)
      <3>1. k # i
        BY <1>7, <2>2, OnePlan
      <3>2. k \in DOMAIN n.effects /\ n.effects[k] = st.effects[k]
        BY <1>1, <3>1
      <3>3. q \in PlansOf(n.effects[k].intent)
        BY <2>2, <3>2
      <3>4. ChargeOf({n}, q) =
                [stage |-> StageOf(n.effects[k]), amount |-> ChargedDebit(n.effects[k])]
        BY <3>2, <3>3, Charged
      <3>5. ChargeOf({st}, q) =
                [stage |-> StageOf(st.effects[k]), amount |-> ChargedDebit(st.effects[k])]
        BY <2>2, Charged
      <3> QED
        BY <3>5, <3>4, <3>2
    <2> QED
      BY <2>1, <2>2
  <1> QED
    BY <1>7, <1>6, <1>5, <1>4, <1>2 DEF Recharged

LEMMA ObserveStep ==
    ASSUME Inv, NEW st \in FinancialOperationState, NEW n, NEW i \in DOMAIN st.effects,
           NEW o \in FinancialEffectObservation,
           db = {st}, db' = {n}, wire' = wire, ValidOperation(n), AllTrue(n, wire, Signable),
           Records(st, n, i, o), Observable(st.effects[i], o)
    PROVE  Escrow!EscrowNext \/ UNCHANGED Escrow!escrowVars
  <1>1. ValidOperation(st) /\ PlansOf(st.effects[i].intent) # {}
    BY Committed
  <1>2. PICK p : p \in PlansOf(st.effects[i].intent)
    BY <1>1
  <1> DEFINE charge == [q \in Plan |-> ChargeOf({st}, q)]
             next == [q \in Plan |-> ChargeOf({n}, q)]
  <1> HIDE DEF charge, next
  <1>3. Recharged(st, n, i, o, p)
    BY <1>1, <1>2, ObserveCharges
  <1>4. p \in Plan
    BY <1>2, PlanFields
  <1>5. /\ {s.maximum.native : s \in db'} = {st.maximum.native}
        /\ {s.maximum.native : s \in db} = {st.maximum.native}
    BY DEF Records
  <1>6. /\ [q \in Plan |-> ChargeOf(db, q)] = charge
        /\ [q \in Plan |-> ChargeOf(db', q)] = next
    BY DEF charge, next
  <1>7. charge[p].stage = "held" /\ next = [charge EXCEPT ![p] = ChargeOf({n}, p)]
    <2>1. charge[p] = [stage |-> "held", amount |-> p.maximum]
      BY <1>3, <1>4 DEF charge, Recharged
    <2>2. next = [charge EXCEPT ![p] = ChargeOf({n}, p)]
      BY <1>3, <1>4 DEF charge, next, Recharged
    <2> QED
      BY <2>1, <2>2
  <1>8. Truth(n.effects[i], wire, Signable)
    BY <1>3 DEF AllTrue, Recharged
  <1>9. CASE o.state \in {"SIGNED", "BROADCAST_CLAIMED_UNKNOWN"}
    BY <1>9, <1>5, <1>3, EscrowUnchanged DEF Recharged
  <1>10. CASE o.state = "PROVEN_NOT_SIGNED"
    <2>1. wire[p].state = "unsigned"
      BY <1>10, <1>8, <1>3 DEF Truth, Recharged
    <2>2. StageOf(n.effects[i]) = "void" /\ ChargedDebit(n.effects[i]) = NoDebit
      BY <1>3, <1>10, Stages DEF Recharged
    <2>3. ChargeOf({n}, p) = [stage |-> "void", amount |-> Escrow!NoDebit]
      BY <1>3, <2>2, SameVectors DEF Recharged
    <2>4. Escrow!Void(p)
      BY <2>3, <2>1, <1>7, <1>6, <1>5 DEF Escrow!Void
    <2> QED
      BY <1>4, <2>4 DEF Escrow!EscrowNext
  <1>11. CASE o.state \in Terminal
    <2>1. /\ wire[p].state \in {"confirmed", "failed"}
          /\ wire[p].debit = ChargedDebit(n.effects[i])
          /\ EffectState(n.effects[i]) = "CONFIRMED" <=> wire[p].state = "confirmed"
      BY <1>11, <1>8, <1>3 DEF Truth, Recharged
    <2>2. StageOf(n.effects[i]) = wire[p].state
      BY <2>1, <1>11, <1>3, Stages DEF Terminal, Recharged
    <2>3. ChargeOf({n}, p) = [stage |-> wire[p].state, amount |-> wire[p].debit]
      BY <2>2, <2>1, <1>3 DEF Recharged
    <2>4. wire[p].state \in Escrow!Landed
      BY <2>1 DEF Escrow!Landed
    <2>5. Escrow!Settle(p)
      BY <2>4, <2>3, <1>7, <1>6, <1>5 DEF Escrow!Settle
    <2> QED
      BY <1>4, <2>5 DEF Escrow!EscrowNext
  <1>12. o.state \in {"SIGNED", "BROADCAST_CLAIMED_UNKNOWN", "PROVEN_NOT_SIGNED"} \cup Terminal
    BY DEF FinancialEffectObservation
  <1> QED
    BY <1>12, <1>11, <1>10, <1>9

LEMMA SwapStep ==
    ASSUME Inv, NEW w \in Worker, Persist(w)
    PROVE  Escrow!EscrowNext \/ UNCHANGED Escrow!escrowVars
  <1> DEFINE n == job[w].next
  <1>1. /\ db = job[w].base /\ db' = {n} /\ wire' = wire
        /\ Derived(job[w])
        /\ n \in FinancialOperationState /\ ValidOperation(n)
        /\ AllTrue(n, wire, Signable)
    BY Swapped
  <1>2. job[w].may = "sign" => \A p \in job[w].plan : wire[p].state = "unsigned"
    BY SwapGrants
  <1> HIDE DEF n
  <1>4. CASE db = {} /\ DOMAIN n.effects = {} /\ n.maximum \in Maximum
    BY <1>1, <1>4, OpenStep
  <1>5. ASSUME NEW st \in FinancialOperationState, NEW p \in Plan,
               NEW intent \in FinancialEffectIntent,
               db = {st}, Reserves(st, n, intent), PlansOf(intent) = {p},
               job[w].may = "sign", job[w].plan = {p}
        PROVE  Escrow!EscrowNext
    BY <1>5, <1>2, <1>1, ReserveStep
  <1>6. ASSUME NEW st \in FinancialOperationState, NEW i \in DOMAIN st.effects,
               NEW o \in FinancialEffectObservation,
               db = {st}, Records(st, n, i, o), Observable(st.effects[i], o)
        PROVE  Escrow!EscrowNext \/ UNCHANGED Escrow!escrowVars
    BY <1>1, <1>6, ObserveStep
  <1> QED
    BY <1>6, <1>5, <1>4, <1>1 DEF Derived, n

----
\* The other steps: a grant is used on what is held, and the chain.
LEMMA Unswapped ==
    ASSUME db' = db
    PROVE  /\ {s.maximum.native : s \in db'} = {s.maximum.native : s \in db}
           /\ [p \in Plan |-> ChargeOf(db', p)] = [p \in Plan |-> ChargeOf(db, p)]
  OBVIOUS

\* Who may sign has reserved, and nothing is known of the transaction.
LEMMA SignableHeld ==
    ASSUME Inv, NEW p \in Signable
    PROVE  ChargeOf(db, p).stage = "held" /\ wire[p].state = "unsigned"
  <1>1. p \in Plan /\ wire[p].state = "unsigned" /\ \E st \in db : Retains(st, p)
    BY DEF Signable, Inv, GrantsUnique
  <1>2. PICK st \in db : \E i \in DOMAIN st.effects : p \in PlansOf(st.effects[i].intent)
    BY <1>1 DEF Retains
  <1>3. PICK i \in DOMAIN st.effects : p \in PlansOf(st.effects[i].intent)
    BY <1>2
  <1>4. db = {st} /\ ValidOperation(st) /\ Truth(st.effects[i], wire, Signable)
    BY Committed DEF AllTrue
  <1>5. EffectState(st.effects[i]) \notin {"PROVEN_NOT_SIGNED"} \cup Terminal
    BY <1>4, <1>3, <1>1 DEF Truth, Sent
  <1>6. ChargeOf({st}, p) = [stage |-> "held", amount |-> p.maximum]
    BY <1>5, <1>4, <1>3, HeldCharge
  <1> QED
    BY <1>6, <1>4, <1>1

LEMMA SendableHeld ==
    ASSUME Inv, NEW p \in Sendable
    PROVE  ChargeOf(db, p).stage = "held" /\ wire[p].state = "signed"
  <1>1. p \in Plan /\ wire[p].state = "signed" /\ \E st \in db : Claimed(st, p)
    BY DEF Sendable, Inv, GrantsUnique
  <1>2. PICK st \in db : \E i \in DOMAIN st.effects :
            p \in PlansOf(st.effects[i].intent) /\ EffectState(st.effects[i]) \in Sent
    BY <1>1 DEF Claimed
  <1>3. PICK i \in DOMAIN st.effects :
            p \in PlansOf(st.effects[i].intent) /\ EffectState(st.effects[i]) \in Sent
    BY <1>2
  <1>4. db = {st} /\ ValidOperation(st) /\ Truth(st.effects[i], wire, Signable)
    BY Committed DEF AllTrue
  <1>5. EffectState(st.effects[i]) \notin {"PROVEN_NOT_SIGNED"} \cup Terminal
    BY <1>4, <1>3, <1>1 DEF Truth, Sent, Terminal
  <1>6. ChargeOf({st}, p) = [stage |-> "held", amount |-> p.maximum]
    BY <1>5, <1>4, <1>3, HeldCharge
  <1> QED
    BY <1>6, <1>4, <1>1

LEMMA SignRefines == ASSUME Inv, NEW w \in Worker, Sign(w) PROVE Escrow!EscrowNext
  <1>1. PICK p \in Plan : job[w].plan = p /\ job[w].kind = "sign"
    BY UseTyped DEF Inv, Sign
  <1>2. wire' = [wire EXCEPT ![p] = [state |-> "signed", debit |-> wire[p].debit]] /\ db' = db
    BY <1>1 DEF Sign
  <1>3. wire[p] = [state |-> wire[p].state, debit |-> wire[p].debit]
    BY DEF Inv, Typed, TypeOK
  <1>4. wire' = [wire EXCEPT ![p].state = "signed"]
    BY <1>2, <1>3
  <1>5. ChargeOf(db, p).stage = "held" /\ wire[p].state = "unsigned"
    BY <1>1, SignableHeld DEF Signable, MayBeSigned
  <1>6. Escrow!Sign(p)
    BY <1>5, <1>4, <1>2, Unswapped DEF Escrow!Sign
  <1> QED
    BY <1>6 DEF Escrow!EscrowNext

LEMMA SendRefines == ASSUME Inv, NEW w \in Worker, Send(w) PROVE Escrow!EscrowNext
  <1>1. PICK p \in Plan : job[w].plan = p /\ job[w].kind = "send"
    BY UseTyped DEF Inv, Send
  <1>2. wire' = [wire EXCEPT ![p] = [state |-> "sent", debit |-> wire[p].debit]] /\ db' = db
    BY <1>1 DEF Send
  <1>3. wire[p] = [state |-> wire[p].state, debit |-> wire[p].debit]
    BY DEF Inv, Typed, TypeOK
  <1>4. wire' = [wire EXCEPT ![p].state = "sent"]
    BY <1>2, <1>3
  <1>5. ChargeOf(db, p).stage = "held" /\ wire[p].state = "signed"
    BY <1>1, SendableHeld DEF Sendable
  <1>6. Escrow!Send(p)
    BY <1>5, <1>4, <1>2, Unswapped DEF Escrow!Send
  <1> QED
    BY <1>6 DEF Escrow!EscrowNext

LEMMA LandRefines ==
    ASSUME NEW p \in Plan, NEW outcome \in {"confirmed", "failed"}, NEW v \in Debit[p],
           Land(p, outcome, v)
    PROVE  Escrow!EscrowNext
  <1>1. Escrow!Land(p, outcome, v)
    BY Unswapped DEF Land, Escrow!Land
  <1> QED
    BY <1>1 DEF Escrow!EscrowNext, Escrow!Landed

LEMMA EscrowStep == Inv /\ [Next]_vars => [Escrow!EscrowNext]_(Escrow!escrowVars)
<1> SUFFICES ASSUME Inv, [Next]_vars PROVE Escrow!EscrowNext \/ UNCHANGED Escrow!escrowVars
  OBVIOUS
<1>1. ASSUME db' = db, wire' = wire PROVE UNCHANGED Escrow!escrowVars
  BY <1>1, EscrowUnchanged
<1>2. CASE UNCHANGED vars
  BY <1>1, <1>2 DEF vars
<1>3. CASE Surroundings
  <2>1. CASE UNCHANGED <<db, wire>>
    BY <1>1, <2>1
  <2> QED
    BY <1>3, <2>1, LandRefines DEF Surroundings, Tick, Revoke, Reinstate
<1>4. ASSUME NEW w \in Worker, WorkerStep(w)
      PROVE  Escrow!EscrowNext \/ UNCHANGED Escrow!escrowVars
  <2>1. CASE UNCHANGED <<db, wire>>
    BY <1>1, <2>1
  <2> QED
    BY <1>4, <2>1, SwapStep, SignRefines, SendRefines
       DEF WorkerStep, ProposeMaximum, Load, Acknowledge, ProposeEffect, ProposeObservation,
           GiveUp, Crash
<1> QED
  BY <1>4, <1>3, <1>2 DEF Next

\* The services' every step is one of an escrow that holds an effect's most debit
\* before its one signature and its one sending, settles for what the chain debited
\* and gives back only what will never be signed: operation_exposure.py:548 and :785
\* see one state and one proposal at a time, and the broker's swap does the rest.
THEOREM EscrowImplemented == Spec => ImplementsEscrow
<1>1. Init => Escrow!EscrowInit
  BY EscrowStart
<1>2. Inv /\ [Next]_vars => [Escrow!EscrowNext]_(Escrow!escrowVars)
  BY EscrowStep
<1> QED
  BY <1>1, <1>2, Invariance, PTL DEF Spec, ImplementsEscrow, Escrow!EscrowSpec

====
