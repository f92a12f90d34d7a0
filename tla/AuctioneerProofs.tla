---- MODULE AuctioneerProofs ----
\* Proofs about Auctioneer, for every set of orders, bids, groups and
\* profiles, whatever the polls show and however far auctions are rebased.
EXTENDS Auctioneer, Induction, SequenceTheorems, TLAPS

----
\* The inductive invariant.

\* A bid is known once, has the profile its group is bound to, and a group is bound
\* by a bid.
Coherent(a) ==
    /\ \A i, k \in DOMAIN a.bids : i # k => a.bids[i].key # a.bids[k].key
    /\ \A i \in DOMAIN a.bids : \A g \in a.bids[i].gseq : a.bids[i].profile = a.profiles[g]
    /\ \A g \in Group : a.profiles[g] # {} => \E i \in DOMAIN a.bids : g \in a.bids[i].gseq

\* The bids of an auction are those sighted, each at the time of its first sighting.
Dated(a, sightings) ==
    \A k \in Bid : sightings[k] = {b.at : b \in Held(a, k)}

\* What is known of an auction of the order o whose first sightings were these.
Sound(o, a, sightings) ==
    /\ a \in AuctionState
    /\ a.policy = PolicyOf[o] /\ a.started = 0
    /\ Coherent(a)
    /\ Dated(a, sightings)

\* The auction a snapshot is of: its bids tell which profiles are bound.
Pictured(s) ==
    [policy |-> s.policy, started |-> s.started, bids |-> s.bids,
     profiles |-> [g \in Group |->
        UNION {s.bids[i].profile : i \in {k \in DOMAIN s.bids : g \in s.bids[k].gseq}}]]

TypeOK ==
    /\ clock \in Nat
    /\ anchor \in [Order -> Nat]
    /\ DOMAIN auction = Order /\ DOMAIN saved = Order /\ DOMAIN result = Order
    /\ first \in [Order -> [Bid -> SUBSET Int]]
    /\ savedFirst \in [Order -> [Bid -> SUBSET Int]]

AuctionsSound ==
    \A o \in Order : \A a \in auction[o] : Sound(o, a, first[o]) /\ \A c \in auction[o] : c = a

SnapshotsSound ==
    \A o \in Order : \A s \in saved[o] :
        s = Snapshot(Pictured(s), o) /\ Sound(o, Pictured(s), savedFirst[o])

IInv == TypeOK /\ AuctionsSound /\ SnapshotsSound

----
\* Observations.
Bound(profiles, gseq) == UNION {profiles[g] : g \in gseq}

Bindings == [Group -> Optional(Profile)]

\* An optional value is none or one.
LEMMA OptionalValue ==
    ASSUME NEW S, NEW x \in Optional(S)
    PROVE  x = {} \/ \E e \in S : x = {e}
  BY DEF Optional

\* What is kept of two optional values is one.
LEMMA KeptOptional ==
    ASSUME NEW S, NEW x \in Optional(S), NEW y \in Optional(S)
    PROVE  Kept(x, y) \in Optional(S)
  BY DEF Kept

\* A bid is in one group at most, so at most one profile is bound to it.
LEMMA BoundOptional ==
    ASSUME NEW p \in Bindings, NEW gs \in Optional(Group)
    PROVE  Bound(p, gs) \in Optional(Profile)
  <1>1. CASE gs = {}
    BY <1>1 DEF Bound, Optional
  <1>2. CASE \E g \in Group : gs = {g}
    BY <1>2 DEF Bound, Bindings
  <1> QED
    BY <1>1, <1>2, OptionalValue

\* The fields of a bid.
LEMMA BidFields ==
    ASSUME NEW b \in BidObservation
    PROVE  /\ b.key \in Bid /\ b.provider \in Provider /\ b.price \in Nat /\ b.denom \in Denom
           /\ b.at \in Int /\ b.state \in {"open", "closed"}
           /\ b.capacity \in Optional(Capacity) /\ b.profile \in Optional(Profile)
           /\ b.gseq \in Optional(Group)
  BY DEF BidObservation

\* The fields of an auction.
LEMMA AuctionFields ==
    ASSUME NEW a \in AuctionState
    PROVE  /\ a.policy \in AuctionPolicy /\ a.started \in Int
           /\ a.bids \in Seq(BidObservation) /\ a.profiles \in Bindings
           /\ \A i \in DOMAIN a.bids : a.bids[i] \in BidObservation
           /\ DOMAIN a.bids = 1 .. Len(a.bids) /\ Len(a.bids) \in Nat
           /\ Bids(a) \subseteq BidObservation
  <1>1. a.policy \in AuctionPolicy /\ a.started \in Int
        /\ a.bids \in Seq(BidObservation) /\ a.profiles \in Bindings
    BY DEF AuctionState, Bindings
  <1>2. DOMAIN a.bids = 1 .. Len(a.bids) /\ Len(a.bids) \in Nat
        /\ \A i \in DOMAIN a.bids : a.bids[i] \in BidObservation
    BY <1>1
  <1> QED
    BY <1>1, <1>2 DEF Bids

\* A key is held by one bid at most.
LEMMA HeldOnce ==
    ASSUME NEW a \in AuctionState, Coherent(a), NEW k
    PROVE  Held(a, k) = {} \/ \E b \in BidObservation : Held(a, k) = {b}
  <1>1. \A b, c \in Held(a, k) : b = c
    BY DEF Held, Bids, Coherent
  <1>2. Held(a, k) \subseteq BidObservation
    BY AuctionFields DEF Held
  <1> QED
    BY <1>1, <1>2

\* A propagated profile changes nothing else of a bid.
LEMMA PropagatedFields ==
    ASSUME NEW b \in BidObservation, NEW p \in Bindings
    PROVE  /\ Propagated(b, p) \in BidObservation
           /\ Propagated(b, p).profile = Kept(Bound(p, b.gseq), b.profile)
           /\ Propagated(b, p).gseq = b.gseq
           /\ Propagated(b, p).key = b.key /\ Propagated(b, p).provider = b.provider
           /\ Propagated(b, p).at = b.at
  <1>1. Kept(Bound(p, b.gseq), b.profile) \in Optional(Profile)
    BY BidFields, BoundOptional, KeptOptional
  <1>2. Propagated(b, p) = [b EXCEPT !.profile = Kept(Bound(p, b.gseq), b.profile)]
    BY DEF Propagated, Bound
  <1> QED
    BY <1>1, <1>2 DEF BidObservation

HeldGroup(a, k) == UNION {b.gseq : b \in Held(a, k)}

HeldProfile(a, k) == UNION {b.profile : b \in Held(a, k)}

\* So its group and its profile are told.
LEMMA HeldOptional ==
    ASSUME NEW a \in AuctionState, Coherent(a), NEW k
    PROVE  /\ HeldGroup(a, k) \in Optional(Group)
           /\ HeldProfile(a, k) \in Optional(Profile)
  <1>1. CASE Held(a, k) = {}
    BY <1>1 DEF HeldGroup, HeldProfile, Optional
  <1>2. CASE \E b \in BidObservation : Held(a, k) = {b}
    <2>1. PICK b \in BidObservation : Held(a, k) = {b}
      BY <1>2
    <2>2. HeldGroup(a, k) = b.gseq /\ HeldProfile(a, k) = b.profile
      BY <2>1 DEF HeldGroup, HeldProfile
    <2> QED
      BY <2>2, BidFields
  <1> QED
    BY <1>1, <1>2, HeldOnce

\* A completed observation has another group and another profile, if that.
LEMMA CompletedFields ==
    ASSUME NEW a \in AuctionState, Coherent(a), NEW o \in BidObservation,
           NEW c, c = Completed(a, o)
    PROVE  /\ c \in BidObservation
           /\ c.gseq = Kept(HeldGroup(a, o.key), o.gseq)
           /\ c.profile = Kept(Bound(a.profiles, c.gseq),
                               Kept(HeldProfile(a, o.key), o.profile))
           /\ c = [key |-> o.key, provider |-> o.provider, price |-> o.price,
                   denom |-> o.denom, at |-> o.at, state |-> o.state,
                   capacity |-> o.capacity, profile |-> c.profile, gseq |-> c.gseq]
           /\ c.key = o.key /\ c.provider = o.provider /\ c.at = o.at
  <1>1. PICK gs : gs = Kept(HeldGroup(a, o.key), o.gseq)
    OBVIOUS
  <1>2. PICK p : p = Kept(HeldProfile(a, o.key), o.profile)
    OBVIOUS
  <1>3. gs \in Optional(Group) /\ p \in Optional(Profile)
    BY <1>1, <1>2, BidFields, HeldOptional, KeptOptional
  <1>4. PICK q : q = Kept(Bound(a.profiles, gs), p)
    OBVIOUS
  <1>5. q \in Optional(Profile)
    BY <1>3, <1>4, AuctionFields, BoundOptional, KeptOptional
  <1>6. PICK own : own = [o EXCEPT !.gseq = gs, !.profile = p]
    OBVIOUS
  <1>7. own \in BidObservation /\ own.gseq = gs /\ own.profile = p
    BY <1>3, <1>6 DEF BidObservation
  <1>8. c = [own EXCEPT !.profile = q]
    BY <1>7, <1>6, <1>4, <1>2, <1>1 DEF Completed, HeldGroup, HeldProfile, Bound
  <1>9. c = [key |-> o.key, provider |-> o.provider, price |-> o.price,
             denom |-> o.denom, at |-> o.at, state |-> o.state,
             capacity |-> o.capacity, profile |-> q, gseq |-> gs]
    BY <1>6, <1>8 DEF BidObservation
  <1>10. c \in BidObservation /\ c.gseq = gs /\ c.profile = q
         /\ c.key = o.key /\ c.provider = o.provider /\ c.at = o.at
    BY <1>9, <1>5, <1>3 DEF BidObservation
  <1> QED
    BY <1>10, <1>9, <1>4, <1>2, <1>1

\* The profiles bound once o was observed.
NewBindings(a, o) ==
    [g \in Group |-> IF g \in Completed(a, o).gseq
                     THEN Kept(a.profiles[g], Completed(a, o).profile)
                     ELSE a.profiles[g]]

\* What becomes bound is a binding of groups to profiles.
LEMMA BindingsKept ==
    ASSUME NEW a \in AuctionState, Coherent(a), NEW o \in BidObservation
    PROVE  NewBindings(a, o) \in Bindings
  <1>1. PICK c \in BidObservation : c = Completed(a, o)
    BY CompletedFields
  <1>2. \A g \in Group : Kept(a.profiles[g], c.profile) \in Optional(Profile)
    BY AuctionFields, BidFields, KeptOptional DEF Bindings
  <1> QED
    BY <1>1, <1>2, AuctionFields DEF NewBindings, Bindings

\* The bids already there once o was observed.
Updated(a, o) ==
    [i \in DOMAIN a.bids |->
        IF a.bids[i].key = o.key THEN Refreshed(a.bids[i], Completed(a, o))
                                 ELSE Propagated(a.bids[i], NewBindings(a, o))]

\* The bid of the key of o once it was observed.
Arrived(a, o) ==
    {Refreshed(b, Completed(a, o)) : b \in Held(a, o.key)}
        \cup {c \in {Completed(a, o)} : Held(a, o.key) = {}}

\* A refreshed bid is the new observation, but for its time.
LEMMA RefreshedFields ==
    ASSUME NEW b \in BidObservation, NEW c \in BidObservation
    PROVE  /\ Refreshed(b, c) \in BidObservation
           /\ Refreshed(b, c).profile = c.profile /\ Refreshed(b, c).gseq = c.gseq
           /\ Refreshed(b, c).key = c.key /\ Refreshed(b, c).provider = c.provider
           /\ Refreshed(b, c).at = b.at
  BY DEF Refreshed, BidObservation

\* The bids already there stay in their places.
LEMMA UpdatedFields ==
    ASSUME NEW a \in AuctionState, Coherent(a), NEW o \in BidObservation
    PROVE  /\ Updated(a, o) \in Seq(BidObservation)
           /\ DOMAIN Updated(a, o) = DOMAIN a.bids
           /\ Len(Updated(a, o)) = Len(a.bids)
           /\ \A i \in DOMAIN a.bids : /\ Updated(a, o)[i] \in BidObservation
                                       /\ Updated(a, o)[i].key = a.bids[i].key
                                       /\ Updated(a, o)[i].at = a.bids[i].at
  <1>1. PICK c : c = Completed(a, o)
    OBVIOUS
  <1>7. c \in BidObservation /\ c.key = o.key
    BY <1>1, CompletedFields
  <1>8. PICK p \in Bindings : p = NewBindings(a, o)
    BY BindingsKept
  <1>2. \A i \in DOMAIN a.bids : /\ Updated(a, o)[i] \in BidObservation
                                 /\ Updated(a, o)[i].key = a.bids[i].key
                                 /\ Updated(a, o)[i].at = a.bids[i].at
    <2> SUFFICES ASSUME NEW i \in DOMAIN a.bids
                 PROVE  /\ Updated(a, o)[i] \in BidObservation
                        /\ Updated(a, o)[i].key = a.bids[i].key
                        /\ Updated(a, o)[i].at = a.bids[i].at
      OBVIOUS
    <2>1. a.bids[i] \in BidObservation
      BY AuctionFields
    <2>2. CASE a.bids[i].key = o.key
      <3>1. Updated(a, o)[i] = Refreshed(a.bids[i], c)
        BY <1>1, <2>2 DEF Updated
      <3> QED
        BY <3>1, <2>2, <2>1, <1>7, RefreshedFields
    <2>3. CASE a.bids[i].key # o.key
      <3>1. Updated(a, o)[i] = Propagated(a.bids[i], p)
        BY <1>8, <2>3 DEF Updated
      <3> QED
        BY <2>1, <3>1, PropagatedFields
    <2> QED
      BY <2>2, <2>3
  <1>3. DOMAIN Updated(a, o) = DOMAIN a.bids
    BY DEF Updated
  <1>4. DOMAIN a.bids = 1 .. Len(a.bids) /\ Len(a.bids) \in Nat
    BY AuctionFields
  <1>5. Updated(a, o) = [i \in 1 .. Len(a.bids) |-> Updated(a, o)[i]]
    BY <1>4 DEF Updated
  <1>6. Updated(a, o) \in Seq(BidObservation) /\ Len(Updated(a, o)) = Len(a.bids)
    BY <1>5, <1>4, <1>2
  <1> QED
    BY <1>6, <1>3, <1>2

\* What observe leaves.
LEMMA ObserveFields ==
    ASSUME NEW a \in AuctionState, Coherent(a), NEW o \in BidObservation
    PROVE  /\ Observe(a, o) \in AuctionState
           /\ Observe(a, o).policy = a.policy /\ Observe(a, o).started = a.started
           /\ Observe(a, o).profiles = NewBindings(a, o)
           /\ Observe(a, o).bids = IF Held(a, o.key) = {}
                                   THEN Append(Updated(a, o), Completed(a, o))
                                   ELSE Updated(a, o)
  <1>1. PICK bs : bs = IF Held(a, o.key) = {}
                       THEN Append(Updated(a, o), Completed(a, o)) ELSE Updated(a, o)
    OBVIOUS
  <1>2. Observe(a, o) = [a EXCEPT !.profiles = NewBindings(a, o), !.bids = bs]
    BY <1>1 DEF Observe, NewBindings, Updated
  <1>3. Completed(a, o) \in BidObservation
    BY CompletedFields
  <1>4. bs \in Seq(BidObservation)
    BY <1>1, <1>3, UpdatedFields
  <1>5. NewBindings(a, o) \in [Group -> Optional(Profile)]
    BY BindingsKept DEF Bindings
  <1>6. /\ Observe(a, o) \in AuctionState
        /\ Observe(a, o).policy = a.policy /\ Observe(a, o).started = a.started
        /\ Observe(a, o).profiles = NewBindings(a, o) /\ Observe(a, o).bids = bs
    BY <1>5, <1>4, <1>2 DEF AuctionState
  <1> QED
    BY <1>1, <1>6

\* The bids that observe leaves: the other bids, with what became bound, and one of
\* the key observed.
LEMMA ObserveBids ==
    ASSUME NEW a \in AuctionState, Coherent(a), NEW o \in BidObservation
    PROVE  Bids(Observe(a, o)) =
               {Propagated(b, NewBindings(a, o)) : b \in {x \in Bids(a) : x.key # o.key}}
                   \cup Arrived(a, o)
  <1>1. PICK u : u = Updated(a, o)
    OBVIOUS
  <1>2. PICK c : c = Completed(a, o)
    OBVIOUS
  <1>3. PICK p : p = NewBindings(a, o)
    OBVIOUS
  <1>4. u \in Seq(BidObservation) /\ DOMAIN u = DOMAIN a.bids /\ c \in BidObservation
    BY <1>1, <1>2, UpdatedFields, CompletedFields
  <1>5. \A i \in DOMAIN a.bids : u[i] = IF a.bids[i].key = o.key
                                        THEN Refreshed(a.bids[i], c)
                                        ELSE Propagated(a.bids[i], p)
    BY <1>3, <1>2, <1>1 DEF Updated
  <1>6. {u[i] : i \in DOMAIN u} =
            {Propagated(b, p) : b \in {x \in Bids(a) : x.key # o.key}}
                \cup {Refreshed(b, c) : b \in Held(a, o.key)}
    BY <1>4, <1>5 DEF Bids, Held
  <1>7. CASE Held(a, o.key) = {}
    <2>1. Observe(a, o).bids = Append(u, c)
      BY <1>7, <1>2, <1>1, ObserveFields
    <2>2. DOMAIN Append(u, c) = DOMAIN u \cup {Len(u) + 1} /\ Append(u, c)[Len(u) + 1] = c
          /\ \A i \in DOMAIN u : Append(u, c)[i] = u[i]
      BY <1>4
    <2>3. {Append(u, c)[i] : i \in DOMAIN Append(u, c)} = {u[i] : i \in DOMAIN u} \cup {c}
      BY <2>2
    <2>4. Arrived(a, o) = {c} /\ {Refreshed(b, c) : b \in Held(a, o.key)} = {}
      BY <1>2, <1>7 DEF Arrived
    <2>5. Bids(Observe(a, o)) = {u[i] : i \in DOMAIN u} \cup {c}
      BY <2>1, <2>3 DEF Bids
    <2> QED
      BY <2>5, <2>4, <1>6, <1>3
  <1>8. CASE Held(a, o.key) # {}
    <2>1. Observe(a, o).bids = u
      BY <1>1, <1>8, ObserveFields
    <2> QED
      BY <2>1, <1>8, <1>6, <1>3, <1>2 DEF Bids, Arrived
  <1> QED
    BY <1>7, <1>8

\* An accepted observation binds its group to its profile, rebinds none, and does not
\* change the group of its bid.
LEMMA AcceptedBinding ==
    ASSUME NEW a \in AuctionState, Coherent(a), NEW o \in BidObservation, Accepts(a, o)
    PROVE  /\ \A g \in Completed(a, o).gseq : NewBindings(a, o)[g] = Completed(a, o).profile
           /\ \A g \in Group : /\ a.profiles[g] # {} => NewBindings(a, o)[g] = a.profiles[g]
                               /\ g \notin Completed(a, o).gseq =>
                                    NewBindings(a, o)[g] = a.profiles[g]
           /\ \A b \in Held(a, o.key) : b.gseq # {} => Completed(a, o).gseq = b.gseq
  <1>1. PICK c : c = Completed(a, o)
    OBVIOUS
  <1>2. /\ c \in BidObservation /\ c.gseq = Kept(HeldGroup(a, o.key), o.gseq)
        /\ c.profile = Kept(Bound(a.profiles, c.gseq), Kept(HeldProfile(a, o.key), o.profile))
    BY <1>1, CompletedFields
  <1>3. /\ \A b \in Held(a, o.key) : b.gseq # {} /\ o.gseq # {} => b.gseq = o.gseq
        /\ \A g \in c.gseq : a.profiles[g] # {} => c.profile = a.profiles[g]
    BY <1>1 DEF Accepts
  <1>4. c.gseq \in Optional(Group)
    BY <1>2, BidFields
  <1>5. \A g \in c.gseq : NewBindings(a, o)[g] = Kept(a.profiles[g], c.profile)
    BY <1>1, <1>4 DEF NewBindings, Optional
  <1>6. \A g \in Group \ c.gseq : NewBindings(a, o)[g] = a.profiles[g]
    BY <1>1 DEF NewBindings
  <1>7. ASSUME NEW g \in c.gseq PROVE NewBindings(a, o)[g] = c.profile
    <2>1. c.gseq = {g}
      BY <1>4, OptionalValue
    <2>2. Bound(a.profiles, c.gseq) = a.profiles[g]
      BY <2>1 DEF Bound
    <2> QED
      BY <2>2, <1>5, <1>2 DEF Kept
  <1>8. \A g \in Group : a.profiles[g] # {} => NewBindings(a, o)[g] = a.profiles[g]
    BY <1>7, <1>6, <1>3
  <1>9. ASSUME NEW b \in Held(a, o.key), b.gseq # {} PROVE c.gseq = b.gseq
    <2>1. Held(a, o.key) = {b}
      BY <1>9, HeldOnce
    <2>2. HeldGroup(a, o.key) = b.gseq
      BY <2>1 DEF HeldGroup
    <2> QED
      BY <2>2, <1>9, <1>3, <1>2 DEF Kept
  <1> QED
    BY <1>9, <1>8, <1>7, <1>6, <1>1

\* The bids already there are coherent with what became bound.
LEMMA UpdatedCoherent ==
    ASSUME NEW a \in AuctionState, Coherent(a), NEW o \in BidObservation, Accepts(a, o),
           NEW i \in DOMAIN a.bids
    PROVE  /\ a.bids[i].gseq # {} => Updated(a, o)[i].gseq = a.bids[i].gseq
           /\ \A g \in Updated(a, o)[i].gseq :
                 Updated(a, o)[i].profile = NewBindings(a, o)[g]
           /\ a.bids[i].key = o.key => Updated(a, o)[i].gseq = Completed(a, o).gseq
  <1>1. PICK c : c = Completed(a, o)
    OBVIOUS
  <1>2. PICK p \in Bindings : p = NewBindings(a, o)
    BY BindingsKept
  <1>3. PICK b \in BidObservation : b = a.bids[i] /\ b \in Bids(a)
    BY AuctionFields DEF Bids
  <1>4. PICK u : u = Updated(a, o)[i]
    OBVIOUS
  <1>5. /\ \A g \in c.gseq : p[g] = c.profile
        /\ \A g \in Group : a.profiles[g] # {} => p[g] = a.profiles[g]
        /\ \A x \in Held(a, o.key) : x.gseq # {} => c.gseq = x.gseq
    BY <1>1, <1>2, AcceptedBinding
  <1>6. c \in BidObservation
    BY <1>1, CompletedFields
  <1>7. CASE b.key = o.key
    <2>1. u = Refreshed(b, c)
      BY <1>7, <1>4, <1>3, <1>1 DEF Updated
    <2>2. u.gseq = c.gseq /\ u.profile = c.profile
      BY <2>1, <1>6, <1>3, RefreshedFields
    <2>3. b \in Held(a, o.key)
      BY <1>3, <1>7 DEF Held
    <2> QED
      BY <2>3, <2>2, <1>5, <1>4, <1>3, <1>2, <1>1
  <1>8. CASE b.key # o.key
    <2>1. u = Propagated(b, p)
      BY <1>8, <1>4, <1>3, <1>2 DEF Updated
    <2>2. u.gseq = b.gseq /\ u.profile = Kept(Bound(p, b.gseq), b.profile)
      BY <1>3, <2>1, PropagatedFields
    <2>3. ASSUME NEW g \in b.gseq PROVE u.profile = p[g]
      <3>1. b.gseq = {g} /\ g \in Group
        BY <1>3, BidFields, OptionalValue
      <3>2. u.profile = Kept(p[g], b.profile)
        BY <2>2, <3>1 DEF Bound
      <3>3. b.profile = a.profiles[g]
        BY <1>3, <3>1 DEF Coherent
      <3> QED
        BY <3>3, <3>2, <3>1, <1>5 DEF Kept
    <2> QED
      BY <2>3, <2>2, <1>8, <1>4, <1>3, <1>2
  <1> QED
    BY <1>7, <1>8

\* An accepted observation keeps an auction coherent.
LEMMA ObserveCoherent ==
    ASSUME NEW a \in AuctionState, Coherent(a), NEW o \in BidObservation, Accepts(a, o)
    PROVE  Coherent(Observe(a, o))
  <1>1. PICK r : r = Observe(a, o)
    OBVIOUS
  <1>2. PICK u : u = Updated(a, o)
    OBVIOUS
  <1>3. PICK c : c = Completed(a, o)
    OBVIOUS
  <1>4. PICK p : p = NewBindings(a, o)
    OBVIOUS
  <1>5. /\ u \in Seq(BidObservation) /\ DOMAIN u = DOMAIN a.bids
        /\ \A i \in DOMAIN u : u[i].key = a.bids[i].key
    BY <1>2, UpdatedFields
  <1>6. /\ r.profiles = p
        /\ r.bids = IF Held(a, o.key) = {} THEN Append(u, c) ELSE u
    BY <1>4, <1>3, <1>2, <1>1, ObserveFields
  <1>7. \A i \in DOMAIN u : /\ a.bids[i].gseq # {} => u[i].gseq = a.bids[i].gseq
                            /\ \A g \in u[i].gseq : u[i].profile = p[g]
                            /\ a.bids[i].key = o.key => u[i].gseq = c.gseq
    BY <1>5, <1>4, <1>3, <1>2, UpdatedCoherent
  <1>8. /\ \A g \in c.gseq : p[g] = c.profile
        /\ \A g \in Group : g \notin c.gseq => p[g] = a.profiles[g]
    BY <1>3, <1>4, AcceptedBinding
  <1>9. \A i, k \in DOMAIN u : i # k => u[i].key # u[k].key
    BY <1>5 DEF Coherent
  <1>10. \A g \in Group \ c.gseq : p[g] # {} => \E i \in DOMAIN u : g \in u[i].gseq
    <2>1. \A g \in Group : a.profiles[g] # {} => \E i \in DOMAIN u : g \in a.bids[i].gseq
      BY <1>5 DEF Coherent
    <2> QED
      BY <2>1, <1>8, <1>7
  <1>11. c \in BidObservation /\ c.key = o.key
    BY <1>3, CompletedFields
  <1>12. CASE Held(a, o.key) = {}
    <2>1. PICK n : n = Len(u) + 1
      OBVIOUS
    <2>2. /\ r.bids = Append(u, c) /\ DOMAIN r.bids = DOMAIN u \cup {n} /\ r.bids[n] = c
          /\ \A i \in DOMAIN u : r.bids[i] = u[i]
      BY <2>1, <1>12, <1>6, <1>5
    <2>3. \A i \in DOMAIN u : u[i].key # o.key
      BY <1>5, <1>12 DEF Held, Bids
    <2>4. \A i, k \in DOMAIN r.bids : i # k => r.bids[i].key # r.bids[k].key
      BY <2>3, <2>2, <1>11, <1>9
    <2>5. \A i \in DOMAIN r.bids : \A g \in r.bids[i].gseq : r.bids[i].profile = p[g]
      BY <2>2, <1>8, <1>7
    <2>6. \A g \in Group : p[g] # {} => \E i \in DOMAIN r.bids : g \in r.bids[i].gseq
      BY <1>10, <2>2
    <2> QED
      BY <2>6, <2>5, <2>4, <1>6, <1>1 DEF Coherent
  <1>13. CASE Held(a, o.key) # {}
    <2>1. r.bids = u
      BY <1>6, <1>13
    <2>2. PICK i \in DOMAIN u : a.bids[i].key = o.key
      BY <1>5, <1>13 DEF Held, Bids
    <2>3. u[i].gseq = c.gseq
      BY <1>7, <2>2
    <2> QED
      BY <2>3, <2>1, <1>10, <1>9, <1>7, <1>6, <1>1, ZenonT(30) DEF Coherent
  <1> QED
    BY <1>12, <1>13

\* The bid that is there after an observation is the completed one.
LEMMA ArrivedFields ==
    ASSUME NEW a \in AuctionState, Coherent(a), NEW o \in BidObservation
    PROVE  /\ \A x \in Arrived(a, o) : /\ x \in BidObservation /\ x.key = o.key
                                       /\ x.gseq = Completed(a, o).gseq
                                       /\ x.profile = Completed(a, o).profile
                                       /\ x.provider = o.provider
           /\ {x.at : x \in Arrived(a, o)} = IF Held(a, o.key) = {} THEN {o.at}
                                             ELSE {b.at : b \in Held(a, o.key)}
  <1>1. PICK c : c = Completed(a, o)
    OBVIOUS
  <1>2. /\ c \in BidObservation
        /\ c.key = o.key /\ c.provider = o.provider /\ c.at = o.at
    BY <1>1, CompletedFields
  <1>3. CASE Held(a, o.key) = {}
    <2>1. Arrived(a, o) = {c}
      BY <1>1, <1>3 DEF Arrived
    <2> QED
      BY <2>1, <1>3, <1>2, <1>1
  <1>4. CASE \E b \in BidObservation : Held(a, o.key) = {b}
    <2>1. PICK b \in BidObservation : Held(a, o.key) = {b}
      BY <1>4
    <2>2. Arrived(a, o) = {Refreshed(b, c)}
      BY <1>1, <2>1 DEF Arrived
    <2>3. /\ Refreshed(b, c) \in BidObservation
          /\ Refreshed(b, c).profile = c.profile /\ Refreshed(b, c).gseq = c.gseq
          /\ Refreshed(b, c).key = c.key /\ Refreshed(b, c).provider = c.provider
          /\ Refreshed(b, c).at = b.at
      BY <1>2, <2>1, RefreshedFields
    <2>4. {x.at : x \in Arrived(a, o)} = {b.at} /\ {x.at : x \in Held(a, o.key)} = {b.at}
      BY <2>3, <2>2, <2>1
    <2> QED
      BY <2>4, <2>3, <2>2, <2>1, <1>2, <1>1
  <1> QED
    BY <1>3, <1>4, HeldOnce

\* What observe leaves under each key.
LEMMA ObserveHeld ==
    ASSUME NEW a \in AuctionState, Coherent(a), NEW o \in BidObservation, NEW k
    PROVE  Held(Observe(a, o), k) =
               IF k = o.key THEN Arrived(a, o)
               ELSE {Propagated(b, NewBindings(a, o)) : b \in Held(a, k)}
  <1>1. PICK p \in Bindings : p = NewBindings(a, o)
    BY BindingsKept
  <1>2. \A b \in Bids(a) : Propagated(b, p).key = b.key
    BY <1>1, AuctionFields, PropagatedFields
  <1>3. \A x \in Arrived(a, o) : x.key = o.key
    BY ArrivedFields
  <1>4. Bids(Observe(a, o)) =
            {Propagated(b, p) : b \in {x \in Bids(a) : x.key # o.key}} \cup Arrived(a, o)
    BY <1>1, ObserveBids
  <1>5. CASE k = o.key
    BY <1>5, <1>4, <1>3, <1>2 DEF Held
  <1>6. CASE k # o.key
    BY <1>6, <1>4, <1>3, <1>2, <1>1 DEF Held
  <1> QED
    BY <1>5, <1>6

\* An observation dates a new bid, and no other.
LEMMA ObserveDated ==
    ASSUME NEW a \in AuctionState, Coherent(a), NEW o \in BidObservation,
           NEW f \in [Bid -> SUBSET Int], Dated(a, f),
           NEW f2, f2 = [f EXCEPT ![o.key] = IF @ = {} THEN {o.at} ELSE @]
    PROVE  Dated(Observe(a, o), f2)
  <1>1. PICK p \in Bindings : p = NewBindings(a, o)
    BY BindingsKept
  <1>2. o.key \in Bid
    BY BidFields
  <1>3. ASSUME NEW k \in Bid, k # o.key PROVE f2[k] = {b.at : b \in Held(Observe(a, o), k)}
    <2>1. Held(Observe(a, o), k) = {Propagated(b, p) : b \in Held(a, k)}
      BY <1>1, <1>3, ObserveHeld
    <2>2. \A b \in Held(a, k) : Propagated(b, p).at = b.at
      BY <1>1, AuctionFields, PropagatedFields DEF Held
    <2>3. {b.at : b \in Held(Observe(a, o), k)} = {b.at : b \in Held(a, k)}
      BY <2>1, <2>2
    <2>4. f2[k] = f[k]
      BY <1>3
    <2> QED
      BY <2>3, <2>4 DEF Dated
  <1>4. f2[o.key] = {b.at : b \in Held(Observe(a, o), o.key)}
    <2>1. f[o.key] = {b.at : b \in Held(a, o.key)}
      BY <1>2 DEF Dated
    <2>2. f[o.key] = {} <=> Held(a, o.key) = {}
      BY <2>1
    <2>3. f2[o.key] = IF f[o.key] = {} THEN {o.at} ELSE f[o.key]
      BY <1>2
    <2>4. Held(Observe(a, o), o.key) = Arrived(a, o)
      BY ObserveHeld
    <2>5. {b.at : b \in Arrived(a, o)} = IF Held(a, o.key) = {} THEN {o.at}
                                         ELSE {b.at : b \in Held(a, o.key)}
      BY ArrivedFields
    <2>6. CASE Held(a, o.key) = {}
      BY <2>6, <2>5, <2>4, <2>3, <2>2
    <2>7. CASE Held(a, o.key) # {}
      BY <2>7, <2>5, <2>4, <2>3, <2>2, <2>1
    <2> QED
      BY <2>6, <2>7
  <1> QED
    BY <1>3, <1>4 DEF Dated


----
\* Snapshots.

\* A shifted bid has another time, and nothing else changes.
LEMMA ShiftedFields ==
    ASSUME NEW b \in BidObservation, NEW d \in Int
    PROVE  /\ Shifted(b, d) \in BidObservation
           /\ Shifted(b, d).at = b.at + d
           /\ Shifted(b, d).key = b.key /\ Shifted(b, d).provider = b.provider
           /\ Shifted(b, d).price = b.price /\ Shifted(b, d).denom = b.denom
           /\ Shifted(b, d).state = b.state /\ Shifted(b, d).capacity = b.capacity
           /\ Shifted(b, d).profile = b.profile /\ Shifted(b, d).gseq = b.gseq
           /\ d = 0 => Shifted(b, d) = b
  BY DEF Shifted, BidObservation

\* The auction a with its first n bids, started at another time.
Rebuilt(a, n, started) ==
    [policy |-> a.policy, started |-> started,
     bids |-> [i \in 1 .. n |-> Shifted(a.bids[i], started - a.started)],
     profiles |-> [g \in Group |-> IF \E i \in 1 .. n : g \in a.bids[i].gseq
                                   THEN a.profiles[g] ELSE {}]]

\* A part of an auction is a coherent auction.
LEMMA RebuiltFields ==
    ASSUME NEW a \in AuctionState, Coherent(a), NEW n \in 0 .. Len(a.bids), NEW t \in Int
    PROVE  /\ Rebuilt(a, n, t) \in AuctionState
           /\ Len(Rebuilt(a, n, t).bids) = n
           /\ Coherent(Rebuilt(a, n, t))
  <1>1. PICK r : r = Rebuilt(a, n, t)
    OBVIOUS
  <1>2. PICK d \in Int : d = t - a.started
    BY AuctionFields
  <1>3. /\ r.policy = a.policy /\ r.started = t
        /\ r.bids = [i \in 1 .. n |-> Shifted(a.bids[i], d)]
        /\ r.profiles = [g \in Group |-> IF \E i \in 1 .. n : g \in a.bids[i].gseq
                                         THEN a.profiles[g] ELSE {}]
    BY <1>1, <1>2 DEF Rebuilt
  <1>4. \A i \in 1 .. n : i \in DOMAIN a.bids /\ a.bids[i] \in BidObservation
    BY AuctionFields
  <1>5. \A i \in 1 .. n : /\ Shifted(a.bids[i], d) \in BidObservation
                          /\ Shifted(a.bids[i], d).key = a.bids[i].key
                          /\ Shifted(a.bids[i], d).profile = a.bids[i].profile
                          /\ Shifted(a.bids[i], d).gseq = a.bids[i].gseq
    BY <1>2, <1>4, ShiftedFields
  <1>6. n \in Nat
    BY AuctionFields
  <1>7. r.bids \in Seq(BidObservation) /\ Len(r.bids) = n /\ DOMAIN r.bids = 1 .. n
    BY <1>6, <1>5, <1>3
  <1>8. r.profiles \in [Group -> Optional(Profile)]
    BY <1>3, AuctionFields DEF Bindings, Optional
  <1>9. r \in AuctionState
    BY <1>8, <1>7, <1>3, <1>2, <1>1, AuctionFields DEF AuctionState, Rebuilt
  <1>10. \A i \in 1 .. n : /\ r.bids[i].key = a.bids[i].key
                           /\ r.bids[i].profile = a.bids[i].profile
                           /\ r.bids[i].gseq = a.bids[i].gseq
                           /\ r.bids[i].gseq \subseteq Group
    BY <1>5, <1>4, <1>3, BidFields DEF Optional
  <1>11. Coherent(r)
    <2>1. \A i, k \in DOMAIN r.bids : i # k => r.bids[i].key # r.bids[k].key
      BY <1>10, <1>7, <1>4 DEF Coherent
    <2>2. \A i \in DOMAIN r.bids : \A g \in r.bids[i].gseq :
              r.bids[i].profile = r.profiles[g]
      BY <1>10, <1>7, <1>4, <1>3 DEF Coherent
    <2>3. \A g \in Group : r.profiles[g] # {} => \E i \in DOMAIN r.bids : g \in r.bids[i].gseq
      BY <1>10, <1>7, <1>3
    <2> QED
      BY <2>3, <2>2, <2>1 DEF Coherent
  <1> QED
    BY <1>11, <1>9, <1>7, <1>1

\* Observing the next bid of a snapshot again is accepted, and adds it as it was.
LEMMA RebuiltStep ==
    ASSUME NEW a \in AuctionState, Coherent(a), NEW n \in 0 .. (Len(a.bids) - 1),
           NEW t \in Int
    PROVE  /\ Accepts(Rebuilt(a, n, t), Shifted(a.bids[n + 1], t - a.started))
           /\ Observe(Rebuilt(a, n, t), Shifted(a.bids[n + 1], t - a.started)) =
                  Rebuilt(a, n + 1, t)
  <1>1. /\ n \in Nat /\ n \in 0 .. Len(a.bids) /\ n + 1 \in DOMAIN a.bids
        /\ a.bids[n + 1] \in BidObservation
        /\ \A i \in 1 .. n : i \in DOMAIN a.bids /\ a.bids[i] \in BidObservation
    BY AuctionFields
  <1>2. PICK r : r = Rebuilt(a, n, t)
    OBVIOUS
  <1>3. PICK d \in Int : d = t - a.started
    BY AuctionFields
  <1>4. PICK o : o = Shifted(a.bids[n + 1], d)
    OBVIOUS
  <1>5. /\ o \in BidObservation /\ o.key = a.bids[n + 1].key
        /\ o.profile = a.bids[n + 1].profile /\ o.gseq = a.bids[n + 1].gseq
    BY <1>4, <1>3, <1>1, ShiftedFields
  <1>6. r \in AuctionState /\ Coherent(r) /\ Len(r.bids) = n
    BY <1>1, <1>2, RebuiltFields
  <1>7. /\ r.policy = a.policy /\ r.started = t
        /\ r.bids = [i \in 1 .. n |-> Shifted(a.bids[i], d)]
        /\ \A g \in Group : r.profiles[g] = IF \E i \in 1 .. n : g \in a.bids[i].gseq
                                            THEN a.profiles[g] ELSE {}
    BY <1>2, <1>3 DEF Rebuilt
  <1>8. \A i \in 1 .. n : r.bids[i] \in BidObservation /\ r.bids[i].key = a.bids[i].key
                          /\ r.bids[i].gseq = a.bids[i].gseq
                          /\ r.bids[i].profile = a.bids[i].profile
    <2>1. \A i \in 1 .. n : /\ Shifted(a.bids[i], d) \in BidObservation
                            /\ Shifted(a.bids[i], d).key = a.bids[i].key
                            /\ Shifted(a.bids[i], d).gseq = a.bids[i].gseq
                            /\ Shifted(a.bids[i], d).profile = a.bids[i].profile
      BY <1>1, <1>3, ShiftedFields
    <2> QED
      BY <1>7, <2>1
  <1>9. Held(r, o.key) = {}
    <2>1. \A i \in 1 .. n : a.bids[i].key # a.bids[n + 1].key
      BY <1>1 DEF Coherent
    <2> QED
      BY <2>1, <1>8, <1>7, <1>5 DEF Held, Bids
  <1>10. PICK c : c = Completed(r, o)
    OBVIOUS
  <1>11. HeldGroup(r, o.key) = {} /\ HeldProfile(r, o.key) = {}
    BY <1>9 DEF HeldGroup, HeldProfile
  <1>12. /\ c = [key |-> o.key, provider |-> o.provider, price |-> o.price,
                 denom |-> o.denom, at |-> o.at, state |-> o.state,
                 capacity |-> o.capacity, profile |-> c.profile, gseq |-> c.gseq]
         /\ c.gseq = Kept({}, o.gseq)
         /\ c.profile = Kept(Bound(r.profiles, c.gseq), Kept({}, o.profile))
    <2>1. c = [key |-> o.key, provider |-> o.provider, price |-> o.price,
               denom |-> o.denom, at |-> o.at, state |-> o.state,
               capacity |-> o.capacity, profile |-> c.profile, gseq |-> c.gseq]
      BY <1>10, <1>6, <1>5, CompletedFields, ZenonT(30)
    <2>2. /\ c.gseq = Kept(HeldGroup(r, o.key), o.gseq)
          /\ c.profile = Kept(Bound(r.profiles, c.gseq), Kept(HeldProfile(r, o.key), o.profile))
      BY <1>10, <1>6, <1>5, CompletedFields
    <2> QED
      BY <2>2, <2>1, <1>11
  <1>13. c.gseq = o.gseq
    BY <1>12 DEF Kept
  <1>14. \A g \in o.gseq : /\ g \in Group /\ o.gseq = {g} /\ o.profile = a.profiles[g]
                           /\ r.profiles[g] \in {o.profile, {}}
    BY <1>7, <1>5, <1>1, BidFields, OptionalValue, SMTT(30) DEF Coherent
  <1>15. c.profile = o.profile
    <2>1. CASE o.profile # {}
      BY <1>12, <2>1 DEF Kept
    <2>2. CASE o.profile = {}
      <3>1. \A g \in o.gseq : r.profiles[g] = {}
        BY <1>14, <2>2
      <3>2. Bound(r.profiles, o.gseq) = {}
        BY <3>1 DEF Bound
      <3> QED
        BY <3>2, <2>2, <1>13, <1>12 DEF Kept
    <2> QED
      BY <2>1, <2>2
  <1>16. c = o
    BY <1>15, <1>13, <1>12, <1>5 DEF BidObservation
  <1>17. Accepts(r, o)
    BY <1>16, <1>14, <1>10, <1>9 DEF Accepts
  <1>18. PICK p \in Bindings : p = NewBindings(r, o)
    BY <1>5, <1>6, BindingsKept
  <1>19. /\ \A g \in o.gseq : p[g] = o.profile
         /\ \A g \in Group : g \notin o.gseq => p[g] = r.profiles[g]
    <2>1. /\ \A g \in Completed(r, o).gseq : NewBindings(r, o)[g] = Completed(r, o).profile
          /\ \A g \in Group : g \notin Completed(r, o).gseq =>
                                  NewBindings(r, o)[g] = r.profiles[g]
      BY <1>17, <1>6, <1>5, AcceptedBinding
    <2> QED
      BY <2>1, <1>18, <1>16, <1>10
  <1>20. \A g \in Group : p[g] = IF \E i \in 1 .. (n + 1) : g \in a.bids[i].gseq
                                 THEN a.profiles[g] ELSE {}
    <2> SUFFICES ASSUME NEW g \in Group
                 PROVE  p[g] = IF \E i \in 1 .. (n + 1) : g \in a.bids[i].gseq
                               THEN a.profiles[g] ELSE {}
      OBVIOUS
    <2>1. (\E i \in 1 .. (n + 1) : g \in a.bids[i].gseq) <=>
              (g \in o.gseq \/ \E i \in 1 .. n : g \in a.bids[i].gseq)
      BY <1>1, <1>5
    <2>2. CASE g \in o.gseq
      BY <2>2, <2>1, <1>19, <1>14
    <2>3. CASE g \notin o.gseq
      BY <2>3, <2>1, <1>19, <1>7
    <2> QED
      BY <2>2, <2>3
  <1>21. Updated(r, o) = r.bids
    <2>1. \A i \in 1 .. n : Updated(r, o)[i] = r.bids[i]
      <3> SUFFICES ASSUME NEW i \in 1 .. n PROVE Updated(r, o)[i] = r.bids[i]
        OBVIOUS
      <3>1. PICK b \in BidObservation : b = r.bids[i]
        BY <1>8
      <3>2. b.key # o.key
        BY <3>1, <1>8, <1>5, <1>1 DEF Coherent
      <3>3. Updated(r, o)[i] = Propagated(b, p)
        BY <3>2, <3>1, <1>18, <1>7 DEF Updated
      <3>4. \A g \in b.gseq : b.gseq = {g} /\ g \in Group /\ b.profile = a.profiles[g]
                              /\ p[g] = a.profiles[g]
        <4> SUFFICES ASSUME NEW g \in b.gseq
                     PROVE  b.gseq = {g} /\ g \in Group /\ b.profile = a.profiles[g]
                            /\ p[g] = a.profiles[g]
          OBVIOUS
        <4>1. b.gseq \in Optional(Group)
          BY BidFields
        <4>2. b.gseq = {g} /\ g \in Group
          BY <4>1, OptionalValue
        <4>3. i \in DOMAIN a.bids /\ b.gseq = a.bids[i].gseq /\ b.profile = a.bids[i].profile
          BY <3>1, <1>8, <1>1
        <4>4. b.profile = a.profiles[g]
          BY <4>3 DEF Coherent
        <4>5. \E k \in 1 .. (n + 1) : g \in a.bids[k].gseq
          BY <4>3, <1>1
        <4> QED
          BY <4>5, <4>4, <4>2, <1>20
      <3>5. Bound(p, b.gseq) \in {b.profile, {}}
        <4>1. CASE b.gseq = {}
          BY <4>1 DEF Bound
        <4>2. CASE b.gseq # {}
          BY <3>4, <4>2 DEF Bound
        <4> QED
          BY <4>1, <4>2
      <3>6. Kept(Bound(p, b.gseq), b.profile) = b.profile
        BY <3>5 DEF Kept
      <3>7. Propagated(b, p) = b
        BY <3>1, <3>6 DEF Propagated, Bound, BidObservation
      <3> QED
        BY <3>7, <3>3, <3>1
    <2>2. DOMAIN Updated(r, o) = 1 .. n /\ DOMAIN r.bids = 1 .. n
      BY <1>7 DEF Updated
    <2>3. Updated(r, o) = [i \in 1 .. n |-> Updated(r, o)[i]]
      BY <2>2 DEF Updated
    <2> QED
      BY <2>3, <2>1, <1>7
  <1>22. Observe(r, o).bids = Append(r.bids, o)
    <2>1. Observe(r, o).bids = IF Held(r, o.key) = {}
                               THEN Append(Updated(r, o), Completed(r, o))
                               ELSE Updated(r, o)
      BY <1>5, <1>6, ObserveFields
    <2> QED
      BY <2>1, <1>21, <1>16, <1>10, <1>9
  <1>23. Append(r.bids, o) = [i \in 1 .. (n + 1) |-> Shifted(a.bids[i], d)]
    <2>1. r.bids \in Seq(BidObservation) /\ Len(r.bids) = n
      BY <1>6, AuctionFields
    <2>2. DOMAIN Append(r.bids, o) = 1 .. (n + 1) /\ Append(r.bids, o)[n + 1] = o
          /\ \A i \in 1 .. n : Append(r.bids, o)[i] = r.bids[i]
      BY <1>5, <2>1
    <2>3. \A i \in 1 .. (n + 1) : Append(r.bids, o)[i] = Shifted(a.bids[i], d)
      BY <2>2, <1>7, <1>4, <1>1
    <2>4. Append(r.bids, o) = [i \in 1 .. (n + 1) |-> Append(r.bids, o)[i]]
      BY <2>2, <2>1, <1>5
    <2> QED
      BY <2>3, <2>4
  <1>24. PICK q : q = Observe(r, o)
    OBVIOUS
  <1>25. /\ q \in AuctionState /\ q.policy = a.policy /\ q.started = t
         /\ q.bids = [i \in 1 .. (n + 1) |-> Shifted(a.bids[i], d)]
         /\ q.profiles = p
    BY <1>24, <1>23, <1>22, <1>18, <1>7, <1>6, <1>5, ObserveFields
  <1>26. p = [g \in Group |-> IF \E i \in 1 .. (n + 1) : g \in a.bids[i].gseq
                              THEN a.profiles[g] ELSE {}]
    BY <1>18, <1>20 DEF Bindings
  <1>27. q = Rebuilt(a, n + 1, t)
    BY <1>26, <1>25, <1>3 DEF Rebuilt, AuctionState
  <1> QED
    BY <1>27, <1>24, <1>17, <1>4, <1>3, <1>2

\* Restoring a snapshot rebuilds the auction bid by bid.
LEMMA RestoringRebuilt ==
    ASSUME NEW a \in AuctionState, Coherent(a), NEW o, NEW t \in Int
    PROVE  \A n \in 0 .. Len(a.bids) : Restoring(Snapshot(a, o), t)[n] = Rebuilt(a, n, t)
  <1>1. PICK N \in Nat : N = Len(a.bids)
    BY AuctionFields
  <1>2. PICK s : s = Snapshot(a, o)
    OBVIOUS
  <1>3. s.bids = a.bids /\ s.policy = a.policy /\ s.started = a.started
    BY <1>2 DEF Snapshot
  <1>4. NewAuction(a.policy, t) = Rebuilt(a, 0, t)
    <2>1. [g \in Group |-> IF \E i \in 1 .. 0 : g \in a.bids[i].gseq
                           THEN a.profiles[g] ELSE {}] = [g \in Group |-> {}]
      OBVIOUS
    <2>2. [i \in 1 .. 0 |-> Shifted(a.bids[i], t - a.started)] = <<>>
      OBVIOUS
    <2> QED
      BY <2>1, <2>2 DEF NewAuction, Rebuilt
  <1> DEFINE Good(f) == f = [n \in 0 .. N |->
                        IF n = 0 THEN NewAuction(a.policy, t)
                        ELSE Observe(f[n - 1], Shifted(a.bids[n], t - a.started))]
  <1>5. \E f : Good(f)
    <2>1. PICK f : f = [n \in 0 .. N |-> Rebuilt(a, n, t)]
      OBVIOUS
    <2>2. ASSUME NEW n \in 0 .. N, n # 0
          PROVE  f[n] = Observe(f[n - 1], Shifted(a.bids[n], t - a.started))
      <3>1. n - 1 \in 0 .. (Len(a.bids) - 1) /\ (n - 1) + 1 = n /\ n - 1 \in 0 .. N
        BY <1>1, <2>2
      <3>2. Observe(Rebuilt(a, n - 1, t), Shifted(a.bids[n], t - a.started)) = Rebuilt(a, n, t)
        BY <3>1, RebuiltStep
      <3> QED
        BY <3>2, <3>1, <2>1
    <2>3. 0 \in 0 .. N /\ f[0] = NewAuction(a.policy, t)
      BY <2>1, <1>4, <1>1
    <2>4. \A n \in 0 .. N : f[n] = IF n = 0 THEN NewAuction(a.policy, t)
                            ELSE Observe(f[n - 1], Shifted(a.bids[n], t - a.started))
      BY <2>2, <2>3
    <2>5. Good(f)
      BY <2>1, <2>4
    <2> QED
      BY <2>5
  <1>6. PICK h : h = Restoring(s, t) /\ Good(h)
    BY <1>5, <1>3, <1>1, SMTT(30) DEF Restoring
  <1>7. PICK P : P = {n \in 0 .. N : h[n] = Rebuilt(a, n, t)}
    OBVIOUS
  <1>8. 0 \in P
    BY <1>7, <1>6, <1>4, <1>1
  <1>9. ASSUME NEW n \in 0 .. (N - 1), n \in P PROVE n + 1 \in P
    <2>1. n + 1 \in 0 .. N /\ n + 1 # 0 /\ (n + 1) - 1 = n
      BY <1>1
    <2>2. h[n + 1] = Observe(h[n], Shifted(a.bids[n + 1], t - a.started))
      BY <1>6, <2>1
    <2>3. h[n] = Rebuilt(a, n, t)
      BY <1>7, <1>9
    <2>4. h[n + 1] = Rebuilt(a, n + 1, t)
      BY <2>3, <2>2, <1>1, RebuiltStep
    <2> QED
      BY <2>4, <2>1, <1>7
  <1>10. 0 .. N \subseteq P
    BY <1>9, <1>8, <1>1, BoundedInductive
  <1> QED
    BY <1>10, <1>7, <1>6, <1>2, <1>1

\* A snapshot of an auction can be restored at any time of start, and gives the
\* auction with its bids moved along.
LEMMA SnapshotRestores ==
    ASSUME NEW a \in AuctionState, Coherent(a), NEW o, NEW t \in Int
    PROVE  /\ Restorable(Snapshot(a, o), o, t)
           /\ Restored(Snapshot(a, o), t) = Rebuilt(a, Len(a.bids), t)
  <1>1. PICK s : s = Snapshot(a, o)
    OBVIOUS
  <1>2. s.bids = a.bids /\ s.policy = a.policy /\ s.started = a.started /\ s.scope = o
    BY <1>1 DEF Snapshot
  <1>3. Len(a.bids) \in Nat /\ DOMAIN a.bids = 1 .. Len(a.bids)
    BY AuctionFields
  <1>4. \A n \in 0 .. Len(a.bids) : Restoring(s, t)[n] = Rebuilt(a, n, t)
    BY <1>1, RestoringRebuilt
  <1>5. ASSUME NEW n \in DOMAIN s.bids
        PROVE  Accepts(Restoring(s, t)[n - 1], Shifted(s.bids[n], t - s.started))
    <2>1. n - 1 \in 0 .. (Len(a.bids) - 1) /\ n - 1 \in 0 .. Len(a.bids) /\ (n - 1) + 1 = n
      BY <1>2, <1>3
    <2>2. Accepts(Rebuilt(a, n - 1, t), Shifted(a.bids[n], t - a.started))
      BY <2>1, RebuiltStep
    <2> QED
      BY <2>2, <2>1, <1>4, <1>2
  <1>6. \A i, k \in DOMAIN s.bids : i # k => s.bids[i].key # s.bids[k].key
    BY <1>2 DEF Coherent
  <1>7. Restorable(s, o, t)
    BY <1>6, <1>5, <1>2 DEF Restorable
  <1>8. Restored(s, t) = Rebuilt(a, Len(a.bids), t)
    BY <1>4, <1>3, <1>2 DEF Restored
  <1> QED
    BY <1>8, <1>7, <1>1

\* Without a move, it gives the very auction.
LEMMA RebuiltWhole ==
    ASSUME NEW a \in AuctionState, Coherent(a)
    PROVE  Rebuilt(a, Len(a.bids), a.started) = a
  <1>1. a.started - a.started = 0 /\ DOMAIN a.bids = 1 .. Len(a.bids)
    BY AuctionFields
  <1>2. \A i \in 1 .. Len(a.bids) : Shifted(a.bids[i], 0) = a.bids[i]
    BY <1>1, AuctionFields, ShiftedFields, SMTT(30)
  <1>3. [i \in 1 .. Len(a.bids) |-> Shifted(a.bids[i], a.started - a.started)] = a.bids
    <2>1. a.bids = [i \in 1 .. Len(a.bids) |-> a.bids[i]]
      BY <1>1, AuctionFields
    <2> QED
      BY <2>1, <1>2, <1>1
  <1>4. \A g \in Group : (IF \E i \in 1 .. Len(a.bids) : g \in a.bids[i].gseq
                          THEN a.profiles[g] ELSE {}) = a.profiles[g]
    BY <1>1 DEF Coherent
  <1>5. [g \in Group |-> IF \E i \in 1 .. Len(a.bids) : g \in a.bids[i].gseq
                         THEN a.profiles[g] ELSE {}] = a.profiles
    BY <1>4, AuctionFields DEF Bindings
  <1> QED
    BY <1>3, <1>5 DEF Rebuilt, AuctionState

\* A snapshot tells the whole auction.
LEMMA PicturedSnapshot ==
    ASSUME NEW a \in AuctionState, Coherent(a), NEW o
    PROVE  Pictured(Snapshot(a, o)) = a
  <1>1. PICK s : s = Snapshot(a, o)
    OBVIOUS
  <1>2. s.bids = a.bids /\ s.policy = a.policy /\ s.started = a.started
    BY <1>1 DEF Snapshot
  <1>3. ASSUME NEW g \in Group
        PROVE  UNION {s.bids[i].profile : i \in {k \in DOMAIN s.bids : g \in s.bids[k].gseq}}
                   = a.profiles[g]
    <2>1. PICK I : I = {k \in DOMAIN s.bids : g \in s.bids[k].gseq}
      OBVIOUS
    <2>2. \A i \in I : s.bids[i].profile = a.profiles[g]
      BY <1>2, <2>1 DEF Coherent
    <2>3. I = {} => a.profiles[g] = {}
      BY <1>2, <2>1 DEF Coherent
    <2>4. UNION {s.bids[i].profile : i \in I} = a.profiles[g]
      <3>1. CASE I = {}
        BY <2>3, <3>1
      <3>2. CASE I # {}
        BY <2>2, <3>2
      <3> QED
        BY <3>1, <3>2
    <2> QED
      BY <2>1, <2>4
  <1>4. [g \in Group |-> UNION {s.bids[i].profile :
                                i \in {k \in DOMAIN s.bids : g \in s.bids[k].gseq}}]
            = a.profiles
    BY <1>3, AuctionFields DEF Bindings
  <1>5. Pictured(s) = [policy |-> a.policy, started |-> a.started, bids |-> a.bids,
                       profiles |-> a.profiles]
    BY <1>2, <1>4 DEF Pictured
  <1> QED
    BY <1>1, <1>5 DEF AuctionState


----
\* The invariant is inductive.

\* What a poll shows is an observation, at any time.
LEMMA Sighted ==
    ASSUME NEW o \in Order, NEW s \in Sighting[o], NEW time \in Int
    PROVE  /\ At(s, time) \in BidObservation
           /\ At(s, time).at = time /\ At(s, time).key = s.key /\ s.key \in Bid
  <1>1. At(s, 0) \in BidObservation
    BY AuctioneerAssumption
  <1>2. At(s, time) = [At(s, 0) EXCEPT !.at = time]
    BY DEF At
  <1> QED
    BY <1>1, <1>2 DEF At, BidObservation

\* An auction that opens is sound.
LEMMA NewSound ==
    ASSUME NEW o \in Order
    PROVE  Sound(o, NewAuction(PolicyOf[o], 0), Nothing)
  <1>1. PICK a : a = NewAuction(PolicyOf[o], 0)
    OBVIOUS
  <1>2. a.policy = PolicyOf[o] /\ a.started = 0 /\ a.bids = <<>>
        /\ \A g \in Group : a.profiles[g] = {}
    BY <1>1 DEF NewAuction
  <1>3. a \in AuctionState
    <2>1. PolicyOf[o] \in AuctionPolicy /\ {} \in Optional(Profile)
      BY AuctioneerAssumption DEF Optional
    <2>2. [g \in Group |-> {}] \in [Group -> Optional(Profile)]
      BY <2>1
    <2> QED
      BY <2>2, <2>1, <1>1 DEF NewAuction, AuctionState
  <1>4. Bids(a) = {}
    BY <1>2 DEF Bids
  <1>5. Dated(a, Nothing)
    BY <1>4 DEF Dated, Held, Nothing
  <1>6. Coherent(a)
    BY <1>2 DEF Coherent
  <1> QED
    BY <1>6, <1>5, <1>3, <1>2, <1>1 DEF Sound

\* It stays sound when a bid is observed,
LEMMA ObserveSound ==
    ASSUME NEW o \in Order, NEW a, NEW f \in [Bid -> SUBSET Int], Sound(o, a, f),
           NEW x \in BidObservation, Accepts(a, x),
           NEW f2, f2 = [f EXCEPT ![x.key] = IF @ = {} THEN {x.at} ELSE @]
    PROVE  Sound(o, Observe(a, x), f2)
  BY ObserveFields, ObserveCoherent, ObserveDated DEF Sound

\* is told by its snapshot,
LEMMA SnapshotSound ==
    ASSUME NEW o \in Order, NEW a, NEW f, Sound(o, a, f)
    PROVE  /\ Snapshot(a, o) = Snapshot(Pictured(Snapshot(a, o)), o)
           /\ Sound(o, Pictured(Snapshot(a, o)), f)
  BY PicturedSnapshot DEF Sound

\* and restored from it.
LEMMA RestoredSound ==
    ASSUME NEW o \in Order, NEW s, NEW f,
           s = Snapshot(Pictured(s), o), Sound(o, Pictured(s), f)
    PROVE  Sound(o, Restored(s, 0), f)
  <1>1. PICK a : a = Pictured(s)
    OBVIOUS
  <1>2. a \in AuctionState /\ Coherent(a) /\ a.started = 0
    BY <1>1 DEF Sound
  <1>3. Restored(Snapshot(a, o), 0) = Rebuilt(a, Len(a.bids), 0)
    BY <1>2, SnapshotRestores
  <1>4. Rebuilt(a, Len(a.bids), 0) = a
    BY <1>2, RebuiltWhole
  <1> QED
    BY <1>4, <1>3, <1>1

\* It holds initially,
LEMMA IInvInit == Init => IInv
  <1> SUFFICES ASSUME Init PROVE IInv
    OBVIOUS
  <1>1. Nothing \in [Bid -> SUBSET Int]
    BY DEF Nothing
  <1>2. TypeOK
    BY <1>1 DEF Init, TypeOK
  <1>3. AuctionsSound /\ SnapshotsSound
    BY DEF Init, AuctionsSound, SnapshotsSound
  <1> QED
    BY <1>2, <1>3 DEF IInv

\* The time of an auction is a number.
LEMMA ElapsedType ==
    ASSUME TypeOK, NEW o \in Order
    PROVE  Elapsed(o) \in Int
  BY DEF TypeOK, Elapsed

LEMMA IInvTick ==
    ASSUME IInv, Tick
    PROVE  IInv'
  BY DEF IInv, TypeOK, AuctionsSound, SnapshotsSound, Tick

LEMMA IInvCrash ==
    ASSUME IInv, Crash
    PROVE  IInv'
  <1>1. Nothing \in [Bid -> SUBSET Int]
    BY DEF Nothing
  <1> QED
    BY <1>1 DEF IInv, TypeOK, AuctionsSound, SnapshotsSound, Crash

LEMMA IInvOpen ==
    ASSUME IInv, NEW o \in Order, Open(o)
    PROVE  IInv'
  <1>1. Nothing \in [Bid -> SUBSET Int]
    BY DEF Nothing
  <1>2. TypeOK'
    BY <1>1 DEF IInv, TypeOK, Open
  <1>3. AuctionsSound'
    BY NewSound DEF IInv, TypeOK, AuctionsSound, Open
  <1>4. SnapshotsSound'
    BY DEF IInv, SnapshotsSound, Open
  <1> QED
    BY <1>4, <1>3, <1>2 DEF IInv

LEMMA IInvPoll ==
    ASSUME IInv, NEW o \in Order, NEW s \in Sighting[o], Poll(o, s)
    PROVE  IInv'
  <1>1. PICK x \in BidObservation : x = At(s, Elapsed(o)) /\ x.at = Elapsed(o)
                                    /\ x.key = s.key /\ s.key \in Bid
    BY ElapsedType, Sighted DEF IInv
  <1>2. PICK a \in auction[o] : /\ Accepts(a, x)
                                /\ auction' = [auction EXCEPT ![o] = {Observe(a, x)}]
    BY <1>1 DEF Poll
  <1>3. PICK f \in [Bid -> SUBSET Int] : f = first[o]
    BY DEF IInv, TypeOK
  <1>4. PICK f2 : f2 = [f EXCEPT ![x.key] = IF @ = {} THEN {x.at} ELSE @]
    OBVIOUS
  <1>5. first' = [first EXCEPT ![o] = f2]
    BY <1>4, <1>3, <1>1 DEF Poll
  <1>6. f2 \in [Bid -> SUBSET Int]
    BY <1>4, <1>3, <1>1, BidFields
  <1>7. TypeOK'
    <2>1. UNCHANGED <<anchor, saved, result, savedFirst, clock>>
      BY DEF Poll
    <2> QED
      BY <2>1, <1>6, <1>5, <1>2 DEF IInv, TypeOK
  <1>8. Sound(o, Observe(a, x), f2)
    BY <1>4, <1>3, <1>2, <1>1, ObserveSound DEF IInv, AuctionsSound
  <1>9. AuctionsSound'
    BY <1>8, <1>5, <1>2 DEF IInv, TypeOK, AuctionsSound
  <1>10. SnapshotsSound'
    BY DEF IInv, SnapshotsSound, Poll
  <1> QED
    BY <1>10, <1>9, <1>7 DEF IInv

LEMMA IInvSave ==
    ASSUME IInv, NEW o \in Order, Save(o)
    PROVE  IInv'
  <1>1. PICK a \in auction[o] : saved' = [saved EXCEPT ![o] = {Snapshot(a, o)}]
    BY DEF Save
  <1>2. TypeOK'
    BY <1>1 DEF IInv, TypeOK, Save
  <1>3. AuctionsSound'
    BY DEF IInv, AuctionsSound, Save
  <1>4. Snapshot(a, o) = Snapshot(Pictured(Snapshot(a, o)), o)
        /\ Sound(o, Pictured(Snapshot(a, o)), first[o])
    BY <1>1, SnapshotSound DEF IInv, AuctionsSound
  <1>5. SnapshotsSound'
    BY <1>1, <1>4 DEF IInv, TypeOK, SnapshotsSound, Save
  <1> QED
    BY <1>5, <1>3, <1>2 DEF IInv

LEMMA IInvRestore ==
    ASSUME IInv, NEW o \in Order, NEW from \in Order, Restore(o, from)
    PROVE  IInv'
  <1>1. PICK s \in saved[from] : /\ Restorable(s, o, 0)
                                 /\ auction' = [auction EXCEPT ![o] = {Restored(s, 0)}]
    BY DEF Restore
  <1>2. from = o
    BY <1>1 DEF IInv, SnapshotsSound, Restorable, Snapshot
  <1>3. Sound(o, Restored(s, 0), savedFirst[o])
    BY <1>1, <1>2, RestoredSound DEF IInv, SnapshotsSound
  <1>4. TypeOK'
    BY <1>1 DEF IInv, TypeOK, Restore
  <1>5. AuctionsSound'
    BY <1>1, <1>3 DEF IInv, TypeOK, AuctionsSound, Restore
  <1>6. SnapshotsSound'
    BY DEF IInv, SnapshotsSound, Restore
  <1> QED
    BY <1>6, <1>5, <1>4 DEF IInv

LEMMA IInvDecide ==
    ASSUME IInv, NEW o \in Order, Decide(o)
    PROVE  IInv'
  <1>1. Nothing \in [Bid -> SUBSET Int]
    BY DEF Nothing
  <1>2. TypeOK'
    BY <1>1 DEF IInv, TypeOK, Decide
  <1>3. AuctionsSound'
    BY DEF IInv, TypeOK, AuctionsSound, Decide
  <1>4. SnapshotsSound'
    BY DEF IInv, TypeOK, SnapshotsSound, Decide
  <1> QED
    BY <1>4, <1>3, <1>2 DEF IInv

\* and every step keeps it.
LEMMA IInvStep ==
    ASSUME IInv, [Next]_vars
    PROVE  IInv'
  <1>1. CASE UNCHANGED vars
    BY <1>1 DEF IInv, TypeOK, AuctionsSound, SnapshotsSound, vars
  <1>2. CASE Tick
    BY <1>2, IInvTick
  <1>3. CASE Crash
    BY <1>3, IInvCrash
  <1>4. ASSUME NEW o \in Order, Open(o) PROVE IInv'
    BY <1>4, IInvOpen
  <1>5. ASSUME NEW o \in Order, Save(o) PROVE IInv'
    BY <1>5, IInvSave
  <1>6. ASSUME NEW o \in Order, Decide(o) PROVE IInv'
    BY <1>6, IInvDecide
  <1>7. ASSUME NEW o \in Order, NEW s \in Sighting[o], Poll(o, s) PROVE IInv'
    BY <1>7, IInvPoll
  <1>8. ASSUME NEW o \in Order, NEW from \in Order, Restore(o, from) PROVE IInv'
    BY <1>8, IInvRestore
  <1> QED
    BY <1>8, <1>7, <1>6, <1>5, <1>4, <1>3, <1>2, <1>1 DEF Next

\* In every state the auctions in memory and in store are well formed: their bids are
\* known once, dated by their first sighting, and of the profile bound to their group.
THEOREM Invariance == Spec => []IInv
  BY IInvInit, IInvStep, PTL DEF Spec

\* observe, snapshot and restore never date a bid anew.
THEOREM ArrivalIsKept == Spec => []ArrivalKept
  <1>1. IInv => ArrivalKept
    <2> SUFFICES ASSUME IInv, NEW o \in Order, NEW a \in auction[o], NEW b \in Bids(a)
                 PROVE  first[o][b.key] = {b.at}
      BY DEF ArrivalKept
    <2>1. Sound(o, a, first[o])
      BY DEF IInv, AuctionsSound
    <2>2. a \in AuctionState /\ Coherent(a) /\ b \in BidObservation
      BY <2>1, AuctionFields DEF Sound
    <2>3. b \in Held(a, b.key) /\ b.key \in Bid
      BY <2>2, BidFields DEF Held
    <2>4. Held(a, b.key) = {b}
      BY <2>2, <2>3, HeldOnce
    <2>5. first[o][b.key] = {x.at : x \in Held(a, b.key)}
      BY <2>1, <2>3 DEF Sound, Dated
    <2> QED
      BY <2>4, <2>5
  <1> QED
    BY <1>1, Invariance, PTL


----
\* The choice of a bid.

\* The order of ranks is total on ranks that end in different keys.
LEMMA LexTotal ==
    ASSUME NEW N \in Nat \ {0}, NEW s, NEW t, DOMAIN s = 1 .. N, DOMAIN t = 1 .. N,
           \A n \in 1 .. N : s[n] \in Int /\ t[n] \in Int, s[N] # t[N]
    PROVE  LexLess(s, t) \/ LexLess(t, s)
  <1>1. PICK P : P = {n \in 1 .. N : s[n] # t[n]}
    OBVIOUS
  <1>2. P \subseteq Nat /\ N \in P
    BY <1>1
  <1>3. PICK m \in P : \A k \in P : m <= k
    BY <1>2, LeastNumber
  <1>4. m \in 1 .. N /\ s[m] # t[m] /\ \A k \in 1 .. (m - 1) : k \in 1 .. N /\ k \notin P
    BY <1>3, <1>2, <1>1
  <1>5. \A k \in 1 .. (m - 1) : s[k] = t[k]
    BY <1>1, <1>4
  <1>6. s[m] < t[m] \/ t[m] < s[m]
    BY <1>4
  <1> QED
    BY <1>6, <1>5, <1>4 DEF LexLess

\* It is transitive.
LEMMA LexTransitive ==
    ASSUME NEW N \in Nat, NEW s, NEW t, NEW u,
           DOMAIN s = 1 .. N, DOMAIN t = 1 .. N, DOMAIN u = 1 .. N,
           \A n \in 1 .. N : s[n] \in Int /\ t[n] \in Int /\ u[n] \in Int,
           LexLess(s, t), LexLess(t, u)
    PROVE  LexLess(s, u)
  <1>1. PICK n \in 1 .. N : s[n] < t[n] /\ \A k \in 1 .. (n - 1) : s[k] = t[k]
    BY DEF LexLess
  <1>2. PICK m \in 1 .. N : t[m] < u[m] /\ \A k \in 1 .. (m - 1) : t[k] = u[k]
    BY DEF LexLess
  <1>3. CASE n < m
    <2>1. n \in 1 .. (m - 1) /\ \A k \in 1 .. (n - 1) : k \in 1 .. (m - 1)
      BY <1>3
    <2> QED
      BY <2>1, <1>2, <1>1 DEF LexLess
  <1>4. CASE m < n
    <2>1. m \in 1 .. (n - 1) /\ \A k \in 1 .. (m - 1) : k \in 1 .. (n - 1)
      BY <1>4
    <2> QED
      BY <2>1, <1>2, <1>1 DEF LexLess
  <1>5. CASE n = m
    <2>1. s[n] < u[n]
      BY <1>5, <1>2, <1>1
    <2>2. \A k \in 1 .. (n - 1) : s[k] = u[k]
      BY <1>5, <1>2, <1>1
    <2> QED
      BY <2>1, <2>2 DEF LexLess
  <1> QED
    BY <1>5, <1>4, <1>3

\* It is strict.
LEMMA LexAsymmetric ==
    ASSUME NEW N \in Nat, NEW s, NEW t, DOMAIN s = 1 .. N, DOMAIN t = 1 .. N,
           \A n \in 1 .. N : s[n] \in Int /\ t[n] \in Int, LexLess(s, t)
    PROVE  ~ LexLess(t, s)
  <1> SUFFICES ASSUME LexLess(t, s) PROVE FALSE
    OBVIOUS
  <1>1. LexLess(s, s)
    BY LexTransitive
  <1> QED
    BY <1>1 DEF LexLess

Rules == {"FIRST", "CHEAPEST", "DEGRADED", "EMPTIEST"}

Width(rule) == CASE rule \in {"FIRST", "CHEAPEST"} -> 3
                 [] rule = "DEGRADED" -> 4
                 [] rule = "EMPTIEST" -> 6

\* A free fraction is a number, when there is one.
LEMMA ScoreNumber ==
    ASSUME NEW b \in BidObservation, Score(b) # {}
    PROVE  (CHOOSE f \in Score(b) : TRUE) \in Nat
  <1>1. Score(b) \subseteq Nat
    BY BidFields, AuctionAssumption DEF Score, Optional
  <1> QED
    BY <1>1

\* A rank is a tuple of numbers that ends in the key of the bid.
LEMMA RankTuple ==
    ASSUME NEW b \in BidObservation, NEW rule \in Rules, NEW taken
    PROVE  /\ Width(rule) \in Nat \ {0}
           /\ DOMAIN Rank(b, rule, taken) = 1 .. Width(rule)
           /\ \A n \in 1 .. Width(rule) : Rank(b, rule, taken)[n] \in Int
           /\ Rank(b, rule, taken)[Width(rule)] = b.key
  <1>1. b.at \in Int /\ b.provider \in Int /\ b.key \in Int /\ b.price \in Int
    BY BidFields, AuctionAssumption
  <1>2. Bit(b.provider \in taken) \in Int /\ Bit(Score(b) = {}) \in Int
    BY DEF Bit
  <1>3. PICK e \in Int : e = IF Score(b) = {} THEN 0 ELSE - (CHOOSE f \in Score(b) : TRUE)
    <2>1. CASE Score(b) = {}
      BY <2>1
    <2>2. CASE Score(b) # {}
      <3>1. PICK h \in Nat : h = CHOOSE f \in Score(b) : TRUE
        BY <2>2, ScoreNumber
      <3>2. (- h) \in Int
        OBVIOUS
      <3>3. - (CHOOSE f \in Score(b) : TRUE) = - h
        BY <3>1, Zenon
      <3>4. (IF Score(b) = {} THEN 0 ELSE - (CHOOSE f \in Score(b) : TRUE)) = - h
        BY <2>2, <3>3, Zenon
      <3> QED
        BY <3>2, <3>4, Zenon
    <2> QED
      BY <2>1, <2>2
  <1>4. CASE rule \in {"FIRST", "CHEAPEST"}
    <2>1. PICK h \in Int : Rank(b, rule, taken) = <<h, b.provider, b.key>>
      BY <1>1, <1>4 DEF Rank
    <2>2. Width(rule) = 3
      BY <1>4 DEF Width
    <2> QED
      BY <2>2, <2>1, <1>1
  <1>5. CASE rule = "DEGRADED"
    <2>1. PICK h \in Int : Rank(b, rule, taken) = <<h, b.price, b.provider, b.key>>
      BY <1>2, <1>5 DEF Rank
    <2>2. Width(rule) = 4
      BY <1>5 DEF Width
    <2> QED
      BY <2>2, <2>1, <1>1
  <1>6. CASE rule = "EMPTIEST"
    <2>1. PICK h \in Int, k \in Int :
              Rank(b, rule, taken) = <<h, k, e, b.price, b.provider, b.key>>
      BY <1>6, <1>3, <1>2 DEF Rank
    <2>2. Width(rule) = 6
      BY <1>6 DEF Width
    <2> QED
      BY <2>2, <2>1, <1>1
  <1> QED
    BY <1>6, <1>5, <1>4 DEF Rules

\* An auction has finitely many bids.
LEMMA BidsFinite ==
    ASSUME NEW a \in AuctionState
    PROVE  IsFiniteSet(Bids(a))
  <1>1. PICK D : D = DOMAIN a.bids /\ IsFiniteSet(D)
    <2>1. DOMAIN a.bids = 1 .. Len(a.bids) /\ Len(a.bids) \in Int
      BY AuctionFields
    <2> QED
      BY <2>1, FS_Interval
  <1>2. PICK f : f = [i \in D |-> a.bids[i]]
    OBVIOUS
  <1>3. f \in Surjection(D, Bids(a))
    BY <1>1, <1>2 DEF Surjection, Bids
  <1> QED
    BY <1>1, <1>3, FS_Surjection

\* Of the bids in a pool one ranks before all others.
LEMMA BestFirst ==
    ASSUME NEW a \in AuctionState, Coherent(a), NEW pool \in SUBSET Bids(a), pool # {},
           NEW rule \in Rules, NEW taken
    PROVE  /\ Best(pool, rule, taken) \in pool
           /\ \A x \in pool \ {Best(pool, rule, taken)} :
                 LexLess(Rank(Best(pool, rule, taken), rule, taken), Rank(x, rule, taken))
  <1>1. pool \subseteq BidObservation /\ IsFiniteSet(pool)
    BY AuctionFields, BidsFinite, FS_Subset
  <1>2. \A x, y \in pool : x # y => x.key # y.key
    BY DEF Bids, Coherent
  <1>3. PICK N \in Nat \ {0} : N = Width(rule)
    BY <1>1, RankTuple
  <1>4. \A x \in pool : /\ DOMAIN Rank(x, rule, taken) = 1 .. N
                        /\ \A n \in 1 .. N : Rank(x, rule, taken)[n] \in Int
                        /\ Rank(x, rule, taken)[N] = x.key
    BY <1>1, <1>3, RankTuple
  <1>5. PICK R : R = {xy \in pool \X pool :
                        LexLess(Rank(xy[1], rule, taken), Rank(xy[2], rule, taken))}
    OBVIOUS
  <1>6. \A x, y \in pool : <<x, y>> \in R <=>
                               LexLess(Rank(x, rule, taken), Rank(y, rule, taken))
    BY <1>5
  <1>7. ASSUME NEW x \in pool, NEW y \in pool, x # y
        PROVE  <<x, y>> \in R \/ <<y, x>> \in R
    <2>1. PICK s : s = Rank(x, rule, taken)
      OBVIOUS
    <2>2. PICK t : t = Rank(y, rule, taken)
      OBVIOUS
    <2>3. /\ DOMAIN s = 1 .. N /\ DOMAIN t = 1 .. N /\ s[N] # t[N]
          /\ \A n \in 1 .. N : s[n] \in Int /\ t[n] \in Int
      BY <2>2, <2>1, <1>7, <1>4, <1>2
    <2>4. LexLess(s, t) \/ LexLess(t, s)
      BY <2>3, LexTotal
    <2> QED
      BY <2>4, <2>2, <2>1, <1>6
  <1>8. ASSUME NEW x \in pool, NEW y \in pool, NEW z \in pool, <<x, y>> \in R, <<y, z>> \in R
        PROVE  <<x, z>> \in R
    <2>1. PICK s : s = Rank(x, rule, taken)
      OBVIOUS
    <2>2. PICK t : t = Rank(y, rule, taken)
      OBVIOUS
    <2>3. PICK u : u = Rank(z, rule, taken)
      OBVIOUS
    <2>4. /\ DOMAIN s = 1 .. N /\ DOMAIN t = 1 .. N /\ DOMAIN u = 1 .. N
          /\ \A n \in 1 .. N : s[n] \in Int /\ t[n] \in Int /\ u[n] \in Int
          /\ LexLess(s, t) /\ LexLess(t, u)
      BY <2>3, <2>2, <2>1, <1>8, <1>6, <1>4
    <2>5. LexLess(s, u)
      BY <2>4, LexTransitive
    <2> QED
      BY <2>5, <2>3, <2>1, <1>6
  <1>9. PICK m \in pool : \A x \in pool \ {m} : <<m, x>> \in R
    BY <1>8, <1>7, <1>1, FirstElement
  <1>10. \E b \in pool : \A x \in pool \ {b} :
             LexLess(Rank(b, rule, taken), Rank(x, rule, taken))
    BY <1>6, <1>9
  <1> QED
    BY <1>10 DEF Best

\* Nothing else ranks before all others.
LEMMA BestUnique ==
    ASSUME NEW a \in AuctionState, Coherent(a), NEW pool \in SUBSET Bids(a),
           NEW rule \in Rules, NEW taken, NEW b \in pool,
           \A x \in pool \ {b} : LexLess(Rank(b, rule, taken), Rank(x, rule, taken))
    PROVE  Best(pool, rule, taken) = b
  <1>1. PICK c : c = Best(pool, rule, taken)
    OBVIOUS
  <1>2. c \in pool /\ \A x \in pool \ {c} : LexLess(Rank(c, rule, taken), Rank(x, rule, taken))
    BY <1>1, BestFirst
  <1>3. ASSUME c # b PROVE FALSE
    <2>1. PICK s : s = Rank(b, rule, taken)
      OBVIOUS
    <2>2. PICK t : t = Rank(c, rule, taken)
      OBVIOUS
    <2>3. LexLess(s, t) /\ LexLess(t, s)
      BY <2>2, <2>1, <1>3, <1>2
    <2>4. b \in BidObservation /\ c \in BidObservation
      BY <1>2, AuctionFields
    <2>5. PICK N \in Nat : /\ DOMAIN s = 1 .. N /\ DOMAIN t = 1 .. N
                           /\ \A n \in 1 .. N : s[n] \in Int /\ t[n] \in Int
      BY <2>4, <2>2, <2>1, RankTuple
    <2> QED
      BY <2>3, <2>5, LexAsymmetric
  <1> QED
    BY <1>1, <1>3

\* The rule of a choice tells whether there was a preferred bid.
LEMMA RuleKind ==
    ASSUME NEW a \in AuctionState, NEW preferred
    PROVE  /\ Rule(a.policy.selection, preferred) \in Rules
           /\ preferred = {} => Rule(a.policy.selection, preferred) = "FIRST"
           /\ preferred # {} => Rule(a.policy.selection, preferred) # "FIRST"
  <1>1. a.policy.selection \in {"CHEAPEST", "EMPTIEST"}
    BY AuctionFields DEF AuctionPolicy
  <1> QED
    BY <1>1 DEF Rule, Rules

Pool(a, now) == IF Preferred(a, now) # {} THEN Preferred(a, now) ELSE Candidates(a, now)

\* The bids chosen among are bids of the auction.
LEMMA PoolBids ==
    ASSUME NEW a \in AuctionState, NEW now
    PROVE  /\ Candidates(a, now) \subseteq Bids(a) /\ Pool(a, now) \subseteq Bids(a)
           /\ Preferred(a, now) \subseteq Candidates(a, now)
           /\ Pool(a, now) = {} <=> Candidates(a, now) = {}
  BY DEF Pool, Candidates, Preferred

\* What a decision tells.
LEMMA DecidedBid ==
    ASSUME NEW a \in AuctionState, Coherent(a), NEW now \in Int, NEW taken,
           Evaluate(a, now, taken).status \in {"DECIDED", "EXPIRED"},
           NEW b \in Evaluate(a, now, taken).selected
    PROVE  /\ Deadline(a) <= now
           /\ b \in Pool(a, now)
           /\ Evaluate(a, now, taken).rule = Rule(a.policy.selection, Preferred(a, now))
           /\ Evaluate(a, now, taken).selected = {b}
           /\ \A x \in Pool(a, now) \ {b} :
                 LexLess(Rank(b, Evaluate(a, now, taken).rule, taken),
                         Rank(x, Evaluate(a, now, taken).rule, taken))
           /\ \A x \in Pool(a, now) : x.denom = b.denom
  <1>1. PICK v : v = Evaluate(a, now, taken)
    OBVIOUS
  <1>2. PICK pool : pool = Pool(a, now)
    OBVIOUS
  <1>3. PICK rule \in Rules : rule = Rule(a.policy.selection, Preferred(a, now))
    BY RuleKind
  <1>4. /\ ~ (now < Deadline(a)) /\ Candidates(a, now) # {}
        /\ ~ (Cardinality({x.denom : x \in pool}) > 1)
        /\ v = [status |-> "DECIDED", rule |-> rule, selected |-> {Best(pool, rule, taken)}]
    BY <1>3, <1>2, <1>1 DEF Evaluate, Pool, Collecting, Expired, Mixed
  <1>5. pool \in SUBSET Bids(a) /\ pool # {}
    BY <1>2, <1>4, PoolBids
  <1>6. b = Best(pool, rule, taken) /\ v.selected = {b} /\ v.rule = rule
    BY <1>1, <1>4
  <1>7. /\ b \in pool
        /\ \A x \in pool \ {b} : LexLess(Rank(b, rule, taken), Rank(x, rule, taken))
    BY <1>5, <1>6, BestFirst
  <1>8. ASSUME NEW x \in pool PROVE x.denom = b.denom
    <2>1. PICK D : D = {y.denom : y \in pool}
      OBVIOUS
    <2>2. IsFiniteSet(pool)
      BY <1>5, BidsFinite, FS_Subset
    <2>3. PICK f : f = [y \in pool |-> y.denom]
      OBVIOUS
    <2>4. f \in Surjection(pool, D)
      BY <2>1, <2>3 DEF Surjection
    <2>5. IsFiniteSet(D) /\ Cardinality(D) \in Nat /\ Cardinality(D) <= 1
      BY <2>4, <2>2, <2>1, <1>4, FS_Surjection, FS_CardinalityType
    <2>6. {x.denom, b.denom} \in SUBSET D
      BY <1>7, <2>1
    <2>7. CASE x.denom # b.denom
      <3>1. IsFiniteSet({b.denom}) /\ Cardinality({b.denom}) = 1
        BY FS_Singleton
      <3>2. Cardinality({b.denom} \cup {x.denom}) = 2
        <4>1. PICK S : S = {b.denom}
          OBVIOUS
        <4>2. x.denom \notin S /\ IsFiniteSet(S)
          BY <4>1, <3>1, <2>7
        <4>3. Cardinality(S \cup {x.denom}) = Cardinality(S) + 1
          BY <4>2, FS_AddElement
        <4> QED
          BY <4>3, <4>1, <3>1
      <3>3. {b.denom} \cup {x.denom} = {x.denom, b.denom}
        OBVIOUS
      <3>4. Cardinality({x.denom, b.denom}) <= Cardinality(D)
        BY <2>5, <2>6, FS_Subset
      <3> QED
        BY <3>4, <3>3, <3>2, <2>5
    <2> QED
      BY <2>7
  <1>9. Deadline(a) \in Int
    BY AuctionFields DEF Deadline, AuctionPolicy
  <1> QED
    BY <1>9, <1>8, <1>7, <1>6, <1>4, <1>3, <1>2, <1>1

\* A result that appears is the decision of an auction that was there.
LEMMA ResultIsVerdict ==
    ASSUME IInv, [Next]_vars, NEW o \in Order, result[o] = {}, NEW d \in result'[o]
    PROVE  \E a \in auction[o] : d = Verdict(o, a) /\ d.status \in {"DECIDED", "EXPIRED"}
  <1>1. DOMAIN result = Order
    BY DEF IInv, TypeOK
  <1>2. \E q \in Order : Decide(q)
    BY <1>1 DEF Next, vars, Tick, Crash, Open, Save, Poll, Restore
  <1>3. PICK q \in Order : Decide(q)
    BY <1>2
  <1>4. PICK a \in auction[q] : /\ Verdict(q, a).status \in {"DECIDED", "EXPIRED"}
                                /\ result' = [result EXCEPT ![q] = {Verdict(q, a)}]
    BY <1>3 DEF Decide
  <1>5. q = o
    BY <1>1, <1>4
  <1> QED
    BY <1>5, <1>4, <1>1

\* The sightings tell the time of a bid.
LEMMA SightingTime ==
    ASSUME NEW o, NEW a, NEW f, Sound(o, a, f), NEW b \in Bids(a)
    PROVE  (CHOOSE n \in f[b.key] : TRUE) = b.at
  <1>1. a \in AuctionState /\ Coherent(a) /\ b \in BidObservation
    BY AuctionFields DEF Sound
  <1>2. b \in Held(a, b.key) /\ b.key \in Bid
    BY <1>1, BidFields DEF Held
  <1>3. Held(a, b.key) = {b}
    BY <1>1, <1>2, HeldOnce
  <1>4. f[b.key] = {b.at}
    BY <1>2, <1>3 DEF Sound, Dated
  <1> QED
    BY <1>4

\* Decisions follow the order of arrival.
LEMMA DecisionHolds ==
    ASSUME IInv, [Next]_vars, NEW o \in Order, result[o] = {}, NEW d \in result'[o],
           NEW b \in d.selected
    PROVE  Decision(o, b)
  <1>1. PICK a \in auction[o] : d = Verdict(o, a) /\ d.status \in {"DECIDED", "EXPIRED"}
    BY ResultIsVerdict
  <1>2. /\ Sound(o, a, first[o]) /\ \A c \in auction[o] : c = a
        /\ a \in AuctionState /\ Coherent(a) /\ a.policy = PolicyOf[o] /\ a.started = 0
    BY <1>1 DEF IInv, AuctionsSound, Sound
  <1>3. PICK now \in Int : now = Elapsed(o)
    BY ElapsedType DEF IInv
  <1>4. d = Evaluate(a, now, Taken(o))
    BY <1>1, <1>3 DEF Verdict
  <1>5. PICK rule : rule = Rule(a.policy.selection, Preferred(a, now))
    OBVIOUS
  <1>6. /\ Deadline(a) <= now /\ b \in Pool(a, now)
        /\ \A x \in Pool(a, now) \ {b} :
              LexLess(Rank(b, rule, Taken(o)), Rank(x, rule, Taken(o)))
        /\ \A x \in Pool(a, now) : x.denom = b.denom
    <2>1. /\ Evaluate(a, now, Taken(o)).status \in {"DECIDED", "EXPIRED"}
          /\ b \in Evaluate(a, now, Taken(o)).selected
      BY <1>1, <1>4
    <2> QED
      BY <2>1, <1>5, <1>2, DecidedBid
  <1>7. PICK window \in Nat, fallback \in Nat :
            /\ window = PolicyOf[o].window /\ fallback = PolicyOf[o].fallback
            /\ Deadline(a) = window /\ FallbackDeadline(a) = window + fallback
    <2>1. PICK policy \in AuctionPolicy : policy = a.policy
      BY <1>2, AuctionFields
    <2>2. policy.window \in Nat /\ policy.fallback \in Nat
      BY DEF AuctionPolicy
    <2> QED
      BY <2>2, <2>1, <1>2 DEF Deadline, FallbackDeadline
  <1>8. \A x \in Bids(a) : (CHOOSE n \in first[o][x.key] : TRUE) = x.at
    BY <1>2, SightingTime
  <1>9. b \in Candidates(a, now) /\ Candidates(a, now) \subseteq Bids(a)
    BY <1>2, <1>6, PoolBids DEF Pool
  <1>10. \A x \in Candidates(a, now) :
            /\ x \in Preferred(a, now) <=>
                  x.provider \in PolicyOf[o].preferred /\ x.at <= window
            /\ x.at <= window + fallback
            /\ x \in BidObservation
    BY <1>9, <1>7, <1>2, AuctionFields DEF Preferred, Candidates
  <1>11. UNION {Candidates(c, Elapsed(o)) : c \in auction[o]} = Candidates(a, now)
    BY <1>2, <1>3
  <1>12. ASSUME b \notin Preferred(a, now), NEW x \in Candidates(a, now), x.key # b.key
         PROVE  x \notin Preferred(a, now) /\ x.at >= b.at
    <2>1. Preferred(a, now) = {} /\ Pool(a, now) = Candidates(a, now)
      BY <1>6, <1>12 DEF Pool
    <2>2. rule = "FIRST"
      BY <2>1, <1>5, <1>2, RuleKind
    <2>3. LexLess(<<b.at, b.provider, b.key>>, <<x.at, x.provider, x.key>>)
      BY <2>2, <2>1, <1>12, <1>6 DEF Rank
    <2>4. b.at \in Int /\ x.at \in Int
      BY <1>9, <1>10, BidFields
    <2>5. b.at <= x.at
      BY <2>3, <2>4 DEF LexLess
    <2> QED
      BY <2>5, <2>4, <2>1
  <1>13. ASSUME NEW x \in Candidates(a, now),
                x \in Preferred(a, now) <=> b \in Preferred(a, now)
         PROVE  x.denom = b.denom
    BY <1>13, <1>9, <1>6 DEF Pool
  <1> DEFINE sighted(x) == CHOOSE n \in first[o][x.key] : TRUE
             inTime(x) == x.provider \in PolicyOf[o].preferred
                          /\ sighted(x) <= PolicyOf[o].window
             others == {x \in UNION {Candidates(c, Elapsed(o)) : c \in auction[o]} :
                           x.key # b.key}
  <1>14. /\ \A x \in Candidates(a, now) : sighted(x) = x.at
         /\ \A x \in Candidates(a, now) : inTime(x) <=> x \in Preferred(a, now)
    BY <1>10, <1>9, <1>8, <1>7
  <1>15. \A x \in others : x \in Candidates(a, now) /\ x.key # b.key
    BY <1>11
  <1> HIDE DEF sighted, inTime, others
  <1>16. ~ inTime(b) => \A x \in others : ~ inTime(x) /\ sighted(x) >= sighted(b)
    BY <1>15, <1>14, <1>12, <1>9
  <1>17. \A x \in others : (inTime(x) <=> inTime(b)) => x.denom = b.denom
    BY <1>15, <1>14, <1>13, <1>9
  <1>18. /\ Elapsed(o) >= PolicyOf[o].window
         /\ sighted(b) <= PolicyOf[o].window + PolicyOf[o].fallback
    BY <1>14, <1>10, <1>9, <1>7, <1>6, <1>3
  <1>19. \A x \in others : inTime(x) = inTime(b) => x.denom = b.denom
    <2>1. \A x : inTime(x) = inTime(b) => (inTime(x) <=> inTime(b))
      OBVIOUS
    <2> QED
      BY <1>17, <2>1
  <1> QED
    BY <1>19, <1>18, <1>16 DEF Decision, sighted, inTime, others

\* evaluate takes the bid that was sighted first, or the best of the preferred ones in
\* time, whatever polls, crashes and restores came before.
THEOREM DecisionsFollowArrival == Spec => DecisionsByArrival
  <1>1. IInv /\ [Next]_vars => [DecisionStep]_vars
    BY DecisionHolds DEF DecisionStep
  <1> QED
    BY <1>1, Invariance, PTL DEF Spec, DecisionsByArrival

\* A bid of a provider that was taken ranks behind the others.
LEMMA TakenRanksBehind ==
    ASSUME NEW b, NEW x, NEW taken, NEW rule \in {"DEGRADED", "EMPTIEST"},
           b.provider \in taken, LexLess(Rank(b, rule, taken), Rank(x, rule, taken))
    PROVE  x.provider \in taken
  <1>1. PICK s : s = Rank(b, rule, taken)
    OBVIOUS
  <1>2. PICK t : t = Rank(x, rule, taken)
    OBVIOUS
  <1>3. s[1] = 1 /\ t[1] = Bit(x.provider \in taken) /\ DOMAIN s \subseteq Nat \ {0}
    <2>1. CASE rule = "DEGRADED"
      BY <2>1, <1>2, <1>1 DEF Rank, Bit
    <2>2. CASE rule = "EMPTIEST"
      BY <2>2, <1>2, <1>1 DEF Rank, Bit
    <2> QED
      BY <2>1, <2>2
  <1>4. PICK n \in DOMAIN s : s[n] < t[n] /\ \A m \in 1 .. (n - 1) : s[m] = t[m]
    BY <1>1, <1>2 DEF LexLess
  <1>5. CASE n = 1
    BY <1>5, <1>4, <1>3 DEF Bit
  <1>6. CASE n # 1
    <2>1. 1 \in 1 .. (n - 1)
      BY <1>3, <1>6
    <2> QED
      BY <2>1, <1>4, <1>3 DEF Bit
  <1> QED
    BY <1>5, <1>6

\* Decisions spread the orders.
LEMMA SpreadHolds ==
    ASSUME IInv, [Next]_vars, NEW o \in Order, result[o] = {}, NEW d \in result'[o],
           d.rule \in {"DEGRADED", "EMPTIEST"},
           NEW b \in d.selected, b.provider \in Taken(o),
           NEW a \in auction[o], NEW x \in Preferred(a, Elapsed(o))
    PROVE  x.provider \in Taken(o)
  <1>1. PICK c \in auction[o] : d = Verdict(o, c) /\ d.status \in {"DECIDED", "EXPIRED"}
    BY ResultIsVerdict
  <1>2. c = a /\ a \in AuctionState /\ Coherent(a)
    BY <1>1 DEF IInv, AuctionsSound, Sound
  <1>3. PICK now \in Int : now = Elapsed(o)
    BY ElapsedType DEF IInv
  <1>4. d = Evaluate(a, now, Taken(o))
    BY <1>3, <1>2, <1>1 DEF Verdict
  <1>5. \A y \in Pool(a, now) \ {b} :
            LexLess(Rank(b, d.rule, Taken(o)), Rank(y, d.rule, Taken(o)))
    <2>1. /\ Evaluate(a, now, Taken(o)).status \in {"DECIDED", "EXPIRED"}
          /\ b \in Evaluate(a, now, Taken(o)).selected
      BY <1>1, <1>4
    <2> QED
      BY <2>1, <1>4, <1>2, DecidedBid
  <1>6. x \in Pool(a, now)
    BY <1>3 DEF Pool
  <1>7. CASE x # b
    BY <1>7, <1>6, <1>5, TakenRanksBehind
  <1> QED
    BY <1>7

\* evaluate passes over a provider that was taken while another preferred one bids.
THEOREM OrdersAreSpread == Spec => OrdersSpread
  <1>1. IInv /\ [Next]_vars => [SpreadStep]_vars
    BY SpreadHolds DEF SpreadStep
  <1> QED
    BY <1>1, Invariance, PTL DEF Spec, OrdersSpread


----
\* Observations commute.

\* The observation is of the provider and, if it tells, of the group of its key.
Fitting(a, o) ==
    \A b \in Held(a, o.key) : /\ b.provider = o.provider
                              /\ b.gseq # {} /\ o.gseq # {} => b.gseq = o.gseq

\* What observe accepts.
LEMMA AcceptsParts ==
    ASSUME NEW a, NEW o
    PROVE  Accepts(a, o) <=> /\ Fitting(a, o)
                             /\ \A g \in Completed(a, o).gseq :
                                   a.profiles[g] # {} =>
                                       Completed(a, o).profile = a.profiles[g]
  BY DEF Accepts, Fitting

\* A completed observation without a profile is in no bound group.
LEMMA ProfileKnown ==
    ASSUME NEW a \in AuctionState, Coherent(a), NEW o \in BidObservation,
           Completed(a, o).profile = {}, NEW g \in Completed(a, o).gseq
    PROVE  a.profiles[g] = {}
  <1>1. PICK c : c = Completed(a, o)
    OBVIOUS
  <1>2. /\ c \in BidObservation
        /\ c.profile = Kept(Bound(a.profiles, c.gseq), Kept(HeldProfile(a, o.key), o.profile))
    BY <1>1, CompletedFields
  <1>3. Bound(a.profiles, c.gseq) = {}
    BY <1>1, <1>2 DEF Kept
  <1> QED
    BY <1>1, <1>3 DEF Bound

\* What another key was seen with does not matter to it.
LEMMA LaterFits ==
    ASSUME NEW a \in AuctionState, Coherent(a), NEW x \in BidObservation,
           NEW y \in BidObservation, x.key # y.key
    PROVE  Fitting(Observe(a, x), y) <=> Fitting(a, y)
  <1>1. PICK p \in Bindings : p = NewBindings(a, x)
    BY BindingsKept
  <1>2. Held(Observe(a, x), y.key) = {Propagated(b, p) : b \in Held(a, y.key)}
    BY <1>1, ObserveHeld
  <1>3. \A b \in Held(a, y.key) : /\ Propagated(b, p).provider = b.provider
                                  /\ Propagated(b, p).gseq = b.gseq
    BY <1>1, AuctionFields, PropagatedFields DEF Held
  <1> QED
    BY <1>2, <1>3 DEF Fitting

\* A later observation is completed as it would have been before, and with what has
\* become bound.
LEMMA LaterCompleted ==
    ASSUME NEW a \in AuctionState, Coherent(a), NEW x \in BidObservation,
           NEW y \in BidObservation, x.key # y.key, Accepts(a, x), Fitting(a, y)
    PROVE  Completed(Observe(a, x), y) = Propagated(Completed(a, y), NewBindings(a, x))
  <1>1. PICK p \in Bindings : p = NewBindings(a, x)
    BY BindingsKept
  <1>2. PICK r : r = Observe(a, x)
    OBVIOUS
  <1>3. r \in AuctionState /\ Coherent(r) /\ r.profiles = p
    BY <1>1, <1>2, ObserveFields, ObserveCoherent
  <1>4. PICK c : c = Completed(a, y)
    OBVIOUS
  <1>5. PICK e : e = Completed(r, y)
    OBVIOUS
  <1>6. /\ c \in BidObservation
        /\ c.gseq = Kept(HeldGroup(a, y.key), y.gseq)
        /\ c.profile = Kept(Bound(a.profiles, c.gseq), Kept(HeldProfile(a, y.key), y.profile))
    BY <1>4, CompletedFields
  <1>7. c = [key |-> y.key, provider |-> y.provider, price |-> y.price,
             denom |-> y.denom, at |-> y.at, state |-> y.state,
             capacity |-> y.capacity, profile |-> c.profile, gseq |-> c.gseq]
    BY <1>4, CompletedFields
  <1>8. /\ e \in BidObservation
        /\ e.gseq = Kept(HeldGroup(r, y.key), y.gseq)
        /\ e.profile = Kept(Bound(r.profiles, e.gseq), Kept(HeldProfile(r, y.key), y.profile))
    BY <1>3, <1>5, CompletedFields
  <1>9. e = [key |-> y.key, provider |-> y.provider, price |-> y.price,
             denom |-> y.denom, at |-> y.at, state |-> y.state,
             capacity |-> y.capacity, profile |-> e.profile, gseq |-> e.gseq]
    BY <1>3, <1>5, CompletedFields
  <1>10. Held(r, y.key) = {Propagated(b, p) : b \in Held(a, y.key)}
    BY <1>1, <1>2, ObserveHeld
  <1>11. Held(a, y.key) = {} => /\ HeldGroup(r, y.key) = {} /\ HeldGroup(a, y.key) = {}
                                /\ HeldProfile(r, y.key) = {} /\ HeldProfile(a, y.key) = {}
    BY <1>10 DEF HeldGroup, HeldProfile
  <1>12. ASSUME NEW b \in BidObservation, Held(a, y.key) = {b}
         PROVE  /\ HeldGroup(r, y.key) = b.gseq /\ HeldGroup(a, y.key) = b.gseq
                /\ HeldProfile(r, y.key) = Kept(Bound(p, b.gseq), b.profile)
                /\ HeldProfile(a, y.key) = b.profile
                /\ b.gseq # {} => c.gseq = b.gseq
    <2>1. Held(r, y.key) = {Propagated(b, p)}
      BY <1>10, <1>12
    <2>2. /\ Propagated(b, p).gseq = b.gseq
          /\ Propagated(b, p).profile = Kept(Bound(p, b.gseq), b.profile)
      BY <1>1, <1>12, PropagatedFields
    <2>3. /\ HeldGroup(r, y.key) = b.gseq /\ HeldGroup(a, y.key) = b.gseq
          /\ HeldProfile(r, y.key) = Kept(Bound(p, b.gseq), b.profile)
          /\ HeldProfile(a, y.key) = b.profile
      BY <2>2, <2>1, <1>12 DEF HeldGroup, HeldProfile
    <2>4. b.gseq # {} => c.gseq = b.gseq
      BY <2>3, <1>12, <1>6 DEF Fitting, Kept
    <2> QED
      BY <2>3, <2>4
  <1>13. HeldGroup(r, y.key) = HeldGroup(a, y.key) /\ e.gseq = c.gseq
    BY <1>12, <1>11, <1>8, <1>6, HeldOnce, SMTT(30)
  <1>14. Bound(a.profiles, c.gseq) # {} => Bound(p, c.gseq) = Bound(a.profiles, c.gseq)
    <2>1. c.gseq \in Optional(Group)
      BY <1>6, BidFields
    <2>2. \A g \in Group : a.profiles[g] # {} => p[g] = a.profiles[g]
      BY <1>1, AcceptedBinding
    <2>3. CASE c.gseq = {}
      BY <2>3 DEF Bound
    <2>4. CASE \E g \in Group : c.gseq = {g}
      BY <2>2, <2>4 DEF Bound
    <2> QED
      BY <2>4, <2>3, <2>1, OptionalValue
  <1>15. e.profile = Kept(Bound(p, c.gseq), c.profile)
    <2>1. e.profile = Kept(Bound(p, c.gseq), Kept(HeldProfile(r, y.key), y.profile))
      BY <1>13, <1>8, <1>3
    <2>2. CASE y.profile # {}
      BY <2>2, <2>1, <1>6 DEF Kept
    <2>3. CASE y.profile = {} /\ Held(a, y.key) = {}
      BY <2>3, <2>1, <1>14, <1>11, <1>6 DEF Kept
    <2>4. CASE y.profile = {} /\ Held(a, y.key) # {}
      <3>1. PICK b \in BidObservation : Held(a, y.key) = {b}
        BY <2>4, HeldOnce
      <3>2. /\ HeldProfile(r, y.key) = Kept(Bound(p, b.gseq), b.profile)
            /\ HeldProfile(a, y.key) = b.profile
            /\ b.gseq # {} => c.gseq = b.gseq
        BY <1>12, <3>1
      <3>3. b.gseq = {} => Bound(p, b.gseq) = {}
        BY DEF Bound
      <3> QED
        BY <3>3, <3>2, <2>4, <2>1, <1>14, <1>6 DEF Kept
    <2> QED
      BY <2>4, <2>3, <2>2
  <1>16. Propagated(c, p) = [c EXCEPT !.profile = Kept(Bound(p, c.gseq), c.profile)]
    BY DEF Propagated, Bound
  <1>17. Propagated(c, p) = [key |-> y.key, provider |-> y.provider, price |-> y.price,
             denom |-> y.denom, at |-> y.at, state |-> y.state,
             capacity |-> y.capacity, profile |-> Kept(Bound(p, c.gseq), c.profile),
             gseq |-> c.gseq]
    BY <1>7, <1>16
  <1> QED
    BY <1>17, <1>15, <1>13, <1>9, <1>5, <1>4, <1>2, <1>1

\* Two observations that are accepted in one order are accepted in the other, and
\* agree on the profile of their group.
LEMMA AcceptedBoth ==
    ASSUME NEW a \in AuctionState, Coherent(a), NEW x \in BidObservation,
           NEW y \in BidObservation, x.key # y.key,
           Accepts(a, x), Accepts(Observe(a, x), y)
    PROVE  /\ Accepts(a, y) /\ Accepts(Observe(a, y), x)
           /\ \A g \in Completed(a, x).gseq : g \in Completed(a, y).gseq =>
                 Kept(Completed(a, x).profile, Completed(a, y).profile) =
                 Kept(Completed(a, y).profile, Completed(a, x).profile)
  <1>1. PICK cx \in BidObservation : cx = Completed(a, x)
    BY CompletedFields
  <1>2. PICK cy \in BidObservation : cy = Completed(a, y)
    BY CompletedFields
  <1>3. PICK px \in Bindings : px = NewBindings(a, x)
    BY BindingsKept
  <1>4. PICK py \in Bindings : py = NewBindings(a, y)
    BY BindingsKept
  <1>5. Fitting(a, x) /\ Fitting(a, y) /\ Fitting(Observe(a, y), x)
    BY AcceptsParts, LaterFits
  <1>6. PICK e : e = Propagated(cy, px)
    OBVIOUS
  <1>7. e.gseq = cy.gseq /\ e.profile = Kept(Bound(px, cy.gseq), cy.profile)
    BY <1>6, PropagatedFields
  <1>8. \A g \in cy.gseq : px[g] # {} => e.profile = px[g]
    <2>1. Completed(Observe(a, x), y) = e
      BY <1>6, <1>5, <1>3, <1>2, LaterCompleted
    <2>2. Observe(a, x).profiles = px
      BY <1>3, ObserveFields
    <2>3. \A g \in Completed(Observe(a, x), y).gseq :
              Observe(a, x).profiles[g] # {} =>
                  Completed(Observe(a, x), y).profile = Observe(a, x).profiles[g]
      BY AcceptsParts
    <2> QED
      BY <2>3, <2>2, <2>1, <1>7
  <1>9. \A g \in cy.gseq : px[g] # {} /\ cy.profile # {} => cy.profile = px[g]
    BY <1>7, <1>8 DEF Kept
  <1>10. \A g \in cx.gseq : px[g] = cx.profile
    BY <1>1, <1>3, AcceptedBinding
  <1>11. \A g \in Group : a.profiles[g] # {} => px[g] = a.profiles[g]
    BY <1>3, AcceptedBinding
  <1>12. cx.gseq \in Optional(Group) /\ cy.gseq \in Optional(Group)
    BY BidFields
  <1>13. \A g \in cy.gseq : a.profiles[g] # {} => cy.profile = a.profiles[g]
    <2>1. \A g \in cy.gseq : cy.profile = {} => a.profiles[g] = {}
      BY <1>2, ProfileKnown
    <2> QED
      BY <2>1, <1>12, <1>11, <1>9 DEF Optional
  <1>14. Accepts(a, y)
    BY <1>13, <1>5, <1>2, AcceptsParts
  <1>15. \A g \in cx.gseq : g \in cy.gseq /\ cx.profile # {} /\ cy.profile # {} =>
                                cx.profile = cy.profile
    BY <1>9, <1>10
  <1>16. \A g \in cy.gseq : py[g] = cy.profile
    BY <1>14, <1>4, <1>2, AcceptedBinding
  <1>17. \A g \in Group : g \notin cy.gseq => py[g] = a.profiles[g]
    BY <1>14, <1>4, <1>2, AcceptedBinding
  <1>18. \A g \in cx.gseq : a.profiles[g] # {} => cx.profile = a.profiles[g]
    BY <1>1, AcceptsParts
  <1>19. PICK f : f = Propagated(cx, py)
    OBVIOUS
  <1>20. f.gseq = cx.gseq /\ f.profile = Kept(Bound(py, cx.gseq), cx.profile)
    BY <1>19, PropagatedFields
  <1>21. ASSUME NEW g \in cx.gseq, py[g] # {} PROVE f.profile = py[g]
    <2>1. cx.gseq = {g} /\ g \in Group
      BY <1>12, OptionalValue
    <2>2. Bound(py, cx.gseq) = py[g]
      BY <2>1 DEF Bound
    <2>3. cx.profile # {} => cx.profile = py[g]
      BY <2>1, <1>21, <1>18, <1>17, <1>16, <1>15
    <2> QED
      BY <2>3, <2>2, <1>20 DEF Kept
  <1>22. Accepts(Observe(a, y), x)
    <2>1. Completed(Observe(a, y), x) = f
      BY <1>19, <1>14, <1>5, <1>4, <1>1, LaterCompleted
    <2>2. Observe(a, y).profiles = py
      BY <1>4, ObserveFields
    <2> QED
      BY <2>2, <2>1, <1>21, <1>20, <1>5, AcceptsParts
  <1> QED
    BY <1>22, <1>15, <1>14, <1>2, <1>1 DEF Kept

\* Both orders bind the same profiles.
LEMMA SameBindings ==
    ASSUME NEW a \in AuctionState, Coherent(a), NEW x \in BidObservation,
           NEW y \in BidObservation, x.key # y.key,
           Accepts(a, x), Accepts(Observe(a, x), y)
    PROVE  NewBindings(Observe(a, x), y) = NewBindings(Observe(a, y), x)
  <1>1. PICK cx \in BidObservation : cx = Completed(a, x)
    BY CompletedFields
  <1>2. PICK cy \in BidObservation : cy = Completed(a, y)
    BY CompletedFields
  <1>3. PICK px \in Bindings : px = NewBindings(a, x)
    BY BindingsKept
  <1>4. PICK py \in Bindings : py = NewBindings(a, y)
    BY BindingsKept
  <1>5. /\ Accepts(a, y) /\ Accepts(Observe(a, y), x)
        /\ \A g \in cx.gseq : g \in cy.gseq =>
              Kept(cx.profile, cy.profile) = Kept(cy.profile, cx.profile)
    BY <1>1, <1>2, AcceptedBoth
  <1>6. Fitting(a, x) /\ Fitting(a, y)
    BY <1>5, AcceptsParts
  <1>7. Completed(Observe(a, x), y) = Propagated(cy, px)
    BY <1>6, <1>3, <1>2, LaterCompleted
  <1>8. Completed(Observe(a, y), x) = Propagated(cx, py)
    BY <1>6, <1>5, <1>4, <1>1, LaterCompleted
  <1>9. PICK ax \in AuctionState : ax = Observe(a, x) /\ Coherent(ax) /\ ax.profiles = px
    BY <1>3, ObserveFields, ObserveCoherent
  <1>10. PICK ay \in AuctionState : ay = Observe(a, y) /\ Coherent(ay) /\ ay.profiles = py
    BY <1>4, <1>5, ObserveFields, ObserveCoherent
  <1>11. PICK pxy \in Bindings : pxy = NewBindings(ax, y)
    BY <1>9, BindingsKept
  <1>12. PICK pyx \in Bindings : pyx = NewBindings(ay, x)
    BY <1>10, BindingsKept
  <1>13. /\ \A g \in cx.gseq : px[g] = cx.profile
         /\ \A g \in Group : g \notin cx.gseq => px[g] = a.profiles[g]
    BY <1>1, <1>3, AcceptedBinding
  <1>14. /\ \A g \in cy.gseq : py[g] = cy.profile
         /\ \A g \in Group : g \notin cy.gseq => py[g] = a.profiles[g]
    BY <1>5, <1>4, <1>2, AcceptedBinding
  <1>15. PICK e : e = Propagated(cy, px)
    OBVIOUS
  <1>16. e.gseq = cy.gseq /\ e.profile = Kept(Bound(px, cy.gseq), cy.profile)
    BY <1>15, PropagatedFields
  <1>17. PICK f : f = Propagated(cx, py)
    OBVIOUS
  <1>18. f.gseq = cx.gseq /\ f.profile = Kept(Bound(py, cx.gseq), cx.profile)
    BY <1>17, PropagatedFields
  <1>19. /\ \A g \in e.gseq : pxy[g] = e.profile
         /\ \A g \in Group : g \notin e.gseq => pxy[g] = px[g]
    <2>1. /\ \A g \in Completed(ax, y).gseq :
                NewBindings(ax, y)[g] = Completed(ax, y).profile
          /\ \A g \in Group : g \notin Completed(ax, y).gseq =>
                NewBindings(ax, y)[g] = ax.profiles[g]
      BY <1>9, AcceptedBinding
    <2> QED
      BY <2>1, <1>15, <1>11, <1>9, <1>7
  <1>20. /\ \A g \in f.gseq : pyx[g] = f.profile
         /\ \A g \in Group : g \notin f.gseq => pyx[g] = py[g]
    <2>1. /\ \A g \in Completed(ay, x).gseq :
                NewBindings(ay, x)[g] = Completed(ay, x).profile
          /\ \A g \in Group : g \notin Completed(ay, x).gseq =>
                NewBindings(ay, x)[g] = ay.profiles[g]
      BY <1>5, <1>10, AcceptedBinding
    <2> QED
      BY <2>1, <1>17, <1>12, <1>10, <1>8
  <1>21. \A g \in cy.gseq : pxy[g] = Kept(px[g], cy.profile)
    <2> SUFFICES ASSUME NEW g \in cy.gseq PROVE pxy[g] = Kept(px[g], cy.profile)
      OBVIOUS
    <2>1. cy.gseq = {g}
      BY BidFields, OptionalValue
    <2>2. Bound(px, cy.gseq) = px[g]
      BY <2>1 DEF Bound
    <2> QED
      BY <2>2, <1>19, <1>16
  <1>22. \A g \in cx.gseq : pyx[g] = Kept(py[g], cx.profile)
    <2> SUFFICES ASSUME NEW g \in cx.gseq PROVE pyx[g] = Kept(py[g], cx.profile)
      OBVIOUS
    <2>1. cx.gseq = {g}
      BY BidFields, OptionalValue
    <2>2. Bound(py, cx.gseq) = py[g]
      BY <2>1 DEF Bound
    <2> QED
      BY <2>2, <1>20, <1>18
  <1>23. /\ \A g \in cx.gseq : cx.profile = {} => a.profiles[g] = {}
         /\ \A g \in cy.gseq : cy.profile = {} => a.profiles[g] = {}
    BY <1>1, <1>2, ProfileKnown
  <1>24. ASSUME NEW g \in Group PROVE pxy[g] = pyx[g]
    <2>1. CASE g \in cx.gseq /\ g \in cy.gseq
      BY <2>1, <1>22, <1>21, <1>14, <1>13, <1>5
    <2>2. CASE g \in cx.gseq /\ g \notin cy.gseq
      BY <2>2, <1>23, <1>22, <1>19, <1>16, <1>14, <1>13 DEF Kept
    <2>3. CASE g \notin cx.gseq /\ g \in cy.gseq
      BY <2>3, <1>23, <1>21, <1>20, <1>18, <1>14, <1>13 DEF Kept
    <2>4. CASE g \notin cx.gseq /\ g \notin cy.gseq
      BY <2>4, <1>20, <1>19, <1>18, <1>16, <1>14, <1>13
    <2> QED
      BY <2>4, <2>3, <2>2, <2>1
  <1> QED
    BY <1>24, <1>12, <1>11, <1>10, <1>9 DEF Bindings

\* A propagated bid, field by field.
LEMMA PropagatedRecord ==
    ASSUME NEW b \in BidObservation, NEW p
    PROVE  Propagated(b, p) =
               [key |-> b.key, provider |-> b.provider, price |-> b.price,
                denom |-> b.denom, at |-> b.at, state |-> b.state,
                capacity |-> b.capacity, profile |-> Kept(Bound(p, b.gseq), b.profile),
                gseq |-> b.gseq]
  BY DEF Propagated, Bound, BidObservation

\* A refreshed bid, field by field.
LEMMA RefreshedRecord ==
    ASSUME NEW b, NEW c \in BidObservation
    PROVE  Refreshed(b, c) =
               [key |-> c.key, provider |-> c.provider, price |-> c.price,
                denom |-> c.denom, at |-> b.at, state |-> c.state,
                capacity |-> c.capacity, profile |-> c.profile, gseq |-> c.gseq]
  BY DEF Refreshed, BidObservation

\* What was propagated once is propagated again by bindings that keep the first ones.
LEMMA PropagatedTwice ==
    ASSUME NEW b \in BidObservation, NEW p \in Bindings, NEW q \in Bindings,
           \A g \in Group : p[g] # {} => q[g] = p[g]
    PROVE  Propagated(Propagated(b, p), q) = Propagated(b, q)
  <1>1. PICK c \in BidObservation : c = Propagated(b, p)
    BY PropagatedFields
  <1>2. c = [key |-> b.key, provider |-> b.provider, price |-> b.price,
             denom |-> b.denom, at |-> b.at, state |-> b.state,
             capacity |-> b.capacity, profile |-> Kept(Bound(p, b.gseq), b.profile),
             gseq |-> b.gseq]
    BY <1>1, PropagatedRecord
  <1>3. Bound(p, b.gseq) # {} => Bound(q, b.gseq) = Bound(p, b.gseq)
    <2>1. CASE b.gseq = {}
      BY <2>1 DEF Bound
    <2>2. CASE \E g \in Group : b.gseq = {g}
      BY <2>2 DEF Bound
    <2> QED
      BY <2>1, <2>2, BidFields, OptionalValue
  <1>4. Kept(Bound(q, b.gseq), c.profile) = Kept(Bound(q, b.gseq), b.profile)
    BY <1>2, <1>3 DEF Kept
  <1>5. Propagated(c, q) = [key |-> c.key, provider |-> c.provider, price |-> c.price,
             denom |-> c.denom, at |-> c.at, state |-> c.state,
             capacity |-> c.capacity, profile |-> Kept(Bound(q, c.gseq), c.profile),
             gseq |-> c.gseq]
    BY PropagatedRecord
  <1>6. Propagated(b, q) = [key |-> b.key, provider |-> b.provider, price |-> b.price,
             denom |-> b.denom, at |-> b.at, state |-> b.state,
             capacity |-> b.capacity, profile |-> Kept(Bound(q, b.gseq), b.profile),
             gseq |-> b.gseq]
    BY PropagatedRecord
  <1> QED
    BY <1>6, <1>5, <1>4, <1>2, <1>1

\* Two observations leave the bids, and those of their keys, with all that they bound.
LEMMA BidsAfterTwo ==
    ASSUME NEW a \in AuctionState, Coherent(a), NEW x \in BidObservation,
           NEW y \in BidObservation, x.key # y.key,
           Accepts(a, x), Accepts(Observe(a, x), y),
           NEW q, q = NewBindings(Observe(a, x), y)
    PROVE  Bids(Observe(Observe(a, x), y)) =
               {Propagated(b, q) : b \in {z \in Bids(a) : z.key \notin {x.key, y.key}}
                                         \cup Arrived(a, x) \cup Arrived(a, y)}
  <1>1. PICK p \in Bindings : p = NewBindings(a, x)
    BY BindingsKept
  <1>2. PICK r \in AuctionState : r = Observe(a, x) /\ Coherent(r) /\ r.profiles = p
    BY <1>1, ObserveFields, ObserveCoherent
  <1>3. q \in Bindings
    BY <1>2, BindingsKept
  <1>4. \A g \in Group : p[g] # {} => q[g] = p[g]
    BY <1>2, AcceptedBinding
  <1>5. PICK others : others = {z \in Bids(a) : z.key \notin {x.key, y.key}}
    OBVIOUS
  <1>6. others \subseteq BidObservation
    BY <1>5, AuctionFields
  <1>7. \A b \in BidObservation : Propagated(Propagated(b, p), q) = Propagated(b, q)
    BY <1>4, <1>3, <1>1, PropagatedTwice
  <1>8. Bids(r) = {Propagated(b, p) : b \in {z \in Bids(a) : z.key # x.key}}
                      \cup Arrived(a, x)
    BY <1>1, <1>2, ObserveBids
  <1>9. \A b \in Bids(a) : b \in BidObservation /\ Propagated(b, p).key = b.key
    BY <1>1, AuctionFields, PropagatedFields
  <1>10. \A b \in Arrived(a, x) : b.key = x.key
    BY ArrivedFields
  <1>11. {z \in Bids(r) : z.key # y.key} = {Propagated(b, p) : b \in others} \cup Arrived(a, x)
    BY <1>10, <1>9, <1>8, <1>5
  <1>12. {Propagated(b, q) : b \in {z \in Bids(r) : z.key # y.key}} =
             {Propagated(b, q) : b \in others} \cup {Propagated(b, q) : b \in Arrived(a, x)}
    BY <1>11, <1>7, <1>6
  <1>13. PICK cy \in BidObservation : cy = Completed(a, y)
    BY CompletedFields
  <1>14. PICK e \in BidObservation : e = Completed(r, y)
    BY <1>2, CompletedFields
  <1>15. Fitting(a, y)
    BY AcceptsParts, LaterFits
  <1>16. e = Propagated(cy, p)
    BY <1>15, <1>14, <1>13, <1>2, <1>1, LaterCompleted
  <1>17. e = Propagated(cy, q)
    <2>1. e.gseq = cy.gseq /\ e.profile = Kept(Bound(p, cy.gseq), cy.profile)
      BY <1>16, <1>13, <1>1, PropagatedFields
    <2>2. \A g \in cy.gseq : q[g] = e.profile
      <3>1. \A g \in Completed(r, y).gseq : NewBindings(r, y)[g] = Completed(r, y).profile
        BY <1>2, AcceptedBinding
      <3> QED
        BY <3>1, <2>1, <1>14, <1>2
    <2>3. Kept(Bound(q, cy.gseq), cy.profile) = Kept(Bound(p, cy.gseq), cy.profile)
      <3>1. CASE cy.gseq = {}
        BY <3>1 DEF Bound
      <3>2. CASE \E g \in Group : cy.gseq = {g}
        <4>1. Bound(q, cy.gseq) = e.profile
          BY <2>2, <3>2 DEF Bound
        <4> QED
          BY <2>1, <4>1 DEF Kept
      <3> QED
        BY <3>1, <3>2, BidFields, OptionalValue
    <2> QED
      BY <1>16, <2>3, PropagatedRecord
  <1>18. \A b \in BidObservation :
             Refreshed(Propagated(b, p), e) = Propagated(Refreshed(b, cy), q)
    <2> SUFFICES ASSUME NEW b \in BidObservation
                 PROVE  Refreshed(Propagated(b, p), e) = Propagated(Refreshed(b, cy), q)
      OBVIOUS
    <2>1. Propagated(b, p).at = b.at
      BY <1>1, PropagatedFields
    <2>2. PICK d \in BidObservation : d = Refreshed(b, cy)
      BY RefreshedFields
    <2>3. d = [key |-> cy.key, provider |-> cy.provider, price |-> cy.price,
               denom |-> cy.denom, at |-> b.at, state |-> cy.state,
               capacity |-> cy.capacity, profile |-> cy.profile, gseq |-> cy.gseq]
      BY <2>2, RefreshedRecord
    <2>4. e = [key |-> cy.key, provider |-> cy.provider, price |-> cy.price,
               denom |-> cy.denom, at |-> cy.at, state |-> cy.state,
               capacity |-> cy.capacity, profile |-> Kept(Bound(q, cy.gseq), cy.profile),
               gseq |-> cy.gseq]
      BY <1>17, PropagatedRecord
    <2>5. Refreshed(Propagated(b, p), e) =
              [key |-> e.key, provider |-> e.provider, price |-> e.price,
               denom |-> e.denom, at |-> b.at, state |-> e.state,
               capacity |-> e.capacity, profile |-> e.profile, gseq |-> e.gseq]
      BY <2>1, RefreshedRecord
    <2>6. Propagated(d, q) =
              [key |-> d.key, provider |-> d.provider, price |-> d.price,
               denom |-> d.denom, at |-> d.at, state |-> d.state,
               capacity |-> d.capacity, profile |-> Kept(Bound(q, d.gseq), d.profile),
               gseq |-> d.gseq]
      BY PropagatedRecord
    <2> QED
      BY <2>6, <2>5, <2>4, <2>3, <2>2
  <1>19. Held(r, y.key) = {Propagated(b, p) : b \in Held(a, y.key)}
    BY <1>1, <1>2, ObserveHeld
  <1>20. Arrived(r, y) = {Propagated(b, q) : b \in Arrived(a, y)}
    <2>1. CASE Held(a, y.key) = {}
      <3>1. Arrived(a, y) = {cy} /\ Arrived(r, y) = {e}
        BY <2>1, <1>19, <1>14, <1>13 DEF Arrived
      <3> QED
        BY <1>17, <3>1
    <2>2. CASE \E b \in BidObservation : Held(a, y.key) = {b}
      <3>1. PICK b \in BidObservation : Held(a, y.key) = {b}
        BY <2>2
      <3>2. Held(r, y.key) = {Propagated(b, p)}
        BY <1>19, <3>1
      <3>3. Arrived(a, y) = {Refreshed(b, cy)}
        BY <1>13, <3>1 DEF Arrived
      <3>4. Arrived(r, y) = {Refreshed(Propagated(b, p), e)}
        BY <1>14, <3>2 DEF Arrived
      <3> QED
        BY <3>4, <3>3, <1>18
    <2> QED
      BY <2>1, <2>2, HeldOnce
  <1>21. Bids(Observe(r, y)) = {Propagated(b, q) : b \in {z \in Bids(r) : z.key # y.key}}
                                   \cup Arrived(r, y)
    BY <1>2, ObserveBids
  <1>22. Bids(Observe(r, y)) =
             {Propagated(b, q) : b \in others \cup Arrived(a, x) \cup Arrived(a, y)}
    BY <1>21, <1>20, <1>12
  <1> QED
    BY <1>22, <1>5, <1>2

\* Both orders leave the same bids and bindings.
LEMMA ObservedTwice ==
    ASSUME NEW a \in AuctionState, Coherent(a), NEW x \in BidObservation,
           NEW y \in BidObservation, x.key # y.key,
           Accepts(a, x), Accepts(Observe(a, x), y)
    PROVE  Same(Observe(Observe(a, x), y), Observe(Observe(a, y), x))
  <1>1. Accepts(a, y) /\ Accepts(Observe(a, y), x)
    BY AcceptedBoth
  <1>2. PICK q : q = NewBindings(Observe(a, x), y)
    OBVIOUS
  <1>3. q = NewBindings(Observe(a, y), x)
    BY <1>2, SameBindings
  <1>4. Bids(Observe(Observe(a, x), y)) =
            {Propagated(b, q) : b \in {z \in Bids(a) : z.key \notin {x.key, y.key}}
                                      \cup Arrived(a, x) \cup Arrived(a, y)}
    BY <1>2, BidsAfterTwo
  <1>5. Bids(Observe(Observe(a, y), x)) =
            {Propagated(b, q) : b \in {z \in Bids(a) : z.key \notin {y.key, x.key}}
                                      \cup Arrived(a, y) \cup Arrived(a, x)}
    BY <1>1, <1>3, BidsAfterTwo
  <1>6. Bids(Observe(Observe(a, x), y)) = Bids(Observe(Observe(a, y), x))
    <2>1. {z \in Bids(a) : z.key \notin {x.key, y.key}} \cup Arrived(a, x) \cup Arrived(a, y)
              = {z \in Bids(a) : z.key \notin {y.key, x.key}}
                    \cup Arrived(a, y) \cup Arrived(a, x)
      OBVIOUS
    <2> QED
      BY <2>1, <1>5, <1>4
  <1>7. /\ Observe(Observe(a, x), y).profiles = q
        /\ Observe(Observe(a, y), x).profiles = q
    <2>1. /\ Observe(a, x) \in AuctionState /\ Coherent(Observe(a, x))
          /\ Observe(a, y) \in AuctionState /\ Coherent(Observe(a, y))
      BY <1>1, ObserveFields, ObserveCoherent
    <2> QED
      BY <2>1, <1>3, <1>2, ObserveFields
  <1> QED
    BY <1>6, <1>7 DEF Same

\* The order in which observe is called for two bids does not matter.
THEOREM ObservationsDoCommute == Spec => []ObservationsCommute
  <1>1. IInv => ObservationsCommute
    <2> SUFFICES ASSUME IInv, NEW o \in Order, NEW a \in auction[o],
                        NEW s \in Sighting[o], NEW t \in Sighting[o], s.key # t.key,
                        NEW x, x = At(s, Elapsed(o)), NEW y, y = At(t, Elapsed(o))
                 PROVE  /\ (Accepts(a, x) /\ Accepts(Observe(a, x), y))
                              <=> (Accepts(a, y) /\ Accepts(Observe(a, y), x))
                        /\ Accepts(a, x) /\ Accepts(Observe(a, x), y) =>
                              Same(Observe(Observe(a, x), y), Observe(Observe(a, y), x))
      BY DEF ObservationsCommute
    <2>1. a \in AuctionState /\ Coherent(a)
      BY DEF IInv, AuctionsSound, Sound
    <2>2. x \in BidObservation /\ y \in BidObservation /\ x.key # y.key
      BY ElapsedType, Sighted DEF IInv
    <2> QED
      BY <2>1, <2>2, AcceptedBoth, ObservedTwice
  <1> QED
    BY <1>1, Invariance, PTL


----
\* A rebased auction decides the same.
Rebased(a, d) == Rebuilt(a, Len(a.bids), d)

\* A rebased auction has the same bids at other times.
LEMMA RebasedBids ==
    ASSUME NEW a \in AuctionState, a.started = 0, NEW d \in Int
    PROVE  Bids(Rebased(a, d)) = {Shifted(b, d) : b \in Bids(a)}
  <1>1. d - a.started = d /\ DOMAIN a.bids = 1 .. Len(a.bids)
    BY AuctionFields
  <1>2. Rebased(a, d).bids = [i \in DOMAIN a.bids |-> Shifted(a.bids[i], d)]
    BY <1>1 DEF Rebased, Rebuilt
  <1> QED
    BY <1>2 DEF Bids

\* The verdicts on capacities do not look at times.
LEMMA ShiftedVerdicts ==
    ASSUME NEW b \in BidObservation, NEW d \in Int
    PROVE  (Fits(Shifted(b, d)) <=> Fits(b)) /\ Score(Shifted(b, d)) = Score(b)
  <1>1. Shifted(b, d).capacity = b.capacity /\ Shifted(b, d).profile = b.profile
    BY ShiftedFields
  <1> QED
    BY <1>1 DEF Fits, Score

\* Its candidates and deadlines moved with it.
LEMMA RebasedCandidates ==
    ASSUME NEW a \in AuctionState, a.started = 0, NEW d \in Int, NEW now \in Int
    PROVE  /\ Candidates(Rebased(a, d), now + d) =
                  {Shifted(b, d) : b \in Candidates(a, now)}
           /\ Preferred(Rebased(a, d), now + d) =
                  {Shifted(b, d) : b \in Preferred(a, now)}
           /\ Deadline(Rebased(a, d)) = Deadline(a) + d
           /\ FallbackDeadline(Rebased(a, d)) = FallbackDeadline(a) + d
           /\ Deadline(a) \in Int /\ FallbackDeadline(a) \in Int
  <1>1. PICK r : r = Rebased(a, d)
    OBVIOUS
  <1>2. r.policy = a.policy /\ r.started = d
    BY <1>1 DEF Rebased, Rebuilt
  <1>3. a.policy.window \in Int /\ a.policy.fallback \in Int
    BY AuctionFields DEF AuctionPolicy
  <1>4. PICK early \in Int, late \in Int :
            /\ early = Deadline(a) /\ late = FallbackDeadline(a)
            /\ Deadline(r) = early + d /\ FallbackDeadline(r) = late + d
    BY <1>2, <1>3 DEF Deadline, FallbackDeadline
  <1>5. Bids(r) = {Shifted(b, d) : b \in Bids(a)}
    BY <1>1, RebasedBids
  <1>6. ASSUME NEW b \in Bids(a)
        PROVE  /\ Shifted(b, d) \in Candidates(r, now + d) <=> b \in Candidates(a, now)
               /\ Shifted(b, d).provider = b.provider
               /\ Shifted(b, d).at <= early + d <=> b.at <= early
    <2>1. PICK c : c = Shifted(b, d)
      OBVIOUS
    <2>2. /\ c.at = b.at + d /\ c.provider = b.provider /\ c.state = b.state
          /\ c.profile = b.profile /\ c.gseq = b.gseq /\ (Fits(c) <=> Fits(b))
          /\ b.at \in Int
      BY <2>1, AuctionFields, BidFields, ShiftedFields, ShiftedVerdicts
    <2>3. /\ c.at <= now + d <=> b.at <= now
          /\ c.at <= late + d <=> b.at <= late
          /\ c.at <= early + d <=> b.at <= early
      BY <2>2
    <2>4. c \in Bids(r)
      BY <1>5, <2>1
    <2>5. c \in Candidates(r, now + d) <=> b \in Candidates(a, now)
      BY <2>4, <2>3, <2>2, <1>4, <1>2 DEF Candidates
    <2> QED
      BY <2>5, <2>3, <2>2, <2>1
  <1>7. Candidates(r, now + d) \subseteq Bids(r) /\ Candidates(a, now) \subseteq Bids(a)
    BY DEF Candidates
  <1>8. Candidates(r, now + d) = {Shifted(b, d) : b \in Candidates(a, now)}
    BY <1>7, <1>6, <1>5
  <1>9. /\ Preferred(r, now + d) = {c \in Candidates(r, now + d) :
                                      c.provider \in a.policy.preferred /\ c.at <= early + d}
        /\ Preferred(a, now) = {b \in Candidates(a, now) :
                                  b.provider \in a.policy.preferred /\ b.at <= early}
    BY <1>2, <1>4 DEF Preferred
  <1>10. Preferred(r, now + d) = {Shifted(b, d) : b \in Preferred(a, now)}
    BY <1>9, <1>8, <1>7, <1>6
  <1> QED
    BY <1>10, <1>8, <1>4, <1>1

\* Times count by their difference only.
LEMMA ShiftedRank ==
    ASSUME NEW x \in BidObservation, NEW y \in BidObservation, NEW d \in Int,
           NEW rule \in Rules, NEW taken,
           LexLess(Rank(x, rule, taken), Rank(y, rule, taken))
    PROVE  LexLess(Rank(Shifted(x, d), rule, taken), Rank(Shifted(y, d), rule, taken))
  <1>1. /\ \A b \in BidObservation :
              /\ Shifted(b, d).at = b.at + d
              /\ Shifted(b, d).key = b.key /\ Shifted(b, d).provider = b.provider
              /\ Shifted(b, d).price = b.price /\ Score(Shifted(b, d)) = Score(b)
    BY ShiftedFields, ShiftedVerdicts
  <1>2. CASE rule = "FIRST"
    <2>1. PICK s : s = <<x.at, x.provider, x.key>>
      OBVIOUS
    <2>2. PICK t : t = <<y.at, y.provider, y.key>>
      OBVIOUS
    <2>3. PICK s2 : s2 = <<x.at + d, x.provider, x.key>>
      OBVIOUS
    <2>4. PICK t2 : t2 = <<y.at + d, y.provider, y.key>>
      OBVIOUS
    <2>5. PICK n \in 1 .. 3 : s[n] < t[n] /\ \A m \in 1 .. (n - 1) : s[m] = t[m]
      <3>1. s = Rank(x, rule, taken) /\ t = Rank(y, rule, taken)
        BY <2>2, <2>1, <1>2 DEF Rank
      <3>2. LexLess(s, t) /\ DOMAIN s = 1 .. 3
        BY <2>1, <3>1
      <3> QED
        BY <3>2 DEF LexLess
    <2>6. x.at \in Int /\ y.at \in Int
      BY BidFields
    <2>7. s2[n] < t2[n] /\ \A m \in 1 .. (n - 1) : s2[m] = t2[m]
      <3>1. CASE n = 1
        BY <3>1, <2>6, <2>5, <2>4, <2>3, <2>2, <2>1
      <3>2. CASE n = 2
        <4>1. s[1] = t[1]
          BY <2>5, <3>2
        <4> QED
          BY <4>1, <3>2, <2>5, <2>4, <2>3, <2>2, <2>1
      <3>3. CASE n = 3
        <4>1. s[1] = t[1] /\ s[2] = t[2]
          BY <2>5, <3>3
        <4> QED
          BY <4>1, <3>3, <2>5, <2>4, <2>3, <2>2, <2>1
      <3> QED
        BY <3>3, <3>2, <3>1
    <2>8. DOMAIN s2 = 1 .. 3
      BY <2>3
    <2>9. LexLess(s2, t2)
      BY <2>7, <2>8 DEF LexLess
    <2> QED
      BY <2>9, <2>4, <2>3, <1>2, <1>1 DEF Rank
  <1>3. CASE rule # "FIRST"
    <2>1. \A b \in BidObservation : Rank(Shifted(b, d), rule, taken) = Rank(b, rule, taken)
      <3> SUFFICES ASSUME NEW b \in BidObservation
                   PROVE  Rank(Shifted(b, d), rule, taken) = Rank(b, rule, taken)
        OBVIOUS
      <3>1. PICK c : c = Shifted(b, d)
        OBVIOUS
      <3>2. c.key = b.key /\ c.provider = b.provider /\ c.price = b.price
            /\ Score(c) = Score(b)
        BY <1>1, <3>1
      <3>3. CASE rule = "CHEAPEST"
        BY <3>3, <3>2, <3>1 DEF Rank
      <3>4. CASE rule = "DEGRADED"
        BY <3>4, <3>2, <3>1 DEF Rank
      <3>5. CASE rule = "EMPTIEST"
        BY <3>5, <3>2, <3>1 DEF Rank
      <3> QED
        BY <3>5, <3>4, <3>3, <1>3 DEF Rules
    <2> QED
      BY <2>1
  <1> QED
    BY <1>2, <1>3

\* Verdicts of one outcome, for one bid if any.
Alike(is, was) ==
    /\ is.status = was.status /\ is.rule = was.rule
    /\ {b.key : b \in is.selected} = {b.key : b \in was.selected}

\* Its verdict is that of the auction.
LEMMA RebasedDecides ==
    ASSUME NEW a \in AuctionState, Coherent(a), a.started = 0, NEW d \in Int,
           NEW now \in Int, NEW taken
    PROVE  Alike(Evaluate(Rebased(a, d), now + d, taken), Evaluate(a, now, taken))
  <1> DEFINE was == Evaluate(a, now, taken)
             is == Evaluate(Rebased(a, d), now + d, taken)
  <1> HIDE DEF was, is
  <1>1. PICK r : r = Rebased(a, d)
    OBVIOUS
  <1>2. r \in AuctionState /\ Coherent(r) /\ r.policy = a.policy
    <2>1. Len(a.bids) \in 0 .. Len(a.bids)
      BY AuctionFields
    <2> QED
      BY <1>1, <2>1, RebuiltFields DEF Rebased, Rebuilt
  <1>3. PICK pool : pool = Pool(a, now)
    OBVIOUS
  <1>4. PICK moved : moved = Pool(r, now + d)
    OBVIOUS
  <1>5. /\ Candidates(r, now + d) = {Shifted(b, d) : b \in Candidates(a, now)}
        /\ Preferred(r, now + d) = {Shifted(b, d) : b \in Preferred(a, now)}
        /\ Deadline(r) = Deadline(a) + d /\ FallbackDeadline(r) = FallbackDeadline(a) + d
        /\ Deadline(a) \in Int /\ FallbackDeadline(a) \in Int
    BY <1>1, RebasedCandidates
  <1>6. /\ Candidates(r, now + d) = {} <=> Candidates(a, now) = {}
        /\ Preferred(r, now + d) = {} <=> Preferred(a, now) = {}
    <2>1. \A S : {Shifted(b, d) : b \in S} = {} <=> S = {}
      OBVIOUS
    <2> QED
      BY <1>5, <2>1
  <1>7. moved = {Shifted(b, d) : b \in pool}
    BY <1>6, <1>5, <1>4, <1>3 DEF Pool
  <1>8. pool \in SUBSET Bids(a) /\ moved \in SUBSET Bids(r) /\ pool \subseteq BidObservation
    BY <1>4, <1>3, <1>2, PoolBids, AuctionFields
  <1>9. \A b \in pool : /\ Shifted(b, d).key = b.key /\ Shifted(b, d).denom = b.denom
                        /\ Shifted(b, d).profile = b.profile
    BY <1>8, ShiftedFields
  <1>10. PICK rule \in Rules : rule = Rule(a.policy.selection, Preferred(a, now))
    BY RuleKind
  <1>11. rule = Rule(r.policy.selection, Preferred(r, now + d))
    <2>1. (\E b \in Preferred(r, now + d) : b.profile = {}) <=>
              (\E b \in Preferred(a, now) : b.profile = {})
      <3>1. \A b \in Preferred(a, now) : Shifted(b, d).profile = b.profile
        BY <1>3, <1>9 DEF Pool
      <3> QED
        BY <1>5, <3>1
    <2> QED
      BY <2>1, <1>10, <1>6, <1>2 DEF Rule
  <1>12. {b.denom : b \in moved} = {b.denom : b \in pool}
    BY <1>7, <1>9
  <1>13. (now + d < Deadline(r) <=> now < Deadline(a))
         /\ (now + d < FallbackDeadline(r) <=> now < FallbackDeadline(a))
    BY <1>5
  <1>14. PICK b : b = Best(pool, rule, taken)
    OBVIOUS
  <1>15. PICK c : c = Best(moved, rule, taken)
    OBVIOUS
  <1>16. pool # {} => c.key = b.key
    <2> SUFFICES ASSUME pool # {} PROVE c.key = b.key
      OBVIOUS
    <2>1. /\ b \in pool
          /\ \A x \in pool \ {b} : LexLess(Rank(b, rule, taken), Rank(x, rule, taken))
      BY <1>8, <1>14, BestFirst
    <2>2. Shifted(b, d) \in moved
      BY <1>7, <2>1
    <2>3. ASSUME NEW y \in moved \ {Shifted(b, d)}
          PROVE  LexLess(Rank(Shifted(b, d), rule, taken), Rank(y, rule, taken))
      <3>1. PICK x \in pool : y = Shifted(x, d)
        BY <1>7
      <3>2. x # b
        BY <2>3, <3>1
      <3>3. LexLess(Rank(b, rule, taken), Rank(x, rule, taken))
        BY <2>1, <3>2
      <3> QED
        BY <3>3, <3>1, <2>1, <1>8, ShiftedRank
    <2>4. c = Shifted(b, d)
      BY <2>3, <2>2, <1>15, <1>8, <1>2, BestUnique
    <2> QED
      BY <2>4, <2>1, <1>9
  <1>17. was = IF now < Deadline(a) THEN Collecting
               ELSE IF Candidates(a, now) = {}
                    THEN IF now < FallbackDeadline(a) THEN Collecting ELSE Expired
                    ELSE IF Cardinality({x.denom : x \in pool}) > 1 THEN Mixed
                         ELSE [status |-> "DECIDED", rule |-> rule, selected |-> {b}]
    BY <1>14, <1>10, <1>3 DEF Evaluate, Pool, was
  <1>18. is = IF now + d < Deadline(r) THEN Collecting
              ELSE IF Candidates(r, now + d) = {}
                   THEN IF now + d < FallbackDeadline(r) THEN Collecting ELSE Expired
                   ELSE IF Cardinality({x.denom : x \in moved}) > 1 THEN Mixed
                        ELSE [status |-> "DECIDED", rule |-> rule, selected |-> {c}]
    BY <1>15, <1>11, <1>4, <1>1 DEF Evaluate, Pool, is
  <1>19. Candidates(a, now) # {} => pool # {}
    BY <1>3, PoolBids
  <1>20. is = was \/ /\ was = [status |-> "DECIDED", rule |-> rule, selected |-> {b}]
                     /\ is = [status |-> "DECIDED", rule |-> rule, selected |-> {c}]
                     /\ c.key = b.key
    BY <1>19, <1>18, <1>17, <1>16, <1>13, <1>12, <1>6
  <1>21. Alike(is, was)
    BY <1>20 DEF Alike
  <1> QED
    BY <1>21 DEF is, was

\* What snapshot stored, restore brings back, and rebase moves without a change of the
\* verdict, however many bids there are.
THEOREM RestoresExactly == Spec => []RestoreExact
  <1>1. IInv => RestoreExact
    <2> SUFFICES ASSUME IInv, NEW o \in Order, NEW a \in auction[o], NEW s,
                        s = Snapshot(a, o)
                 PROVE  /\ \A d \in Deltas :
                              /\ Restorable(s, o, d)
                              /\ LET r == Restored(s, d)
                                     was == Verdict(o, a)
                                     is == Evaluate(r, Elapsed(o) + d, Taken(o)) IN
                                 /\ is.status = was.status /\ is.rule = was.rule
                                 /\ {b.key : b \in is.selected} = {b.key : b \in was.selected}
                        /\ Restored(s, a.started) = a
      BY DEF RestoreExact
    <2>1. a \in AuctionState /\ Coherent(a) /\ a.started = 0
      BY DEF IInv, AuctionsSound, Sound
    <2>2. PICK now \in Int : now = Elapsed(o)
      BY ElapsedType DEF IInv
    <2>3. ASSUME NEW d \in Deltas, NEW was, was = Verdict(o, a),
                 NEW is, is = Evaluate(Restored(s, d), Elapsed(o) + d, Taken(o))
          PROVE  /\ Restorable(s, o, d)
                 /\ is.status = was.status /\ is.rule = was.rule
                 /\ {b.key : b \in is.selected} = {b.key : b \in was.selected}
      <3>1. d \in Int
        BY AuctioneerAssumption
      <3>2. Restorable(s, o, d) /\ Restored(s, d) = Rebased(a, d)
        BY <2>1, <3>1, SnapshotRestores DEF Rebased
      <3>3. was = Evaluate(a, now, Taken(o)) /\ is = Evaluate(Rebased(a, d), now + d, Taken(o))
        BY <3>2, <2>3, <2>2 DEF Verdict
      <3>4. Alike(Evaluate(Rebased(a, d), now + d, Taken(o)), Evaluate(a, now, Taken(o)))
        BY <2>1, <3>1, RebasedDecides
      <3> QED
        BY <3>4, <3>3, <3>2 DEF Alike
    <2>4. Restored(s, a.started) = a
      BY <2>1, SnapshotRestores, RebuiltWhole
    <2> QED
      BY <2>3, <2>4
  <1> QED
    BY <1>1, Invariance, PTL
====
