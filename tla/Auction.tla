---- MODULE Auction ----
\* The provider auction: normalised bid observations are accumulated, and
\* one deadline-bound decision is made of them.  Pure functions on the
\* state of one Auction; Auctioneer runs them.
\*
\* An optional value is a set: {} where the code has None.  Bid keys and
\* providers are ordered by name in the code, and are numbers here.  How a
\* capacity fits a profile, and the free fraction it leaves, are given.
EXTENDS Integers, Sequences, FiniteSets

CONSTANTS
    Bid,        \* bid keys
    Provider,
    Denom,      \* price denominations
    Group,      \* group sequences of an order
    Profile,    \* resource profiles
    Capacity,   \* capacity snapshots
    FitOf,      \* the verdict of each capacity on each profile
    ScoreOf     \* the free fraction of each capacity for each profile, if proven

Optional(S) == {x \in SUBSET S : \A d, e \in x : d = e}

AuctionPolicy ==
    [window: Nat, fallback: Nat, preferred: SUBSET Provider,
     eligible: Optional(SUBSET Provider), excluded: SUBSET Provider,
     selection: {"CHEAPEST", "EMPTIEST"}]

CapacityFit == {"FIT", "UNREADABLE", "INSUFFICIENT", "UNSUPPORTED"}

ASSUME AuctionAssumption ==
    /\ Bid \cup Provider \subseteq Nat
    /\ FitOf \in [Capacity -> [Profile -> CapacityFit]]
    /\ ScoreOf \in [Capacity -> [Profile -> Optional(Nat)]]

\* A bid as it was observed, at a time.
BidObservation ==
    [key: Bid, provider: Provider, price: Nat, denom: Denom, at: Int,
     state: {"open", "closed"}, capacity: Optional(Capacity),
     profile: Optional(Profile), gseq: Optional(Group)]

\* The bids, by key and in the order they came; the profiles bound to groups.
AuctionState ==
    [policy: AuctionPolicy, started: Int, bids: Seq(BidObservation),
     profiles: [Group -> Optional(Profile)]]

NewAuction(policy, started) ==
    [policy |-> policy, started |-> started, bids |-> <<>>,
     profiles |-> [g \in Group |-> {}]]

Deadline(a) == a.started + a.policy.window

FallbackDeadline(a) == Deadline(a) + a.policy.fallback

Bids(a) == {a.bids[i] : i \in DOMAIN a.bids}

Held(a, key) == {b \in Bids(a) : b.key = key}

----
\* observe
Kept(old, new) == IF new = {} THEN old ELSE new

\* The observation with the group and the profile its key has established, and the
\* profile its group is bound to.
Completed(a, o) ==
    LET known == Held(a, o.key)
        own == [o EXCEPT !.gseq = Kept(UNION {b.gseq : b \in known}, @),
                         !.profile = Kept(UNION {b.profile : b \in known}, @)] IN
    [own EXCEPT !.profile = Kept(UNION {a.profiles[g] : g \in own.gseq}, @)]

\* Everything else is an exception that leaves the auction as it was.
Accepts(a, o) ==
    /\ \A b \in Held(a, o.key) : /\ b.provider = o.provider
                                 /\ b.gseq # {} /\ o.gseq # {} => b.gseq = o.gseq
    /\ LET c == Completed(a, o) IN
       \A g \in c.gseq : a.profiles[g] # {} => c.profile = a.profiles[g]

\* Mutant: the bid is dated by its latest observation.
Redated(old, new) == new

\* First arrival is kept, everything else refreshed.
Refreshed(old, new) == [new EXCEPT !.at = old.at]

\* Mutant: a profile is bound to later observations of its group only.
Unpropagated(b, profiles) == b

\* A profile that arrives binds the bids of its group that came before it.
Propagated(b, profiles) ==
    [b EXCEPT !.profile = Kept(UNION {profiles[g] : g \in b.gseq}, @)]

Observe(a, o) ==
    LET c == Completed(a, o)
        profiles == [g \in Group |-> IF g \in c.gseq THEN Kept(a.profiles[g], c.profile)
                                                     ELSE a.profiles[g]]
        bids == [i \in DOMAIN a.bids |->
                    IF a.bids[i].key = o.key THEN Refreshed(a.bids[i], c)
                                             ELSE Propagated(a.bids[i], profiles)] IN
    [a EXCEPT
     !.profiles = profiles,
     !.bids = IF Held(a, o.key) = {} THEN Append(bids, c) ELSE bids]

----
\* snapshot and restore
Snapshot(a, scope) ==
    [scope |-> scope, started |-> a.started, policy |-> a.policy, bids |-> a.bids]

\* Mutant: a rebased auction keeps the times of its bids.
Unshifted(b, delta) == b

Shifted(b, delta) == [b EXCEPT !.at = @ + delta]

\* The auction after the first n bids of a snapshot were observed again.
Restoring(s, started) ==
    LET from[n \in 0 .. Len(s.bids)] ==
            IF n = 0 THEN NewAuction(s.policy, started)
            ELSE Observe(from[n - 1], Shifted(s.bids[n], started - s.started)) IN
    from

Restored(s, started) == Restoring(s, started)[Len(s.bids)]

\* Mutant: the scope is not compared.
RestorableUnscoped(s, expected, started) ==
    \A i, k \in DOMAIN s.bids : i # k => s.bids[i].key # s.bids[k].key

Restorable(s, expected, started) ==
    /\ s.scope = expected
    /\ \A i, k \in DOMAIN s.bids : i # k => s.bids[i].key # s.bids[k].key
    /\ \A n \in DOMAIN s.bids :
          Accepts(Restoring(s, started)[n - 1], Shifted(s.bids[n], started - s.started))

----
\* evaluate
Fits(b) == \E c \in b.capacity, p \in b.profile : FitOf[c][p] = "FIT"

Score(b) == UNION {ScoreOf[c][p] : c \in b.capacity, p \in b.profile}

Candidates(a, now) ==
    {b \in Bids(a) :
        /\ b.state = "open"
        /\ b.provider \notin a.policy.excluded
        /\ \A eligible \in a.policy.eligible : b.provider \in eligible
        /\ b.at <= now
        /\ b.at <= FallbackDeadline(a)
        /\ b.profile # {} => b.gseq # {}
        /\ (a.policy.selection = "EMPTIEST" /\ b.profile # {}) => Fits(b)}

\* Mutant: a preferred bid may come after the collection window.
PreferredLate(a, now) == {b \in Candidates(a, now) : b.provider \in a.policy.preferred}

Preferred(a, now) ==
    {b \in Candidates(a, now) : b.provider \in a.policy.preferred /\ b.at <= Deadline(a)}

Bit(condition) == IF condition THEN 1 ELSE 0

LexLess(s, t) ==
    \E n \in DOMAIN s : s[n] < t[n] /\ \A m \in 1 .. (n - 1) : s[m] = t[m]

\* Mutant: the degraded choice forgets the providers already taken.
RankCrowded(b, rule, taken) ==
    CASE rule = "FIRST" -> <<b.at, b.provider, b.key>>
      [] rule \in {"CHEAPEST", "DEGRADED"} -> <<b.price, b.provider, b.key>>
      [] rule = "EMPTIEST" ->
            <<Bit(b.provider \in taken), Bit(Score(b) = {}),
              IF Score(b) = {} THEN 0 ELSE - (CHOOSE f \in Score(b) : TRUE),
              b.price, b.provider, b.key>>

Rank(b, rule, taken) ==
    CASE rule = "FIRST" -> <<b.at, b.provider, b.key>>
      [] rule = "CHEAPEST" -> <<b.price, b.provider, b.key>>
      [] rule = "DEGRADED" -> <<Bit(b.provider \in taken), b.price, b.provider, b.key>>
      [] rule = "EMPTIEST" ->
            <<Bit(b.provider \in taken), Bit(Score(b) = {}),
              IF Score(b) = {} THEN 0 ELSE - (CHOOSE f \in Score(b) : TRUE),
              b.price, b.provider, b.key>>

\* EMPTIEST degrades to the price when some preferred bid has no profile.
Rule(selection, preferred) ==
    CASE preferred = {} -> "FIRST"
      [] preferred # {} /\ selection = "CHEAPEST" -> "CHEAPEST"
      [] preferred # {} /\ selection = "EMPTIEST" ->
            IF \E b \in preferred : b.profile = {} THEN "DEGRADED" ELSE "EMPTIEST"

Best(pool, rule, taken) ==
    CHOOSE b \in pool :
        \A x \in pool \ {b} : LexLess(Rank(b, rule, taken), Rank(x, rule, taken))

Collecting == [status |-> "COLLECTING", selected |-> {}, rule |-> "NONE"]
Expired == [status |-> "EXPIRED", selected |-> {}, rule |-> "NONE"]
\* MixedBidDenominations is raised.
Mixed == [status |-> "MIXED", selected |-> {}, rule |-> "NONE"]

\* Mutant: an auction without candidates goes on collecting.
EvaluateForever(a, now, taken) ==
    LET candidates == Candidates(a, now)
        preferred == Preferred(a, now)
        pool == IF preferred # {} THEN preferred ELSE candidates
        rule == Rule(a.policy.selection, preferred) IN
    IF now < Deadline(a) \/ candidates = {} THEN Collecting
    ELSE [status |-> "DECIDED", rule |-> rule, selected |-> {Best(pool, rule, taken)}]

Evaluate(a, now, taken) ==
    LET candidates == Candidates(a, now)
        preferred == Preferred(a, now)
        pool == IF preferred # {} THEN preferred ELSE candidates
        rule == Rule(a.policy.selection, preferred) IN
    IF now < Deadline(a) THEN Collecting
    ELSE IF candidates = {}
         THEN IF now < FallbackDeadline(a) THEN Collecting ELSE Expired
         ELSE IF Cardinality({b.denom : b \in pool}) > 1 THEN Mixed
              ELSE [status |-> "DECIDED", rule |-> rule,
                    selected |-> {Best(pool, rule, taken)}]

====
