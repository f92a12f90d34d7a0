---- MODULE Auctioneer ----
\* An adapter that holds the auctions of some orders.  It polls bids,
\* stores snapshots, crashes and restores them, and decides.  The bids it
\* sees come in any order and change between polls, and the snapshot that
\* the lookup after a crash hands back may be another order's.
\*
\* As the code demands of snapshots, an auction starts at time 0 of its
\* own clock; anchor is the wall-clock time of that start, stored next to
\* the snapshot.
EXTENDS Auction

CONSTANTS
    Order,
    PolicyOf,   \* the policy of each order's auction
    Sighting,   \* per order, the bids that polls may show, but for their time
    Deltas,     \* the shifts by which an auction may be rebased
    MaxTime,    \* bound on the clock
    MaxCrashes  \* bound on crashes

At(s, time) ==
    [key |-> s.key, provider |-> s.provider, price |-> s.price, denom |-> s.denom,
     at |-> time, state |-> s.state, capacity |-> s.capacity, profile |-> s.profile,
     gseq |-> s.gseq]

ASSUME AuctioneerAssumption ==
    /\ \A o \in Order : \A s \in Sighting[o] : At(s, 0) \in BidObservation
    /\ PolicyOf \in [Order -> AuctionPolicy]
    /\ Deltas \subseteq Int
    /\ MaxTime \in Nat /\ MaxCrashes \in Nat

VARIABLES
    auction,    \* per order, its auction in memory, if any
    anchor,     \* per order, when its auction started
    saved,      \* per order, its stored snapshot, if any
    result,     \* per order, its terminal decision, if any
    first,      \* when each bid was first sighted, for the auction in memory
    savedFirst, \* and for the stored snapshot
    clock,
    crashes

vars == <<auction, anchor, saved, result, first, savedFirst, clock, crashes>>

Nothing == [b \in Bid |-> {}]

Init ==
    /\ auction = [o \in Order |-> {}]
    /\ anchor = [o \in Order |-> 0]
    /\ saved = [o \in Order |-> {}]
    /\ result = [o \in Order |-> {}]
    /\ first = [o \in Order |-> Nothing]
    /\ savedFirst = [o \in Order |-> Nothing]
    /\ clock = 0
    /\ crashes = 0

Elapsed(o) == clock - anchor[o]

\* The bounded clock must still reach the auction's last deadline.
Open(o) ==
    /\ auction[o] = {} /\ saved[o] = {} /\ result[o] = {}
    /\ clock + PolicyOf[o].window + PolicyOf[o].fallback <= MaxTime
    /\ auction' = [auction EXCEPT ![o] = {NewAuction(PolicyOf[o], 0)}]
    /\ anchor' = [anchor EXCEPT ![o] = clock]
    /\ first' = [first EXCEPT ![o] = Nothing]
    /\ UNCHANGED <<saved, result, savedFirst, clock, crashes>>

\* One observation of a poll; one that is not accepted raises and changes nothing.
Poll(o, s) ==
    /\ \E a \in auction[o] :
          /\ Accepts(a, At(s, Elapsed(o)))
          /\ auction' = [auction EXCEPT ![o] = {Observe(a, At(s, Elapsed(o)))}]
    /\ first' = [first EXCEPT ![o][s.key] = IF @ = {} THEN {Elapsed(o)} ELSE @]
    /\ UNCHANGED <<anchor, saved, result, savedFirst, clock, crashes>>

Save(o) ==
    /\ \E a \in auction[o] : saved' = [saved EXCEPT ![o] = {Snapshot(a, o)}]
    /\ savedFirst' = [savedFirst EXCEPT ![o] = first[o]]
    /\ UNCHANGED <<auction, anchor, result, first, clock, crashes>>

Crash ==
    /\ \E o \in Order : auction[o] # {}
    /\ crashes < MaxCrashes
    /\ crashes' = crashes + 1
    /\ auction' = [o \in Order |-> {}]
    /\ first' = [o \in Order |-> Nothing]
    /\ UNCHANGED <<anchor, saved, result, savedFirst, clock>>

\* The lookup for o hands back what was stored for the order from.
Restore(o, from) ==
    /\ auction[o] = {} /\ saved[o] # {}
    /\ \E s \in saved[from] :
          /\ s.started = 0
          /\ Restorable(s, o, 0)
          /\ auction' = [auction EXCEPT ![o] = {Restored(s, 0)}]
    /\ first' = [first EXCEPT ![o] = savedFirst[o]]
    /\ UNCHANGED <<anchor, saved, result, savedFirst, clock, crashes>>

Taken(o) ==
    {b.provider : b \in UNION {d.selected : d \in UNION {result[q] : q \in Order \ {o}}}}

Verdict(o, a) == Evaluate(a, Elapsed(o), Taken(o))

\* The decision is recorded; the auction and its snapshot are done with.
Decide(o) ==
    /\ \E a \in auction[o] : \E verdict \in {Verdict(o, a)} :
          /\ verdict.status \in {"DECIDED", "EXPIRED"}
          /\ result' = [result EXCEPT ![o] = {verdict}]
    /\ auction' = [auction EXCEPT ![o] = {}]
    /\ saved' = [saved EXCEPT ![o] = {}]
    /\ first' = [first EXCEPT ![o] = Nothing]
    /\ savedFirst' = [savedFirst EXCEPT ![o] = Nothing]
    /\ UNCHANGED <<anchor, clock, crashes>>

Tick ==
    /\ clock < MaxTime
    /\ clock' = clock + 1
    /\ UNCHANGED <<auction, anchor, saved, result, first, savedFirst, crashes>>

Next ==
    \/ Tick
    \/ Crash
    \/ \E o \in Order : \/ Open(o) \/ Save(o) \/ Decide(o)
                        \/ \E s \in Sighting[o] : Poll(o, s)
                        \/ \E from \in Order : Restore(o, from)

Spec == Init /\ [][Next]_vars

\* The adapter restores what it stored, evaluates its auctions, and time passes.
\* Polls and snapshots are nobody's duty.
Prompt ==
    /\ WF_vars(Tick)
    /\ \A o \in Order : WF_vars(\E from \in Order : Restore(o, from)) /\ WF_vars(Decide(o))

FairSpec == Prompt /\ Spec

----
\* Properties.

\* Polls again, crashes and restores do not date a bid anew: its time is that of its
\* first sighting, but for sightings a crash made the adapter forget, and no bid of
\* another order gets in.
ArrivalKept ==
    \A o \in Order : \A a \in auction[o] : \A b \in Bids(a) : first[o][b.key] = {b.at}

Same(a, c) == Bids(a) = Bids(c) /\ a.profiles = c.profiles

\* Two bids seen at one time may be observed in either order: both orders are
\* accepted or neither, and they leave the same bids, groups and profiles.
ObservationsCommute ==
    \A o \in Order : \A a \in auction[o] : \A s, t \in Sighting[o] : s.key # t.key =>
        LET x == At(s, Elapsed(o))
            y == At(t, Elapsed(o))
            both(p, q) == Accepts(a, p) /\ Accepts(Observe(a, p), q) IN
        /\ both(x, y) <=> both(y, x)
        /\ both(x, y) => Same(Observe(Observe(a, x), y), Observe(Observe(a, y), x))

\* Every auction can be restored from its snapshot and is then the very auction it
\* was, bound profiles included; rebased, it gives the same verdict as much later.
RestoreExact ==
    \A o \in Order : \A a \in auction[o] :
        LET s == Snapshot(a, o) IN
        /\ \A d \in Deltas :
              /\ Restorable(s, o, d)
              /\ LET r == Restored(s, d)
                     was == Verdict(o, a)
                     is == Evaluate(r, Elapsed(o) + d, Taken(o)) IN
                 /\ is.status = was.status /\ is.rule = was.rule
                 /\ {b.key : b \in is.selected} = {b.key : b \in was.selected}
        /\ Restored(s, a.started) = a

\* The step in which o is decided for the bid b: the whole window was waited for; a
\* preferred bid sighted within it goes before all others; if there is none the
\* bid sighted first is taken; and no bid in another currency was passed over.
Decision(o, b) ==
    LET policy == PolicyOf[o]
        sighted(x) == CHOOSE n \in first[o][x.key] : TRUE
        inTime(x) == x.provider \in policy.preferred /\ sighted(x) <= policy.window
        others == {x \in UNION {Candidates(a, Elapsed(o)) : a \in auction[o]} :
                      x.key # b.key} IN
    /\ Elapsed(o) >= policy.window
    /\ sighted(b) <= policy.window + policy.fallback
    /\ ~inTime(b) => \A x \in others : ~inTime(x) /\ sighted(x) >= sighted(b)
    /\ \A x \in others : inTime(x) = inTime(b) => x.denom = b.denom

DecisionStep ==
    \A o \in Order : result[o] = {} =>
        \A d \in result'[o] : \A b \in d.selected : Decision(o, b)

\* Decisions follow the order of first sightings, whatever happened in between.
DecisionsByArrival == [][DecisionStep]_vars

\* The step in which o is decided among preferred bids by EMPTIEST, be it degraded.
SpreadStep ==
    \A o \in Order : result[o] = {} =>
        \A d \in result'[o] : d.rule \in {"DEGRADED", "EMPTIEST"} =>
            \A b \in d.selected : b.provider \in Taken(o) =>
                \A a \in auction[o] : \A x \in Preferred(a, Elapsed(o)) :
                    x.provider \in Taken(o)

\* The orders of one round do not crowd on one provider while a preferred bid of
\* another one is at hand.
OrdersSpread == [][SpreadStep]_vars

\* An auction that was opened is decided or expires, with crashes in between, unless
\* it is lost before its first snapshot; its bids are all of one denomination.
AuctionEnds ==
    \A o \in Order : auction[o] # {} ~> (result[o] # {} \/ (auction[o] = {} /\ saved[o] = {}))

====
