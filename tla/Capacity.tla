---- MODULE Capacity ----
\* What a provider's capacity evidence says of a group of replicas: how a
\* status report becomes a snapshot, when a snapshot proves that the group
\* fits or cannot fit, and when it proves a free fraction.  The placement
\* of replicas on nodes is PlacementSearch's.
\*
\* An optional value is a set: {} where the code has None.  So is a
\* quantity that the provider reports: {} is one that is missing, or that
\* is no number to add.  Quantities are floats: integers and decimals
\* have no MaxExact.
EXTENDS Integers, Sequences, FiniteSets, Functions

CONSTANTS
    Dim,        \* cpu, memory, storage, gpu
    MaxExact    \* the first float that may stand for its neighbours too

CapacityFit == {"FIT", "UNREADABLE", "INSUFFICIENT", "UNSUPPORTED"}

\* A profile is a sequence of replicas, each asking for some of every dimension.
Request(replicas, d) == SumFunction([n \in DOMAIN replicas |-> replicas[n][d]])

Requested(replicas) == {d \in Dim : Request(replicas, d) > 0}

----
\* Snapshots.  totals[d] is what is free and what there is of a dimension;
\* nodes, if they are known, say what is free on each.
NoCapacity == [totals |-> [d \in Dim |-> {}], nodes |-> {}]

\* A dimension that the provider does not have is unreadable, not full.
FromTotals(totals, nodes) ==
    [totals |-> [d \in Dim |-> {t \in totals[d] : t.all > 0}], nodes |-> nodes]

Usable(cell) == cell.all # {} /\ cell.free # {}
Quantity(optional) == CHOOSE q \in optional : TRUE
Overreported(cell) == Usable(cell) /\ Quantity(cell.free) > Quantity(cell.all)

\* Mutant: each half of a pair counts by itself.
CountedHalves(cell) == cell.all # {} /\ ~Overreported(cell)

\* A pair is used whole or not at all, and never with more free than there is.
Counted(cell) == Usable(cell) /\ ~Overreported(cell)

\* from_provider_status: report[n][d] is what node n has of d, {} for a node that
\* reports no such pair.  Nodes that report nothing at all are no report.
FromProviderStatus(report) ==
    LET cells(d) == {report[n][d] : n \in DOMAIN report}
        Sum(d, part(_)) ==
            SumFunction([n \in DOMAIN report |->
                            IF Counted(report[n][d]) THEN part(report[n][d]) ELSE 0])
        All(cell) == Quantity(cell.all)
        Free(cell) == Quantity(cell.free \cup {q \in {0} : cell.free = {}}) IN
    IF \A d \in Dim : \A c \in cells(d) : c.all = {} /\ c.free = {} THEN NoCapacity
    ELSE FromTotals(
           [d \in Dim |->
               IF \E c \in cells(d) : Overreported(c) THEN {}
               ELSE {[free |-> Sum(d, Free), all |-> Sum(d, All)]}],
           {[n \in DOMAIN report |->
               [d \in Dim |-> IF Counted(report[n][d]) THEN {Free(report[n][d])} ELSE {}]]})

----
\* Fit.
Exact(quantity) == quantity < MaxExact

Readable(capacity, replicas) ==
    \A d \in Requested(replicas) : capacity.totals[d] # {}

AggregateFits(capacity, replicas) ==
    \A d \in Requested(replicas) : \A t \in capacity.totals[d] : Request(replicas, d) <= t.free

\* The entries of s at these places, in the order of s.
Chosen(s, places) ==
    LET chosen[n \in 0 .. Len(s)] ==
            IF n = 0 THEN <<>>
            ELSE IF n \in places THEN Append(chosen[n - 1], s[n]) ELSE chosen[n - 1] IN
    chosen[Len(s)]

ReadableNodes(nodes, replicas) ==
    Chosen(nodes, {n \in DOMAIN nodes : \A d \in Requested(replicas) : nodes[n][d] # {}})

ExactTotals(capacity, replicas) ==
    \A d \in Requested(replicas) : \A t \in capacity.totals[d] : Exact(t.free)

\* What the search is to work on, of the nodes on which all of it can be read.
ExactNodes(nodes, replicas) ==
    \A n \in DOMAIN nodes :
        (\A d \in Requested(replicas) : nodes[n][d] # {}) =>
            \A d \in Requested(replicas) : Exact(Quantity(nodes[n][d]))

\* The nodes have more than the provider, or all of them together have less.  Where
\* one of them is not exact, that cannot be told.
Contradicts(capacity, nodes, replicas) ==
    \E d \in Requested(replicas) : \E t \in capacity.totals[d] :
        LET reported == {n \in DOMAIN nodes : nodes[n][d] # {}}
            sum == SumFunction([n \in reported |-> Quantity(nodes[n][d])]) IN
        /\ \A n \in reported : Exact(Quantity(nodes[n][d]))
        /\ sum > t.free \/ (reported = DOMAIN nodes /\ sum # t.free)

\* What is known before any replica is placed: a verdict, or {} and the nodes to try.
FitBeforePlacement(capacity, replicas) ==
    IF ~Readable(capacity, replicas) THEN {"UNREADABLE"}
    ELSE IF ~ExactTotals(capacity, replicas) THEN {"UNSUPPORTED"}
    ELSE IF capacity.nodes = {}
    THEN IF AggregateFits(capacity, replicas) THEN {"UNREADABLE"} ELSE {"INSUFFICIENT"}
    ELSE IF \E nodes \in capacity.nodes : Contradicts(capacity, nodes, replicas)
    THEN {"UNREADABLE"}
    ELSE {}

\* What the placement on the readable nodes comes to.
FitAfterPlacement(capacity, nodes, replicas, placement) ==
    IF AggregateFits(capacity, replicas) /\ placement = "FIT" THEN "FIT"
    ELSE IF Len(ReadableNodes(nodes, replicas)) # Len(nodes) THEN "UNREADABLE"
    ELSE IF placement = "UNSUPPORTED" THEN "UNSUPPORTED"
    ELSE "INSUFFICIENT"

RankingComplete(capacity, replicas) ==
    \E nodes \in capacity.nodes : \A n \in DOMAIN nodes :
        \A d \in Requested(replicas) : nodes[n][d] # {}

\* The least free share of a requested dimension, if it is proven.  Shares that
\* are equal as fractions are one.
AvailableFractionFor(capacity, replicas, verdict) ==
    LET shares == UNION {capacity.totals[d] : d \in Requested(replicas)} IN
    {s \in shares : /\ verdict = "FIT" /\ RankingComplete(capacity, replicas)
                    /\ \A t \in shares : s.free * t.all <= t.free * s.all}
====
