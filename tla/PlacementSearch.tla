---- MODULE PlacementSearch ----
\* The exact search for a place for every replica, one iteration at a
\* time, on what a provider has told of itself.  It goes depth first over
\* states (how many replicas are placed, what remains free on the nodes),
\* of which it sees each once, and gives up when it has seen StateLimit.
\*
\* The provider's nodes are what they are (free).  A reading of them may
\* leave out some quantities, get some wrong beyond what the node has, or
\* come with totals of another moment.
EXTENDS Capacity, FiniteSetsExt, SequencesExt

CONSTANTS
    Node,       \* 1 .. the number of nodes
    Size,       \* what there can be of each dimension on each node
    Amount,     \* the free quantities to start from
    Profile,    \* groups of replicas
    Gaps,       \* the sets of cells of a report that cannot be read
    Drift,      \* by how much separately read totals can be off
    StateLimit

ASSUME SearchAssumption ==
    /\ IsFiniteSet(Node) /\ Node = 1 .. Cardinality(Node)
    /\ Size \subseteq [Node -> [Dim -> Nat]] /\ Amount \subseteq Nat
    /\ Drift \subseteq Int /\ StateLimit \in Nat \ {0} /\ MaxExact \in Nat
    /\ Profile \subseteq Seq([Dim -> Nat])
    /\ \A p \in Profile : Requested(p) # {} /\ \A n \in DOMAIN p : Requested(<<p[n]>>) # {}

VARIABLES
    free,       \* what is really free on each node
    size,
    replicas,   \* the profile's
    capacity,   \* the snapshot
    search,     \* replicas in the order in which they are placed, and states
    verdict,    \* {} until it is known
    rounds      \* of the loop

vars == <<free, size, replicas, capacity, search, verdict, rounds>>

----
\* The order of nodes and replicas.

\* Tuples are compared entry by entry, in the order of the dimensions.
Exceeds(s, t) ==
    \E n \in DOMAIN s : s[n] > t[n] /\ \A m \in DOMAIN s : m < n => s[m] = t[m]

\* The entries of s, the one with the greatest key first and equal ones as they come.
Ranked(s, keys) ==
    LET ranked[n \in 0 .. Len(s)] ==
            IF n = 0 THEN <<>>
            ELSE LET ahead == {m \in 1 .. n - 1 : ~Exceeds(keys[n], keys[m])} IN
                 InsertAt(ranked[n - 1], Cardinality(ahead) + 1, s[n]) IN
    ranked[Len(s)]

Descending(nodes) == Ranked(nodes, nodes)

\* How hard a replica is to place: its shares of the largest node, the largest
\* and the sum of them first.  Shares are brought to one denominator.
Difficulty(replica, nodes) ==
    LET largest == [d \in DOMAIN nodes[1] |-> Max({nodes[n][d] : n \in DOMAIN nodes})]
        common == FoldFunction(LAMBDA a, b : a * b, 1,
                               [d \in DOMAIN largest |-> Max({largest[d], 1})])
        share == [d \in DOMAIN largest |->
                    IF largest[d] = 0 THEN 0 ELSE replica[d] * (common \div largest[d])] IN
    ((-1) :> Max(Range(share))) @@ (0 :> SumFunction(share)) @@ share

HardestFirst(profile, nodes) ==
    Ranked(profile, [n \in DOMAIN profile |-> Difficulty(profile[n], nodes)])

Placed(n, left) == [placed |-> n, left |-> left]

\* What the search works on: the dimensions that are requested, of the nodes on
\* which they can all be read.
Start(nodes) ==
    LET readable == ReadableNodes(nodes, replicas)
        exact == [n \in DOMAIN readable |->
                    [d \in Requested(replicas) |-> Quantity(readable[n][d])]]
        first == Placed(0, Descending(exact)) IN
    [order |-> HardestFirst(replicas, exact), pending |-> <<first>>, seen |-> {first}]

\* The entry is the first of its kind.
New(s, n) == \A m \in 1 .. n - 1 : s[m] # s[n]

\* Mutant: a replica leaves its node as it was.
LeftUnused(left, n, replica) == left

LeftAfter(left, n, replica) ==
    Descending([left EXCEPT ![n] = [d \in DOMAIN @ |-> @[d] - replica[d]]])

\* Mutant: a replica is tried on the first node with room for it only.
FirstChild(state, replica) ==
    LET left == state.left
        Room(n) == \A d \in DOMAIN left[n] : replica[d] <= left[n][d]
        tried == {n \in DOMAIN left : Room(n) /\ \A m \in 1 .. n - 1 : ~Room(m)} IN
    Chosen([n \in DOMAIN left |-> Placed(state.placed + 1, LeftAfter(left, n, replica))], tried)

\* The states after the next replica was placed: one for each kind of node with
\* room for it, in the order of the nodes.
Children(state, replica) ==
    LET left == state.left
        Room(n) == \A d \in DOMAIN left[n] : replica[d] <= left[n][d]
        tried == {n \in DOMAIN left : Room(n) /\ New(left, n)} IN
    Chosen([n \in DOMAIN left |-> Placed(state.placed + 1, LeftAfter(left, n, replica))], tried)

\* The states that were not seen before, each once.
Fresh(states, seen) ==
    Chosen(states, {n \in DOMAIN states : New(states, n) /\ states[n] \notin seen})

\* Mutant: a state that is at the end of its branch stays the next one to go on from.
ExpandedInPlace(s, fresh) ==
    [s EXCEPT !.pending = (IF fresh = <<>> THEN @ ELSE Front(@)) \o fresh,
              !.seen = @ \cup Range(fresh)]

Expanded(s, fresh) ==
    [s EXCEPT !.pending = Front(@) \o fresh, !.seen = @ \cup Range(fresh)]

----
\* The provider and its snapshot.

\* A gap is a cell, and what is wrong with it.
Report(gaps) ==
    [n \in Node |-> [d \in Dim |->
        [all |-> IF <<n, d, "all">> \in gaps THEN {} ELSE {size[n][d]},
         free |-> IF <<n, d, "free">> \in gaps THEN {}
                  ELSE IF <<n, d, "over">> \in gaps THEN {size[n][d] + 1}
                  ELSE {free[n][d]}]]]

Sum(amounts, d) == SumFunction([n \in Node |-> amounts[n][d]])

TotalsOff(by) ==
    [d \in Dim |-> {[free |-> f, all |-> Sum(size, d)] :
                       f \in {Sum(free, d) + by} \cap (0 .. Sum(size, d))}]

NodesBut(gaps) ==
    [n \in Node |-> [d \in Dim |-> {free[n][d]} \ {q \in {free[n][d]} : <<n, d, "free">> \in gaps}]]

\* A status report; totals alone; or totals and nodes that were read apart.
Snapshots ==
    {FromProviderStatus(Report(g)) : g \in Gaps}
        \cup {FromTotals(TotalsOff(0), {})}
        \cup {FromTotals(TotalsOff(by), {NodesBut(g)}) : by \in Drift, g \in Gaps}

Init ==
    /\ free \in [Node -> [Dim -> Amount]]
    /\ size \in Size
    /\ \A n \in Node, d \in Dim : free[n][d] <= size[n][d]
    /\ replicas \in Profile
    /\ capacity \in Snapshots
    /\ search = {}
    /\ verdict = {}
    /\ rounds = 0

----
\* The search.
Conclude(placement) ==
    /\ \E nodes \in capacity.nodes :
          verdict' = {FitAfterPlacement(capacity, nodes, replicas, placement)}
    /\ UNCHANGED search

\* The snapshot decides by itself.
Decide ==
    /\ search = {}
    /\ verdict = {} /\ FitBeforePlacement(capacity, replicas) # {}
    /\ verdict' = FitBeforePlacement(capacity, replicas)
    /\ UNCHANGED <<free, size, replicas, capacity, search, rounds>>

Begin ==
    /\ search = {} /\ verdict = {}
    /\ FitBeforePlacement(capacity, replicas) = {}
    /\ \E nodes \in capacity.nodes :
          IF ReadableNodes(nodes, replicas) = <<>> THEN Conclude("INSUFFICIENT")
          ELSE IF ~ExactNodes(nodes, replicas) THEN Conclude("UNSUPPORTED")
          ELSE search' = {Start(nodes)} /\ UNCHANGED verdict
    /\ UNCHANGED <<free, size, replicas, capacity, rounds>>

Iterate ==
    /\ verdict = {}
    /\ \E s \in search :
          IF s.pending = <<>> THEN Conclude("INSUFFICIENT")
          ELSE IF Last(s.pending).placed = Len(s.order) THEN Conclude("FIT")
          ELSE LET state == Last(s.pending)
                   next == Children(state, s.order[state.placed + 1])
                   fresh == Fresh(next, s.seen) IN
               IF Cardinality(s.seen) + Len(fresh) > StateLimit THEN Conclude("UNSUPPORTED")
               ELSE search' = {Expanded(s, fresh)} /\ UNCHANGED verdict
    /\ rounds' = rounds + 1
    /\ UNCHANGED <<free, size, replicas, capacity>>

\* Nothing follows a verdict; a state without one that has no step is a deadlock.
Done == verdict # {} /\ UNCHANGED vars

Next == Decide \/ Begin \/ Iterate \/ Done

Spec == Init /\ [][Next]_vars

----
\* Properties.

\* Whether each replica has a place on the nodes as they really are.
Placeable ==
    \E home \in [DOMAIN replicas -> Node] :
        \A n \in Node, d \in Dim :
            SumFunction([r \in {x \in DOMAIN replicas : home[x] = n} |-> replicas[r][d]])
                <= free[n][d]

\* What is said to fit does fit on the provider's real nodes, whatever could not
\* be read, whatever the totals say, and in whatever order the replicas were
\* tried.  capacity.py:390 proves it from readable nodes only.
FitIsPlaceable == verdict = {"FIT"} => Placeable

\* What is said not to fit cannot be placed at all: the search missed no place,
\* and nothing that was not read could have made room.  capacity.py:198 calls its
\* search exact, and capacity.py:431 keeps unreadable nodes out of this verdict.
InsufficientIsProven == verdict = {"INSUFFICIENT"} => ~Placeable

\* A provider is ranked by the share of it that is really free where the group
\* needs it most, or not at all.  capacity.py:463 requires every node's numbers.
RankedByBindingShare ==
    \A v \in verdict : \A s \in AvailableFractionFor(capacity, replicas, v) :
        \A d \in Requested(replicas) :
            /\ s.free * Sum(size, d) <= Sum(free, d) * s.all
            /\ \E e \in Requested(replicas) : s.free * Sum(size, e) = Sum(free, e) * s.all

\* The search ends: the loop goes round once for each state that it has seen, and
\* once more to find that there is no other.  capacity.py:198 promises a verdict
\* within its limit of states, without recursion.
RoundsBounded == rounds <= StateLimit + 1
====
