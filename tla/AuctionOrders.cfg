\* Two orders in one round, with snapshots, crashes and wrong lookups.
SPECIFICATION Spec
CONSTANTS
    Order = {"a", "b"}
    Bid = {1, 2}
    Provider = {1, 2, 3}
    Denom = {"uact", "uakt"}
    Group = {1}
    Profile = {"p", "q"}
    Capacity = {"wide", "partial", "full"}
    FitOf <- MCFitOf
    ScoreOf <- MCScoreOf
    PolicyOf <- TwoPolicy
    Sighting <- TwoSighting
    Deltas = {0}
    MaxTime = 3
    MaxCrashes = 1
CHECK_DEADLOCK FALSE
INVARIANTS
    ArrivalKept
PROPERTIES
    DecisionsByArrival
    OrdersSpread
