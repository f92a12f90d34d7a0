\* One order, its groups and profiles learnt bit by bit.
SPECIFICATION FairSpec
CONSTANTS
    Order = {"a"}
    Bid = {1, 2, 3}
    Provider = {1, 2, 3}
    Denom = {"uact", "uakt"}
    Group = {1}
    Profile = {"p", "q"}
    Capacity = {"wide", "partial", "full"}
    FitOf <- MCFitOf
    ScoreOf <- MCScoreOf
    PolicyOf <- OnePolicy
    Sighting <- OneSighting
    Deltas = {3}
    MaxTime = 3
    MaxCrashes = 1
CHECK_DEADLOCK FALSE
INVARIANTS
    ObservationsCommute
    RestoreExact
PROPERTY
    AuctionEnds
