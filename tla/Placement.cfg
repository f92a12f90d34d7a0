\* Two nodes, two dimensions, up to four replicas.
SPECIFICATION Spec
CONSTANTS
    Dim = {1, 2}
    MaxExact = 7
    Node = {1, 2}
    Size <- MCSize
    Amount = {0, 1, 2, 3, 7}
    Profile <- MCProfile
    Gaps <- MCGaps
    Drift <- MCDrift
    StateLimit = 5
INVARIANTS
    FitIsPlaceable
    InsufficientIsProven
    RankedByBindingShare
    RoundsBounded
