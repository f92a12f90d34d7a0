\* Two leaks and a protected deployment, two of them listed, in pages and batches
\* of one.
SPECIFICATION FairSpec
CONSTANTS
    d1 = d1
    d2 = d2
    d3 = d3
    Dseq = {d1, d2, d3}
    Protected = {d3}
    Excluded = {}
    BidWindow = 1
    BatchLimit = 1
    PageLimit = 1
    MaxListed = 2
    MaxTime = 2
    MaxCrashes = 1
CHECK_DEADLOCK FALSE
INVARIANTS
    NeverClosesWorkload
    ScanComplete
PROPERTY
    LeaksReclaimed
