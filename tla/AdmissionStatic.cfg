\* Budgets nobody replaces: the ceilings are invariants.
SPECIFICATION Spec
CONSTANTS
    w1 = w1
    w2 = w2
    o1 = o1
    o2 = o2
    Op = {o1, o2}
    Worker = {w1, w2}
    Leaf = {"leafA", "leafB", "leafC"}
    Owner = {"owner"}
    Policy = {"r1", "r2"}
    Prepared = {"p", "q"}
    Subject = {"ci", "other"}
    BrokerId = {"b"}
    NoRequest = NoRequest
    NoDeployment = NoDeployment
    MaxTime = 2
    Revocable = {}
    MaxRevision = 0
    MaxCrashes = 1
    OwnerOf <- MCOwnerOf
    Budgeted <- MCBudgeted
    Request <- MCRequest
    SubjectOf <- MCSubjectOf
    BackendOf <- MCBackendOf
    GroupsOf <- MCGroupsOf
    Broker <- MCBroker
    InitBudget <- MCInitBudget
    NewBudget <- MCNoNewBudget
SYMMETRY Workers
CHECK_DEADLOCK FALSE
INVARIANTS
    ReservationsProven
    SubmittedOnce
    AuthorityExclusive
    ChainCovered
    CeilingsHold
