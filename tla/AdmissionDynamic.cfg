\* The broker replaces budgets and permits are revoked while workers are at work.
SPECIFICATION Spec
CONSTANTS
    w1 = w1
    w2 = w2
    o1 = o1
    o2 = o2
    Op = {o1, o2}
    Worker = {w1, w2}
    Leaf = {"leafA", "leafB", "leafC"}
    Owner = {"owner"}
    Policy = {"r1", "r2"}
    Prepared = {"p", "q"}
    Subject = {"ci", "other"}
    BrokerId = {"b"}
    NoRequest = NoRequest
    NoDeployment = NoDeployment
    MaxTime = 1
    Revocable = {o1}
    MaxRevision = 3
    MaxCrashes = 0
    OwnerOf <- MCOwnerOf
    Budgeted <- MCBudgeted
    Request <- MCRequest
    SubjectOf <- MCSubjectOf
    BackendOf <- MCBackendOf
    GroupsOf <- MCGroupsOf
    Broker <- MCBroker
    InitBudget <- MCInitBudget
    NewBudget <- MCNewBudget
SYMMETRY Workers
CHECK_DEADLOCK FALSE
INVARIANT
    RevisionIdentifiesState
PROPERTIES
    AdmittedWithinCeilings
    ReleaseIsFinal
    SubmissionUnderPermit
    ImplementsLedger
