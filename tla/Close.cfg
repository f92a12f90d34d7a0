\* Nine plans, with a bad reading or two for each query.
SPECIFICATION Spec
CONSTANTS
    Register <- MCRegister
    Closer = {"w1", "w2"}
    Deployment = {"d1", "d2", "d3", "d4", "s1", "p1", "p2"}
    Origin <- MCOrigin
    Attempt <- MCAttempt
    Release <- MCRelease
    Op = {"o1", "o2", "o3", "o4", "o5", "o6", "o7"}
    Grant <- MCGrant
    Principal <- MCPrincipal
    Plan <- MCPlan
    Validity = 1
    MaxTries = 1
CHECK_DEADLOCK FALSE
INVARIANTS
    AllowedForProducer
    AuthorizationUsedOnce
    ReleasedByApprover
    OmissionExcused
PROPERTY
    AllowedWhenDue
