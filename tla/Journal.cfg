\* Two operations, two writers, and evidence about either operation and deployment.
SPECIFICATION Spec
CONSTANTS
    w1 = w1
    w2 = w2
    Writer = {w1, w2}
    Op = {"o1", "o2"}
    Key = {"k1", "k2"}
    Owner = {"owner"}
    Backend = {"self", "mediated"}
    SelfManaged = {"self"}
    Request = {"r"}
    Groups = {"g"}
    Hash = {"h1"}
    Token = {"t1"}
    NoTx = "NoTx"
    Subject = {"d1", "d2"}
    OwnerOf <- MCOwnerOf
    Evidence <- MCEvidence
    Time = {2}
    DecoderLimit = 5
    MaxEntries = 6
CHECK_DEADLOCK FALSE
SYMMETRY Writers
INVARIANTS
    BindingOneToOne
    FallbackExcludesDeployment
    EvidenceOfOwnSubmission
    LaterEvidenceAboutBound
PROPERTY
    ImplementsRegistry
