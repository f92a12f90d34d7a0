\* Two processes race, and one of them may crash.
SPECIFICATION Spec
CONSTANTS
    w1 = w1
    w2 = w2
    Worker = {w1, w2}
    Denomination = {"uact", "uakt"}
    Op = {"op"}
    Owner = {"owner"}
    Leaf = {"leaf"}
    Binding = {"b1"}
    Principal = {"svc"}
    Actor = {"funder", "closer"}
    Wallet = {"wallet"}
    EffectId = {"e1", "e2", "e3", "e4", "e5", "e6", "e7"}
    AttemptId = {"a1", "a2", "a3", "a4", "a6", "a7", "a8"}
    SignDoc = {"t1", "t2", "t3", "t4", "t6", "t7", "t8"}
    Subject = {"d1", "d2"}
    Ttl = 1
    MaxTime = 1
    MaxEpoch = 0
    MaxCrashes = 1
    RegistrationOf <- MCRegistrationOf
    OwnerOf <- MCOwnerOf
    Maximum <- MCMaximum
    Plan <- RacePlan
    Debit <- RaceDebit
SYMMETRY Workers
CHECK_DEADLOCK FALSE
INVARIANTS
    SpendWithinMaximum
    UsedOnce
PROPERTY
    ImplementsEscrow
