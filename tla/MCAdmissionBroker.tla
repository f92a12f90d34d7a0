---- MODULE MCAdmissionBroker ----
\* Instances of AdmissionBroker for TLC: two operations of two leaves that
\* share one owner, a conflicting second request for the first operation,
\* two policy revisions and a third leaf that has no budget.  The operations'
\* creates differ in backend and groups.
EXTENDS AdmissionBroker, TLC

CONSTANTS w1, w2, o1, o2

MCOwnerOf == [leaf \in {"leafA", "leafB", "leafC"} |-> "owner"]

MCBudgeted == {"owner", "leafA", "leafB"}

Ask(o, leaf, amount, until) ==
    [op |-> o, scope |-> leaf, prepared |-> IF o = o1 THEN "p" ELSE "q", presenter |-> "ci", amount |-> amount,
     policy |-> "r1", observedAt |-> 1, validUntil |-> until, requestedAt |-> 1]

MCRequest ==
    {Ask(o1, "leafA", 2, 1), Ask(o2, "leafB", 1, 2), Ask(o2, "leafC", 1, 2)}

MCBackendOf == [p \in {"p", "q"} |-> IF p = "p" THEN "console" ELSE "cli"]

MCGroupsOf == [p \in {"p", "q"} |-> IF p = "p" THEN "one group" ELSE "two groups"]

MCSubjectOf == [w \in {w1, w2} |-> "ci"]

MCBroker == {[id |-> "b", verifiedAt |-> 1, validUntil |-> 2]}

Sized(active, unresolved, exposure, policy, admission, until) ==
    [limits |-> [maxActive |-> active, maxUnresolved |-> unresolved,
                 maxExposure |-> exposure, exposurePolicy |-> policy,
                 admissionPolicy |-> admission, validUntil |-> 3],
     census |-> [active |-> 1, unresolved |-> 0, exposure |-> 1, excluded |-> {},
                 unhealthy |-> {}, observedAt |-> 1, validUntil |-> until]]

Budgets(owner) ==
    [s \in MCBudgeted |-> IF s = "owner" THEN owner ELSE Sized(2, 2, 3, "r1", "r1", 3)]

\* One unresolved create at a time; or one active deployment, beside the one outside.
MCInitBudget == Budgets(Sized(3, 1, 4, "r1", "r1", 3))
MCTightBudget == Budgets(Sized(2, 1, 4, "r1", "r1", 3))

\* The owner's budget may be tightened under a new admission policy, given a new
\* exposure policy, or its census may become incomplete.
MCNewBudget ==
    [s \in MCBudgeted |->
        IF s = "owner"
        THEN {Sized(2, 2, 3, "r1", "r2", 3), Sized(3, 2, 4, "r2", "r1", 3),
              [Sized(3, 2, 4, "r1", "r1", 3) EXCEPT !.census.unhealthy = {"chain"}]}
        ELSE {}]

MCNoNewBudget == [s \in MCBudgeted |-> {}]

Workers == Permutations({w1, w2})
====
