---- MODULE MCJournalStore ----
\* Instances of JournalStore for TLC: two operations of one owner with the
\* same groups, one on a self-managed and one on a mediated backend, and
\* two deployments that either of them could be said to have created.
EXTENDS JournalStore, TLC

CONSTANTS w1, w2

MCOwnerOf == [d \in {"d1", "d2"} |-> "owner"]

Prepares ==
    {[state |-> "PREPARED", op |-> o, key |-> k, owner |-> "owner",
      backend |-> IF o = "o1" THEN "self" ELSE "mediated",
      request |-> "r", groups |-> "g", at |-> 2] :
        <<o, k>> \in {<<"o1", "k1">>, <<"o2", "k2">>, <<"o2", "k1">>}}

\* The second is what a rotated backend would submit for o1.
Submits ==
    {[state |-> "SUBMITTED", op |-> o, backend |-> b, request |-> "r", tx |-> t, at |-> 2] :
        <<o, b, t>> \in {<<"o1", "self", "h1">>, <<"o1", "mediated", "t1">>,
                         <<"o2", "mediated", "t1">>}}

Rejects == {[state |-> "REJECTED_BEFORE_SEND", op |-> "o1", backend |-> "self", at |-> 2]}

NonCommits ==
    {[state |-> "FALLBACK_SAFE", op |-> o, backend |-> b, owner |-> "owner",
      groups |-> "g", tx |-> t, at |-> 2] :
        <<o, b, t>> \in {<<"o1", "self", "h1">>, <<"o1", "self", "NoTx">>,
                         <<"o2", "mediated", "t1">>, <<"o2", "mediated", "NoTx">>}}

Unknowns == {[state |-> "CREATE_OUTCOME_UNKNOWN", op |-> o, at |-> 2] : o \in {"o1", "o2"}}

Creates ==
    {[state |-> "CREATED", op |-> o, subject |-> d, groups |-> "g", tx |-> t, at |-> 2] :
        <<o, d, t>> \in {"o1", "o2"} \X {"d1", "d2"} \X {"h1", "NoTx"}}

About(state, o, d) == [state |-> state, op |-> o, subject |-> d, at |-> 2]

Closes ==
    {[state |-> "EXECUTION_CLOSED", op |-> o, subject |-> d, groups |-> "g", at |-> 2] :
        <<o, d>> \in {"o1", "o2"} \X {"d1", "d2"}}

Handoffs ==
    {About(s, "o1", d) : <<s, d>> \in {"HANDOFF_FAILED", "CREATOR_ROLLBACK_REQUESTED"}
                                          \X {"d1", "d2"}}

Settles ==
    {[state |-> "SETTLEMENT", op |-> "o1", subject |-> d, level |-> n, at |-> 2] :
        <<d, n>> \in {"d1", "d2"} \X (0 .. 2)}

\* Two writers race to submit, decide and bind both operations, and follow the first
\* to its settlement.
MCEvidence ==
    Prepares \cup Submits \cup Rejects \cup Creates
        \cup {p \in NonCommits : p.tx \in {"h1", "t1"} \/ p.op = "o1"}
        \cup {p \in Unknowns \cup Closes : p.op = "o1"}
        \cup {p \in Handoffs \cup Settles : p.subject = "d1"}

Writers == Permutations({w1, w2})
====
