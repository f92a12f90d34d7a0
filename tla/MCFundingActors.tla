---- MODULE MCFundingActors ----
\* Instances of FundingActors for TLC: one operation whose maximum covers
\* its create and one deposit at a time, so that a second deposit fits
\* only into what the first ones turn out not to use.
EXTENDS FundingActors, TLC

CONSTANTS w1, w2

MCOwnerOf == [d \in {"d1", "d2"} |-> "owner"]

MCRegistrationOf ==
    [a \in {"funder", "closer"} |->
        [principal |-> "svc", binding |-> "b1", leaves |-> {"leaf"}, wallets |-> {"wallet"},
         purposes |-> IF a = "funder" THEN {"CREATE", "DEPOSIT", "AMENDMENT"}
                                      ELSE {"TRANSACTION_FEE"},
         observedAt |-> 1, validUntil |-> 3]]

V(uact, uakt) ==
    [names |-> {"uact", "uakt"},
     amount |-> [d \in Denomination |-> IF d = "uact" THEN uact ELSE uakt]]

Fee(uakt) ==
    [names |-> {"uakt"}, amount |-> [d \in Denomination |-> IF d = "uakt" THEN uakt ELSE 0]]

Cap == [op |-> "op", leaf |-> "leaf", owner |-> "owner", binding |-> "b1",
        native |-> V(3, 3), basis |-> {[observedAt |-> 1, validUntil |-> 2]},
        observedAt |-> 1, validUntil |-> 3]

MCMaximum == {Cap}

Want(effect, attempt, actor, subject, sequence, doc, purpose, most, fee) ==
    [op |-> "op", quote |-> Cap, effect |-> effect, attempt |-> attempt, actor |-> actor,
     principal |-> "svc", subject |-> subject, wallet |-> "wallet", sequence |-> sequence,
     doc |-> doc, purpose |-> purpose, maximum |-> most, fee |-> fee]

Create == Want("e1", "a1", "funder", "d1", 1, "t1", "CREATE", V(2, 1), Fee(1))

Deposit == Want("e2", "a2", "funder", "d1", 2, "t2", "DEPOSIT", V(2, 1), Fee(1))

\* Another deposit, with the account sequence of the close fee.
Rival == Want("e3", "a3", "funder", "d1", 3, "t3", "DEPOSIT", V(1, 1), Fee(1))

\* A deposit that fits next to the first one only if that is not signed or fails.
TopUp == Want("e5", "a8", "funder", "d1", 7, "t8", "DEPOSIT", V(2, 1), Fee(1))

\* A fee of a close transaction.
CloseFee == Want("e4", "a4", "closer", "d1", 3, "t4", "TRANSACTION_FEE", Fee(1), Fee(1))

\* A deposit to a deployment that is not the operation's.
Stray == Want("e6", "a6", "funder", "d2", 5, "t6", "DEPOSIT", V(0, 1), Fee(1))

\* A larger cap, which no actor may get.
Amendment == Want("e7", "a7", "funder", "d1", 6, "t7", "AMENDMENT", V(0, 1), Fee(1))

RacePlan == {Create, Deposit, TopUp}

LifePlan == {Create, CloseFee, Rival, Stray, Amendment}

FeeOnly(p) == [p.fee EXCEPT !.names = p.maximum.names]

RaceDebit == [p \in RacePlan |-> {p.maximum, FeeOnly(p)}]

LifeDebit == [p \in LifePlan |-> {FeeOnly(p)}]

Workers == Permutations({w1, w2})
====
