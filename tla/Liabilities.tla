---- MODULE Liabilities ----
\* Vectors of native liabilities and their sums.
EXTENDS Naturals, FiniteSets

CONSTANT Denomination   \* native denominations

\* A vector names some denominations; the amount of the others is zero.
NativeLiabilityVector ==
    {v \in [names: SUBSET Denomination, amount: [Denomination -> Nat]] :
        \A d \in Denomination \ v.names : v.amount[d] = 0}

\* A denomination that is not named covers not even zero.
Covers(v, other) ==
    \A d \in other.names : d \in v.names /\ other.amount[d] <= v.amount[d]

\* One element per unit, so that the sum of the amounts is a cardinality.
Units(vectors, d) == UNION {{i} \X (1 .. vectors[i].amount[d]) : i \in DOMAIN vectors}

AddNativeLiabilities(vectors) ==
    [names |-> UNION {vectors[i].names : i \in DOMAIN vectors},
     amount |-> [d \in Denomination |-> Cardinality(Units(vectors, d))]]

NoDebit == [names |-> {}, amount |-> [d \in Denomination |-> 0]]

====
