---- MODULE Induction ----
\* Induction without an operator argument: what is to be shown is a set,
\* of numbers or of subsets of a finite set, and the step leads from one
\* member to the next.
EXTENDS Integers, FiniteSets, Functions, FiniteSetTheorems, TLAPS

\* Of a family of subsets of a finite set, one contains no other.
LEMMA SmallestSet ==
    ASSUME NEW S, IsFiniteSet(S), NEW F, F # {}, \A T \in F : T \subseteq S
    PROVE  \E T \in F : \A U \in F : U \subseteq T => U = T
  <1>1. IsWellFoundedOn(StrictSubsetOrdering(S), SUBSET S)
    BY FS_StrictSubsetOrderingWellFounded, FS_FiniteSubsetsOfFinite
  <1>2. PICK T \in F : \A U \in F : ~(<<U, T>> \in StrictSubsetOrdering(S))
    BY <1>1, WFMin
  <1> QED
    BY <1>2 DEF StrictSubsetOrdering

\* A family with the empty set, closed under adding an element, has the whole set.
LEMMA FiniteInduction ==
    ASSUME NEW S, IsFiniteSet(S), NEW F, {} \in F,
           \A T \in SUBSET S, x \in S : T \in F /\ x \notin T => T \cup {x} \in F
    PROVE  S \in F
  <1> SUFFICES ASSUME S \notin F PROVE FALSE
    OBVIOUS
  <1>1. PICK G : G = {T \in SUBSET S : T \notin F}
    OBVIOUS
  <1>2. G # {} /\ \A T \in G : T \subseteq S
    BY <1>1
  <1>3. PICK T \in G : \A U \in G : U \subseteq T => U = T
    BY <1>2, SmallestSet
  <1>4. PICK x \in T : TRUE
    BY <1>1, <1>3
  <1>5. T \ {x} \in F
    BY <1>4, <1>3, <1>1
  <1>6. (T \ {x}) \cup {x} = T /\ x \in S /\ T \ {x} \in SUBSET S
    BY <1>2, <1>4
  <1>7. (T \ {x}) \cup {x} \in F
    BY <1>5, <1>6
  <1> QED
    BY <1>7, <1>6, <1>1

\* A nonempty set of numbers has a least one.
LEMMA LeastNumber ==
    ASSUME NEW P \in SUBSET Nat, P # {}
    PROVE  \E m \in P : \A k \in P : m <= k
  <1>1. PICK n \in P : TRUE
    OBVIOUS
  <1>2. PICK S : S = 0 .. n /\ IsFiniteSet(S)
    BY <1>1, FS_Interval
  <1>3. PICK F : F = {0 .. m : m \in {k \in S : k \in P}}
    OBVIOUS
  <1>4. F # {} /\ \A T \in F : T \subseteq S
    BY <1>3, <1>2, <1>1
  <1>5. PICK T \in F : \A U \in F : U \subseteq T => U = T
    BY <1>2, <1>4, SmallestSet
  <1>6. PICK m \in 0 .. n : m \in P /\ T = 0 .. m
    BY <1>2, <1>3
  <1>7. ASSUME NEW k \in P, k < m PROVE FALSE
    <2>1. k \in S /\ 0 .. k \in F /\ 0 .. k \subseteq T
      BY <1>7, <1>6, <1>3, <1>2, <1>1
    <2>2. 0 .. k = 0 .. m
      BY <2>1, <1>6, <1>5
    <2> QED
      BY <2>2, <1>7, <1>6
  <1> QED
    BY <1>6, <1>7

\* A set with 0 and with the successor of each of its numbers has all numbers.
LEMMA NatInductive ==
    ASSUME NEW P, 0 \in P, \A n \in Nat : n \in P => n + 1 \in P
    PROVE  Nat \subseteq P
  <1> SUFFICES ASSUME NEW n \in Nat, n \notin P PROVE FALSE
    OBVIOUS
  <1>1. PICK Q : Q = {k \in Nat : k \notin P}
    OBVIOUS
  <1>2. PICK m \in Q : \A k \in Q : m <= k
    BY <1>1, LeastNumber
  <1>3. m \in Nat /\ m # 0 /\ m - 1 \in Nat /\ m - 1 \in P
    BY <1>1, <1>2
  <1> QED
    BY <1>3, <1>2, <1>1

\* The same up to a bound.
LEMMA BoundedInductive ==
    ASSUME NEW N \in Nat, NEW P, 0 \in P, \A n \in 0 .. (N - 1) : n \in P => n + 1 \in P
    PROVE  0 .. N \subseteq P
  <1>1. PICK Q : Q = {n \in Nat : n <= N => n \in P}
    OBVIOUS
  <1>2. 0 \in Q /\ \A n \in Nat : n \in Q => n + 1 \in Q
    BY <1>1
  <1> QED
    BY <1>1, <1>2, NatInductive

\* A total order on a finite set has a first element.
LEMMA FirstElement ==
    ASSUME NEW S, IsFiniteSet(S), S # {}, NEW R,
           \A x, y \in S : x # y => <<x, y>> \in R \/ <<y, x>> \in R,
           \A x, y, z \in S : <<x, y>> \in R /\ <<y, z>> \in R => <<x, z>> \in R
    PROVE  \E m \in S : \A x \in S \ {m} : <<m, x>> \in R
  <1>1. PICK F : F = {T \in SUBSET S : T # {} => \E m \in T : \A x \in T \ {m} : <<m, x>> \in R}
    OBVIOUS
  <1>2. {} \in F
    BY <1>1
  <1>3. ASSUME NEW T \in SUBSET S, NEW x \in S, T \in F, x \notin T
        PROVE  T \cup {x} \in F
    <2>1. CASE T = {}
      BY <1>1, <2>1
    <2>2. CASE T # {}
      <3>1. PICK m \in T : \A y \in T \ {m} : <<m, y>> \in R
        BY <2>2, <1>3, <1>1
      <3>2. CASE <<m, x>> \in R
        BY <3>2, <3>1, <1>1
      <3>3. CASE <<x, m>> \in R
        <4>1. \A y \in T : <<x, y>> \in R
          BY <3>1, <3>3
        <4> QED
          BY <1>1, <4>1
      <3> QED
        BY <3>3, <3>2, <3>1, <1>3
    <2> QED
      BY <2>1, <2>2
  <1>4. S \in F
    BY <1>2, <1>3, FiniteInduction
  <1> QED
    BY <1>1, <1>4

----
\* Sums over finite sets.
Some(T) == CHOOSE x \in T : TRUE

\* g takes every part of S to the sum of f over it, element by element.
Sums(f, S, g) ==
    g = [T \in SUBSET S |-> IF T = {} THEN 0 ELSE f[Some(T)] + g[T \ {Some(T)}]]

LEMMA SumIs == ASSUME NEW f PROVE SumFunction(f) = (CHOOSE g : Sums(f, DOMAIN f, g))[DOMAIN f]
  BY Zenon DEF SumFunction, SumFunctionOnSet, FoldFunctionOnSet, MapThenFoldSet, Sums, Some

LEMMA SumsAt ==
    ASSUME NEW f, NEW S, NEW g, Sums(f, S, g), NEW T \in SUBSET S
    PROVE  g[T] = IF T = {} THEN 0 ELSE f[Some(T)] + g[T \ {Some(T)}]
  BY DEF Sums

LEMMA SumsExist ==
    ASSUME NEW S, IsFiniteSet(S), NEW f
    PROVE  \E g : Sums(f, S, g)
  <1>. DEFINE Step(g, T) == IF T = {} THEN 0 ELSE f[Some(T)] + g[T \ {Some(T)}]
              Small(n) == {T \in SUBSET S : Cardinality(T) <= n}
  <1>1. \A T \in SUBSET S : T # {} =>
           /\ Some(T) \in T /\ T \ {Some(T)} \in SUBSET S
           /\ Cardinality(T) \in Nat
           /\ Cardinality(T \ {Some(T)}) = Cardinality(T) - 1
    <2> SUFFICES ASSUME NEW T \in SUBSET S, T # {}
                 PROVE  /\ Some(T) \in T
                        /\ Cardinality(T) \in Nat
                        /\ Cardinality(T \ {Some(T)}) = Cardinality(T) - 1
      OBVIOUS
    <2>1. Some(T) \in T
      BY DEF Some
    <2> QED
      BY <2>1, FS_Subset, FS_CardinalityType, FS_RemoveElement
  <1>2. PICK P : P = {n \in Nat : \E g : \A T \in Small(n) : g[T] = Step(g, T)}
    OBVIOUS
  <1>3. 0 \in P
    <2>1. \A T \in Small(0) : T = {}
      BY FS_Subset, FS_CardinalityType, FS_EmptySet
    <2>2. PICK g : g = [T \in SUBSET S |-> 0]
      OBVIOUS
    <2>3. \A T \in Small(0) : g[T] = Step(g, T)
      BY <2>1, <2>2
    <2> QED
      BY <1>2, <2>3
  <1>4. ASSUME NEW n \in Nat, n \in P PROVE n + 1 \in P
    <2>1. PICK g : \A T \in Small(n) : g[T] = Step(g, T)
      BY <1>2, <1>4
    <2>2. PICK h : h = [T \in SUBSET S |-> Step(g, T)]
      OBVIOUS
    <2>3. \A T \in Small(n) : h[T] = g[T]
      BY <2>1, <2>2
    <2>4. ASSUME NEW T \in Small(n + 1) PROVE h[T] = Step(h, T)
      <3>1. CASE T = {}
        BY <2>2, <3>1
      <3>2. CASE T # {}
        <4>1. T \ {Some(T)} \in Small(n)
          BY <1>1, <3>2
        <4>2. h[T \ {Some(T)}] = g[T \ {Some(T)}]
          BY <2>3, <4>1
        <4> QED
          BY <4>2, <3>2, <2>2
      <3> QED
        BY <3>1, <3>2
    <2>5. \E k : \A T \in Small(n + 1) : k[T] = Step(k, T)
      BY <2>4
    <2>6. n + 1 \in Nat
      OBVIOUS
    <2> HIDE DEF Small, Step
    <2> QED
      BY <2>6, <2>5, <1>2
  <1>5. Cardinality(S) \in P
    <2>1. Nat \subseteq P
      BY <1>3, <1>4, NatInductive
    <2> QED
      BY <2>1, FS_CardinalityType
  <1>6. PICK g : \A T \in Small(Cardinality(S)) : g[T] = Step(g, T)
    BY <1>2, <1>5
  <1>7. \A T \in SUBSET S : T \in Small(Cardinality(S)) /\ T \ {Some(T)} \in Small(Cardinality(S))
    BY FS_Subset
  <1>8. PICK h : h = [T \in SUBSET S |-> g[T]]
    OBVIOUS
  <1>9. \A T \in SUBSET S : h[T] = Step(h, T)
    BY <1>8, <1>7, <1>6
  <1>10. h = [T \in SUBSET S |-> Step(h, T)]
    BY <1>8, <1>9
  <1> QED
    BY <1>10 DEF Sums

LEMMA SumFound ==
    ASSUME NEW f, IsFiniteSet(DOMAIN f)
    PROVE  \E g : Sums(f, DOMAIN f, g) /\ SumFunction(f) = g[DOMAIN f]
  <1>1. Sums(f, DOMAIN f, CHOOSE g : Sums(f, DOMAIN f, g))
    BY SumsExist
  <1> QED
    BY <1>1, SumIs

\* The sum of a part depends on nothing but the part.
LEMMA SumsAgree ==
    ASSUME NEW S, NEW U, NEW f, NEW h, NEW g, NEW k, Sums(f, S, g), Sums(h, U, k),
           NEW R, IsFiniteSet(R), R \subseteq S, R \subseteq U, \A x \in R : f[x] = h[x]
    PROVE  g[R] = k[R]
  <1> SUFFICES ASSUME g[R] # k[R] PROVE FALSE
    OBVIOUS
  <1>1. PICK F : F = {T \in SUBSET R : g[T] # k[T]}
    OBVIOUS
  <1>2. F # {} /\ \A T \in F : T \subseteq R
    BY <1>1
  <1>3. PICK T \in F : \A V \in F : V \subseteq T => V = T
    BY <1>2, SmallestSet
  <1>4. /\ g[T] = IF T = {} THEN 0 ELSE f[Some(T)] + g[T \ {Some(T)}]
        /\ k[T] = IF T = {} THEN 0 ELSE h[Some(T)] + k[T \ {Some(T)}]
    BY <1>1, SumsAt
  <1>5. T # {}
    BY <1>1, <1>4
  <1>6. Some(T) \in T /\ T \subseteq R
    BY <1>1, <1>5 DEF Some
  <1>7. g[T \ {Some(T)}] = k[T \ {Some(T)}]
    BY <1>6, <1>3, <1>1
  <1> QED
    BY <1>7, <1>6, <1>5, <1>4, <1>1

\* Whichever element is taken out first, the sum is the same.
LEMMA SumsCommute ==
    ASSUME NEW S, IsFiniteSet(S), NEW f, \A x \in S : f[x] \in Int, NEW g, Sums(f, S, g)
    PROVE  \A T \in SUBSET S : g[T] \in Int /\ \A x \in T : g[T] = f[x] + g[T \ {x}]
  <1>. DEFINE Good(T) == g[T] \in Int /\ \A x \in T : g[T] = f[x] + g[T \ {x}]
  <1> SUFFICES ASSUME \E T \in SUBSET S : ~Good(T) PROVE FALSE
    OBVIOUS
  <1>1. PICK F : F = {T \in SUBSET S : ~Good(T)}
    OBVIOUS
  <1>2. F # {} /\ \A T \in F : T \subseteq S
    BY <1>1
  <1>3. PICK T \in F : \A V \in F : V \subseteq T => V = T
    BY <1>2, SmallestSet
  <1>4. ASSUME NEW V \in SUBSET T, V # T PROVE Good(V)
    BY <1>4, <1>3, <1>2, <1>1
  <1>5. T \in SUBSET S /\ ~Good(T)
    BY <1>1
  <1>10. g[T] = IF T = {} THEN 0 ELSE f[Some(T)] + g[T \ {Some(T)}]
    BY <1>5, SumsAt
  <1>6. T # {} /\ T \subseteq S
    <2>1. ASSUME T = {} PROVE Good(T)
      <3>1. g[T] = 0
        BY <1>10, <2>1
      <3> QED
        BY <2>1, <3>1
    <2> QED
      BY <1>5, <2>1
  <1>7. PICK c \in T : c = Some(T)
    BY <1>6 DEF Some
  <1>8. g[T] = f[c] + g[T \ {c}] /\ f[c] \in Int /\ g[T \ {c}] \in Int
    BY <1>10, <1>7, <1>6, <1>4
  <1>9. ASSUME NEW x \in T PROVE g[T] = f[x] + g[T \ {x}]
    <2>1. CASE x = c
      BY <1>8, <2>1
    <2>2. CASE x # c
      <3>1. g[T \ {c}] = f[x] + g[(T \ {c}) \ {x}]
        BY <1>4, <2>2
      <3>2. g[T \ {x}] = f[c] + g[(T \ {x}) \ {c}]
        BY <1>4, <2>2
      <3>3. (T \ {c}) \ {x} = (T \ {x}) \ {c}
        OBVIOUS
      <3>4. g[(T \ {x}) \ {c}] \in Int /\ f[x] \in Int /\ f[c] \in Int
        BY <1>4, <1>6
      <3> QED
        BY <3>4, <3>3, <3>2, <3>1, <1>8
    <2> QED
      BY <2>1, <2>2
  <1>11. g[T] \in Int
    BY <1>8
  <1>12. Good(T)
    BY <1>9, <1>11
  <1> QED
    BY <1>5, <1>12

\* The sum of f over a set.
Total(f, T) == SumFunction([i \in T |-> f[i]])

LEMMA TotalEmpty == ASSUME NEW f PROVE Total(f, {}) = 0
  <1>1. PICK h : h = [i \in {} |-> f[i]]
    OBVIOUS
  <1>2. DOMAIN h = {}
    BY <1>1
  <1>3. PICK g : Sums(h, {}, g) /\ SumFunction(h) = g[{}]
    BY <1>2, SumFound, FS_EmptySet
  <1> QED
    BY <1>1, <1>3, SumsAt DEF Total

LEMMA TotalAdd ==
    ASSUME NEW T, IsFiniteSet(T), NEW x, x \notin T, NEW f, \A i \in T \cup {x} : f[i] \in Int
    PROVE  Total(f, T \cup {x}) = f[x] + Total(f, T)
  <1>1. PICK V : V = T \cup {x}
    OBVIOUS
  <1>2. IsFiniteSet(V)
    BY <1>1, FS_AddElement
  <1>3. PICK h : h = [i \in V |-> f[i]]
    OBVIOUS
  <1>4. PICK k : k = [i \in T |-> f[i]]
    OBVIOUS
  <1>5. DOMAIN h = V /\ DOMAIN k = T /\ (\A i \in V : h[i] = f[i]) /\ (\A i \in T : k[i] = f[i])
    BY <1>3, <1>4
  <1>6. PICK g : Sums(h, V, g) /\ SumFunction(h) = g[V]
    BY <1>2, <1>5, SumFound
  <1>7. PICK e : Sums(k, T, e) /\ SumFunction(k) = e[T]
    BY <1>5, SumFound
  <1>8. \A i \in V : h[i] \in Int
    BY <1>1, <1>5
  <1>9. V \ {x} = T /\ x \in V
    BY <1>1
  <1>10. g[V] = h[x] + g[T]
    BY <1>9, <1>8, <1>6, <1>2, SumsCommute
  <1>11. g[T] = e[T]
    BY <1>7, <1>6, <1>5, <1>1, SumsAgree
  <1>12. Total(f, V) = SumFunction(h) /\ Total(f, T) = SumFunction(k)
    BY <1>3, <1>4 DEF Total
  <1> QED
    BY <1>12, <1>11, <1>10, <1>9, <1>7, <1>6, <1>5, <1>1

LEMMA TotalType ==
    ASSUME NEW T, IsFiniteSet(T), NEW f, \A i \in T : f[i] \in Int
    PROVE  Total(f, T) \in Int
  <1>1. PICK F : F = {V \in SUBSET T : Total(f, V) \in Int}
    OBVIOUS
  <1>2. {} \in F
    BY <1>1, TotalEmpty
  <1>3. ASSUME NEW V \in SUBSET T, NEW x \in T, V \in F, x \notin V PROVE V \cup {x} \in F
    <2>1. IsFiniteSet(V)
      BY FS_Subset
    <2>2. Total(f, V \cup {x}) = f[x] + Total(f, V)
      BY <1>3, <2>1, TotalAdd
    <2> QED
      BY <2>2, <1>3, <1>1
  <1>4. T \in F
    BY <1>2, <1>3, FiniteInduction
  <1> QED
    BY <1>1, <1>4

\* A sum that is no more than another one, term by term.
LEMMA TotalLess ==
    ASSUME NEW T, IsFiniteSet(T), NEW f, NEW h, \A i \in T : f[i] \in Int,
           \A i \in T : h[i] \in Int, \A i \in T : f[i] <= h[i]
    PROVE  Total(f, T) <= Total(h, T)
  <1>1. PICK F : F = {V \in SUBSET T : Total(f, V) <= Total(h, V)}
    OBVIOUS
  <1>2. {} \in F
    BY <1>1, TotalEmpty
  <1>3. ASSUME NEW V \in SUBSET T, NEW x \in T, V \in F, x \notin V PROVE V \cup {x} \in F
    <2>1. IsFiniteSet(V)
      BY FS_Subset
    <2>2. Total(f, V \cup {x}) = f[x] + Total(f, V) /\ Total(h, V \cup {x}) = h[x] + Total(h, V)
      BY <1>3, <2>1, TotalAdd
    <2>3. Total(f, V) \in Int /\ Total(h, V) \in Int
      BY <2>1, TotalType
    <2>4. f[x] \in Int /\ h[x] \in Int /\ f[x] <= h[x] /\ Total(f, V) <= Total(h, V)
      BY <1>1, <1>3
    <2>5. Total(f, V \cup {x}) <= Total(h, V \cup {x})
      BY <2>4, <2>3, <2>2
    <2> QED
      BY <1>1, <2>5
  <1>4. T \in F
    BY <1>2, <1>3, FiniteInduction
  <1> QED
    BY <1>1, <1>4

\* A sum of a part of a set is no more than the sum of all, if nothing is negative.
LEMMA TotalPart ==
    ASSUME NEW T, IsFiniteSet(T), NEW V \in SUBSET T, NEW f, \A i \in T : f[i] \in Nat
    PROVE  Total(f, V) <= Total(f, T)
  <1>1. IsFiniteSet(V)
    BY FS_Subset
  <1>2. PICK F : F = {U \in SUBSET T : Total(f, V) <= Total(f, V \cup U)}
    OBVIOUS
  <1>3. {} \in F
    <2>1. Total(f, V) \in Int /\ V \cup {} = V
      BY <1>1, TotalType
    <2> QED
      BY <1>2, <2>1
  <1>4. ASSUME NEW U \in SUBSET T, NEW x \in T, U \in F, x \notin U PROVE U \cup {x} \in F
    <2>1. CASE x \in V
      <3>1. V \cup (U \cup {x}) = V \cup U
        BY <2>1
      <3> QED
        BY <3>1, <1>4, <1>2
    <2>2. CASE x \notin V
      <3>1. PICK W : W = V \cup U
        OBVIOUS
      <3>2. IsFiniteSet(W) /\ x \notin W /\ W \subseteq T /\ V \cup (U \cup {x}) = W \cup {x}
        BY <3>1, <2>2, <1>4, FS_Subset
      <3>3. Total(f, W \cup {x}) = f[x] + Total(f, W)
        <4>1. \A i \in W \cup {x} : f[i] \in Int
          BY <3>2
        <4> QED
          BY <3>2, <4>1, TotalAdd
      <3>4. Total(f, V) \in Int /\ Total(f, W) \in Int /\ Total(f, V) <= Total(f, W)
        BY <3>2, <3>1, <1>4, <1>2, <1>1, TotalType
      <3>5. Total(f, V) <= Total(f, W \cup {x})
        BY <3>3, <3>4
      <3> QED
        BY <3>5, <3>2, <1>2
    <2> QED
      BY <2>1, <2>2
  <1>5. T \in F
    BY <1>3, <1>4, FiniteInduction
  <1>6. V \cup T = T
    OBVIOUS
  <1> QED
    BY <1>6, <1>5, <1>2

LEMMA TotalNat ==
    ASSUME NEW T, IsFiniteSet(T), NEW f, \A i \in T : f[i] \in Nat
    PROVE  Total(f, T) \in Nat
  <1>1. Total(f, {}) <= Total(f, T)
    BY TotalPart
  <1> QED
    BY <1>1, TotalEmpty, TotalType

\* No term is more than the sum.
LEMMA TotalTerm ==
    ASSUME NEW T, IsFiniteSet(T), NEW f, \A i \in T : f[i] \in Nat, NEW x \in T
    PROVE  f[x] <= Total(f, T)
  <1>1. Total(f, {} \cup {x}) = f[x] + Total(f, {})
    BY TotalAdd, FS_EmptySet
  <1>2. Total(f, {x}) = f[x]
    BY <1>1, TotalEmpty
  <1>3. Total(f, {x}) <= Total(f, T)
    BY TotalPart
  <1> QED
    BY <1>2, <1>3

\* Terms that are numbered in another way have the same sum.
LEMMA TotalRenumbered ==
    ASSUME NEW T, IsFiniteSet(T), NEW b, \A i, j \in T : b[i] = b[j] => i = j,
           NEW f, NEW h, \A i \in T : f[i] \in Int, \A i \in T : f[i] = h[b[i]]
    PROVE  Total(f, T) = Total(h, {b[i] : i \in T})
  <1>1. PICK F : F = {V \in SUBSET T : Total(f, V) = Total(h, {b[i] : i \in V})}
    OBVIOUS
  <1>2. {} \in F
    <2>1. {b[i] : i \in {}} = {}
      OBVIOUS
    <2> QED
      BY <1>1, <2>1, TotalEmpty
  <1>3. ASSUME NEW V \in SUBSET T, NEW x \in T, V \in F, x \notin V PROVE V \cup {x} \in F
    <2>1. PICK U : U = {b[i] : i \in V}
      OBVIOUS
    <2>2. IsFiniteSet(V) /\ IsFiniteSet(U)
      <3>1. IsFiniteSet(V)
        BY FS_Subset
      <3>2. PICK c : c = [i \in V |-> b[i]]
        OBVIOUS
      <3>3. c \in [V -> U]
        BY <2>1, <3>2
      <3>4. \A u \in U : \E i \in V : c[i] = u
        BY <2>1, <3>2
      <3>5. c \in Surjection(V, U)
        BY <3>3, <3>4 DEF Surjection
      <3> QED
        BY <3>1, <3>5, FS_Surjection
    <2>3. b[x] \notin U /\ {b[i] : i \in V \cup {x}} = U \cup {b[x]}
      BY <1>3, <2>1
    <2>4. \A j \in U \cup {b[x]} : h[j] \in Int
      BY <2>1
    <2>5. Total(f, V \cup {x}) = f[x] + Total(f, V)
      BY <1>3, <2>2, TotalAdd
    <2>6. Total(h, U \cup {b[x]}) = h[b[x]] + Total(h, U)
      BY <2>4, <2>3, <2>2, TotalAdd
    <2> QED
      BY <2>6, <2>5, <2>3, <2>1, <1>3, <1>1
  <1>4. T \in F
    BY <1>2, <1>3, FiniteInduction
  <1> QED
    BY <1>1, <1>4

\* A sum is the sum of the sums of its parts.
LEMMA TotalOfParts ==
    ASSUME NEW T, IsFiniteSet(T), NEW N, IsFiniteSet(N), NEW home, \A i \in T : home[i] \in N,
           NEW f, \A i \in T : f[i] \in Int
    PROVE  Total([n \in N |-> Total(f, {i \in T : home[i] = n})], N) = Total(f, T)
  <1>. DEFINE Part(M) == {i \in T : home[i] \in M}
  <1>1. PICK part : part = [n \in N |-> Total(f, {i \in T : home[i] = n})]
    OBVIOUS
  <1>2. \A n \in N : part[n] \in Int
    <2>1. ASSUME NEW n \in N PROVE Total(f, {i \in T : home[i] = n}) \in Int
      BY FS_Subset, TotalType
    <2> QED
      BY <1>1, <2>1
  <1>3. PICK F : F = {M \in SUBSET N : Total(part, M) = Total(f, Part(M))}
    OBVIOUS
  <1>4. {} \in F
    <2>1. Part({}) = {}
      OBVIOUS
    <2> QED
      BY <1>3, <2>1, TotalEmpty
  <1>5. ASSUME NEW M \in SUBSET N, NEW x \in N, M \in F, x \notin M PROVE M \cup {x} \in F
    <2>1. Total(part, M \cup {x}) = part[x] + Total(part, M)
      BY <1>2, <1>5, FS_Subset, TotalAdd
    <2>2. PICK G : G = {V \in SUBSET {i \in T : home[i] = x} :
                           Total(f, Part(M) \cup V) = Total(f, V) + Total(f, Part(M))}
      OBVIOUS
    <2>3. IsFiniteSet(Part(M)) /\ Total(f, Part(M)) \in Int /\ IsFiniteSet({i \in T : home[i] = x})
      BY FS_Subset, TotalType
    <2>4. {} \in G
      <3>1. Part(M) \cup {} = Part(M)
        OBVIOUS
      <3> QED
        BY <3>1, <2>3, <2>2, TotalEmpty
    <2>5. ASSUME NEW V \in SUBSET {i \in T : home[i] = x}, NEW y \in {i \in T : home[i] = x},
                 V \in G, y \notin V
          PROVE  V \cup {y} \in G
      <3>1. PICK W : W = Part(M) \cup V
        OBVIOUS
      <3>2. IsFiniteSet(W) /\ IsFiniteSet(V) /\ W \subseteq T /\ y \notin W
        BY <3>1, <2>5, <1>5, FS_Subset
      <3>3. Total(f, W \cup {y}) = f[y] + Total(f, W) /\ Total(f, V \cup {y}) = f[y] + Total(f, V)
        BY <2>5, <3>2, TotalAdd
      <3>4. Total(f, V) \in Int /\ f[y] \in Int
        BY <3>2, TotalType
      <3>5. Part(M) \cup (V \cup {y}) = W \cup {y}
        BY <3>1
      <3>6. Total(f, W) = Total(f, V) + Total(f, Part(M))
        BY <3>1, <2>5, <2>2
      <3>7. Total(f, W \cup {y}) = Total(f, V \cup {y}) + Total(f, Part(M))
        BY <3>6, <3>4, <3>3, <2>3
      <3>8. V \cup {y} \in SUBSET {i \in T : home[i] = x}
        BY <2>5
      <3> HIDE DEF Part
      <3> QED
        BY <3>8, <3>7, <3>5, <2>2
    <2>6. {i \in T : home[i] = x} \in G
      BY <2>5, <2>4, <2>3, FiniteInduction
    <2>7. Part(M \cup {x}) = Part(M) \cup {i \in T : home[i] = x}
      OBVIOUS
    <2>8. part[x] = Total(f, {i \in T : home[i] = x})
      BY <1>1
    <2> QED
      BY <2>8, <2>7, <2>6, <2>2, <2>1, <1>5, <1>3
  <1>6. N \in F
    BY <1>4, <1>5, FiniteInduction
  <1>7. Part(N) = T
    OBVIOUS
  <1> QED
    BY <1>7, <1>6, <1>3, <1>1
====
