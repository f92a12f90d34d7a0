---- MODULE PlacementSearchProofs ----
\* Proofs about PlacementSearch, for every number of nodes and replicas,
\* all amounts, whatever a report leaves out, and any limit of states.
EXTENDS PlacementSearch, Induction, SequenceTheorems, TLAPS

----
\* Sequences that are chosen or ranked from others.
LEMMA OneToOne ==
    ASSUME NEW S, NEW T, NEW b \in Bijection(S, T)
    PROVE  /\ b \in [S -> T]
           /\ \A x, y \in S : b[x] = b[y] => x = y
           /\ \A t \in T : \E x \in S : b[x] = t
  BY DEF Bijection, Injection, Surjection, IsInjective

LEMMA IsBijection ==
    ASSUME NEW S, NEW T, NEW b \in [S -> T], \A x, y \in S : b[x] = b[y] => x = y,
           \A t \in T : \E x \in S : b[x] = t
    PROVE  b \in Bijection(S, T)
  BY DEF Bijection, Injection, Surjection, IsInjective

\* The entries of t are those of s at the positions that b gives.
Picked(t, s, b) == \A k \in DOMAIN b : t[k] = s[b[k]]

LEMMA ChosenPicks ==
    ASSUME NEW T, NEW s \in Seq(T), NEW places \in SUBSET (1 .. Len(s))
    PROVE  /\ Chosen(s, places) \in Seq(T)
           /\ \E b \in Bijection(1 .. Len(Chosen(s, places)), places) :
                 Picked(Chosen(s, places), s, b)
  <1>1. PICK N \in Nat : N = Len(s)
    OBVIOUS
  <1>9. \A m \in places : m \in Nat /\ 1 <= m /\ m <= N
    BY <1>1
  <1>. DEFINE Step(f, n) == IF n = 0 THEN <<>>
                            ELSE IF n \in places THEN Append(f[n - 1], s[n]) ELSE f[n - 1]
              Upto(f, n) == \A m \in 0 .. n : f[m] = Step(f, m)
  <1>2. \E f : f = [n \in 0 .. N |-> Step(f, n)]
    <2>1. PICK P : P = {n \in Nat : \E f : Upto(f, n)}
      OBVIOUS
    <2>2. 0 \in P
      <3>1. Upto([n \in {0} |-> <<>>], 0)
        OBVIOUS
      <3> QED
        BY <2>1, <3>1
    <2>3. ASSUME NEW n \in Nat, n \in P PROVE n + 1 \in P
      <3>1. PICK f : Upto(f, n)
        BY <2>1, <2>3
      <3>2. PICK h : h = [m \in 0 .. n + 1 |-> IF m = n + 1 THEN Step(f, n + 1) ELSE f[m]]
        OBVIOUS
      <3>3. \A m \in 0 .. n : h[m] = f[m]
        BY <3>2
      <3>4. ASSUME NEW m \in 0 .. n + 1 PROVE h[m] = Step(h, m)
        <4>1. CASE m = n + 1
          BY <4>1, <3>3, <3>2
        <4>2. CASE m # n + 1
          BY <4>2, <3>3, <3>2, <3>1
        <4> QED
          BY <4>1, <4>2
      <3>5. Upto(h, n + 1)
        BY <3>4
      <3> HIDE DEF Upto
      <3> QED
        BY <2>1, <3>5
    <2>4. N \in P
      BY <2>2, <2>3, NatInductive
    <2>5. PICK f : Upto(f, N)
      BY <2>1, <2>4
    <2>6. PICK h : h = [n \in 0 .. N |-> f[n]]
      OBVIOUS
    <2>7. \A n \in 0 .. N : h[n] = Step(h, n)
      BY <2>5, <2>6
    <2>8. h = [n \in 0 .. N |-> Step(h, n)]
      BY <2>6, <2>7
    <2> QED
      BY <2>8
  <1>3. PICK h : h = [n \in 0 .. N |-> Step(h, n)] /\ Chosen(s, places) = h[N]
    BY <1>1, <1>2 DEF Chosen
  <1>. DEFINE Good(q, n) == /\ q \in Seq(T)
                            /\ \E b \in Bijection(1 .. Len(q), {m \in places : m <= n}) :
                                  Picked(q, s, b)
  <1>4. PICK P : P = {n \in 0 .. N : Good(h[n], n)}
    OBVIOUS
  <1>5. 0 \in P
    <2>1. h[0] = <<>> /\ 0 \in 0 .. N
      BY <1>3
    <2>2. PICK b : b = [k \in {} |-> 0]
      OBVIOUS
    <2>3. Len(<<>>) = 0 /\ 1 .. 0 = {} /\ {m \in places : m <= 0} = {}
      <3>1. {m \in places : m <= 0} = {}
        <4>1. \A m \in places : ~(m <= 0)
          BY <1>9
        <4> QED
          BY <4>1
      <3>2. 1 .. 0 = {}
        OBVIOUS
      <3> QED
        BY <3>1, <3>2
    <2>4. b \in Bijection({}, {}) /\ Picked(<<>>, s, b)
      BY <2>2, IsBijection DEF Picked
    <2>5. Good(<<>>, 0)
      <3>1. b \in Bijection(1 .. Len(<<>>), {m \in places : m <= 0})
        BY <2>3, <2>4
      <3>2. <<>> \in Seq(T)
        OBVIOUS
      <3> QED
        BY <3>2, <3>1, <2>4
    <2> QED
      BY <2>5, <2>1, <1>4
  <1>6. ASSUME NEW n \in 0 .. (N - 1), n \in P PROVE n + 1 \in P
    <2>1. PICK q : q = h[n]
      OBVIOUS
    <2>2. PICK S : S = {m \in places : m <= n}
      OBVIOUS
    <2>3. PICK b \in Bijection(1 .. Len(q), S) : Picked(q, s, b)
      BY <2>2, <2>1, <1>6, <1>4
    <2>4. q \in Seq(T) /\ n + 1 \in 0 .. N /\ n + 1 # 0 /\ (n + 1) - 1 = n /\ s[n + 1] \in T
      BY <2>1, <1>6, <1>4, <1>1
    <2>5. CASE n + 1 \notin places
      <3>1. h[n + 1] = q
        BY <2>5, <2>4, <2>1, <1>3
      <3>2. {m \in places : m <= n + 1} = S
        <4>1. \A m \in places : m <= n + 1 <=> m <= n
          BY <1>9, <2>5
        <4> QED
          BY <2>2, <4>1
      <3> QED
        BY <3>2, <3>1, <2>4, <2>3, <1>4
    <2>6. CASE n + 1 \in places
      <3>1. h[n + 1] = Append(q, s[n + 1])
        BY <2>6, <2>4, <2>1, <1>3
      <3>2. {m \in places : m <= n + 1} = S \cup {n + 1} /\ n + 1 \notin S
        <4>1. \A m \in places : m <= n + 1 <=> m <= n \/ m = n + 1
          BY <1>9
        <4>2. n + 1 \notin S
          BY <2>2
        <4> QED
          BY <4>2, <4>1, <2>6, <2>2
      <3>3. PICK l \in Nat : l = Len(q)
        BY <2>4
      <3>4. Len(Append(q, s[n + 1])) = l + 1 /\ Append(q, s[n + 1]) \in Seq(T)
        BY <2>4, <3>3
      <3>5. PICK c : c = [k \in 1 .. l + 1 |-> IF k = l + 1 THEN n + 1 ELSE b[k]]
        OBVIOUS
      <3>6. /\ b \in [1 .. l -> S] /\ \A x, y \in 1 .. l : b[x] = b[y] => x = y
            /\ \A t \in S : \E x \in 1 .. l : b[x] = t
        BY <2>3, <3>3, OneToOne
      <3>7. c \in Bijection(1 .. l + 1, S \cup {n + 1})
        <4>. PICK V : V = S \cup {n + 1}
          OBVIOUS
        <4>1. c \in [1 .. l + 1 -> V]
          BY <3>5, <3>6
        <4>2. \A x, y \in 1 .. l + 1 : c[x] = c[y] => x = y
          BY <3>6, <3>5, <3>2
        <4>3. \A t \in V : \E x \in 1 .. l + 1 : c[x] = t
          BY <3>5, <3>6
        <4>4. c \in Bijection(1 .. l + 1, V)
          BY <4>3, <4>2, <4>1, IsBijection
        <4> QED
          BY <4>4
      <3>8. Picked(Append(q, s[n + 1]), s, c)
        <4>1. ASSUME NEW k \in 1 .. l + 1 PROVE Append(q, s[n + 1])[k] = s[c[k]]
          <5>1. CASE k = l + 1
            BY <5>1, <3>5, <3>3, <2>4
          <5>2. CASE k # l + 1
            <6>1. k \in 1 .. Len(q) /\ c[k] = b[k] /\ DOMAIN b = 1 .. l
              BY <5>2, <3>6, <3>5, <3>3
            <6>2. Append(q, s[n + 1])[k] = q[k]
              BY <2>4, <6>1
            <6>3. q[k] = s[b[k]]
              BY <6>1, <3>3, <2>3 DEF Picked
            <6> QED
              BY <6>3, <6>2, <6>1
          <5> QED
            BY <5>1, <5>2
        <4> QED
          BY <3>5, <4>1 DEF Picked
      <3> QED
        BY <3>8, <3>7, <3>4, <3>2, <3>1, <2>4, <1>4
    <2> QED
      BY <2>5, <2>6
  <1>7. N \in P
    <2>1. 0 .. N \subseteq P
      BY <1>5, <1>6, BoundedInductive
    <2> QED
      BY <2>1
  <1>8. {m \in places : m <= N} = places
    BY <1>9
  <1> QED
    BY <1>8, <1>7, <1>4, <1>3

LEMMA Inserted ==
    ASSUME NEW T, NEW q \in Seq(T), NEW p \in 1 .. Len(q) + 1, NEW e \in T
    PROVE  /\ InsertAt(q, p, e) \in Seq(T)
           /\ Len(InsertAt(q, p, e)) = Len(q) + 1
           /\ \A k \in 1 .. Len(q) + 1 :
                 InsertAt(q, p, e)[k] = IF k < p THEN q[k]
                                        ELSE IF k = p THEN e ELSE q[k - 1]
  <1>. PICK c \in 0 .. Len(q) : c = p - 1
    OBVIOUS
  <1>1. PICK l \in Nat : l = Len(q)
    OBVIOUS
  <1>2. PICK u : u = SubSeq(q, 1, c)
    OBVIOUS
  <1>3. PICK v : v = SubSeq(q, c + 1, l)
    OBVIOUS
  <1>4. u \in Seq(T) /\ Len(u) = c /\ \A k \in 1 .. c : u[k] = q[k]
    BY <1>1, <1>2
  <1>5. v \in Seq(T) /\ Len(v) = l - c /\ \A k \in 1 .. (l - c) : v[k] = q[c + k]
    BY <1>1, <1>3
  <1>6. PICK w : w = u \o <<e>>
    OBVIOUS
  <1>7. w \in Seq(T) /\ Len(w) = c + 1 /\ (\A k \in 1 .. c : w[k] = u[k]) /\ w[c + 1] = e
    BY <1>4, <1>6
  <1>8. PICK t : t = w \o v
    OBVIOUS
  <1>9. /\ t \in Seq(T) /\ Len(t) = l + 1
        /\ \A k \in 1 .. c + 1 : t[k] = w[k]
        /\ \A k \in c + 2 .. l + 1 : t[k] = v[k - (c + 1)]
    <2>1. w \in Seq(T) /\ v \in Seq(T) /\ Len(w) = c + 1 /\ Len(v) = l - c /\ c \in 0 .. l
      BY <1>7, <1>5, <1>1
    <2>2. t \in Seq(T) /\ Len(t) = Len(w) + Len(v)
      BY <1>8, <2>1, ConcatProperties
    <2>3. \A k \in 1 .. Len(w) + Len(v) :
             t[k] = IF k <= Len(w) THEN w[k] ELSE v[k - Len(w)]
      BY <1>8, <2>1
    <2> QED
      BY <2>3, <2>2, <2>1
  <1>10. InsertAt(q, p, e) = t
    <2>1. p - 1 = c /\ p = c + 1
      OBVIOUS
    <2> QED
      BY <2>1, <1>8, <1>6, <1>3, <1>2, <1>1 DEF InsertAt
  <1>11. ASSUME NEW k \in 1 .. l + 1
         PROVE  t[k] = IF k <= c THEN q[k] ELSE IF k = c + 1 THEN e ELSE q[k - 1]
    <2>1. CASE k <= c
      BY <2>1, <1>9, <1>7, <1>4
    <2>2. CASE k = c + 1
      BY <2>2, <1>9, <1>7
    <2>3. CASE k > c + 1
      <3>1. k \in c + 2 .. l + 1 /\ k - (c + 1) \in 1 .. (l - c) /\ c + (k - (c + 1)) = k - 1
        BY <1>1, <2>3
      <3> QED
        BY <3>1, <2>3, <1>9, <1>5
    <2> QED
      BY <2>3, <2>2, <2>1, <1>1
  <1> QED
    BY <1>11, <1>10, <1>9, <1>1

LEMMA RankedPicks ==
    ASSUME NEW T, NEW s \in Seq(T), NEW keys
    PROVE  /\ Ranked(s, keys) \in Seq(T)
           /\ Len(Ranked(s, keys)) = Len(s)
           /\ \E b \in Bijection(1 .. Len(s), 1 .. Len(s)) : Picked(Ranked(s, keys), s, b)
  <1>1. PICK N \in Nat : N = Len(s)
    OBVIOUS
  <1>. DEFINE Ahead(n) == {m \in 1 .. n - 1 : ~Exceeds(keys[n], keys[m])}
              Step(f, n) == IF n = 0 THEN <<>>
                            ELSE InsertAt(f[n - 1], Cardinality(Ahead(n)) + 1, s[n])
              Upto(f, n) == \A m \in 0 .. n : f[m] = Step(f, m)
  <1>2. \E f : f = [n \in 0 .. N |-> Step(f, n)]
    <2>1. PICK P : P = {n \in Nat : \E f : Upto(f, n)}
      OBVIOUS
    <2>2. 0 \in P
      <3>1. Upto([n \in {0} |-> <<>>], 0)
        OBVIOUS
      <3> QED
        BY <2>1, <3>1
    <2>3. ASSUME NEW n \in Nat, n \in P PROVE n + 1 \in P
      <3>1. PICK f : Upto(f, n)
        BY <2>1, <2>3
      <3>2. PICK h : h = [m \in 0 .. n + 1 |-> IF m = n + 1 THEN Step(f, n + 1) ELSE f[m]]
        OBVIOUS
      <3>3. \A m \in 0 .. n : h[m] = f[m]
        BY <3>2
      <3>4. ASSUME NEW m \in 0 .. n + 1 PROVE h[m] = Step(h, m)
        <4>1. CASE m = n + 1
          <5>1. h[m - 1] = f[m - 1]
            BY <3>3, <4>1
          <5> QED
            BY <5>1, <4>1, <3>2
        <4>2. CASE m # n + 1
          <5>1. m \in 0 .. n
            BY <4>2
          <5>2. h[m] = Step(f, m)
            BY <5>1, <3>3, <3>1
          <5>3. m # 0 => h[m - 1] = f[m - 1]
            BY <3>3, <5>1
          <5> QED
            BY <5>2, <5>3
        <4> QED
          BY <4>1, <4>2
      <3>5. Upto(h, n + 1)
        BY <3>4
      <3> HIDE DEF Upto
      <3> QED
        BY <2>1, <3>5
    <2>4. N \in P
      BY <2>2, <2>3, NatInductive
    <2>5. PICK f : Upto(f, N)
      BY <2>1, <2>4
    <2>6. PICK h : h = [n \in 0 .. N |-> f[n]]
      OBVIOUS
    <2>7. ASSUME NEW n \in 0 .. N PROVE h[n] = Step(h, n)
      <3>1. h[n] = Step(f, n)
        BY <2>5, <2>6
      <3>2. n # 0 => h[n - 1] = f[n - 1]
        BY <2>6
      <3> QED
        BY <3>1, <3>2
    <2>8. h = [n \in 0 .. N |-> Step(h, n)]
      BY <2>6, <2>7
    <2> QED
      BY <2>8
  <1>3. PICK h : h = [n \in 0 .. N |-> Step(h, n)] /\ Ranked(s, keys) = h[N]
    BY <1>1, <1>2 DEF Ranked
  <1>. DEFINE Good(q, n) == /\ q \in Seq(T) /\ Len(q) = n
                            /\ \E b \in Bijection(1 .. n, 1 .. n) : Picked(q, s, b)
  <1>4. PICK P : P = {n \in 0 .. N : Good(h[n], n)}
    OBVIOUS
  <1>5. 0 \in P
    <2>1. h[0] = <<>> /\ 0 \in 0 .. N
      BY <1>3
    <2>2. PICK b : b = [k \in 1 .. 0 |-> 0]
      OBVIOUS
    <2>3. 1 .. 0 = {}
      OBVIOUS
    <2>4. b \in Bijection(1 .. 0, 1 .. 0) /\ Picked(<<>>, s, b)
      BY <2>2, <2>3, IsBijection DEF Picked
    <2>5. <<>> \in Seq(T) /\ Len(<<>>) = 0
      OBVIOUS
    <2>6. Good(<<>>, 0)
      BY <2>4, <2>5
    <2> HIDE DEF Good
    <2> QED
      BY <2>6, <2>1, <1>4
  <1>6. ASSUME NEW n \in 0 .. (N - 1), n \in P PROVE n + 1 \in P
    <2>1. PICK q : q = h[n]
      OBVIOUS
    <2>2. q \in Seq(T) /\ Len(q) = n
      BY <2>1, <1>6, <1>4
    <2>3. PICK b \in Bijection(1 .. n, 1 .. n) : Picked(q, s, b)
      BY <2>1, <1>6, <1>4
    <2>4. n + 1 \in 0 .. N /\ n + 1 # 0 /\ (n + 1) - 1 = n /\ s[n + 1] \in T
      BY <1>1, <1>6
    <2>5. PICK c : c = Cardinality(Ahead(n + 1))
      OBVIOUS
    <2>6. c \in 0 .. n
      <3>1. IsFiniteSet(1 .. n) /\ Cardinality(1 .. n) = n
        BY FS_Interval
      <3>2. Ahead(n + 1) \subseteq 1 .. n
        BY <2>4
      <3> QED
        BY <3>2, <3>1, <2>5, FS_Subset, FS_CardinalityType
    <2>7. PICK t : t = InsertAt(q, c + 1, s[n + 1])
      OBVIOUS
    <2>8. h[n + 1] = t
      <3>1. h[n + 1] = Step(h, n + 1)
        BY <1>3, <2>4
      <3> QED
        BY <3>1, <2>7, <2>5, <2>4, <2>1
    <2>9. /\ t \in Seq(T) /\ Len(t) = n + 1
          /\ \A k \in 1 .. n + 1 : t[k] = IF k <= c THEN q[k]
                                           ELSE IF k = c + 1 THEN s[n + 1] ELSE q[k - 1]
      <3>1. PICK p \in 1 .. Len(q) + 1 : p = c + 1
        BY <2>2, <2>6
      <3>2. q \in Seq(T) /\ s[n + 1] \in T
        BY <2>2, <2>4
      <3>3. PICK e \in T : e = s[n + 1]
        BY <3>2
      <3>4. t = InsertAt(q, p, e)
        BY <3>3, <3>1, <2>7
      <3>5. q \in Seq(T) /\ p \in 1 .. Len(q) + 1 /\ e \in T
        BY <3>2
      <3>6. /\ InsertAt(q, p, e) \in Seq(T) /\ Len(InsertAt(q, p, e)) = Len(q) + 1
            /\ \A k \in 1 .. Len(q) + 1 : InsertAt(q, p, e)[k] = IF k < p THEN q[k]
                                                  ELSE IF k = p THEN e ELSE q[k - 1]
        BY ONLY <3>5, Inserted
      <3> QED
        BY <3>6, <3>4, <3>3, <3>1, <2>6, <2>2
    <2>10. /\ b \in [1 .. n -> 1 .. n] /\ \A x, y \in 1 .. n : b[x] = b[y] => x = y
           /\ \A m \in 1 .. n : \E x \in 1 .. n : b[x] = m
      <3>1. b \in Bijection(1 .. n, 1 .. n)
        BY <2>3
      <3>2. PICK D : D = 1 .. n
        OBVIOUS
      <3>3. /\ b \in [D -> D] /\ \A x, y \in D : b[x] = b[y] => x = y
            /\ \A m \in D : \E x \in D : b[x] = m
        <4>1. b \in Bijection(D, D)
          BY <3>1, <3>2
        <4> QED
          BY ONLY <4>1, OneToOne
      <3> QED
        BY <3>2, <3>3
    <2>11. PICK d : d = [k \in 1 .. n + 1 |-> IF k <= c THEN b[k]
                                               ELSE IF k = c + 1 THEN n + 1 ELSE b[k - 1]]
      OBVIOUS
    <2>12. d \in Bijection(1 .. n + 1, 1 .. n + 1)
      <3>. PICK N1 \in Nat : N1 = n
        OBVIOUS
      <3>1. d \in [1 .. n + 1 -> 1 .. n + 1]
        <4>1. ASSUME NEW k \in 1 .. n + 1 PROVE d[k] \in 1 .. n + 1
          <5>1. CASE k <= c
            <6>1. k \in 1 .. n /\ d[k] = b[k]
              BY <5>1, <2>11, <2>6
            <6> QED
              BY <2>10, <6>1
          <5>2. CASE k = c + 1
            BY <5>2, <2>11, <2>6
          <5>3. CASE k > c + 1
            <6>1. k - 1 \in 1 .. n /\ d[k] = b[k - 1]
              BY <5>3, <2>11, <2>6
            <6> QED
              BY <2>10, <6>1
          <5> QED
            BY <5>3, <5>2, <5>1, <2>6
        <4> QED
          BY <2>11, <4>1
      <3>2. ASSUME NEW x \in 1 .. n + 1, NEW y \in 1 .. n + 1, d[x] = d[y] PROVE x = y
        <4>. DEFINE Old(k) == IF k <= c THEN k ELSE k - 1
        <4>1. ASSUME NEW k \in 1 .. n + 1, k # c + 1
              PROVE  Old(k) \in 1 .. n /\ d[k] = b[Old(k)] /\ d[k] # n + 1
          <5>1. Old(k) \in 1 .. n
            BY <2>6, <4>1
          <5>2. d[k] = b[Old(k)]
            BY <4>1, <2>11, <2>6
          <5>3. b[Old(k)] \in 1 .. n
            BY <2>10, <5>1
          <5> QED
            BY <5>3, <5>2, <5>1
        <4>2. d[c + 1] = n + 1
          BY <2>6, <2>11
        <4>3. CASE x = c + 1 \/ y = c + 1
          BY <4>3, <4>2, <4>1, <3>2
        <4>4. CASE x # c + 1 /\ y # c + 1
          <5>1. Old(x) = Old(y)
            BY <4>4, <4>1, <3>2, <2>10, ZenonT(30)
          <5> QED
            BY <5>1, <4>4, <2>6
        <4> QED
          BY <4>3, <4>4
      <3>3. ASSUME NEW m \in 1 .. n + 1 PROVE \E x \in 1 .. n + 1 : d[x] = m
        <4>1. CASE m = n + 1
          <5>1. c + 1 \in 1 .. n + 1 /\ d[c + 1] = n + 1
            BY <2>6, <2>11
          <5> QED
            BY <4>1, <5>1
        <4>2. CASE m # n + 1
          <5>1. PICK x \in 1 .. n : b[x] = m
            BY <2>10, <4>2
          <5>2. CASE x <= c
            <6>1. x \in 1 .. n + 1 /\ d[x] = m
              BY <5>2, <5>1, <2>11
            <6> QED
              BY <6>1
          <5>3. CASE x > c
            <6>1. x + 1 \in 1 .. n + 1 /\ d[x + 1] = m
              BY <5>3, <5>1, <2>11, <2>6
            <6> QED
              BY <6>1
          <5> QED
            BY <5>3, <5>2, <2>6
        <4> QED
          BY <4>1, <4>2
      <3> QED
        BY <3>3, <3>2, <3>1, IsBijection
    <2>13. Picked(t, s, d)
      <3>1. \A k \in 1 .. n : q[k] = s[b[k]]
        BY <2>3, <2>10 DEF Picked
      <3>2. ASSUME NEW k \in 1 .. n + 1 PROVE t[k] = s[d[k]]
        <4>1. CASE k <= c
          BY <4>1, <3>1, <2>11, <2>9, <2>6
        <4>2. CASE k = c + 1
          <5>1. d[k] = n + 1
            BY <4>2, <2>11, <2>6
          <5>2. t[k] = s[n + 1]
            BY <4>2, <2>9, <2>6
          <5> QED
            BY <5>2, <5>1
        <4>3. CASE k > c + 1
          BY <4>3, <3>1, <2>11, <2>9, <2>6
        <4> QED
          BY <4>3, <4>2, <4>1, <2>6
      <3> QED
        BY <2>11, <3>2 DEF Picked
    <2> QED
      BY <2>13, <2>12, <2>9, <2>8, <2>4, <1>4
  <1>7. N \in P
    <2>1. 0 .. N \subseteq P
      BY <1>5, <1>6, BoundedInductive
    <2> QED
      BY <2>1
  <1> QED
    BY <1>7, <1>4, <1>3, <1>1


\* What is chosen is what s has at these places, each place once.
LEMMA ChosenRange ==
    ASSUME NEW T, NEW s \in Seq(T), NEW places \in SUBSET (1 .. Len(s))
    PROVE  Range(Chosen(s, places)) = {s[m] : m \in places}
  <1>1. PICK t : t = Chosen(s, places)
    OBVIOUS
  <1>2. PICK b \in Bijection(1 .. Len(t), places) : Picked(t, s, b)
    BY <1>1, ChosenPicks
  <1>3. PICK D : D = 1 .. Len(t)
    OBVIOUS
  <1>4. b \in [D -> places] /\ \A m \in places : \E k \in D : b[k] = m
    BY <1>2, <1>3, OneToOne
  <1>5. DOMAIN t = D
    BY <1>1, <1>3, ChosenPicks
  <1>6. \A k \in D : t[k] = s[b[k]]
    BY <1>2, <1>4 DEF Picked
  <1>7. Range(t) = {t[k] : k \in D}
    BY <1>5 DEF Range
  <1>8. {t[k] : k \in D} = {s[m] : m \in places}
    <2>1. ASSUME NEW k \in D PROVE t[k] \in {s[m] : m \in places}
      <3>1. b[k] \in places /\ t[k] = s[b[k]]
        BY <1>4, <1>6
      <3> QED
        BY <3>1
    <2>2. ASSUME NEW m \in places PROVE s[m] \in {t[k] : k \in D}
      <3>1. PICK k \in D : b[k] = m
        BY <1>4
      <3>2. t[k] = s[m]
        BY <1>6, <3>1
      <3> QED
        BY <3>2
    <2> QED
      BY <2>1, <2>2
  <1> QED
    BY <1>8, <1>7, <1>1

\* There are as many chosen entries as places.
LEMMA ChosenLength ==
    ASSUME NEW T, NEW s \in Seq(T), NEW places \in SUBSET (1 .. Len(s))
    PROVE  /\ IsFiniteSet(places) /\ Len(Chosen(s, places)) = Cardinality(places)
           /\ Len(Chosen(s, places)) = Len(s) => places = 1 .. Len(s)
  <1>1. PICK l \in Nat : l = Len(Chosen(s, places))
    BY ChosenPicks
  <1>2. PICK N \in Nat : N = Len(s)
    OBVIOUS
  <1>3. PICK D : D = 1 .. l
    OBVIOUS
  <1>4. PICK b : b \in Bijection(D, places)
    BY <1>1, <1>3, ChosenPicks
  <1>5. PICK E : E = 1 .. N
    OBVIOUS
  <1>6. IsFiniteSet(D) /\ Cardinality(D) = l /\ IsFiniteSet(E) /\ Cardinality(E) = N
    <2>1. IsFiniteSet(1 .. l) /\ Cardinality(1 .. l) = l
      BY ONLY l \in Nat, FS_Interval
    <2>2. IsFiniteSet(1 .. N) /\ Cardinality(1 .. N) = N
      BY ONLY N \in Nat, FS_Interval
    <2> QED
      BY <2>2, <2>1, <1>5, <1>3
  <1>7. IsFiniteSet(places)
    BY <1>6, <1>5, <1>2, FS_Subset
  <1>8. Cardinality(D) = Cardinality(places)
    BY <1>7, <1>6, <1>4, FS_Bijection DEF ExistsBijection
  <1>9. l = N => places = E
    BY <1>8, <1>6, <1>5, <1>2, FS_Subset
  <1> QED
    BY <1>9, <1>8, <1>7, <1>6, <1>5, <1>2, <1>1

\* The first entries of each kind are as many as there are kinds among them.
LEMMA FirstOfKind ==
    ASSUME NEW T, NEW s \in Seq(T), NEW m \in 1 .. Len(s)
    PROVE  \E n \in 1 .. Len(s) : n <= m /\ s[n] = s[m] /\ New(s, n)
  <1>1. PICK P : P = {n \in 1 .. m : s[n] = s[m]}
    OBVIOUS
  <1>2. P \subseteq Nat /\ P # {}
    BY <1>1
  <1>3. PICK n \in P : \A k \in P : n <= k
    BY <1>2, LeastNumber
  <1>4. n \in 1 .. m /\ s[n] = s[m]
    BY <1>1, <1>3
  <1>5. ASSUME NEW k \in 1 .. n - 1, s[k] = s[n] PROVE FALSE
    <2>1. k \in P
      BY <1>5, <1>4, <1>1
    <2> QED
      BY <2>1, <1>4, <1>3
  <1> QED
    BY <1>4, <1>5 DEF New


----
\* What a node has to bear, and where there is room for it.
Asked(order, d) == [i \in DOMAIN order |-> order[i][d]]

\* What the replicas ask for that home puts on k.
Load(order, d, home, k) == Total(Asked(order, d), {i \in DOMAIN home : home[i] = k})

\* A part of the replicas has a finite number of terms, all of them natural.
LEMMA Terms ==
    ASSUME NEW order \in Seq([Dim -> Nat]), NEW d \in Dim, NEW I \in SUBSET DOMAIN order
    PROVE  /\ IsFiniteSet(I) /\ \A i \in I : Asked(order, d)[i] \in Nat
           /\ \A i \in I : Asked(order, d)[i] = order[i][d]
           /\ Total(Asked(order, d), I) \in Nat
  <1>1. PICK N \in Nat : DOMAIN order = 1 .. N
    OBVIOUS
  <1>2. IsFiniteSet(1 .. N)
    BY ONLY N \in Nat, FS_Interval
  <1>3. IsFiniteSet(I)
    BY <1>1, <1>2, FS_Subset
  <1>4. \A i \in I : Asked(order, d)[i] \in Nat /\ Asked(order, d)[i] = order[i][d]
    BY DEF Asked
  <1> QED
    BY <1>3, <1>4, TotalNat

LEMMA RequestIsTotal ==
    ASSUME NEW order, NEW d
    PROVE  Request(order, d) = Total(Asked(order, d), DOMAIN order)
  <1>1. [n \in DOMAIN order |-> order[n][d]] = [n \in DOMAIN order |-> Asked(order, d)[n]]
    BY DEF Asked
  <1> QED
    BY <1>1 DEF Request, Total

\* Placeable in these terms.
LEMMA PlaceableIs ==
    Placeable <=> \E home \in [DOMAIN replicas -> Node] :
                     \A n \in Node, d \in Dim : Load(replicas, d, home, n) <= free[n][d]
  <1>1. ASSUME NEW home \in [DOMAIN replicas -> Node], NEW n \in Node, NEW d \in Dim
        PROVE  SumFunction([r \in {x \in DOMAIN replicas : home[x] = n} |-> replicas[r][d]])
                  = Load(replicas, d, home, n)
    <2>1. PICK I : I = {x \in DOMAIN replicas : home[x] = n}
      OBVIOUS
    <2>2. [r \in I |-> replicas[r][d]] = [r \in I |-> Asked(replicas, d)[r]]
      BY <2>1 DEF Asked
    <2>3. I = {x \in DOMAIN home : home[x] = n}
      BY <2>1
    <2> QED
      BY <2>3, <2>2, <2>1 DEF Load, Total
  <1>2. ASSUME NEW home \in [DOMAIN replicas -> Node]
        PROVE  (\A n \in Node, d \in Dim :
                  SumFunction([r \in {x \in DOMAIN replicas : home[x] = n} |-> replicas[r][d]])
                      <= free[n][d])
               <=> \A n \in Node, d \in Dim : Load(replicas, d, home, n) <= free[n][d]
    BY <1>1
  <1> QED
    BY <1>2 DEF Placeable

\* Nodes report what they have, where they can be read.
Told(nodes) ==
    /\ nodes \in [Node -> [Dim -> SUBSET Nat]]
    /\ \A n \in Node, d \in Dim : nodes[n][d] \subseteq {free[n][d]}

\* Without nodes the totals are the real ones.  With them there is one report of
\* the nodes, and what there is of a dimension that all of them report is real.
Tells(snapshot) ==
    /\ snapshot.nodes = {} => \A d \in Dim : \A t \in snapshot.totals[d] : t.free = Sum(free, d)
    /\ \A nodes \in snapshot.nodes :
          /\ Told(nodes) /\ snapshot.nodes = {nodes}
          /\ \A d \in Dim : (\A n \in Node : nodes[n][d] # {}) =>
                \A t \in snapshot.totals[d] : t.all = Sum(size, d)

\* The provider, and what is asked of it and known about it.
Provider ==
    /\ free \in [Node -> [Dim -> Nat]] /\ size \in [Node -> [Dim -> Nat]]
    /\ replicas \in Profile /\ Tells(capacity)

LEMMA ProviderType ==
    ASSUME Provider
    PROVE  /\ IsFiniteSet(Node)
           /\ replicas \in Seq([Dim -> Nat])
           /\ \E N \in Nat : Node = 1 .. N
           /\ \E R \in Nat \ {0} : DOMAIN replicas = 1 .. R /\ Len(replicas) = R
           /\ Requested(replicas) \subseteq Dim
  <1>1. IsFiniteSet(Node) /\ Node = 1 .. Cardinality(Node) /\ Cardinality(Node) \in Nat
    BY SearchAssumption, FS_CardinalityType
  <1>2. replicas \in Seq([Dim -> Nat]) /\ Requested(replicas) # {}
    BY SearchAssumption DEF Provider
  <1>3. PICK R \in Nat : DOMAIN replicas = 1 .. R /\ Len(replicas) = R
    BY <1>2
  <1>4. R # 0
    <2>1. SUFFICES ASSUME R = 0 PROVE FALSE
      OBVIOUS
    <2>2. PICK d \in Dim : Request(replicas, d) > 0
      BY <1>2 DEF Requested
    <2>3. DOMAIN replicas = {}
      BY <1>3, <2>1
    <2>4. Request(replicas, d) = 0
      BY <2>3, RequestIsTotal, TotalEmpty
    <2> QED
      BY <2>2, <2>4
  <1> QED
    BY <1>4, <1>3, <1>2, <1>1 DEF Requested

\* Replicas that have a place ask for no more than there is.
LEMMA PlaceableRequests ==
    ASSUME Provider, Placeable, NEW d \in Dim
    PROVE  Request(replicas, d) <= Sum(free, d)
  <1>1. PICK home \in [DOMAIN replicas -> Node] :
           \A n \in Node : Load(replicas, d, home, n) <= free[n][d]
    BY PlaceableIs
  <1>2. PICK T : T = DOMAIN replicas
    OBVIOUS
  <1>3. PICK f : f = Asked(replicas, d)
    OBVIOUS
  <1>4. IsFiniteSet(T) /\ (\A i \in T : f[i] \in Nat) /\ IsFiniteSet(Node)
    BY <1>2, <1>3, ProviderType, Terms
  <1>5. PICK g : g = [n \in Node |-> Total(f, {i \in T : home[i] = n})]
    OBVIOUS
  <1>6. Total(g, Node) = Total(f, T)
    <2>1. \A i \in T : home[i] \in Node /\ f[i] \in Int
      BY <1>2, <1>4
    <2> QED
      BY <2>1, <1>5, <1>4, TotalOfParts
  <1>7. PICK h : h = [n \in Node |-> free[n][d]]
    OBVIOUS
  <1>8. ASSUME NEW n \in Node PROVE g[n] \in Int /\ h[n] \in Int /\ g[n] <= h[n]
    <2>1. {i \in T : home[i] = n} = {i \in DOMAIN home : home[i] = n}
      BY <1>2
    <2>2. g[n] = Load(replicas, d, home, n)
      BY <2>1, <1>5, <1>3 DEF Load
    <2>3. g[n] \in Nat
      <3>1. PICK I \in SUBSET T : I = {i \in T : home[i] = n}
        OBVIOUS
      <3>2. Total(f, I) \in Nat
        BY <3>1, <1>3, <1>2, ProviderType, Terms
      <3> QED
        BY <3>2, <3>1, <1>5
    <2>4. h[n] \in Nat /\ h[n] = free[n][d]
      BY <1>7 DEF Provider
    <2> QED
      BY <2>4, <2>3, <2>2, <1>1
  <1>9. Total(g, Node) <= Total(h, Node)
    BY <1>4, <1>8, TotalLess
  <1>10. Total(h, Node) = Sum(free, d)
    <2>1. [n \in Node |-> h[n]] = [n \in Node |-> free[n][d]]
      BY <1>7
    <2> QED
      BY <2>1 DEF Total, Sum
  <1> QED
    BY <1>10, <1>9, <1>6, <1>3, <1>2, RequestIsTotal


----
\* What a snapshot tells of the provider.
LEMMA OnlyElement == ASSUME NEW x PROVE Quantity({x}) = x
  BY DEF Quantity

\* Quantities are numbers, and what is known is a snapshot.
SnapshotTaken ==
    /\ free \in [Node -> [Dim -> Nat]] /\ size \in [Node -> [Dim -> Nat]]
    /\ capacity \in Snapshots

LEMMA ReportTells ==
    ASSUME SnapshotTaken, NEW gaps
    PROVE  Tells(FromProviderStatus(Report(gaps)))
  <1>1. PICK report : report = Report(gaps)
    OBVIOUS
  <1>2. DOMAIN report = Node
    BY <1>1 DEF Report
  <1>3. ASSUME NEW n \in Node, NEW d \in Dim, Counted(report[n][d])
        PROVE  report[n][d].all = {size[n][d]} /\ report[n][d].free = {free[n][d]}
    <2>1. PICK cell : cell = report[n][d]
      OBVIOUS
    <2>2. cell = [all |-> IF <<n, d, "all">> \in gaps THEN {} ELSE {size[n][d]},
                  free |-> IF <<n, d, "free">> \in gaps THEN {}
                           ELSE IF <<n, d, "over">> \in gaps THEN {size[n][d] + 1}
                           ELSE {free[n][d]}]
      BY <1>1, <2>1 DEF Report
    <2>3. cell.all # {} /\ cell.free # {}
      BY <1>3, <2>1 DEF Counted, Usable
    <2>4. cell.all = {size[n][d]}
      BY <2>2, <2>3
    <2>5. cell.free = {size[n][d] + 1} \/ cell.free = {free[n][d]}
      BY <2>2, <2>3
    <2>6. cell.free # {size[n][d] + 1}
      <3>1. SUFFICES ASSUME cell.free = {size[n][d] + 1} PROVE FALSE
        OBVIOUS
      <3>2. Quantity(cell.free) = size[n][d] + 1 /\ Quantity(cell.all) = size[n][d]
        BY <2>4, <3>1, OnlyElement
      <3>3. size[n][d] \in Nat
        BY DEF SnapshotTaken
      <3> QED
        BY <3>3, <3>2, <2>3, <2>1, <1>3 DEF Counted, Overreported, Usable
    <2> QED
      BY <2>6, <2>5, <2>4, <2>1
  <1>4. PICK got : got = FromProviderStatus(report)
    OBVIOUS
  <1>5. CASE got = NoCapacity
    BY <1>5, <1>4, <1>1 DEF NoCapacity, Tells
  <1>6. CASE got # NoCapacity
    <2>. DEFINE Free(cell) == Quantity(cell.free \cup {q \in {0} : cell.free = {}})
                Read == [n \in Node |->
                   [d \in Dim |-> IF Counted(report[n][d]) THEN {Free(report[n][d])} ELSE {}]]
                AllOf(d) == SumFunction([n \in Node |->
                   IF Counted(report[n][d]) THEN Quantity(report[n][d].all) ELSE 0])
    <2>1. /\ got.nodes = {Read}
          /\ \A d \in Dim : \A t \in got.totals[d] : t.all = AllOf(d)
      <3>. DEFINE FreeOf(d) == SumFunction([n \in Node |->
                     IF Counted(report[n][d]) THEN Free(report[n][d]) ELSE 0])
                  Totals == [d \in Dim |->
                     IF \E c \in {report[n][d] : n \in Node} : Overreported(c) THEN {}
                     ELSE {[free |-> FreeOf(d), all |-> AllOf(d)]}]
      <3>1. got = FromTotals(Totals, {Read})
        BY <1>6, <1>4, <1>2 DEF FromProviderStatus
      <3>2. ASSUME NEW d \in Dim, NEW t \in Totals[d] PROVE t.all = AllOf(d)
        <4> HIDE DEF AllOf, FreeOf
        <4>1. t \in {[free |-> FreeOf(d), all |-> AllOf(d)]}
          BY <3>2
        <4> QED
          BY <4>1
      <3> HIDE DEF AllOf, Read, Totals
      <3> QED
        BY <3>1, <3>2 DEF FromTotals
    <2>2. ASSUME NEW n \in Node, NEW d \in Dim
          PROVE  /\ Read[n][d] = IF Counted(report[n][d]) THEN {free[n][d]} ELSE {}
                 /\ Counted(report[n][d]) => Quantity(report[n][d].all) = size[n][d]
      <3>1. CASE Counted(report[n][d])
        <4>1. report[n][d].all = {size[n][d]} /\ report[n][d].free = {free[n][d]}
          BY <1>3, <3>1
        <4>2. report[n][d].free \cup {q \in {0} : report[n][d].free = {}} = {free[n][d]}
          BY <4>1
        <4>3. Free(report[n][d]) = free[n][d] /\ Quantity(report[n][d].all) = size[n][d]
          BY <4>1, <4>2, OnlyElement
        <4> QED
          BY <3>1, <4>3
      <3>2. CASE ~Counted(report[n][d])
        BY <3>2
      <3> QED
        BY <3>1, <3>2
    <2>3. Told(Read)
      <3>1. ASSUME NEW n \in Node, NEW d \in Dim PROVE Read[n][d] \subseteq {free[n][d]} /\ free[n][d] \in Nat
        BY <2>2 DEF SnapshotTaken
      <3>2. Read \in [Node -> [Dim -> SUBSET Nat]]
        <4>1. ASSUME NEW n \in Node PROVE Read[n] \in [Dim -> SUBSET Nat]
          <5>1. \A d \in Dim : Read[n][d] \in SUBSET Nat
            BY <3>1
          <5> QED
            BY <5>1
        <4> QED
          BY <4>1
      <3> QED
        BY <3>1, <3>2 DEF Told
    <2>4. ASSUME NEW d \in Dim, \A n \in Node : Read[n][d] # {} PROVE AllOf(d) = Sum(size, d)
      <3>1. \A n \in Node : Counted(report[n][d]) /\ Quantity(report[n][d].all) = size[n][d]
        BY <2>2, <2>4
      <3>2. [n \in Node |-> IF Counted(report[n][d]) THEN Quantity(report[n][d].all) ELSE 0]
              = [n \in Node |-> size[n][d]]
        BY <3>1
      <3> QED
        BY <3>2 DEF Sum
    <2>5. got.nodes # {} /\ \A nodes \in got.nodes : nodes = Read /\ got.nodes = {nodes}
      BY <2>1
    <2> HIDE DEF Read, AllOf
    <2> QED
      BY <2>5, <2>4, <2>3, <2>1, <1>4, <1>1 DEF Tells
  <1> QED
    BY <1>5, <1>6

LEMMA SnapshotTells ==
    ASSUME SnapshotTaken
    PROVE  Tells(capacity)
  <1>1. ASSUME NEW g \in Gaps, capacity = FromProviderStatus(Report(g)) PROVE Tells(capacity)
    BY <1>1, ReportTells
  <1>3. ASSUME capacity = FromTotals(TotalsOff(0), {}) PROVE Tells(capacity)
    <2>1. capacity.nodes = {}
      BY <1>3 DEF FromTotals
    <2>2. ASSUME NEW d \in Dim, NEW t \in capacity.totals[d] PROVE t.free = Sum(free, d)
      <3>1. t.free \in {Sum(free, d) + 0} \cap (0 .. Sum(size, d))
        BY <1>3 DEF FromTotals, TotalsOff
      <3>2. Sum(free, d) \in Int
        <4>1. PICK f : f = [n \in Node |-> free[n][d]]
          OBVIOUS
        <4>2. \A n \in Node : f[n] \in Int
          BY <4>1 DEF SnapshotTaken
        <4>3. Total(f, Node) \in Int
          BY <4>2, SearchAssumption, TotalType
        <4>4. [n \in Node |-> f[n]] = [n \in Node |-> free[n][d]]
          BY <4>1
        <4> QED
          BY <4>3, <4>4 DEF Total, Sum
      <3> QED
        BY <3>1, <3>2
    <2> QED
      BY <2>1, <2>2 DEF Tells
  <1>4. ASSUME NEW by, NEW g, capacity = FromTotals(TotalsOff(by), {NodesBut(g)})
        PROVE  Tells(capacity)
    <2>1. PICK nodes : nodes = NodesBut(g)
      OBVIOUS
    <2>2. capacity.nodes = {nodes}
      BY <1>4, <2>1 DEF FromTotals
    <2>3. Told(nodes)
      <3>1. ASSUME NEW n \in Node, NEW d \in Dim
            PROVE  nodes[n][d] \subseteq {free[n][d]} /\ free[n][d] \in Nat
        BY <2>1 DEF NodesBut, SnapshotTaken
      <3>2. nodes \in [Node -> [Dim -> SUBSET Nat]]
        <4>1. ASSUME NEW n \in Node PROVE nodes[n] \in [Dim -> SUBSET Nat]
          <5>1. \A d \in Dim : nodes[n][d] \in SUBSET Nat
            BY <3>1
          <5>2. nodes[n] = [d \in Dim |-> nodes[n][d]]
            BY <2>1 DEF NodesBut
          <5> QED
            BY <5>1, <5>2
        <4>2. nodes = [n \in Node |-> nodes[n]]
          BY <2>1 DEF NodesBut
        <4> QED
          BY <4>1, <4>2
      <3> QED
        BY <3>1, <3>2 DEF Told
    <2>4. \A d \in Dim : \A t \in capacity.totals[d] : t.all = Sum(size, d)
      BY <1>4 DEF FromTotals, TotalsOff
    <2> QED
      BY <2>4, <2>3, <2>2 DEF Tells
  <1>5. CASE \E g \in Gaps : capacity = FromProviderStatus(Report(g))
    BY <1>1, <1>5
  <1>6. CASE \E by \in Drift, g \in Gaps : capacity = FromTotals(TotalsOff(by), {NodesBut(g)})
    BY <1>4, <1>6
  <1>7. \/ \E g \in Gaps : capacity = FromProviderStatus(Report(g))
        \/ capacity = FromTotals(TotalsOff(0), {})
        \/ \E by \in Drift, g \in Gaps : capacity = FromTotals(TotalsOff(by), {NodesBut(g)})
    <2>1. \/ capacity \in {FromProviderStatus(Report(g)) : g \in Gaps}
          \/ capacity = FromTotals(TotalsOff(0), {})
          \/ capacity \in {FromTotals(TotalsOff(by), {NodesBut(g)}) : by \in Drift, g \in Gaps}
      <3>. DEFINE A == {FromProviderStatus(Report(g)) : g \in Gaps}
                  B == {FromTotals(TotalsOff(0), {})}
                  C == {FromTotals(TotalsOff(by), {NodesBut(g)}) : by \in Drift, g \in Gaps}
      <3>1. Snapshots = A \cup B \cup C
        BY DEF Snapshots
      <3>2. capacity \in Snapshots
        BY DEF SnapshotTaken
      <3>3. capacity \in B => capacity = FromTotals(TotalsOff(0), {})
        OBVIOUS
      <3> HIDE DEF A, B, C
      <3>4. capacity \in A \/ capacity \in B \/ capacity \in C
        BY <3>1, <3>2
      <3> QED
        BY <3>3, <3>4 DEF A, C
    <2>2. capacity \in {FromProviderStatus(Report(g)) : g \in Gaps}
             => \E g \in Gaps : capacity = FromProviderStatus(Report(g))
      BY Zenon
    <2>3. capacity \in {FromTotals(TotalsOff(by), {NodesBut(g)}) : by \in Drift, g \in Gaps}
             => \E by \in Drift, g \in Gaps : capacity = FromTotals(TotalsOff(by), {NodesBut(g)})
      OBVIOUS
    <2> QED
      BY <2>3, <2>2, <2>1
  <1> QED
    BY <1>7, <1>6, <1>5, <1>3


----
\* The states after the next replica was placed.
States(D) == [placed : Nat, left : Seq([D -> Nat])]

Holds(node, replica) == \A d \in DOMAIN node : replica[d] <= node[d]

\* t is what left is with the replica on n, in another order.
Taken(D, left, n, replica, t) ==
    \E q \in Bijection(1 .. Len(left), 1 .. Len(left)) :
       \A k \in 1 .. Len(left) : \A d \in D :
          t[k][d] = IF q[k] = n THEN left[n][d] - replica[d] ELSE left[q[k]][d]

LEMMA LeftAfterIs ==
    ASSUME NEW D, NEW left \in Seq([D -> Nat]), NEW replica, \A d \in D : replica[d] \in Nat,
           NEW n \in 1 .. Len(left), Holds(left[n], replica)
    PROVE  /\ LeftAfter(left, n, replica) \in Seq([D -> Nat])
           /\ Len(LeftAfter(left, n, replica)) = Len(left)
           /\ Taken(D, left, n, replica, LeftAfter(left, n, replica))
  <1>1. PICK T : T = [D -> Nat]
    OBVIOUS
  <1>2. PICK N \in Nat : N = Len(left)
    OBVIOUS
  <1>3. PICK e : e = [left EXCEPT ![n] = [d \in DOMAIN @ |-> @[d] - replica[d]]]
    OBVIOUS
  <1>4. left[n] \in [D -> Nat] /\ DOMAIN left[n] = D /\ DOMAIN left = 1 .. N
    BY <1>2
  <1>5. PICK x : x = [d \in D |-> left[n][d] - replica[d]]
    OBVIOUS
  <1>6. x \in T
    <2>1. \A d \in D : x[d] \in Nat
      BY <1>4, <1>5 DEF Holds
    <2> QED
      BY <2>1, <1>5, <1>1
  <1>7. e = [left EXCEPT ![n] = x]
    BY <1>5, <1>4, <1>3
  <1>8. e \in Seq(T) /\ Len(e) = N /\ DOMAIN e = 1 .. N
    BY <1>7, <1>6, <1>2, <1>1
  <1>9. \A m \in 1 .. N : e[m] = IF m = n THEN x ELSE left[m]
    BY <1>4, <1>7
  <1>10. PICK t : t = LeftAfter(left, n, replica)
    OBVIOUS
  <1>11. t = Ranked(e, e)
    BY <1>3, <1>10 DEF LeftAfter, Descending
  <1>12. /\ t \in Seq(T) /\ Len(t) = N
         /\ \E q \in Bijection(1 .. N, 1 .. N) : Picked(t, e, q)
    BY <1>8, <1>11, RankedPicks
  <1>13. PICK q \in Bijection(1 .. N, 1 .. N) : Picked(t, e, q)
    BY <1>12
  <1>14. q \in [1 .. N -> 1 .. N]
    <2>1. PICK E : E = 1 .. N
      OBVIOUS
    <2>2. q \in Bijection(E, E)
      BY <1>13, <2>1
    <2>3. q \in [E -> E]
      BY ONLY <2>2, OneToOne
    <2> QED
      BY <2>1, <2>3
  <1>15. ASSUME NEW k \in 1 .. N, NEW d \in D
         PROVE  t[k][d] = IF q[k] = n THEN left[n][d] - replica[d] ELSE left[q[k]][d]
    <2>1. t[k] = e[q[k]] /\ q[k] \in 1 .. N
      BY <1>13, <1>14 DEF Picked
    <2>2. t[k] = IF q[k] = n THEN x ELSE left[q[k]]
      BY <1>9, <2>1
    <2> QED
      BY <1>5, <2>2
  <1> QED
    BY <1>15, <1>13, <1>12, <1>10, <1>2, <1>1 DEF Taken

\* A child is the state with the replica on a node with room for it, and there is
\* one for the first node of every kind with room.
LEMMA ChildrenAre ==
    ASSUME NEW D, NEW st \in States(D), NEW replica, \A d \in D : replica[d] \in Nat
    PROVE  /\ Children(st, replica) \in Seq(States(D))
           /\ \A c \in Range(Children(st, replica)) :
                 \E n \in 1 .. Len(st.left) :
                    /\ Holds(st.left[n], replica)
                    /\ c = Placed(st.placed + 1, LeftAfter(st.left, n, replica))
           /\ \A n \in 1 .. Len(st.left) :
                 Holds(st.left[n], replica) /\ New(st.left, n) =>
                    Placed(st.placed + 1, LeftAfter(st.left, n, replica))
                       \in Range(Children(st, replica))
  <1>1. PICK left \in Seq([D -> Nat]) : left = st.left
    BY DEF States
  <1>2. PICK N \in Nat : N = Len(left)
    OBVIOUS
  <1>3. PICK After : After = [n \in 1 .. N |-> Placed(st.placed + 1, LeftAfter(left, n, replica))]
    OBVIOUS
  <1>4. PICK places : places = {n \in 1 .. N : Holds(left[n], replica) /\ New(left, n)}
    OBVIOUS
  <1>5. PICK t : t = Children(st, replica)
    OBVIOUS
  <1>6. t = Chosen(After, places)
    <2>1. DOMAIN left = 1 .. N
      BY <1>2
    <2> QED
      BY <2>1, <1>5, <1>4, <1>3, <1>1 DEF Children, Holds
  <1>7. PICK T : T = {After[n] : n \in 1 .. N}
    OBVIOUS
  <1>8. After \in Seq(T) /\ Len(After) = N /\ places \subseteq 1 .. N
    BY <1>7, <1>4, <1>3
  <1>9. Range(t) = {After[n] : n \in places} /\ t \in Seq(T)
    BY <1>6, <1>8, ChosenRange, ChosenPicks
  <1>10. ASSUME NEW n \in places
         PROVE  /\ n \in 1 .. N /\ Holds(left[n], replica)
                /\ After[n] = Placed(st.placed + 1, LeftAfter(left, n, replica))
    BY <1>3, <1>4
  <1>11. ASSUME NEW n \in places PROVE After[n] \in States(D)
    <2>1. LeftAfter(left, n, replica) \in Seq([D -> Nat])
      BY <1>2, <1>10, LeftAfterIs
    <2>2. st.placed + 1 \in Nat
      BY DEF States
    <2>3. After[n] = [placed |-> st.placed + 1, left |-> LeftAfter(left, n, replica)]
      BY <1>10 DEF Placed
    <2> QED
      BY ONLY <2>3, <2>2, <2>1 DEF States
  <1>12. t \in Seq(States(D))
    <2>1. \A c \in Range(t) : c \in States(D)
      BY <1>9, <1>11
    <2>2. \A k \in 1 .. Len(t) : t[k] \in States(D)
      BY <1>9, <2>1 DEF Range
    <2>3. DOMAIN t = 1 .. Len(t) /\ Len(t) \in Nat /\ t = [k \in 1 .. Len(t) |-> t[k]]
      BY <1>9
    <2> QED
      BY <2>2, <2>3
  <1>13. ASSUME NEW c \in Range(t)
         PROVE  \E n \in 1 .. N : /\ Holds(left[n], replica)
                                  /\ c = Placed(st.placed + 1, LeftAfter(left, n, replica))
    <2>1. PICK n \in places : c = After[n]
      BY <1>9, <1>13
    <2> QED
      BY <1>10, <2>1
  <1>14. ASSUME NEW n \in 1 .. N, Holds(left[n], replica), New(left, n)
         PROVE  Placed(st.placed + 1, LeftAfter(left, n, replica)) \in Range(t)
    <2>1. n \in places
      BY <1>4, <1>14
    <2> QED
      BY <2>1, <1>10, <1>9
  <1> QED
    BY <1>14, <1>13, <1>12, <1>5, <1>2, <1>1


\* The replicas placed so far have homes, and what is left is what the provider
\* has free without them.
Remains(order, D, K, left, p) ==
    \E places \in SUBSET Node :
       \E b \in Bijection(K, places), home \in [1 .. p -> places] :
          \A k \in K : \A d \in D :
             left[k][d] + Load(order, d, home, b[k]) = free[b[k]][d]

Reached(order, st) ==
    Remains(order, Requested(replicas), DOMAIN st.left, st.left, st.placed)

\* There is a place for the other replicas on what is left.
Suffices(order, D, K, left, p) ==
    \E home \in [p + 1 .. Len(order) -> K] :
       \A k \in K : \A d \in D : Load(order, d, home, k) <= left[k][d]

Viable(order, st) ==
    Suffices(order, Requested(replicas), DOMAIN st.left, st.left, st.placed)

ChildrenIn(order, st) == Children(st, order[st.placed + 1])

LEMMA ChildrenInSequence ==
    ASSUME Provider, NEW order \in Seq([Dim -> Nat]), NEW st \in States(Requested(replicas)),
           st.placed < Len(order)
    PROVE  ChildrenIn(order, st) \in Seq(States(Requested(replicas)))
  <1>1. PICK replica \in [Dim -> Nat] : replica = order[st.placed + 1]
    <2>1. st.placed + 1 \in 1 .. Len(order)
      BY DEF States
    <2> QED
      BY <2>1
  <1>2. \A d \in Requested(replicas) : replica[d] \in Nat
    BY ProviderType
  <1>3. Children(st, replica) \in Seq(States(Requested(replicas)))
    BY <1>2, ChildrenAre
  <1> QED
    BY <1>1, <1>3 DEF ChildrenIn

LEMMA ChildReached ==
    ASSUME Provider, NEW order \in Seq([Dim -> Nat]), NEW st \in States(Requested(replicas)),
           Reached(order, st), st.placed < Len(order), NEW c \in Range(ChildrenIn(order, st))
    PROVE  c.placed = st.placed + 1 /\ Reached(order, c)
  <1>1. PICK D \in SUBSET Dim : D = Requested(replicas)
    BY ProviderType
  <1>2. PICK left \in Seq([D -> Nat]), p \in Nat : left = st.left /\ p = st.placed
    BY <1>1 DEF States
  <1>3. PICK N \in Nat : N = Len(left)
    OBVIOUS
  <1>4. PICK replica \in [Dim -> Nat] : replica = order[p + 1] /\ p + 1 \in DOMAIN order
    BY <1>2
  <1>5. PICK n \in 1 .. N : /\ Holds(left[n], replica)
                            /\ c = Placed(p + 1, LeftAfter(left, n, replica))
    <2>1. st \in States(D) /\ \A d \in D : replica[d] \in Nat
      BY <1>1, <1>4
    <2>2. c \in Range(Children(st, replica))
      BY <1>2, <1>4 DEF ChildrenIn
    <2>3. \E m \in 1 .. Len(st.left) :
             /\ Holds(st.left[m], replica)
             /\ c = Placed(st.placed + 1, LeftAfter(st.left, m, replica))
      BY ONLY <2>1, <2>2, ChildrenAre
    <2> QED
      BY <2>3, <1>3, <1>2
  <1>10. PICK E : E = 1 .. N /\ E = DOMAIN left
    BY <1>3
  <1>6a. PICK places \in SUBSET Node :
           \E b \in Bijection(E, places), home \in [1 .. p -> places] :
              \A k \in E : \A d \in D :
                 left[k][d] + Load(order, d, home, b[k]) = free[b[k]][d]
    <2>1. Remains(order, D, E, left, p)
      BY <1>10, <1>2, <1>1 DEF Reached
    <2> QED
      BY <2>1 DEF Remains
  <1>6. PICK b \in Bijection(E, places), home \in [1 .. p -> places] :
           \A k \in E : \A d \in D :
              left[k][d] + Load(order, d, home, b[k]) = free[b[k]][d]
    BY <1>6a
  <1>7. PICK t : t = LeftAfter(left, n, replica)
    OBVIOUS
  <1>8. /\ t \in Seq([D -> Nat]) /\ Len(t) = N
        /\ \E q \in Bijection(1 .. N, 1 .. N) : \A k \in 1 .. N : \A d \in D :
              t[k][d] = IF q[k] = n THEN left[n][d] - replica[d] ELSE left[q[k]][d]
    <2>1. n \in 1 .. Len(left) /\ Holds(left[n], replica) /\ \A d \in D : replica[d] \in Nat
      BY <1>5, <1>4, <1>3, <1>1
    <2>2. /\ LeftAfter(left, n, replica) \in Seq([D -> Nat])
          /\ Len(LeftAfter(left, n, replica)) = Len(left)
          /\ Taken(D, left, n, replica, LeftAfter(left, n, replica))
      BY ONLY <2>1, left \in Seq([D -> Nat]), LeftAfterIs
    <2> QED
      BY <2>2, <1>7, <1>3 DEF Taken
  <1>9. PICK q \in Bijection(1 .. N, 1 .. N) : \A k \in 1 .. N : \A d \in D :
              t[k][d] = IF q[k] = n THEN left[n][d] - replica[d] ELSE left[q[k]][d]
    BY <1>8
  <1>11. /\ q \in [E -> E] /\ \A x, y \in E : q[x] = q[y] => x = y
         /\ \A m \in E : \E k \in E : q[k] = m
    <2>1. q \in Bijection(E, E)
      BY <1>9, <1>10
    <2> QED
      BY ONLY <2>1, OneToOne
  <1>12. /\ b \in [E -> places] /\ \A x, y \in E : b[x] = b[y] => x = y
         /\ \A m \in places : \E k \in E : b[k] = m
    <2>1. b \in Bijection(E, places)
      BY <1>6, <1>10
    <2> QED
      BY ONLY <2>1, OneToOne
  <1>13. PICK b1 : b1 = [k \in E |-> b[q[k]]]
    OBVIOUS
  <1>14. b1 \in Bijection(E, places)
    <2>1. b1 \in [E -> places]
      BY <1>13, <1>12, <1>11
    <2>2. \A x, y \in E : b1[x] = b1[y] => x = y
      BY <1>13, <1>12, <1>11
    <2>3. ASSUME NEW m \in places PROVE \E k \in E : b1[k] = m
      <3>1. PICK j \in E : b[j] = m
        BY <1>12
      <3>2. PICK k \in E : q[k] = j
        BY <1>11
      <3> QED
        BY <3>2, <3>1, <1>13
    <2> QED
      BY <2>3, <2>2, <2>1, IsBijection
  <1>15. PICK home1 : home1 = [i \in 1 .. p + 1 |-> IF i = p + 1 THEN b[n] ELSE home[i]]
    OBVIOUS
  <1>16. n \in E /\ b[n] \in places
    BY <1>10, <1>12
  <1>17. home1 \in [1 .. p + 1 -> places]
    BY <1>16, <1>15, <1>6
  <1>18. ASSUME NEW m \in E, NEW d \in D
         PROVE  Load(order, d, home1, b[m]) =
                   IF m = n THEN replica[d] + Load(order, d, home, b[m])
                   ELSE Load(order, d, home, b[m])
    <2>1. PICK I : I = {i \in DOMAIN home : home[i] = b[m]}
      OBVIOUS
    <2>2. PICK J : J = {i \in DOMAIN home1 : home1[i] = b[m]}
      OBVIOUS
    <2>3. DOMAIN home = 1 .. p /\ DOMAIN home1 = 1 .. p + 1
      BY <1>6, <1>15
    <2>4. I \subseteq DOMAIN order /\ p + 1 \notin I /\ d \in Dim
      BY <2>3, <2>1, <1>4, <1>2, <1>1
    <2>5. \A i \in 1 .. p + 1 : i \in J <=> (IF i = p + 1 THEN m = n ELSE i \in I)
      BY <2>3, <2>2, <2>1, <1>16, <1>15, <1>12
    <2>6. CASE m = n
      <3>1. J = I \cup {p + 1}
        BY <2>6, <2>5, <2>3, <2>2, <2>1
      <3>2. I \cup {p + 1} \subseteq DOMAIN order
        BY <1>4, <2>4
      <3>3. /\ IsFiniteSet(I) /\ \A i \in I \cup {p + 1} : Asked(order, d)[i] \in Int
            /\ Asked(order, d)[p + 1] = replica[d]
        <4>1. d \in Dim /\ I \cup {p + 1} \in SUBSET DOMAIN order /\ I \in SUBSET DOMAIN order
          BY <2>4, <3>2
        <4>2. /\ IsFiniteSet(I) /\ \A i \in I \cup {p + 1} : Asked(order, d)[i] \in Nat
              /\ \A i \in I \cup {p + 1} : Asked(order, d)[i] = order[i][d]
          BY <4>1, Terms
        <4> QED
          BY <1>4, <4>2
      <3>4. Total(Asked(order, d), I \cup {p + 1}) = replica[d] + Total(Asked(order, d), I)
        BY <2>4, <3>3, TotalAdd
      <3> QED
        BY <3>4, <3>1, <2>6, <2>2, <2>1 DEF Load
    <2>7. CASE m # n
      <3>1. J = I
        BY <2>7, <2>5, <2>3, <2>2, <2>1
      <3> QED
        BY <3>1, <2>7, <2>2, <2>1 DEF Load
    <2> QED
      BY <2>6, <2>7
  <1>19. ASSUME NEW k \in E, NEW d \in D
         PROVE  t[k][d] + Load(order, d, home1, b1[k]) = free[b1[k]][d]
    <2>1. PICK m \in E : m = q[k]
      BY <1>11
    <2>2. b1[k] = b[m]
      BY <1>13, <2>1
    <2>3. left[m][d] + Load(order, d, home, b[m]) = free[b[m]][d]
      BY <1>6, <1>10
    <2>4. t[k][d] = IF m = n THEN left[n][d] - replica[d] ELSE left[m][d]
      BY <2>1, <1>10, <1>9
    <2>5. left[m][d] \in Nat /\ left[n][d] \in Nat /\ replica[d] \in Nat
      <3>1. left[m] \in [D -> Nat] /\ left[n] \in [D -> Nat]
        <4>1. m \in 1 .. N /\ n \in 1 .. N
          BY <1>10
        <4> QED
          BY ONLY <4>1, <1>3, left \in Seq([D -> Nat])
      <3>2. d \in Dim
        BY <1>1
      <3> QED
        BY <3>1, <3>2
    <2>6. Load(order, d, home, b[m]) \in Nat
      <3>1. PICK I : I = {i \in DOMAIN home : home[i] = b[m]}
        OBVIOUS
      <3>2. I \subseteq DOMAIN order /\ d \in Dim
        BY <3>1, <1>6, <1>4, <1>2, <1>1
      <3> QED
        BY <3>1, <3>2, Terms DEF Load
    <2> QED
      BY <2>6, <2>5, <2>4, <2>3, <2>2, <1>18
  <1>20. c.placed = p + 1 /\ c.left = t
    BY <1>5, <1>7 DEF Placed
  <1>21. Reached(order, c)
    <2>1. DOMAIN t = E
      BY <1>8, <1>10
    <2> QED
      <3>1. Remains(order, D, E, t, p + 1)
        BY <1>19, <1>17, <1>14 DEF Remains
      <3> QED
        BY <3>1, <2>1, <1>20, <1>1 DEF Reached
  <1> QED
    BY <1>21, <1>20, <1>2


\* Where the other replicas have a place, they have one after the next was placed
\* too: on the first node that is like the one where it was to be.
LEMMA ViableChild ==
    ASSUME Provider, NEW order \in Seq([Dim -> Nat]), NEW st \in States(Requested(replicas)),
           st.placed < Len(order), Viable(order, st)
    PROVE  \E c \in Range(ChildrenIn(order, st)) : c.placed = st.placed + 1 /\ Viable(order, c)
  <1>1. PICK D \in SUBSET Dim : D = Requested(replicas)
    BY ProviderType
  <1>2. PICK left \in Seq([D -> Nat]), p \in Nat : left = st.left /\ p = st.placed
    BY <1>1 DEF States
  <1>3. PICK N \in Nat : N = Len(left)
    OBVIOUS
  <1>4. PICK replica \in [Dim -> Nat] : replica = order[p + 1] /\ p + 1 \in DOMAIN order
    BY <1>2
  <1>5. PICK E : E = 1 .. N /\ E = DOMAIN left
    BY <1>3
  <1>6. PICK R \in Nat : R = Len(order) /\ p + 1 <= R /\ DOMAIN order = 1 .. R
    BY <1>2
  <1>7. PICK home \in [p + 1 .. R -> E] :
           \A k \in E : \A d \in D : Load(order, d, home, k) <= left[k][d]
    <2>1. Suffices(order, D, E, left, p)
      BY <1>5, <1>2, <1>1 DEF Viable
    <2> QED
      BY <1>6, <2>1 DEF Suffices
  <1>8. PICK h \in E : h = home[p + 1]
    <2>1. p + 1 \in p + 1 .. R
      BY <1>2, <1>6
    <2>2. home[p + 1] \in E
      BY <1>7, <2>1
    <2> QED
      BY <2>2
  <1>9. PICK n \in 1 .. N : left[n] = left[h] /\ New(left, n)
    BY <1>8, <1>5, <1>3, FirstOfKind
  <1>10. \A k \in E : left[k] \in [D -> Nat] /\ \A d \in D : left[k][d] \in Nat
    BY <1>5
  <1>11. PICK rest : rest = [i \in p + 2 .. R |-> home[i]]
    OBVIOUS
  <1>12. ASSUME NEW k \in E, NEW d \in D
         PROVE  /\ Load(order, d, rest, k) \in Nat
                /\ Load(order, d, home, k) = IF k = h THEN replica[d] + Load(order, d, rest, k)
                                             ELSE Load(order, d, rest, k)
    <2>1. PICK I : I = {i \in DOMAIN rest : rest[i] = k}
      OBVIOUS
    <2>2. PICK J : J = {i \in DOMAIN home : home[i] = k}
      OBVIOUS
    <2>3. DOMAIN home = p + 1 .. R /\ DOMAIN rest = p + 2 .. R
      BY <1>7, <1>11
    <2>4. I \subseteq DOMAIN order /\ p + 1 \notin I /\ d \in Dim
      BY <2>3, <2>1, <1>6, <1>1
    <2>5. \A i \in p + 1 .. R : i \in J <=> (IF i = p + 1 THEN k = h ELSE i \in I)
      BY <2>3, <2>2, <2>1, <1>11, <1>8
    <2>6. Load(order, d, rest, k) \in Nat
      BY <2>1, <2>4, Terms DEF Load
    <2>7. CASE k = h
      <3>1. J = I \cup {p + 1}
        BY <2>7, <2>5, <2>3, <2>2, <2>1, <1>6
      <3>2. I \cup {p + 1} \subseteq DOMAIN order
        BY <1>4, <2>4
      <3>3. /\ IsFiniteSet(I) /\ \A i \in I \cup {p + 1} : Asked(order, d)[i] \in Int
            /\ Asked(order, d)[p + 1] = replica[d]
        <4>1. d \in Dim /\ I \cup {p + 1} \in SUBSET DOMAIN order /\ I \in SUBSET DOMAIN order
          BY <2>4, <3>2
        <4>2. /\ IsFiniteSet(I) /\ \A i \in I \cup {p + 1} : Asked(order, d)[i] \in Nat
              /\ \A i \in I \cup {p + 1} : Asked(order, d)[i] = order[i][d]
          BY <4>1, Terms
        <4> QED
          BY <1>4, <4>2
      <3>4. Total(Asked(order, d), I \cup {p + 1}) = replica[d] + Total(Asked(order, d), I)
        BY <2>4, <3>3, TotalAdd
      <3> QED
        BY <3>4, <3>1, <2>7, <2>6, <2>2, <2>1 DEF Load
    <2>8. CASE k # h
      <3>1. J = I
        BY <2>8, <2>5, <2>3, <2>2, <2>1
      <3> QED
        BY <3>1, <2>8, <2>6, <2>2, <2>1 DEF Load
    <2> QED
      BY <2>7, <2>8
  <1>13. \A d \in D : replica[d] \in Nat /\ replica[d] + Load(order, d, rest, h) <= left[h][d]
    BY <1>12, <1>8, <1>7, <1>4, <1>1
  <1>14. Holds(left[n], replica)
    BY <1>13, <1>12, <1>10, <1>9, <1>8 DEF Holds
  <1>15. PICK t : t = LeftAfter(left, n, replica)
    OBVIOUS
  <1>16. t \in Seq([D -> Nat]) /\ Len(t) = N /\ Taken(D, left, n, replica, t)
    <2>1. n \in 1 .. Len(left) /\ Holds(left[n], replica) /\ \A d \in D : replica[d] \in Nat
      BY <1>14, <1>13, <1>9, <1>3
    <2>2. /\ LeftAfter(left, n, replica) \in Seq([D -> Nat])
          /\ Len(LeftAfter(left, n, replica)) = Len(left)
          /\ Taken(D, left, n, replica, LeftAfter(left, n, replica))
      BY ONLY <2>1, left \in Seq([D -> Nat]), LeftAfterIs
    <2> QED
      BY <2>2, <1>15, <1>3
  <1>17. PICK c : c = Placed(p + 1, t)
    OBVIOUS
  <1>18. c \in Range(ChildrenIn(order, st))
    <2>1. st \in States(D) /\ \A d \in D : replica[d] \in Nat
      BY <1>1, <1>13
    <2>2. n \in 1 .. Len(st.left) /\ Holds(st.left[n], replica) /\ New(st.left, n)
      BY <1>14, <1>9, <1>3, <1>2
    <2>3. Placed(st.placed + 1, LeftAfter(st.left, n, replica)) \in Range(Children(st, replica))
      BY ONLY <2>1, <2>2, ChildrenAre
    <2> QED
      BY <2>3, <1>17, <1>15, <1>4, <1>2 DEF ChildrenIn
  <1>19. PICK q \in Bijection(E, E) : \A k \in E : \A d \in D :
              t[k][d] = IF q[k] = n THEN left[n][d] - replica[d] ELSE left[q[k]][d]
    BY <1>16, <1>5, <1>3 DEF Taken
  <1>20. /\ q \in [E -> E] /\ \A x, y \in E : q[x] = q[y] => x = y
         /\ \A m \in E : \E k \in E : q[k] = m
    BY ONLY <1>19, OneToOne
  <1>21. PICK w : w = [m \in E |-> IF m = n THEN h ELSE IF m = h THEN n ELSE m]
    OBVIOUS
  <1>22. n \in E /\ w \in [E -> E] /\ \A m \in E : w[w[m]] = m
    BY <1>21, <1>9, <1>8, <1>5
  <1>23. PICK home1 : home1 = [i \in p + 2 .. R |-> CHOOSE k \in E : q[k] = w[home[i]]]
    OBVIOUS
  <1>24. ASSUME NEW i \in p + 2 .. R
         PROVE  home1[i] \in E /\ q[home1[i]] = w[home[i]] /\ home[i] \in E
    <2>1. i \in p + 1 .. R
      BY <1>2
    <2>2. home[i] \in E /\ w[home[i]] \in E
      BY <2>1, <1>22, <1>7
    <2> QED
      BY <2>2, <1>23, <1>20
  <1>25. ASSUME NEW k \in E, NEW d \in D PROVE Load(order, d, home1, k) <= t[k][d]
    <2>1. PICK m \in E : m = q[k]
      BY <1>20
    <2>2. ASSUME NEW i \in p + 2 .. R PROVE home1[i] = k <=> rest[i] = w[m]
      <3>1. rest[i] = home[i] /\ home[i] \in E /\ home1[i] \in E /\ q[home1[i]] = w[home[i]]
        BY <1>11, <1>24
      <3>2. home1[i] = k <=> w[home[i]] = m
        BY <3>1, <2>1, <1>20
      <3>3. w[home[i]] = m <=> home[i] = w[m]
        BY <3>1, <2>1, <1>22
      <3> QED
        BY <3>3, <3>2, <3>1
    <2>3. DOMAIN home1 = p + 2 .. R /\ DOMAIN rest = p + 2 .. R
      BY <1>11, <1>23
    <2>4. {i \in DOMAIN home1 : home1[i] = k} = {i \in DOMAIN rest : rest[i] = w[m]}
      BY <2>2, <2>3
    <2>5. Load(order, d, home1, k) = Load(order, d, rest, w[m])
      BY <2>4 DEF Load
    <2>6. t[k][d] = IF m = n THEN left[n][d] - replica[d] ELSE left[m][d]
      BY <1>19, <2>1
    <2>7. left[n][d] = left[h][d] /\ left[h][d] \in Nat /\ replica[d] \in Nat
      BY <1>13, <1>10, <1>9
    <2>8. CASE m = n
      <3>1. w[m] = h
        BY <1>21, <2>8
      <3> QED
        BY <3>1, <2>8, <2>7, <2>6, <2>5, <1>13, <1>12, SMTT(30)
    <2>9. CASE m # n
      <3>1. w[m] \in E /\ w[m] # h /\ left[w[m]] = left[m]
        BY <2>9, <1>22, <1>21, <1>9, <1>8
      <3>2. Load(order, d, rest, w[m]) <= left[w[m]][d]
        BY <3>1, <1>12, <1>7
      <3> QED
        BY <3>2, <3>1, <2>9, <2>6, <2>5
    <2> QED
      BY <2>8, <2>9
  <1>26. Viable(order, c)
    <2>1. home1 \in [(p + 1) + 1 .. R -> E]
      <3>1. (p + 1) + 1 = p + 2
        BY <1>2
      <3> QED
        BY <3>1, <1>24, <1>23
    <2>2. Suffices(order, D, E, t, p + 1)
      BY <2>1, <1>25, <1>6 DEF Suffices
    <2>3. c.placed = p + 1 /\ c.left = t /\ DOMAIN t = E
      BY <1>17, <1>16, <1>5 DEF Placed
    <2> QED
      BY <2>3, <2>2, <1>1 DEF Viable
  <1>27. c.placed = st.placed + 1
    BY <1>2, <1>17 DEF Placed
  <1> QED
    BY <1>27, <1>26, <1>18


----
\* Where the search starts, and where it has placed everything.

\* The replicas in another order.
Ordered(order) ==
    /\ order \in Seq([Dim -> Nat]) /\ DOMAIN order = DOMAIN replicas
    /\ \E p \in Bijection(DOMAIN replicas, DOMAIN replicas) : Picked(order, replicas, p)

AllReadable(nodes) == \A n \in Node, d \in Requested(replicas) : nodes[n][d] # {}

LEMMA OrderIs ==
    ASSUME Provider, NEW nodes
    PROVE  Ordered(HardestFirst(replicas, nodes))
  <1>1. PICK R \in Nat : DOMAIN replicas = 1 .. R /\ Len(replicas) = R /\ replicas \in Seq([Dim -> Nat])
    BY ProviderType
  <1>2. PICK keys : HardestFirst(replicas, nodes) = Ranked(replicas, keys)
    BY DEF HardestFirst
  <1>3. PICK T : T = [Dim -> Nat]
    OBVIOUS
  <1>4. PICK order : order = Ranked(replicas, keys)
    OBVIOUS
  <1>5. /\ order \in Seq(T) /\ Len(order) = R
        /\ \E p \in Bijection(1 .. R, 1 .. R) : Picked(order, replicas, p)
    BY <1>4, <1>3, <1>1, RankedPicks
  <1>6. DOMAIN order = 1 .. R
    BY <1>5
  <1> QED
    BY <1>6, <1>5, <1>4, <1>3, <1>2, <1>1 DEF Ordered

\* The nodes of which all requested dimensions can be read.
ReadableAt(nodes) == {n \in Node : \A d \in Requested(replicas) : nodes[n][d] # {}}

\* Node by node in some order, what is free on the readable ones.
IsFree(left, nodes) ==
    \E b \in Bijection(DOMAIN left, ReadableAt(nodes)) :
       \A k \in DOMAIN left, d \in Requested(replicas) : left[k][d] = free[b[k]][d]

LEMMA ReadableIs ==
    ASSUME Provider, NEW nodes, Told(nodes)
    PROVE  /\ ReadableNodes(nodes, replicas) \in Seq([Dim -> SUBSET Nat])
           /\ \E b \in Bijection(1 .. Len(ReadableNodes(nodes, replicas)), ReadableAt(nodes)) :
                 Picked(ReadableNodes(nodes, replicas), nodes, b)
           /\ Len(nodes) = Cardinality(Node)
           /\ Len(ReadableNodes(nodes, replicas)) = Len(nodes) => AllReadable(nodes)
  <1>1. PICK N \in Nat : Node = 1 .. N
    BY ProviderType
  <1>2. PICK T : T = [Dim -> SUBSET Nat]
    OBVIOUS
  <1>3. nodes \in [1 .. N -> T]
    BY <1>1, <1>2 DEF Told
  <1>4. nodes \in Seq(T) /\ Len(nodes) = N /\ DOMAIN nodes = 1 .. N
    BY <1>3
  <1>5. PICK places : places = {n \in Node : \A d \in Requested(replicas) : nodes[n][d] # {}}
    OBVIOUS
  <1>6. ReadableNodes(nodes, replicas) = Chosen(nodes, places)
    BY <1>5, <1>4, <1>1 DEF ReadableNodes
  <1>7. places \in SUBSET (1 .. Len(nodes))
    BY <1>5, <1>4, <1>1
  <1>8. /\ Chosen(nodes, places) \in Seq(T)
        /\ \E b \in Bijection(1 .. Len(Chosen(nodes, places)), places) :
              Picked(Chosen(nodes, places), nodes, b)
    BY <1>4, <1>7, ChosenPicks
  <1>9. /\ Len(Chosen(nodes, places)) = Cardinality(places)
        /\ Len(Chosen(nodes, places)) = Len(nodes) => places = Node
    BY <1>7, <1>4, <1>1, ChosenLength
  <1>10. places = Node => AllReadable(nodes)
    BY <1>5 DEF AllReadable
  <1>11. Cardinality(Node) = N
    <2>1. Cardinality(1 .. N) = N
      BY ONLY N \in Nat, FS_Interval
    <2> QED
      BY <1>1, <2>1
  <1> QED
    <2>1. places = ReadableAt(nodes)
      BY <1>5 DEF ReadableAt
    <2> QED
      BY <2>1, <1>11, <1>10, <1>9, <1>8, <1>6, <1>4, <1>2

\* The search starts with the readable nodes as they are, in another order.
LEMMA StartIs ==
    ASSUME Provider, NEW nodes, Told(nodes)
    PROVE  \E first \in States(Requested(replicas)) :
              /\ Start(nodes) = [order |-> Start(nodes).order, pending |-> <<first>>, seen |-> {first}]
              /\ first.placed = 0
              /\ Ordered(Start(nodes).order)
              /\ IsFree(first.left, nodes)
  <1>1. PICK D \in SUBSET Dim : D = Requested(replicas)
    BY ProviderType
  <1>2. PICK places \in SUBSET Node : /\ places = {n \in Node : \A d \in D : nodes[n][d] # {}}
                                      /\ places = ReadableAt(nodes)
    BY <1>1 DEF ReadableAt
  <1>3. PICK readable : readable = ReadableNodes(nodes, replicas)
    OBVIOUS
  <1>4. PICK L \in Nat : L = Len(readable) /\ DOMAIN readable = 1 .. L
    BY <1>3, ReadableIs
  <1>5. PICK E : E = 1 .. L
    OBVIOUS
  <1>6. PICK b \in Bijection(E, places) : Picked(readable, nodes, b)
    BY <1>5, <1>4, <1>3, <1>2, <1>1, ReadableIs
  <1>7. /\ b \in [E -> places] /\ \A x, y \in E : b[x] = b[y] => x = y
        /\ \A m \in places : \E k \in E : b[k] = m
    BY ONLY <1>6, OneToOne
  <1>8. PICK exact : exact = [n \in DOMAIN readable |-> [d \in D |-> Quantity(readable[n][d])]]
    OBVIOUS
  <1>9. ASSUME NEW k \in E, NEW d \in D PROVE exact[k][d] = free[b[k]][d] /\ exact[k][d] \in Nat
    <2>1. readable[k] = nodes[b[k]] /\ b[k] \in places
      BY <1>6, <1>7 DEF Picked
    <2>2. nodes[b[k]][d] # {} /\ nodes[b[k]][d] \subseteq {free[b[k]][d]}
      BY <1>2, <2>1 DEF Told
    <2>3. nodes[b[k]][d] = {free[b[k]][d]}
      BY <2>2
    <2>4. exact[k][d] = Quantity({free[b[k]][d]})
      BY <2>3, <2>1, <1>8, <1>5, <1>4
    <2>5. free[b[k]][d] \in Nat
      BY <2>1, <1>2, <1>1 DEF Provider
    <2> QED
      BY <2>4, <2>5, OnlyElement
  <1>10. PICK T : T = [D -> Nat]
    OBVIOUS
  <1>11. exact \in Seq(T) /\ Len(exact) = L
    <2>1. ASSUME NEW k \in 1 .. L PROVE exact[k] \in T
      <3>1. exact[k] = [d \in D |-> Quantity(readable[k][d])]
        BY <1>4, <1>8
      <3>2. \A d \in D : exact[k][d] \in Nat
        BY <1>5, <1>9
      <3> QED
        BY <3>2, <3>1, <1>10
    <2>2. exact \in [1 .. L -> T]
      BY <2>1, <1>8, <1>4
    <2> QED
      BY <2>2
  <1>12. PICK left : left = Descending(exact)
    OBVIOUS
  <1>13. /\ left \in Seq(T) /\ Len(left) = L
         /\ \E q \in Bijection(1 .. L, 1 .. L) : Picked(left, exact, q)
    BY <1>11, <1>12, RankedPicks DEF Descending
  <1>14. PICK q \in Bijection(E, E) : Picked(left, exact, q)
    BY <1>5, <1>13
  <1>15. /\ q \in [E -> E] /\ \A x, y \in E : q[x] = q[y] => x = y
         /\ \A m \in E : \E k \in E : q[k] = m
    BY ONLY <1>14, OneToOne
  <1>16. PICK c : c = [k \in E |-> b[q[k]]]
    OBVIOUS
  <1>17. c \in Bijection(E, places)
    <2>1. c \in [E -> places]
      BY <1>16, <1>15, <1>7
    <2>2. \A x, y \in E : c[x] = c[y] => x = y
      BY <1>16, <1>15, <1>7
    <2>3. ASSUME NEW m \in places PROVE \E k \in E : c[k] = m
      <3>1. PICK j \in E : b[j] = m
        BY <1>7
      <3>2. PICK k \in E : q[k] = j
        BY <1>15
      <3> QED
        BY <3>2, <3>1, <1>16
    <2> QED
      BY <2>3, <2>2, <2>1, IsBijection
  <1>18. ASSUME NEW k \in E, NEW d \in D PROVE left[k][d] = free[c[k]][d]
    <2>1. left[k] = exact[q[k]] /\ q[k] \in E
      BY <1>14, <1>15 DEF Picked
    <2> QED
      BY <2>1, <1>16, <1>9
  <1>19. PICK first : first = Placed(0, left)
    OBVIOUS
  <1>20. first.placed = 0 /\ first.left = left /\ first \in States(D) /\ DOMAIN left = E
    BY <1>19, <1>13, <1>10, <1>5 DEF Placed, States
  <1>21. Start(nodes) = [order |-> HardestFirst(replicas, exact), pending |-> <<first>>, seen |-> {first}]
    BY <1>19, <1>12, <1>8, <1>3, <1>1 DEF Start
  <1>22. Ordered(Start(nodes).order) /\ Start(nodes).order = HardestFirst(replicas, exact)
    BY <1>21, OrderIs
  <1>23. IsFree(first.left, nodes)
    <2>1. \E b1 \in Bijection(DOMAIN first.left, places) :
            \A k \in DOMAIN first.left, d \in D : first.left[k][d] = free[b1[k]][d]
      BY <1>20, <1>18, <1>17
    <2> QED
      BY <2>1, <1>2, <1>1, ZenonT(30) DEF IsFree
  <1>24. Start(nodes) = [order |-> Start(nodes).order, pending |-> <<first>>, seen |-> {first}]
    BY <1>21, <1>22
  <1> QED
    BY <1>24, <1>23, <1>22, <1>20, <1>1


LEMMA NothingToBear ==
    ASSUME NEW order, NEW d, NEW home, NEW k, DOMAIN home = {}
    PROVE  Load(order, d, home, k) = 0
  <1>1. {i \in DOMAIN home : home[i] = k} = {}
    OBVIOUS
  <1> QED
    BY <1>1, TotalEmpty DEF Load

LEMMA StartReached ==
    ASSUME Provider, NEW order, NEW nodes, NEW first, first.placed = 0, IsFree(first.left, nodes)
    PROVE  Reached(order, first)
  <1>1. PICK D \in SUBSET Dim : D = Requested(replicas)
    BY ProviderType
  <1>2. PICK left : left = first.left
    OBVIOUS
  <1>3. PICK K : K = DOMAIN left
    OBVIOUS
  <1>4. PICK places \in SUBSET Node : places = ReadableAt(nodes)
    BY DEF ReadableAt
  <1>5. PICK b \in Bijection(K, places) : \A k \in K, d \in D : left[k][d] = free[b[k]][d]
    BY <1>4, <1>3, <1>2, <1>1 DEF IsFree
  <1>6. b \in [K -> places]
    BY ONLY <1>5, OneToOne
  <1>7. PICK home : home = [i \in 1 .. 0 |-> 0]
    OBVIOUS
  <1>8. DOMAIN home = {} /\ home \in [1 .. 0 -> places]
    BY <1>7
  <1>9. ASSUME NEW k \in K, NEW d \in D
        PROVE  left[k][d] + Load(order, d, home, b[k]) = free[b[k]][d]
    <2>1. left[k][d] = free[b[k]][d] /\ free[b[k]][d] \in Nat
      BY <1>6, <1>5, <1>1 DEF Provider
    <2> QED
      BY <1>8, <2>1, NothingToBear
  <1>10. Remains(order, D, K, left, 0)
    BY <1>9, <1>8, <1>5 DEF Remains
  <1> QED
    BY <1>10, <1>3, <1>2, <1>1 DEF Reached

\* What is at home on n is at home on k when it is in another order.
SameAtHome(O, p, home, n, home1, k) ==
    /\ DOMAIN home = O /\ DOMAIN home1 = O
    /\ \A i \in O : home1[i] = k <=> home[p[i]] = n

Reorders(O, p, order) ==
    /\ order \in Seq([Dim -> Nat]) /\ O = DOMAIN order /\ O = DOMAIN replicas
    /\ p \in Bijection(O, O) /\ Picked(order, replicas, p)

\* The load is the same in whatever order the replicas are.
LEMMA LoadReordered ==
    ASSUME Provider, NEW order, NEW O, NEW p, Reorders(O, p, order),
           NEW d \in Dim, NEW home, NEW n, NEW home1, NEW k, SameAtHome(O, p, home, n, home1, k)
    PROVE  Load(order, d, home1, k) = Load(replicas, d, home, n)
  <1>1. PICK I : I = {i \in DOMAIN home1 : home1[i] = k}
    OBVIOUS
  <1>2. /\ order \in Seq([Dim -> Nat]) /\ O = DOMAIN order
        /\ p \in Bijection(O, O) /\ Picked(order, replicas, p)
        /\ DOMAIN home = O /\ DOMAIN home1 = O
    BY DEF Reorders, SameAtHome
  <1>3. PICK P : P = DOMAIN replicas /\ P = O
    BY DEF Reorders
  <1>4. /\ p \in [O -> P] /\ \A x, y \in O : p[x] = p[y] => x = y
        /\ \A m \in P : \E i \in O : p[i] = m
    <2>1. p \in Bijection(O, P)
      BY <1>2, <1>3
    <2> QED
      BY ONLY <2>1, OneToOne
  <1>5. PICK f : f = Asked(order, d)
    OBVIOUS
  <1>6. PICK g : g = Asked(replicas, d)
    OBVIOUS
  <1>7. I \in SUBSET DOMAIN order
    BY <1>1, <1>2
  <1>8. IsFiniteSet(I) /\ \A i \in I : f[i] \in Nat
    BY <1>7, <1>5, <1>2, Terms
  <1>9. \A i \in I : f[i] = g[p[i]]
    <2>1. ASSUME NEW i \in I PROVE f[i] = g[p[i]]
      <3>1. i \in O /\ p[i] \in P /\ DOMAIN p = O
        BY <1>7, <1>4, <1>2
      <3>2. f[i] = order[i][d] /\ g[p[i]] = replicas[p[i]][d]
        BY <3>1, <1>6, <1>5, <1>3, <1>2 DEF Asked
      <3>3. order[i] = replicas[p[i]]
        BY <1>2, <3>1 DEF Picked
      <3> QED
        BY <3>2, <3>3
    <2> QED
      BY <2>1
  <1>10. Total(f, I) = Total(g, {p[i] : i \in I})
    <2>1. \A i, j \in I : p[i] = p[j] => i = j
      BY <1>7, <1>4, <1>2
    <2> QED
      BY ONLY <2>1, <1>9, <1>8, TotalRenumbered
  <1>11. {p[i] : i \in I} = {r \in DOMAIN home : home[r] = n}
    <2>1. ASSUME NEW i \in I PROVE p[i] \in {r \in DOMAIN home : home[r] = n}
      <3>1. i \in O /\ home1[i] = k /\ p[i] \in P
        BY <1>4, <1>2, <1>1
      <3> QED
        BY <3>1, <1>3, <1>2 DEF SameAtHome
    <2>2. ASSUME NEW r \in DOMAIN home, home[r] = n PROVE r \in {p[i] : i \in I}
      <3>1. PICK i \in O : p[i] = r
        BY <1>4, <1>3, <1>2
      <3>2. i \in I
        BY <3>1, <2>2, <1>2, <1>1 DEF SameAtHome
      <3> QED
        BY <3>1, <3>2
    <2> QED
      BY <2>1, <2>2
  <1> QED
    BY <1>11, <1>10, <1>6, <1>5, <1>1 DEF Load

LEMMA StartViable ==
    ASSUME Provider, NEW order, Ordered(order), NEW nodes, AllReadable(nodes),
           NEW first, first.placed = 0, IsFree(first.left, nodes), Placeable
    PROVE  Viable(order, first)
  <1>1. PICK D \in SUBSET Dim : D = Requested(replicas)
    BY ProviderType
  <1>2. PICK left : left = first.left
    OBVIOUS
  <1>3. PICK K : K = DOMAIN left
    OBVIOUS
  <1>4. ReadableAt(nodes) = Node
    BY DEF ReadableAt, AllReadable
  <1>5. PICK b \in Bijection(K, Node) : \A k \in K, d \in D : left[k][d] = free[b[k]][d]
    BY <1>4, <1>3, <1>2, <1>1 DEF IsFree
  <1>6. /\ b \in [K -> Node] /\ \A x, y \in K : b[x] = b[y] => x = y
        /\ \A n \in Node : \E k \in K : b[k] = n
    BY ONLY <1>5, OneToOne
  <1>7. PICK O : O = DOMAIN order /\ O = DOMAIN replicas
    BY DEF Ordered
  <1>8. PICK p \in Bijection(O, O) : Reorders(O, p, order)
    BY <1>7 DEF Ordered, Reorders
  <1>9. p \in [O -> O]
    BY ONLY <1>8, OneToOne
  <1>10. PICK home : /\ DOMAIN home = O /\ \A i \in O : home[i] \in Node
                     /\ \A n \in Node, d \in Dim : Load(replicas, d, home, n) <= free[n][d]
    BY <1>7, PlaceableIs
  <1>11. PICK home1 : home1 = [i \in O |-> CHOOSE k \in K : b[k] = home[p[i]]]
    OBVIOUS
  <1>12. ASSUME NEW i \in O PROVE home1[i] \in K /\ b[home1[i]] = home[p[i]]
    <2>1. home[p[i]] \in Node
      BY <1>9, <1>10
    <2> QED
      BY <2>1, <1>11, <1>6
  <1>13. ASSUME NEW k \in K, NEW d \in D PROVE Load(order, d, home1, k) <= left[k][d]
    <2>1. PICK n \in Node : n = b[k]
      BY <1>6
    <2>2. SameAtHome(O, p, home, n, home1, k)
      BY <2>1, <1>12, <1>11, <1>10, <1>6 DEF SameAtHome
    <2>3. Load(order, d, home1, k) = Load(replicas, d, home, n)
      <3>1. SameAtHome(O, p, home, n, home1, k) /\ d \in Dim
        BY <1>1, <2>2
      <3> QED
        BY ONLY Provider, <3>1, <2>2, <1>8, LoadReordered
    <2>4. Load(replicas, d, home, n) <= free[n][d] /\ left[k][d] = free[n][d]
      BY <2>1, <1>10, <1>5, <1>1
    <2> QED
      BY <2>3, <2>4
  <1>14. home1 \in [0 + 1 .. Len(order) -> K]
    <2>1. O = 0 + 1 .. Len(order)
      BY <1>7 DEF Ordered
    <2> QED
      BY <2>1, <1>12, <1>11
  <1>15. Suffices(order, D, K, left, 0)
    BY <1>13, <1>14 DEF Suffices
  <1> QED
    BY <1>15, <1>3, <1>2, <1>1 DEF Viable

LEMMA FitPlaces ==
    ASSUME Provider, NEW order, Ordered(order), NEW st \in States(Requested(replicas)),
           Reached(order, st), st.placed = Len(order)
    PROVE  Placeable
  <1>1. PICK D \in SUBSET Dim : D = Requested(replicas)
    BY ProviderType
  <1>2. PICK left \in Seq([D -> Nat]) : left = st.left
    BY <1>1 DEF States
  <1>3. PICK K : K = DOMAIN left
    OBVIOUS
  <1>4. PICK O : O = DOMAIN order /\ O = DOMAIN replicas /\ O = 1 .. Len(order)
    BY DEF Ordered
  <1>5. Remains(order, D, K, left, Len(order))
    BY <1>3, <1>2, <1>1 DEF Reached
  <1>6. PICK places \in SUBSET Node :
           \E b \in Bijection(K, places), home \in [O -> places] :
              \A k \in K : \A d \in D : left[k][d] + Load(order, d, home, b[k]) = free[b[k]][d]
    BY <1>4, <1>5 DEF Remains
  <1>7. PICK b \in Bijection(K, places), home1 \in [O -> places] :
           \A k \in K : \A d \in D : left[k][d] + Load(order, d, home1, b[k]) = free[b[k]][d]
    BY <1>6
  <1>8. b \in [K -> places] /\ \A n \in places : \E k \in K : b[k] = n
    BY ONLY <1>7, OneToOne
  <1>9. PICK p \in Bijection(O, O) : Reorders(O, p, order)
    BY <1>4 DEF Ordered, Reorders
  <1>10. /\ p \in [O -> O] /\ \A x, y \in O : p[x] = p[y] => x = y
         /\ \A r \in O : \E i \in O : p[i] = r
    BY ONLY <1>9, OneToOne
  <1>11. PICK home : home = [r \in O |-> home1[CHOOSE i \in O : p[i] = r]]
    OBVIOUS
  <1>12. ASSUME NEW r \in O PROVE home[r] \in places
    <2>1. (CHOOSE i \in O : p[i] = r) \in O
      BY <1>10
    <2> QED
      BY <2>1, <1>11, <1>7
  <1>13. ASSUME NEW i \in O PROVE home[p[i]] = home1[i]
    <2>1. (CHOOSE j \in O : p[j] = p[i]) = i
      BY <1>10
    <2>2. p[i] \in O
      BY <1>10
    <2> QED
      BY <2>2, <2>1, <1>11
  <1>14. ASSUME NEW n \in Node, NEW d \in Dim PROVE Load(replicas, d, home, n) <= free[n][d]
    <2>1. Load(order, d, home1, n) = Load(replicas, d, home, n)
      <3>1. SameAtHome(O, p, home, n, home1, n)
        BY <1>13, <1>11, <1>7 DEF SameAtHome
      <3> QED
        BY ONLY Provider, d \in Dim, <1>9, <3>1, LoadReordered
    <2>2. free[n][d] \in Nat
      BY DEF Provider
    <2>3. PICK I \in SUBSET O : I = {i \in DOMAIN home1 : home1[i] = n}
      BY <1>7
    <2>4. Total(Asked(order, d), I) \in Nat /\ Load(order, d, home1, n) = Total(Asked(order, d), I)
      <3>1. I \in SUBSET DOMAIN order /\ order \in Seq([Dim -> Nat])
        BY <1>4 DEF Ordered
      <3> QED
        BY <2>3, <3>1, Terms DEF Load
    <2>5. CASE n \notin places
      <3>1. I = {}
        BY <2>5, <2>3, <1>7
      <3> QED
        BY <3>1, <2>4, <2>2, <2>1, TotalEmpty
    <2>6. CASE n \in places /\ d \in D
      <3>1. PICK k \in K : b[k] = n
        BY <1>8, <2>6
      <3>2. left[k][d] + Load(order, d, home1, n) = free[n][d] /\ left[k][d] \in Nat
        BY <3>1, <2>6, <1>7, <1>3
      <3> QED
        BY <3>2, <2>4, <2>2, <2>1
    <2>7. CASE d \notin D
      <3>1. PICK V \in SUBSET O : V = {r \in DOMAIN home : home[r] = n}
        BY <1>11
      <3>2. /\ IsFiniteSet(O) /\ \A r \in O : Asked(replicas, d)[r] \in Nat
            /\ Total(Asked(replicas, d), O) \in Nat
        BY <1>4, ProviderType, Terms
      <3>3. Total(Asked(replicas, d), V) <= Total(Asked(replicas, d), O)
        BY <3>2, TotalPart
      <3>4. Total(Asked(replicas, d), O) = Request(replicas, d)
        BY <1>4, RequestIsTotal
      <3>5. ~(Request(replicas, d) > 0)
        BY <1>1, <2>7 DEF Requested
      <3> QED
        BY <3>5, <3>4, <3>3, <3>2, <3>1, <2>4, <2>2, <2>1 DEF Load
    <2> QED
      BY <2>7, <2>6, <2>5
  <1>15. home \in [DOMAIN replicas -> Node]
    BY <1>12, <1>11, <1>4
  <1> QED
    BY <1>14, <1>15, PlaceableIs


----
\* The search.

\* A state that was seen is still to be gone on from, or its children are seen.
Closed(s) ==
    \A st \in s.seen : \/ \E i \in 1 .. Len(s.pending) : s.pending[i] = st
                       \/ st.placed < Len(s.order) /\ Range(ChildrenIn(s.order, st)) \subseteq s.seen

\* If all nodes are readable and there is a place for every replica, some state
\* that was seen leads to one.
Kept(s) ==
    \A nodes \in capacity.nodes :
       AllReadable(nodes) /\ Placeable => \E st \in s.seen : Viable(s.order, st)

Searching(s) ==
    /\ s \in [order : Seq([Dim -> Nat]), pending : Seq(States(Requested(replicas))),
              seen : SUBSET States(Requested(replicas))]
    /\ Ordered(s.order)
    /\ IsFiniteSet(s.seen) /\ Cardinality(s.seen) <= StateLimit
    /\ \A i \in 1 .. Len(s.pending) : s.pending[i] \in s.seen
    /\ \A st \in s.seen : Reached(s.order, st) /\ st.placed <= Len(s.order)
    /\ Closed(s) /\ Kept(s)

LEMMA StartSearching ==
    ASSUME Provider, NEW nodes \in capacity.nodes
    PROVE  /\ Searching(Start(nodes))
           /\ Len(Start(nodes).pending) = 1 /\ Cardinality(Start(nodes).seen) = 1
  <1>1. PICK s : s = Start(nodes)
    OBVIOUS
  <1>2. Told(nodes) /\ capacity.nodes = {nodes}
    BY DEF Provider, Tells
  <1>3. PICK first \in States(Requested(replicas)) :
           /\ s = [order |-> s.order, pending |-> <<first>>, seen |-> {first}]
           /\ first.placed = 0 /\ Ordered(s.order) /\ IsFree(first.left, nodes)
    BY <1>1, <1>2, StartIs
  <1>4. s.pending = <<first>> /\ s.seen = {first}
    BY <1>3
  <1>5. s \in [order : Seq([Dim -> Nat]), pending : Seq(States(Requested(replicas))),
               seen : SUBSET States(Requested(replicas))]
    <2>1. s.order \in Seq([Dim -> Nat])
      BY <1>3 DEF Ordered
    <2>2. PICK p \in Seq(States(Requested(replicas))) : p = <<first>>
      <3>1. PICK T : T = States(Requested(replicas)) /\ first \in T
        OBVIOUS
      <3>2. <<first>> \in Seq(T)
        BY ONLY <3>1
      <3> QED
        BY <3>1, <3>2
    <2>3. PICK o \in Seq([Dim -> Nat]) : o = s.order
      BY <2>1
    <2>4. s = [order |-> o, pending |-> p, seen |-> {first}]
      BY <2>3, <2>2, <1>3
    <2> QED
      BY ONLY <2>4, first \in States(Requested(replicas)), p \in Seq(States(Requested(replicas))),
              o \in Seq([Dim -> Nat])
  <1>6. IsFiniteSet(s.seen) /\ Cardinality(s.seen) = 1
    BY <1>4, FS_Singleton
  <1>7. Len(s.pending) = 1 /\ s.pending[1] = first
    BY <1>4
  <1>8. Reached(s.order, first) /\ first.placed <= Len(s.order)
    <2>1. Reached(s.order, first)
      BY <1>3, StartReached
    <2>2. s.order \in Seq([Dim -> Nat])
      BY <1>3 DEF Ordered
    <2> QED
      BY <2>2, <2>1, <1>3
  <1>9. Closed(s)
    BY <1>4, <1>7 DEF Closed
  <1>10. Kept(s)
    <2>1. SUFFICES ASSUME AllReadable(nodes), Placeable PROVE Viable(s.order, first)
      BY <1>2, <1>4 DEF Kept
    <2> QED
      BY <1>3, <2>1, StartViable
  <1>11. 1 <= StateLimit
    BY SearchAssumption
  <1> QED
    BY <1>1, <1>3, <1>4, <1>5, <1>6, <1>7, <1>8, <1>9, <1>10, <1>11 DEF Searching

\* What is chosen of the children are the new ones, each once.
LEMMA FreshAre ==
    ASSUME NEW T, NEW next \in Seq(T), NEW seen
    PROVE  /\ Fresh(next, seen) \in Seq(T) /\ Range(Fresh(next, seen)) = Range(next) \ seen
           /\ IsFiniteSet(Range(Fresh(next, seen)))
           /\ Cardinality(Range(Fresh(next, seen))) = Len(Fresh(next, seen))
  <1>. PICK fresh : fresh = Fresh(next, seen)
    OBVIOUS
  <1>1. PICK places \in SUBSET (1 .. Len(next)) :
           places = {n \in 1 .. Len(next) : New(next, n) /\ next[n] \notin seen}
    OBVIOUS
  <1>2. fresh = Chosen(next, places)
    <2>1. DOMAIN next = 1 .. Len(next)
      OBVIOUS
    <2> QED
      BY <1>1, <2>1 DEF Fresh
  <1>3. fresh \in Seq(T)
    BY <1>2, ChosenPicks
  <1>4. Range(fresh) = {next[m] : m \in places}
    BY <1>2, ChosenRange
  <1>5. IsFiniteSet(places) /\ Len(fresh) = Cardinality(places)
    BY <1>2, ChosenLength
  <1>6. PICK f : f = [m \in places |-> next[m]]
    OBVIOUS
  <1>7. f \in Bijection(places, Range(fresh))
    <2>1. ASSUME NEW m \in places, NEW n \in places, next[m] = next[n] PROVE m = n
      <3>1. m \in 1 .. Len(next) /\ n \in 1 .. Len(next) /\ New(next, m) /\ New(next, n)
        BY <1>1
      <3>2. CASE m < n
        <4>1. m \in 1 .. n - 1
          BY <3>1, <3>2
        <4> QED
          BY <4>1, <3>1, <2>1 DEF New
      <3>3. CASE n < m
        <4>1. n \in 1 .. m - 1
          BY <3>1, <3>3
        <4> QED
          BY <4>1, <3>1, <2>1 DEF New
      <3> QED
        BY <3>3, <3>2, <3>1
    <2>2. f \in [places -> Range(fresh)]
      BY <1>4, <1>6
    <2>3. \A m, n \in places : f[m] = f[n] => m = n
      BY <1>6, <2>1
    <2>4. \A x \in Range(fresh) : \E m \in places : f[m] = x
      BY <1>4, <1>6
    <2> QED
      BY <2>4, <2>3, <2>2, IsBijection
  <1>8. IsFiniteSet(Range(fresh)) /\ Cardinality(Range(fresh)) = Cardinality(places)
    BY <1>5, <1>7, FS_Bijection DEF ExistsBijection
  <1>9. Range(fresh) = Range(next) \ seen
    <2>1. Range(next) = {next[m] : m \in 1 .. Len(next)}
      BY DEF Range
    <2>2. ASSUME NEW x \in Range(fresh) PROVE x \in Range(next) \ seen
      <3>1. PICK m \in places : x = next[m]
        BY <1>4
      <3> QED
        BY <3>1, <2>1, <1>1
    <2>3. ASSUME NEW x \in Range(next), x \notin seen PROVE x \in Range(fresh)
      <3>1. PICK m \in 1 .. Len(next) : x = next[m]
        BY <2>1
      <3>2. PICK n \in 1 .. Len(next) : next[n] = x /\ New(next, n)
        BY <3>1, FirstOfKind
      <3>3. n \in places
        BY <3>2, <2>3, <1>1
      <3> QED
        BY <3>3, <3>2, <1>4
    <2> QED
      BY <2>2, <2>3
  <1> QED
    BY <1>9, <1>8, <1>5, <1>3


\* To go on from the last pending state keeps the search sound.
LEMMA ExpandedSearching ==
    ASSUME Provider, NEW s, Searching(s), s.pending # <<>>,
           NEW state, state = s.pending[Len(s.pending)], state.placed # Len(s.order),
           NEW fresh, fresh = Fresh(ChildrenIn(s.order, state), s.seen),
           Cardinality(s.seen) + Len(fresh) <= StateLimit
    PROVE  /\ Searching(Expanded(s, fresh))
           /\ Len(Expanded(s, fresh).pending) = (Len(s.pending) - 1) + Len(fresh)
           /\ Cardinality(Expanded(s, fresh).seen) = Cardinality(s.seen) + Len(fresh)
  <1>1. PICK T : T = States(Requested(replicas))
    OBVIOUS
  <1>2. PICK order \in Seq([Dim -> Nat]) : order = s.order /\ Ordered(order)
    BY DEF Searching
  <1>3. PICK pending \in Seq(T) : pending = s.pending /\ pending # <<>>
    BY <1>1 DEF Searching
  <1>4. PICK seen \in SUBSET T : seen = s.seen
    BY <1>1 DEF Searching
  <1>5. /\ IsFiniteSet(seen) /\ \A i \in 1 .. Len(pending) : pending[i] \in seen
        /\ \A st \in seen : Reached(order, st) /\ st.placed <= Len(order)
    BY <1>4, <1>3, <1>2 DEF Searching
  <1>6. PICK l \in Nat : l + 1 = Len(pending)
    <2>1. Len(pending) \in Nat /\ Len(pending) # 0
      BY <1>3
    <2>2. Len(pending) - 1 \in Nat /\ (Len(pending) - 1) + 1 = Len(pending)
      BY <2>1
    <2> QED
      BY <2>2
  <1>7. state = pending[l + 1] /\ state \in seen /\ state \in T
    BY <1>6, <1>5, <1>4, <1>3
  <1>8. state.placed < Len(order)
    <2>1. state.placed <= Len(order) /\ state.placed \in Nat /\ Len(order) \in Nat
      BY <1>7, <1>5, <1>2, <1>1 DEF States
    <2> QED
      BY <1>2, <2>1
  <1>9. PICK next : next = ChildrenIn(order, state)
    OBVIOUS
  <1>10. next \in Seq(T)
    BY <1>9, <1>8, <1>7, <1>1, ChildrenInSequence
  <1>11. /\ fresh \in Seq(T) /\ Range(fresh) = Range(next) \ seen
         /\ IsFiniteSet(Range(fresh)) /\ Cardinality(Range(fresh)) = Len(fresh)
    <2>1. fresh = Fresh(next, seen)
      BY <1>9, <1>4, <1>2
    <2> QED
      BY <1>10, <2>1, FreshAre
  <1>12. PICK m \in Nat : m = Len(fresh)
    BY <1>11
  <1>13. PICK front : front = Front(pending)
    OBVIOUS
  <1>14. front \in Seq(T) /\ Len(front) = l /\ \A i \in 1 .. l : front[i] = pending[i]
    <2>1. front = SubSeq(pending, 1, l)
      BY <1>6, <1>13 DEF Front
    <2> QED
      BY <1>6, <2>1
  <1>15. PICK pending1 : pending1 = front \o fresh
    OBVIOUS
  <1>16. /\ pending1 \in Seq(T) /\ Len(pending1) = l + m
         /\ \A i \in 1 .. l + m : pending1[i] = IF i <= l THEN front[i] ELSE fresh[i - l]
    BY <1>15, <1>14, <1>12, <1>11, ConcatProperties
  <1>17. PICK seen1 : seen1 = seen \cup Range(fresh)
    OBVIOUS
  <1>18. PICK s1 : s1 = Expanded(s, fresh)
    OBVIOUS
  <1>19. s1.order = order /\ s1.pending = pending1 /\ s1.seen = seen1
    BY <1>18, <1>17, <1>15, <1>13, <1>4, <1>3, <1>2 DEF Expanded, Searching
  <1>20. \A x \in Range(fresh) : x \in T /\ \E i \in 1 .. m : fresh[i] = x
    BY <1>11, <1>12 DEF Range
  <1>21. s1 \in [order : Seq([Dim -> Nat]), pending : Seq(States(Requested(replicas))),
                 seen : SUBSET States(Requested(replicas))]
    <2>1. seen1 \in SUBSET T
      BY <1>17, <1>20
    <2>2. s1 = [order |-> order, pending |-> pending1, seen |-> seen1]
      BY <1>18, <1>17, <1>15, <1>13, <1>4, <1>3, <1>2 DEF Expanded, Searching
    <2> QED
      BY <2>2, <2>1, <1>16, <1>1
  <1>22. IsFiniteSet(seen1) /\ Cardinality(seen1) = Cardinality(seen) + m
    <2>1. seen \cap Range(fresh) = {}
      BY <1>11
    <2>2. Cardinality(seen \cap Range(fresh)) = 0
      BY <2>1, FS_EmptySet
    <2>3. /\ IsFiniteSet(seen1)
          /\ Cardinality(seen1) = Cardinality(seen) + Cardinality(Range(fresh))
                                    - Cardinality(seen \cap Range(fresh))
      BY <1>17, <1>11, <1>5, FS_Union
    <2>4. Cardinality(seen) \in Nat
      BY <1>5, FS_CardinalityType
    <2> QED
      BY <2>4, <2>3, <2>2, <1>12, <1>11
  <1>23. ASSUME NEW i \in 1 .. l + m PROVE pending1[i] \in seen1
    <2>1. CASE i <= l
      <3>1. i \in 1 .. l /\ i \in 1 .. Len(pending)
        BY <1>6, <2>1
      <3> QED
        BY <3>1, <2>1, <1>17, <1>16, <1>14, <1>5
    <2>2. CASE i > l
      <3>1. i - l \in 1 .. m /\ pending1[i] = fresh[i - l]
        BY <1>16, <2>2
      <3>2. fresh[i - l] \in Range(fresh)
        BY <3>1, <1>12, <1>11 DEF Range
      <3> QED
        BY <3>2, <3>1, <1>17
    <2> QED
      BY <2>1, <2>2
  <1>24. ASSUME NEW st \in seen1 PROVE Reached(order, st) /\ st.placed <= Len(order)
    <2>1. CASE st \in seen
      BY <1>5, <2>1
    <2>2. CASE st \in Range(fresh)
      <3>1. st \in Range(ChildrenIn(order, state)) /\ Reached(order, state)
        BY <2>2, <1>11, <1>9, <1>7, <1>5
      <3>2. state \in States(Requested(replicas))
        BY <1>1, <1>7
      <3>3. st.placed = state.placed + 1 /\ Reached(order, st)
        BY <3>2, <3>1, <1>8, ChildReached
      <3>4. state.placed \in Nat /\ Len(order) \in Nat
        BY <3>2 DEF States
      <3> QED
        BY <3>4, <3>3, <1>8
    <2> QED
      BY <2>2, <2>1, <1>17
  <1>25. Closed(s1)
    <2>1. ASSUME NEW st \in seen1
          PROVE  \/ \E i \in 1 .. l + m : pending1[i] = st
                 \/ st.placed < Len(order) /\ Range(ChildrenIn(order, st)) \subseteq seen1
      <3>1. CASE st \in Range(fresh)
        <4>1. PICK i \in 1 .. m : fresh[i] = st
          BY <1>20, <3>1
        <4>2. l + i \in 1 .. l + m /\ ~(l + i <= l) /\ (l + i) - l = i
          OBVIOUS
        <4>3. pending1[l + i] = st
          BY <4>2, <4>1, <1>16
        <4> QED
          BY <4>2, <4>3
      <3>2. CASE st = state
        <4>1. Range(next) \subseteq seen1
          BY <1>11, <1>17
        <4> QED
          BY <4>1, <3>2, <1>9, <1>8
      <3>3. CASE st \in seen /\ st # state
        <4>1. \/ \E i \in 1 .. Len(pending) : pending[i] = st
              \/ st.placed < Len(order) /\ Range(ChildrenIn(order, st)) \subseteq seen
          BY <3>3, <1>4, <1>3, <1>2 DEF Searching, Closed
        <4>2. CASE \E i \in 1 .. Len(pending) : pending[i] = st
          <5>1. PICK i \in 1 .. Len(pending) : pending[i] = st
            BY <4>2
          <5>2. i # l + 1
            BY <5>1, <3>3, <1>7
          <5>3. i \in 1 .. l /\ i \in 1 .. l + m
            BY <1>6, <5>2
          <5>4. pending1[i] = st
            BY <5>3, <5>1, <1>16, <1>14
          <5> QED
            BY <5>3, <5>4
        <4>3. CASE st.placed < Len(order) /\ Range(ChildrenIn(order, st)) \subseteq seen
          BY <1>17, <4>3
        <4> QED
          BY <4>3, <4>2, <4>1
      <3> QED
        BY <3>3, <3>2, <3>1, <1>17
    <2> QED
      BY <2>1, <1>19, <1>16 DEF Closed
  <1>26. Kept(s1)
    <2>1. Kept(s)
      BY DEF Searching
    <2> QED
      BY <2>1, <1>19, <1>17, <1>4, <1>2 DEF Kept
  <1>27. Searching(s1)
    <2>1. Cardinality(s1.seen) <= StateLimit
      BY <1>22, <1>19, <1>12, <1>4
    <2>2. \A i \in 1 .. Len(s1.pending) : s1.pending[i] \in s1.seen
      BY <1>23, <1>19, <1>16
    <2> QED
      BY <2>2, <2>1, <1>26, <1>25, <1>24, <1>22, <1>21, <1>19, <1>2 DEF Searching
  <1>28. Len(s1.pending) = (Len(s.pending) - 1) + Len(fresh)
    <2>1. Len(s.pending) = l + 1
      BY <1>3, <1>6
    <2>2. Len(s1.pending) = l + m
      BY <1>16, <1>19
    <2> QED
      BY <2>2, <2>1, <1>12
  <1> QED
    BY <1>28, <1>27, <1>22, <1>19, <1>18, <1>12, <1>4


\* Every state that was seen has its children seen too, when none is pending.
LEMMA Exhausted ==
    ASSUME Provider, NEW s, Searching(s), s.pending = <<>>,
           NEW nodes \in capacity.nodes, AllReadable(nodes)
    PROVE  ~Placeable
  <1>. SUFFICES ASSUME Placeable PROVE FALSE
    OBVIOUS
  <1>1. PICK order \in Seq([Dim -> Nat]) : order = s.order
    BY DEF Searching
  <1>2. PICK seen \in SUBSET States(Requested(replicas)) : seen = s.seen
    BY DEF Searching
  <1>3. PICK first \in seen : Viable(order, first)
    BY <1>1, <1>2 DEF Searching, Kept
  <1>4. ASSUME NEW st \in seen PROVE st.placed < Len(order) /\ Range(ChildrenIn(order, st)) \subseteq seen
    <2>1. 1 .. Len(s.pending) = {}
      OBVIOUS
    <2> QED
      BY <2>1, <1>2, <1>1 DEF Searching, Closed
  <1>5. PICK P : P = {n \in Nat : \E st \in seen : Viable(order, st) /\ n <= st.placed}
    OBVIOUS
  <1>6. \A st \in seen : st.placed \in Nat
    BY DEF States
  <1>7. 0 \in P
    <2>1. 0 <= first.placed
      BY <1>3, <1>6
    <2> QED
      BY <2>1, <1>5, <1>3
  <1>8. ASSUME NEW n \in Nat, n \in P PROVE n + 1 \in P
    <2>1. PICK st \in seen : Viable(order, st) /\ n <= st.placed
      BY <1>5, <1>8
    <2>2. PICK c \in Range(ChildrenIn(order, st)) : c.placed = st.placed + 1 /\ Viable(order, c)
      BY <1>4, <2>1, ViableChild
    <2>3. c \in seen /\ n + 1 <= c.placed
      BY <2>2, <2>1, <1>6, <1>4
    <2> QED
      BY <2>3, <2>2, <1>5
  <1>9. Len(order) \in P
    <2>1. Nat \subseteq P
      BY <1>7, <1>8, NatInductive
    <2> QED
      BY <2>1
  <1>10. PICK st \in seen : Len(order) <= st.placed
    BY <1>5, <1>9
  <1> QED
    BY <1>10, <1>6, <1>4

----
\* What a verdict rests on.

\* Where every node is readable and nothing contradicts, the totals are real.
LEMMA TotalsAreReal ==
    ASSUME Provider, NEW nodes \in capacity.nodes, AllReadable(nodes),
           FitBeforePlacement(capacity, replicas) = {}, ExactNodes(nodes, replicas),
           NEW d \in Requested(replicas)
    PROVE  /\ capacity.totals[d] # {}
           /\ \A t \in capacity.totals[d] : t.free = Sum(free, d) /\ t.all = Sum(size, d)
  <1>1. Readable(capacity, replicas) /\ ~Contradicts(capacity, nodes, replicas)
    BY DEF FitBeforePlacement
  <1>2. capacity.totals[d] # {}
    BY <1>1 DEF Readable
  <1>3. d \in Dim
    BY DEF Requested
  <1>4. Told(nodes) /\ DOMAIN nodes = Node
    BY DEF Provider, Tells, Told
  <1>5. \A n \in Node : nodes[n][d] # {} /\ nodes[n][d] = {free[n][d]}
    BY <1>3, <1>4 DEF AllReadable, Told
  <1>6. \A t \in capacity.totals[d] : t.all = Sum(size, d)
    BY <1>3, <1>5 DEF Provider, Tells
  <1>7. ASSUME NEW t \in capacity.totals[d] PROVE t.free = Sum(free, d)
    <2>1. PICK reported : reported = {n \in DOMAIN nodes : nodes[n][d] # {}}
      OBVIOUS
    <2>2. reported = Node
      BY <2>1, <1>5, <1>4
    <2>3. \A n \in reported : Exact(Quantity(nodes[n][d]))
      BY <2>2, <1>4 DEF ExactNodes, AllReadable
    <2>4. reported = DOMAIN nodes => SumFunction([n \in reported |-> Quantity(nodes[n][d])]) = t.free
      BY <2>3, <2>1, <1>1 DEF Contradicts
    <2>5. SumFunction([n \in Node |-> Quantity(nodes[n][d])]) = t.free
      BY <2>4, <2>2, <1>4
    <2>6. [n \in Node |-> Quantity(nodes[n][d])] = [n \in Node |-> free[n][d]]
      BY <1>5, OnlyElement
    <2> QED
      BY <2>5, <2>6 DEF Sum
  <1> QED
    BY <1>7, <1>6, <1>2

\* To find a place is to conclude that the group fits, or that it cannot be known.
LEMMA FitConclusion ==
    ASSUME Provider, NEW nodes \in capacity.nodes, Placeable,
           FitBeforePlacement(capacity, replicas) = {}, ExactNodes(nodes, replicas)
    PROVE  FitAfterPlacement(capacity, nodes, replicas, "FIT") # "INSUFFICIENT"
  <1>1. SUFFICES ASSUME Len(ReadableNodes(nodes, replicas)) = Len(nodes)
                 PROVE  AggregateFits(capacity, replicas)
    BY DEF FitAfterPlacement
  <1>2. Told(nodes)
    BY DEF Provider, Tells
  <1>3. AllReadable(nodes)
    BY <1>1, <1>2, ReadableIs
  <1>4. ASSUME NEW d \in Requested(replicas), NEW t \in capacity.totals[d]
        PROVE  Request(replicas, d) <= t.free
    <2>1. d \in Dim
      BY DEF Requested
    <2> QED
      BY <1>3, <2>1, PlaceableRequests, TotalsAreReal
  <1> QED
    BY <1>4 DEF AggregateFits

\* That the totals do not suffice is proof when there are no nodes to contradict.
LEMMA DecidedInsufficient ==
    ASSUME Provider, "INSUFFICIENT" \in FitBeforePlacement(capacity, replicas)
    PROVE  ~Placeable
  <1>1. capacity.nodes = {} /\ ~AggregateFits(capacity, replicas)
    BY DEF FitBeforePlacement
  <1>2. PICK d \in Requested(replicas) :
           \E t \in capacity.totals[d] : ~(Request(replicas, d) <= t.free)
    BY <1>1 DEF AggregateFits
  <1>3. PICK t \in capacity.totals[d] : ~(Request(replicas, d) <= t.free)
    BY <1>2
  <1>4. d \in Dim /\ t.free = Sum(free, d)
    BY <1>3, <1>2, <1>1 DEF Provider, Tells, Requested
  <1> QED
    BY <1>3, <1>4, PlaceableRequests

\* Without a readable node there is nowhere to place a replica, or nothing is known.
LEMMA NoNodes ==
    ASSUME Provider, NEW nodes \in capacity.nodes, ReadableNodes(nodes, replicas) = <<>>,
           FitAfterPlacement(capacity, nodes, replicas, "INSUFFICIENT") = "INSUFFICIENT"
    PROVE  ~Placeable
  <1>1. Len(nodes) = 0
    BY DEF FitAfterPlacement
  <1>2. Told(nodes)
    BY DEF Provider, Tells
  <1>3. PICK N \in Nat : Node = 1 .. N
    BY ProviderType
  <1>4. Cardinality(Node) = N
    <2>1. Cardinality(1 .. N) = N
      BY ONLY N \in Nat, FS_Interval
    <2> QED
      BY <1>3, <2>1
  <1>5. N = 0
    BY <1>4, <1>2, <1>1, ReadableIs
  <1>6. Node = {}
    BY <1>3, <1>5
  <1>7. PICK R \in Nat \ {0} : DOMAIN replicas = 1 .. R
    BY ProviderType
  <1>8. 1 \in DOMAIN replicas
    BY <1>7
  <1> QED
    BY <1>6, <1>8 DEF Placeable


----
\* The inductive invariant.
Undecided ==
    /\ FitBeforePlacement(capacity, replicas) = {}
    /\ \A nodes \in capacity.nodes : ExactNodes(nodes, replicas)

\* Each state that was seen is pending or cost a round.
Progressing ==
    /\ rounds \in Nat /\ rounds <= StateLimit + 1
    /\ search = {} /\ verdict = {} => rounds = 0
    /\ \A s \in search : verdict = {} => rounds + Len(s.pending) = Cardinality(s.seen)

Concluded ==
    /\ "FIT" \in verdict => Undecided /\ Placeable
    /\ "INSUFFICIENT" \in verdict => ~Placeable

IInv ==
    /\ Provider
    /\ \A s \in search : Searching(s) /\ Undecided
    /\ Progressing /\ Concluded

\* A step changes neither the provider nor what was told of it.
LEMMA ProviderStays ==
    ASSUME UNCHANGED <<free, size, replicas, capacity>>
    PROVE  /\ Provider => Provider'
           /\ Placeable' <=> Placeable
           /\ Undecided' <=> Undecided
           /\ \A s : Searching(s) => Searching(s)'
  <1>1. Provider => Provider'
    <2>1. \A nodes : Told(nodes)' <=> Told(nodes)
      BY DEF Told
    <2>2. Tells(capacity)' <=> Tells(capacity)
      BY <2>1, ZenonT(30) DEF Tells, Sum
    <2> QED
      BY <2>2 DEF Provider
  <1>2. Placeable' <=> Placeable
    BY DEF Placeable
  <1>3. Undecided' <=> Undecided
    BY DEF Undecided
  <1>4. ASSUME NEW s, Searching(s) PROVE Searching(s)'
    <2>1. Ordered(s.order)'
      BY <1>4 DEF Searching, Ordered, Picked
    <2>2. \A st \in s.seen : Reached(s.order, st)'
      BY <1>4 DEF Searching, Reached, Remains, Load, Asked
    <2>3. Closed(s)'
      BY <1>4 DEF Searching, Closed, ChildrenIn
    <2>4. Kept(s)'
      BY <1>2, <1>4 DEF Searching, Kept, Viable, AllReadable, Suffices, Load, Asked
    <2> QED
      BY <2>4, <2>3, <2>2, <2>1, <1>4 DEF Searching
  <1> QED
    BY <1>4, <1>3, <1>2, <1>1


LEMMA InitIInv == ASSUME Init PROVE IInv
  <1>1. free \in [Node -> [Dim -> Nat]] /\ size \in [Node -> [Dim -> Nat]]
    BY SearchAssumption, ZenonT(30) DEF Init
  <1>2. SnapshotTaken
    BY <1>1 DEF Init, SnapshotTaken
  <1>3. Provider
    BY <1>1, <1>2, SnapshotTells DEF Init, Provider
  <1>4. Progressing
    BY SearchAssumption DEF Init, Progressing
  <1>5. Concluded
    BY DEF Init, Concluded
  <1> QED
    BY <1>5, <1>4, <1>3 DEF Init, IInv

\* One iteration of the search, from what was seen when it began.
LEMMA IterateKeeps ==
    ASSUME IInv, Iterate
    PROVE  IInv'
  <1>1. verdict = {} /\ rounds' = rounds + 1 /\ UNCHANGED <<free, size, replicas, capacity>>
    BY DEF Iterate
  <1>2. PICK s \in search :
           IF s.pending = <<>> THEN Conclude("INSUFFICIENT")
           ELSE IF Last(s.pending).placed = Len(s.order) THEN Conclude("FIT")
           ELSE LET state == Last(s.pending)
                    next == Children(state, s.order[state.placed + 1])
                    fresh == Fresh(next, s.seen) IN
                IF Cardinality(s.seen) + Len(fresh) > StateLimit THEN Conclude("UNSUPPORTED")
                ELSE search' = {Expanded(s, fresh)} /\ UNCHANGED verdict
    BY DEF Iterate
  <1>3. Provider /\ Searching(s) /\ Undecided
    BY DEF IInv
  <1>4. /\ Provider' /\ (Placeable' <=> Placeable) /\ Undecided'
        /\ \A t : Searching(t) => Searching(t)'
    BY <1>1, <1>3, ProviderStays
  <1>5. PICK l \in Nat, c \in Nat : l = Len(s.pending) /\ c = Cardinality(s.seen) /\ c <= StateLimit
    <2>1. Len(s.pending) \in Nat
      BY <1>3 DEF Searching
    <2>2. Cardinality(s.seen) \in Nat /\ Cardinality(s.seen) <= StateLimit
      BY <1>3, FS_CardinalityType DEF Searching
    <2> QED
      BY <2>1, <2>2
  <1>6. rounds \in Nat /\ StateLimit \in Nat /\ rounds + l = c
    BY <1>5, <1>2, <1>1, SearchAssumption DEF IInv, Progressing
  <1>7. rounds' \in Nat /\ rounds' <= StateLimit + 1
    BY <1>6, <1>5, <1>1
  <1>8. ASSUME NEW placement, Conclude(placement),
               \A nodes \in capacity.nodes :
                  LET fit == FitAfterPlacement(capacity, nodes, replicas, placement) IN
                  (fit = "FIT" => Placeable) /\ (fit = "INSUFFICIENT" => ~Placeable)
        PROVE  IInv'
    <2>1. PICK nodes \in capacity.nodes :
             verdict' = {FitAfterPlacement(capacity, nodes, replicas, placement)}
      BY <1>8 DEF Conclude
    <2>2. search' = search
      BY <1>8 DEF Conclude
    <2>3. Concluded'
      BY <2>1, <1>8, <1>4 DEF Concluded
    <2>4. \A t \in search' : Searching(t)' /\ Undecided'
      BY <1>4, <2>2 DEF IInv
    <2>5. verdict' # {}
      BY <2>1
    <2>6. Progressing'
      BY <1>7, <2>5 DEF Progressing
    <2> QED
      BY <2>6, <2>4, <2>3, <1>4 DEF IInv
  <1>9. CASE s.pending = <<>>
    <2>1. Conclude("INSUFFICIENT")
      BY <1>2, <1>9
    <2>2. ASSUME NEW nodes \in capacity.nodes
          PROVE  LET fit == FitAfterPlacement(capacity, nodes, replicas, "INSUFFICIENT") IN
                 fit # "FIT" /\ (fit = "INSUFFICIENT" => ~Placeable)
      <3>1. FitAfterPlacement(capacity, nodes, replicas, "INSUFFICIENT") # "FIT"
        BY DEF FitAfterPlacement
      <3>2. ASSUME FitAfterPlacement(capacity, nodes, replicas, "INSUFFICIENT") = "INSUFFICIENT"
            PROVE  ~Placeable
        <4>1. Len(ReadableNodes(nodes, replicas)) = Len(nodes)
          BY <3>2 DEF FitAfterPlacement
        <4>2. Told(nodes)
          BY <1>3 DEF Provider, Tells
        <4>3. AllReadable(nodes)
          BY <4>2, <4>1, <1>3, ReadableIs
        <4> QED
          BY <4>3, <1>9, <1>3, Exhausted
      <3> QED
        BY <3>1, <3>2
    <2> QED
      BY <2>2, <2>1, <1>8
  <1>10. CASE s.pending # <<>>
    <2>1. PICK state : state = Last(s.pending) /\ state = s.pending[Len(s.pending)]
      BY DEF Last
    <2>2. state \in s.seen /\ state \in States(Requested(replicas))
      <3>1. Len(s.pending) \in 1 .. Len(s.pending)
        <4>1. s.pending \in Seq(States(Requested(replicas)))
          BY <1>3 DEF Searching
        <4> QED
          BY <1>10, <4>1
      <3>2. s.pending[Len(s.pending)] \in s.seen /\ s.seen \subseteq States(Requested(replicas))
        BY <1>3, <3>1 DEF Searching
      <3> QED
        BY <2>1, <3>2
    <2>3. CASE state.placed = Len(s.order)
      <3>1. Conclude("FIT")
        BY <2>3, <2>1, <1>10, <1>2
      <3>2. Placeable
        <4>1. Ordered(s.order) /\ Reached(s.order, state)
          BY <1>3, <2>2 DEF Searching
        <4> QED
          BY <4>1, <2>3, <2>2, <1>3, FitPlaces
      <3>3. \A nodes \in capacity.nodes :
               FitAfterPlacement(capacity, nodes, replicas, "FIT") # "INSUFFICIENT"
        BY <1>3, <3>2, FitConclusion DEF Undecided
      <3> QED
        BY <3>3, <3>2, <3>1, <1>8
    <2>4. CASE state.placed # Len(s.order)
      <3>1. PICK next : next = ChildrenIn(s.order, state)
        OBVIOUS
      <3>2. PICK fresh : fresh = Fresh(next, s.seen)
        OBVIOUS
      <3>3. IF Cardinality(s.seen) + Len(fresh) > StateLimit THEN Conclude("UNSUPPORTED")
            ELSE search' = {Expanded(s, fresh)} /\ UNCHANGED verdict
        BY <3>2, <3>1, <2>4, <2>1, <1>10, <1>2 DEF ChildrenIn
      <3>4. CASE Cardinality(s.seen) + Len(fresh) > StateLimit
        <4>1. Conclude("UNSUPPORTED")
          BY <3>3, <3>4
        <4>2. ASSUME NEW nodes \in capacity.nodes
              PROVE  FitAfterPlacement(capacity, nodes, replicas, "UNSUPPORTED")
                        \notin {"FIT", "INSUFFICIENT"}
          BY DEF FitAfterPlacement
        <4> QED
          BY <4>2, <4>1, <1>8
      <3>5. CASE ~(Cardinality(s.seen) + Len(fresh) > StateLimit)
        <4>1. search' = {Expanded(s, fresh)} /\ verdict' = verdict
          BY <3>3, <3>5
        <4>2. Cardinality(s.seen) + Len(fresh) <= StateLimit
          <5>1. Len(fresh) \in Nat
            <6>1. Ordered(s.order) /\ state.placed <= Len(s.order)
              BY <1>3, <2>2 DEF Searching
            <6>2. state.placed \in Nat /\ Len(s.order) \in Nat
              BY <2>2, <6>1 DEF States, Ordered
            <6>3. s.order \in Seq([Dim -> Nat]) /\ state.placed < Len(s.order)
              BY <6>2, <6>1, <2>4 DEF Ordered
            <6>4. next \in Seq(States(Requested(replicas)))
              BY <6>3, <3>1, <2>2, <1>3, ChildrenInSequence
            <6>5. fresh \in Seq(States(Requested(replicas)))
              BY <3>2, <6>4, FreshAre
            <6> QED
              BY <6>5
          <5> QED
            BY <5>1, <3>5, <1>6, <1>5
        <4>3. PICK s1 : s1 = Expanded(s, fresh)
          OBVIOUS
        <4>4. /\ Searching(s1)
              /\ Len(s1.pending) = (Len(s.pending) - 1) + Len(fresh)
              /\ Cardinality(s1.seen) = Cardinality(s.seen) + Len(fresh)
          BY <4>3, <4>2, <3>2, <3>1, <2>4, <2>1, <1>10, <1>3, ExpandedSearching
        <4>5. Searching(s1)'
          BY <1>4, <4>4
        <4>6. Len(fresh) \in Nat
          BY <1>5, <4>4 DEF Searching
        <4>7. rounds' + Len(s1.pending) = Cardinality(s1.seen)
          <5>1. PICK f \in Nat : f = Len(fresh)
            BY <4>6
          <5>2. Len(s1.pending) = (l - 1) + f /\ Cardinality(s1.seen) = c + f
            BY <5>1, <4>4, <1>5
          <5>3. rounds' = rounds + 1
            BY <1>1
          <5> QED
            BY <5>3, <5>2, <1>6
        <4>8. Progressing'
          BY <4>7, <4>3, <4>1, <1>7 DEF Progressing
        <4>9. Concluded'
          BY <1>1, <4>1 DEF Concluded
        <4> QED
          BY <4>9, <4>8, <4>5, <4>3, <4>1, <1>4 DEF IInv
      <3> QED
        BY <3>4, <3>5
    <2> QED
      BY <2>3, <2>4
  <1> QED
    BY <1>9, <1>10


LEMMA NextKeeps ==
    ASSUME IInv, [Next]_vars
    PROVE  IInv'
  <1>1. ASSUME Decide PROVE IInv'
    <2>1. UNCHANGED <<free, size, replicas, capacity, search, rounds>> /\ search = {}
          /\ verdict' = FitBeforePlacement(capacity, replicas) /\ verdict' # {}
      BY <1>1 DEF Decide
    <2>2. Provider' /\ (Placeable' <=> Placeable)
      BY <2>1, ProviderStays DEF IInv
    <2>3. "FIT" \notin verdict'
      BY <2>1 DEF FitBeforePlacement
    <2>4. "INSUFFICIENT" \in verdict' => ~Placeable
      BY <2>1, DecidedInsufficient DEF IInv
    <2>5. Progressing'
      BY <2>1 DEF IInv, Progressing
    <2>6. Concluded'
      BY <2>4, <2>3, <2>2 DEF Concluded
    <2> QED
      BY <2>6, <2>5, <2>2, <2>1 DEF IInv
  <1>2. ASSUME Begin PROVE IInv'
    <2>1. /\ UNCHANGED <<free, size, replicas, capacity, rounds>>
          /\ search = {} /\ verdict = {} /\ FitBeforePlacement(capacity, replicas) = {}
      BY <1>2 DEF Begin
    <2>2. PICK nodes \in capacity.nodes :
             IF ReadableNodes(nodes, replicas) = <<>> THEN Conclude("INSUFFICIENT")
             ELSE IF ~ExactNodes(nodes, replicas) THEN Conclude("UNSUPPORTED")
             ELSE search' = {Start(nodes)} /\ UNCHANGED verdict
      BY <1>2 DEF Begin
    <2>3. /\ Provider /\ Provider' /\ (Placeable' <=> Placeable)
          /\ (Undecided' <=> Undecided)
          /\ \A s : Searching(s) => Searching(s)'
      BY <2>1, ProviderStays DEF IInv
    <2>4. rounds = 0 /\ rounds' = 0 /\ rounds' <= StateLimit + 1
      BY <2>1, SearchAssumption DEF IInv, Progressing
    <2>5. CASE ReadableNodes(nodes, replicas) = <<>>
      <3>1. Conclude("INSUFFICIENT")
        BY <2>2, <2>5
      <3>2. PICK told \in capacity.nodes :
               verdict' = {FitAfterPlacement(capacity, told, replicas, "INSUFFICIENT")}
        BY <3>1 DEF Conclude
      <3>3. told = nodes
        BY <2>3 DEF Provider, Tells
      <3>4. search' = {} /\ verdict' # {}
        BY <3>2, <3>1, <2>1 DEF Conclude
      <3>5. "FIT" \notin verdict'
        BY <3>2 DEF FitAfterPlacement
      <3>6. "INSUFFICIENT" \in verdict' => ~Placeable
        BY <3>3, <3>2, <2>5, <2>3, NoNodes
      <3>7. Progressing'
        BY <2>4, <3>4 DEF Progressing
      <3>8. Concluded'
        BY <3>6, <3>5, <2>3 DEF Concluded
      <3> QED
        BY <3>8, <3>7, <3>4, <2>3 DEF IInv
    <2>6. CASE ReadableNodes(nodes, replicas) # <<>> /\ ~ExactNodes(nodes, replicas)
      <3>1. Conclude("UNSUPPORTED")
        BY <2>6, <2>2
      <3>2. PICK told \in capacity.nodes :
               verdict' = {FitAfterPlacement(capacity, told, replicas, "UNSUPPORTED")}
        BY <3>1 DEF Conclude
      <3>3. search' = {} /\ verdict' # {}
        BY <3>2, <3>1, <2>1 DEF Conclude
      <3>4. "FIT" \notin verdict' /\ "INSUFFICIENT" \notin verdict'
        BY <3>2 DEF FitAfterPlacement
      <3>5. Progressing'
        BY <3>3, <2>4 DEF Progressing
      <3>6. Concluded'
        BY <3>4 DEF Concluded
      <3> QED
        BY <3>6, <3>5, <3>3, <2>3 DEF IInv
    <2>7. CASE ReadableNodes(nodes, replicas) # <<>> /\ ExactNodes(nodes, replicas)
      <3>1. capacity.nodes = {nodes}
        BY <2>3 DEF Provider, Tells
      <3>2. Undecided'
        BY <3>1, <2>7, <2>3, <2>1 DEF Undecided
      <3>3. search' = {Start(nodes)} /\ verdict' = {}
        BY <2>7, <2>2, <2>1
      <3>4. PICK s : s = Start(nodes)
        OBVIOUS
      <3>5. Searching(s) /\ Len(s.pending) = 1 /\ Cardinality(s.seen) = 1
        BY <2>3, <3>4, StartSearching
      <3>6. Searching(s)'
        BY <2>3, <3>5
      <3>7. Progressing'
        <4>1. \A t \in search' : t = s
          BY <3>3, <3>4
        <4>2. \A t \in search' : rounds' + Len(t.pending) = Cardinality(t.seen)
          <5>1. rounds' + Len(s.pending) = Cardinality(s.seen)
            <6>1. rounds' = 0 /\ Len(s.pending) = 1 /\ Cardinality(s.seen) = 1
              BY <2>4, <3>5
            <6> QED
              BY ONLY <6>1
          <5> QED
            BY <4>1, <5>1
        <4>3. search' # {}
          BY <3>3
        <4> QED
          BY <4>3, <4>2, <2>4 DEF Progressing
      <3>8. Concluded'
        BY <3>3 DEF Concluded
      <3> QED
        BY <3>8, <3>7, <3>6, <3>4, <3>3, <3>2, <2>3 DEF IInv
    <2> QED
      BY <2>7, <2>6, <2>5
  <1>3. ASSUME Iterate PROVE IInv'
    BY <1>3, IterateKeeps
  <1>4. ASSUME UNCHANGED vars PROVE IInv'
    <2>1. UNCHANGED <<free, size, replicas, capacity>> /\ UNCHANGED <<search, verdict, rounds>>
      BY <1>4 DEF vars
    <2>2. /\ Provider' /\ (Placeable' <=> Placeable) /\ (Undecided' <=> Undecided)
          /\ \A s : Searching(s) => Searching(s)'
      BY <2>1, ProviderStays DEF IInv
    <2>3. Progressing' /\ Concluded'
      BY <2>1, <2>2 DEF IInv, Progressing, Concluded
    <2> QED
      BY <2>3, <2>2, <2>1 DEF IInv
  <1> QED
    BY <1>4, <1>3, <1>2, <1>1 DEF Next, Done

\* A provider that is said to fit, with all nodes readable, is ranked by what is free.
LEMMA RankedByReal ==
    ASSUME IInv
    PROVE  RankedByBindingShare
  <1>1. SUFFICES ASSUME NEW v \in verdict,
                        NEW s \in AvailableFractionFor(capacity, replicas, v),
                        NEW d \in Requested(replicas)
                 PROVE  /\ s.free * Sum(size, d) <= Sum(free, d) * s.all
                        /\ \E e \in Requested(replicas) : s.free * Sum(size, e) = Sum(free, e) * s.all
    BY DEF RankedByBindingShare
  <1>2. PICK shares : shares = UNION {capacity.totals[e] : e \in Requested(replicas)}
    OBVIOUS
  <1>3. /\ s \in shares /\ v = "FIT" /\ RankingComplete(capacity, replicas)
        /\ \A t \in shares : s.free * t.all <= t.free * s.all
    BY <1>2 DEF AvailableFractionFor
  <1>4. Provider /\ Undecided
    BY <1>3 DEF IInv, Concluded
  <1>5. PICK nodes \in capacity.nodes :
           \A n \in DOMAIN nodes : \A e \in Requested(replicas) : nodes[n][e] # {}
    BY <1>3 DEF RankingComplete
  <1>6. AllReadable(nodes)
    BY <1>4, <1>5 DEF Provider, Tells, Told, AllReadable
  <1>7. \A e \in Requested(replicas) :
           /\ capacity.totals[e] # {}
           /\ \A t \in capacity.totals[e] : t.free = Sum(free, e) /\ t.all = Sum(size, e)
    BY <1>4, <1>6, TotalsAreReal DEF Undecided
  <1>8. PICK t \in capacity.totals[d] : t.free = Sum(free, d) /\ t.all = Sum(size, d)
    BY <1>7
  <1>9. t \in shares
    BY <1>2, <1>8
  <1>10. s.free * Sum(size, d) <= Sum(free, d) * s.all
    BY <1>9, <1>8, <1>3
  <1>11. PICK e \in Requested(replicas) : s \in capacity.totals[e]
    BY <1>2, <1>3
  <1>12. s.free = Sum(free, e) /\ s.all = Sum(size, e)
    BY <1>7, <1>11
  <1>13. s.free * Sum(size, e) = Sum(free, e) * s.all
    BY <1>12
  <1> QED
    BY <1>10, <1>13

----
\* The theorems.
LEMMA Invariance == Spec => []IInv
  BY InitIInv, NextKeeps, PTL DEF Spec

\* Whatever a report leaves out and whenever its totals were read, what the search
\* says fits has a place on the provider's nodes as they really are.
THEOREM FitHasAPlace == Spec => []FitIsPlaceable
  <1>1. IInv => FitIsPlaceable
    BY DEF IInv, Concluded, FitIsPlaceable
  <1> QED
    BY <1>1, Invariance, PTL

\* The search is complete: leaving out nodes that are like one that was tried, and
\* states that were seen before, it never loses the only place there is.
THEOREM InsufficientHasNoPlace == Spec => []InsufficientIsProven
  <1>1. IInv => InsufficientIsProven
    BY DEF IInv, Concluded, InsufficientIsProven
  <1> QED
    BY <1>1, Invariance, PTL

\* The fraction by which a provider is ranked is the least that is really free.
THEOREM RankedByWhatIsFree == Spec => []RankedByBindingShare
  <1>1. IInv => RankedByBindingShare
    BY RankedByReal
  <1> QED
    BY <1>1, Invariance, PTL

\* No state is gone on from twice, so the limit of states is one of rounds too.
THEOREM SearchIsBounded == Spec => []RoundsBounded
  <1>1. IInv => RoundsBounded
    BY DEF IInv, Progressing, RoundsBounded
  <1> QED
    BY <1>1, Invariance, PTL
====
