----------------------------- MODULE Sums_proofs -----------------------------
(***************************************************************************)
(* Sums, counted unit by unit, for any amounts, and the two inductions     *)
(* that take the place of the library's: the least number that has a       *)
(* property, and a loop of any length.                                     *)
(***************************************************************************)
EXTENDS Sums, FiniteSetTheorems, WellFoundedInduction, TLAPS

Units(F, a) == UNION {{f} \X (1..a[f]) : f \in F}

LEMMA UnitsOf ==
  ASSUME NEW F, NEW a
  PROVE  /\ Sum(F, a) = Cardinality(Units(F, a))
         /\ \A u : u \in Units(F, a) <=> \E f \in F : u \in {f} \X (1..a[f])
BY DEF Sum, Units

LEMMA UnitsFinite ==
  ASSUME NEW F, IsFiniteSet(F), NEW a, \A f \in F : a[f] \in Nat
  PROVE  IsFiniteSet(Units(F, a)) /\ Sum(F, a) \in Nat
<1> DEFINE S == {{f} \X (1..a[f]) : f \in F}
<1> DEFINE g == [f \in F |-> {f} \X (1..a[f])]
<1>1. g \in Surjection(F, S)
  BY DEF Surjection
<1>2. IsFiniteSet(S)
  BY <1>1, FS_Surjection
<1>3. \A T \in S : IsFiniteSet(T)
  <2> SUFFICES ASSUME NEW f \in F
               PROVE  IsFiniteSet({f} \X (1..a[f]))
    OBVIOUS
  <2>1. IsFiniteSet({f})
    BY FS_Singleton
  <2>2. 1 \in Int /\ a[f] \in Int
    OBVIOUS
  <2>3. IsFiniteSet(1..a[f])
    BY <2>2, FS_Interval
  <2> QED
    BY <2>1, <2>3, FS_Product
<1>4. IsFiniteSet(UNION S)
  <2> HIDE DEF S
  <2> QED
    BY <1>2, <1>3, FS_UNION
<1> QED
  BY <1>4, FS_CardinalityType, UnitsOf DEF Units

LEMMA SumEmpty ==
  ASSUME NEW a
  PROVE  Sum({}, a) = 0
<1>1. Units({}, a) = {}
  BY DEF Units
<1> QED
  BY <1>1, FS_EmptySet, UnitsOf

LEMMA SumUnion ==
  ASSUME NEW F, IsFiniteSet(F), NEW G, IsFiniteSet(G), F \cap G = {}, NEW a, \A x \in F \cup G : a[x] \in Nat
  PROVE  Sum(F \cup G, a) = Sum(F, a) + Sum(G, a) /\ Sum(F, a) \in Nat /\ Sum(G, a) \in Nat
<1> DEFINE A == Units(F, a)
<1> DEFINE B == Units(G, a)
<1>1. Units(F \cup G, a) = A \cup B
  BY DEF Units
<1>2. A \cap B = {}
  BY DEF Units
<1>3. IsFiniteSet(A) /\ Sum(F, a) \in Nat /\ Sum(F, a) = Cardinality(A)
  BY UnitsFinite, UnitsOf
<1>4. IsFiniteSet(B) /\ Sum(G, a) \in Nat /\ Sum(G, a) = Cardinality(B)
  BY UnitsFinite, UnitsOf
<1>5. Sum(F \cup G, a) = Cardinality(A \cup B)
  BY <1>1, UnitsOf
<1> HIDE DEF A, B
<1>6. Cardinality(A \cap B) = 0
  BY <1>2, FS_EmptySet
<1>7. Cardinality(A \cup B) = Cardinality(A) + Cardinality(B) - Cardinality(A \cap B)
  BY <1>3, <1>4, FS_Union
<1> QED
  BY <1>3, <1>4, <1>5, <1>6, <1>7

LEMMA SumOne ==
  ASSUME NEW f, NEW a, a[f] \in Nat
  PROVE  Sum({f}, a) = a[f]
<1> DEFINE B == {f} \X (1..a[f])
<1>1. Units({f}, a) = B
  BY DEF Units
<1>2. IsFiniteSet({f}) /\ Cardinality({f}) = 1
  BY FS_Singleton
<1>3. 1 \in Int /\ a[f] \in Int
  OBVIOUS
<1>4. IsFiniteSet(1..a[f]) /\ Cardinality(1..a[f]) = IF 1 > a[f] THEN 0 ELSE a[f] - 1 + 1
  BY <1>3, FS_Interval
<1>5. Cardinality(B) = Cardinality({f}) * Cardinality(1..a[f])
  BY <1>2, <1>4, FS_Product
<1>6. Sum({f}, a) = Cardinality(B)
  BY <1>1, UnitsOf
<1> HIDE DEF B
<1> QED
  BY <1>2, <1>4, <1>5, <1>6

\* One more element adds its amount.
LEMMA SumAdd ==
  ASSUME NEW F, IsFiniteSet(F), NEW f, f \notin F, NEW a, \A x \in F \cup {f} : a[x] \in Nat
  PROVE  Sum(F \cup {f}, a) = Sum(F, a) + a[f]
<1>1. IsFiniteSet({f})
  BY FS_Singleton
<1>2. PICK G : G = {f}
  OBVIOUS
<1>3. IsFiniteSet(G) /\ F \cap G = {} /\ \A x \in F \cup G : a[x] \in Nat
  BY <1>1, <1>2
<1>4. Sum(F \cup G, a) = Sum(F, a) + Sum(G, a)
  BY <1>3, SumUnion
<1>5. Sum({f}, a) = a[f]
  BY SumOne
<1> QED
  BY <1>2, <1>4, <1>5

\* A part of the elements, each with no more than its amount, has no more.
LEMMA SumGrows ==
  ASSUME NEW F, NEW G, F \subseteq G, IsFiniteSet(G), NEW a, NEW b,
         \A x \in F : a[x] \in Nat /\ a[x] <= b[x], \A x \in G : b[x] \in Nat
  PROVE  Sum(F, a) <= Sum(G, b) /\ Sum(F, a) \in Nat /\ Sum(G, b) \in Nat
<1>1. Units(F, a) \subseteq Units(G, b)
  <2>1. \A f \in F : 1..a[f] \subseteq 1..b[f]
    OBVIOUS
  <2>2. \A f \in F : {f} \X (1..a[f]) \subseteq {f} \X (1..b[f])
    BY <2>1
  <2>3. \A u \in Units(F, a) : u \in Units(G, b)
    BY <2>2, UnitsOf
  <2> QED
    BY <2>3
<1>2. IsFiniteSet(F)
  BY FS_Subset
<1>3. IsFiniteSet(Units(G, b)) /\ Sum(G, b) \in Nat /\ Sum(F, a) \in Nat
  BY <1>2, UnitsFinite
<1> QED
  BY <1>1, <1>3, FS_Subset, UnitsOf

LEMMA SumSame ==
  ASSUME NEW F, NEW a, NEW b, \A x \in F : a[x] = b[x]
  PROVE  Sum(F, a) = Sum(F, b)
<1>1. {{f} \X (1..a[f]) : f \in F} = {{f} \X (1..b[f]) : f \in F}
  OBVIOUS
<1> QED
  BY <1>1 DEF Sum

\* One element less takes its amount away.
LEMMA SumRemove ==
  ASSUME NEW F, IsFiniteSet(F), NEW f \in F, NEW a, \A x \in F : a[x] \in Nat
  PROVE  Sum(F \ {f}, a) = Sum(F, a) - a[f] /\ Sum(F, a) \in Nat /\ Sum(F \ {f}, a) \in Nat
<1>1. IsFiniteSet(F \ {f}) /\ f \notin F \ {f} /\ (F \ {f}) \cup {f} = F
  BY FS_RemoveElement
<1>2. Sum(F, a) = Sum(F \ {f}, a) + a[f]
  BY <1>1, SumAdd
<1>3. Sum(F, a) \in Nat /\ Sum(F \ {f}, a) \in Nat /\ a[f] \in Nat
  BY <1>1, UnitsFinite
<1> QED
  BY <1>2, <1>3

\* What has no amount does not count.
LEMMA SumPositive ==
  ASSUME NEW F, NEW a, \A x \in F : a[x] \in Nat
  PROVE  Sum(F, a) = Sum({x \in F : a[x] > 0}, a)
<1> DEFINE G == {x \in F : a[x] > 0}
<1>1. \A f \in F : f \notin G => {f} \X (1..a[f]) = {}
  <2>1. \A f \in F : f \notin G => 1..a[f] = {}
    OBVIOUS
  <2> QED
    BY <2>1
<1>2. Units(F, a) = Units(G, a)
  <2>1. ASSUME NEW u \in Units(F, a) PROVE u \in Units(G, a)
    <3>1. PICK f \in F : u \in {f} \X (1..a[f])
      BY UnitsOf
    <3>2. f \in G
      BY <1>1, <3>1
    <3> HIDE DEF G
    <3> QED
      BY <3>1, <3>2, UnitsOf
  <2>2. ASSUME NEW u \in Units(G, a) PROVE u \in Units(F, a)
    <3>1. PICK f \in G : u \in {f} \X (1..a[f])
      <4> HIDE DEF G
      <4> QED
        BY UnitsOf
    <3>2. f \in F
      OBVIOUS
    <3> QED
      BY <3>1, <3>2, UnitsOf
  <2> QED
    BY <2>1, <2>2
<1> HIDE DEF G
<1>3. Sum(F, a) = Sum(G, a)
  BY <1>2, UnitsOf
<1> QED
  BY <1>3 DEF G

\* Elements that each have a partner of their own, with at least their amount,
\* have no more than the partners.
LEMMA SumMatched ==
  ASSUME NEW F, NEW G, IsFiniteSet(G), NEW a, NEW b, NEW h \in [F -> G],
         \A x, y \in F : h[x] = h[y] => x = y,
         \A x \in F : a[x] \in Nat /\ a[x] <= b[h[x]], \A y \in G : b[y] \in Nat
  PROVE  Sum(F, a) <= Sum(G, b)
<1> DEFINE g == [u \in Units(F, a) |-> <<h[u[1]], u[2]>>]
<1>1. ASSUME NEW u \in Units(F, a)
      PROVE  u[1] \in F /\ u[2] \in 1..a[u[1]] /\ u = <<u[1], u[2]>>
  <2>1. PICK f \in F : u \in {f} \X (1..a[f])
    BY UnitsOf
  <2> QED
    BY <2>1
<1>2. ASSUME NEW u \in Units(F, a)
      PROVE  g[u] \in Units(G, b)
  <2>1. PICK f, i : f \in F /\ i \in 1..a[f] /\ u = <<f, i>>
    BY <1>1
  <2>2. h[f] \in G /\ i \in 1..b[h[f]] /\ g[u] = <<h[f], i>>
    BY <2>1
  <2>3. <<h[f], i>> \in {h[f]} \X (1..b[h[f]])
    BY <2>2
  <2> HIDE DEF g
  <2> QED
    BY <2>2, <2>3, UnitsOf
<1>3. ASSUME NEW u \in Units(F, a), NEW v \in Units(F, a), g[u] = g[v]
      PROVE  u = v
  <2>1. h[u[1]] = h[v[1]] /\ u[2] = v[2]
    BY <1>3
  <2> HIDE DEF g
  <2> QED
    BY <1>1, <2>1
<1>4. g \in [Units(F, a) -> Units(G, b)]
  BY <1>2
<1>5. g \in Injection(Units(F, a), Units(G, b))
  <2> HIDE DEF g
  <2> QED
    BY <1>3, <1>4 DEF Injection, IsInjective
<1>6. IsFiniteSet(Units(G, b))
  BY UnitsFinite
<1> HIDE DEF g
<1> QED
  BY <1>5, <1>6, FS_Injection, UnitsOf

-----------------------------------------------------------------------------
\* A set of naturals that is not empty has a first one.
LEMMA LeastOf ==
  ASSUME NEW S, S \subseteq Nat, S # {}
  PROVE  \E n \in S : \A m \in S : n <= m
<1> DEFINE R == OpToRel(<, Nat)
<1>1. R = {ss \in Nat \X Nat : ss[1] < ss[2]}
  BY DEF OpToRel
<1>2. IsWellFoundedOn(R, Nat)
  BY NatLessThanWellFounded
<1> HIDE DEF R
<1>3. PICK n \in S : \A m \in S : <<m, n>> \notin R
  BY <1>2, WFMin
<1>4. ASSUME NEW m \in S, ~(n <= m) PROVE FALSE
  <2>1. m \in Nat /\ n \in Nat /\ m < n
    BY <1>3, <1>4
  <2>2. <<m, n>> \in R
    BY <1>1, <2>1
  <2> QED
    BY <1>3, <2>2
<1> QED
  BY <1>3, <1>4

\* What holds of 0, and of k + 1 when it does of k, holds of every number: if not
\* there would be a first one it does not hold of.
LEMMA Reaches ==
  ASSUME NEW K, 0 \in K, \A k \in Nat : k \in K => k + 1 \in K
  PROVE  Nat \subseteq K
<1> DEFINE Bad == {k \in Nat : k \notin K}
<1>1. ASSUME Bad # {} PROVE FALSE
  <2>1. PICK k \in Bad : \A m \in Bad : k <= m
    BY <1>1, LeastOf
  <2>2. k \in Nat /\ k # 0 /\ k - 1 \in Nat /\ k - 1 \notin Bad
    BY <2>1
  <2>3. k - 1 \in K /\ k - 1 + 1 = k
    BY <2>2
  <2>4. k \in K
    BY <2>2, <2>3
  <2> QED
    BY <2>1, <2>4
<1> QED
  BY <1>1

\* A loop of n rounds: from x, the k-th round takes s to step[<<k, s>>].
Rounds(f, n, x, step) == f[0] = x /\ \A k \in 1..n : f[k] = step[<<k, f[k - 1]>>]

LEMMA LoopExists ==
  ASSUME NEW n \in Nat, NEW S, NEW x \in S, NEW step \in [(1..n) \X S -> S]
  PROVE  \E f \in [0..n -> S] : Rounds(f, n, x, step)
<1> DEFINE Good(m) == \E f \in [0..m -> S] : Rounds(f, m, x, step)
           K == {m \in Nat : m <= n => Good(m)}
<1>1. 0 \in K
  <2>1. [i \in 0..0 |-> x] \in [0..0 -> S] /\ Rounds([i \in 0..0 |-> x], 0, x, step)
    BY DEF Rounds
  <2> QED
    BY <2>1
<1>2. ASSUME NEW m \in Nat, m \in K PROVE m + 1 \in K
  <2> SUFFICES ASSUME m + 1 <= n PROVE Good(m + 1)
    OBVIOUS
  <2>1. PICK f \in [0..m -> S] : Rounds(f, m, x, step)
    BY <1>2
  <2>2. PICK y \in S : y = step[<<m + 1, f[m]>>]
    <3>1. m \in 0..m /\ m + 1 \in 1..n
      OBVIOUS
    <3>2. f[m] \in S
      BY <3>1
    <3> QED
      BY <3>1, <3>2
  <2> DEFINE g == [i \in 0..m + 1 |-> IF i = m + 1 THEN y ELSE f[i]]
  <2>3. \A i \in 0..m + 1 : i = m + 1 \/ i \in 0..m
    OBVIOUS
  <2>4. g \in [0..m + 1 -> S]
    BY <2>3
  <2>5. g[m + 1] = y /\ \A i \in 0..m : g[i] = f[i]
    OBVIOUS
  <2> HIDE DEF g
  <2>6. ASSUME NEW k \in 1..m + 1 PROVE g[k] = step[<<k, g[k - 1]>>]
    <3>1. k - 1 \in 0..m /\ (k = m + 1 => k - 1 = m) /\ (k # m + 1 => k \in 1..m /\ k \in 0..m)
      OBVIOUS
    <3>2. CASE k = m + 1
      BY <2>2, <2>5, <3>1, <3>2
    <3>3. CASE k # m + 1
      BY <2>1, <2>5, <3>1, <3>3 DEF Rounds
    <3> QED
      BY <3>2, <3>3
  <2>7. Rounds(g, m + 1, x, step)
    <3>1. 0 \in 0..m
      OBVIOUS
    <3> QED
      BY <2>1, <2>5, <2>6, <3>1 DEF Rounds
  <2> QED
    BY <2>4, <2>7
<1>3. n \in K
  <2> HIDE DEF K
  <2> QED
    BY <1>1, <1>2, Reaches
<1> QED
  BY <1>3

-----------------------------------------------------------------------------
\* A finite set in the order of R: the k-th element is the one with k - 1 others
\* before it.
Sorts(f, n, R) == \A j, k \in 1..n : j < k => <<f[j], f[k]>> \in R

LEMMA SortExists ==
  ASSUME NEW S, IsFiniteSet(S), NEW R,
         \A x, y \in S : x # y => <<x, y>> \in R \/ <<y, x>> \in R,
         \A x \in S : <<x, x>> \notin R,
         \A x, y, z \in S : <<x, y>> \in R /\ <<y, z>> \in R => <<x, z>> \in R
  PROVE  \E f \in [1..Cardinality(S) -> S] : Sorts(f, Cardinality(S), R)
<1> DEFINE n == Cardinality(S)
           Below(y) == {x \in S : <<x, y>> \in R}
           rank == [y \in S |-> Cardinality(Below(y)) + 1]
<1>1. n \in Nat
  BY FS_CardinalityType
<1>2. ASSUME NEW y \in S PROVE IsFiniteSet(Below(y)) /\ Cardinality(Below(y)) \in Nat /\ Cardinality(Below(y)) < n
  <2>1. Below(y) \in SUBSET S /\ Below(y) # S
    OBVIOUS
  <2>2. IsFiniteSet(Below(y)) /\ Cardinality(Below(y)) <= n /\ Cardinality(Below(y)) # n
    BY <2>1, FS_Subset
  <2>3. Cardinality(Below(y)) \in Nat
    BY <2>2, FS_CardinalityType
  <2> QED
    BY <1>1, <2>2, <2>3
<1>3. rank \in [S -> 1..n]
  <2>1. ASSUME NEW y \in S PROVE Cardinality(Below(y)) + 1 \in 1..n
    <3>1. PICK c : c = Cardinality(Below(y))
      OBVIOUS
    <3>2. c \in Nat /\ c < n
      BY <1>2, <3>1
    <3> HIDE DEF n
    <3>3. c + 1 \in 1..n
      BY <1>1, <3>2
    <3> QED
      BY <3>1, <3>3
  <2> QED
    BY <2>1
<1>4. ASSUME NEW x \in S, NEW y \in S, <<x, y>> \in R PROVE rank[x] < rank[y]
  <2>1. Below(x) \subseteq Below(y) /\ x \in Below(y) /\ x \notin Below(x)
    BY <1>4
  <2>2. IsFiniteSet(Below(y)) /\ Cardinality(Below(y)) \in Nat /\ Cardinality(Below(x)) \in Nat
    BY <1>2
  <2>3. Cardinality(Below(x)) <= Cardinality(Below(y)) /\ Cardinality(Below(x)) # Cardinality(Below(y))
    <3>1. PICK A, B : A = Below(x) /\ B = Below(y)
      OBVIOUS
    <3>2. IsFiniteSet(B) /\ A \in SUBSET B /\ A # B
      BY <2>1, <2>2, <3>1
    <3> QED
      BY <3>1, <3>2, FS_Subset
  <2> QED
    BY <2>2, <2>3
<1>5. rank \in Injection(S, 1..n)
  <2>1. ASSUME NEW x \in S, NEW y \in S, rank[x] = rank[y] PROVE x = y
    <3>1. rank[x] \in Nat /\ rank[y] \in Nat /\ ~(rank[x] < rank[y]) /\ ~(rank[y] < rank[x])
      BY <1>3, <2>1
    <3> HIDE DEF rank
    <3> QED
      BY <1>4, <3>1
  <2> HIDE DEF rank, n
  <2> QED
    BY <1>3, <2>1 DEF Injection, IsInjective
<1> HIDE DEF rank
<1>6. IsFiniteSet(1..n) /\ Cardinality(1..n) = n
  <2>1. 1 \in Int /\ n \in Int
    BY <1>1
  <2>2. IsFiniteSet(1..n) /\ Cardinality(1..n) = IF 1 > n THEN 0 ELSE n - 1 + 1
    BY <2>1, FS_Interval
  <2> QED
    BY <1>1, <2>2
<1>7. rank \in Surjection(S, 1..n)
  BY <1>5, <1>6, FS_Injection
<1>8. \A k \in 1..n : \E y \in S : rank[y] = k
  BY <1>7 DEF Surjection
<1> DEFINE f == [k \in 1..n |-> CHOOSE y \in S : rank[y] = k]
<1>9. \A k \in 1..n : f[k] \in S /\ rank[f[k]] = k
  BY <1>8
<1>10. f \in [1..n -> S]
  BY <1>9
<1>11. Sorts(f, n, R)
  <2> SUFFICES ASSUME NEW j \in 1..n, NEW k \in 1..n, j < k
               PROVE  <<f[j], f[k]>> \in R
    BY DEF Sorts
  <2>1. f[j] \in S /\ f[k] \in S /\ rank[f[j]] = j /\ rank[f[k]] = k /\ f[j] # f[k]
    BY <1>9
  <2>2. <<f[k], f[j]>> \notin R
    BY <1>4, <2>1
  <2> QED
    BY <2>1, <2>2
<1> QED
  BY <1>10, <1>11
=============================================================================
