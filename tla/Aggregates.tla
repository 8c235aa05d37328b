----------------------------- MODULE Aggregates -----------------------------
(***************************************************************************)
(* Extreme elements and sums: the least-number principle, what the Max and *)
(* Min of the community modules are, and the sum their fold computes: the  *)
(* number of units there are to count.                                     *)
(***************************************************************************)
EXTENDS Integers, FiniteSetsExt, Functions, FiniteSetTheorems, WellFoundedInduction, TLAPS

\* The least-number principle.
LEMMA LeastElement ==
  ASSUME NEW T \in SUBSET Nat, T # {}
  PROVE  \E x \in T : \A y \in T : x <= y
<1> DEFINE R == OpToRel(<, Nat)
<1>1. IsWellFoundedOn(R, Nat)
  BY NatLessThanWellFounded
<1>2. \E x \in T : \A y \in T : ~ (<<y, x>> \in R)
  <2> HIDE DEF R
  <2> QED BY <1>1, WFMin
<1>3. \A x, y \in Nat : <<y, x>> \in R <=> y < x
  BY DEF OpToRel
<1> HIDE DEF R
<1>4. PICK x \in T : \A y \in T : ~ (<<y, x>> \in R)
  BY <1>2
<1>5. ASSUME NEW y \in T PROVE x <= y
  <2>1. x \in Nat /\ y \in Nat /\ ~ (<<y, x>> \in R)
    BY <1>4
  <2>2. ~ (y < x)
    BY <2>1, <1>3
  <2> QED BY <2>1, <2>2
<1> QED BY <1>5

\* A bounded set of numbers has a greatest element, and Max is it.
LEMMA MaxIsGreatest ==
  ASSUME NEW n \in Nat, NEW S \in SUBSET (0..n), S # {}
  PROVE  Max(S) \in S /\ \A y \in S : y <= Max(S)
<1> DEFINE T == {n - y : y \in S}
<1>1. T \in SUBSET Nat /\ T # {}
  <2>1. ASSUME NEW y \in S PROVE n - y \in Nat
    <3>1. y \in 0..n
      OBVIOUS
    <3> QED BY <3>1
  <2> QED BY <2>1
<1>2. PICK t \in T : \A u \in T : t <= u
  <2> HIDE DEF T
  <2> QED BY <1>1, LeastElement
<1>3. PICK x \in S : t = n - x
  BY <1>2
<1>4. ASSUME NEW y \in S PROVE x >= y
  <2>1. n - y \in T /\ x \in 0..n /\ y \in 0..n
    OBVIOUS
  <2>2. n - x <= n - y
    BY <2>1, <1>2, <1>3
  <2> QED BY <2>1, <2>2
<1>5. Max(S) \in S /\ \A y \in S : Max(S) >= y
  BY <1>4 DEF Max
<1>6. ASSUME NEW y \in S PROVE y <= Max(S)
  <2>1. y \in 0..n /\ Max(S) \in 0..n /\ Max(S) >= y
    BY <1>5
  <2> QED BY <2>1
<1> QED BY <1>5, <1>6

\* The greater of two numbers, and the less.
LEMMA TwoNumbers ==
  ASSUME NEW a \in Int, NEW b \in Int
  PROVE  /\ Max({a, b}) = IF a >= b THEN a ELSE b
         /\ Min({a, b}) = IF a <= b THEN a ELSE b
<1> DEFINE g == IF a >= b THEN a ELSE b
           l == IF a <= b THEN a ELSE b
<1>1. g \in {a, b} /\ g >= a /\ g >= b /\ l \in {a, b} /\ l <= a /\ l <= b
  OBVIOUS
<1>2. Max({a, b}) \in {a, b} /\ Max({a, b}) >= a /\ Max({a, b}) >= b
  BY <1>1 DEF Max
<1>3. Min({a, b}) \in {a, b} /\ Min({a, b}) <= a /\ Min({a, b}) <= b
  BY <1>1 DEF Min
<1> QED BY <1>2, <1>3

\* A set of numbers has a least element, and Min is it.
LEMMA MinIsLeast ==
  ASSUME NEW S \in SUBSET Nat, S # {}
  PROVE  Min(S) \in S /\ \A y \in S : Min(S) <= y
<1>1. PICK x \in S : \A y \in S : x <= y
  BY LeastElement
<1> QED BY <1>1 DEF Min

\* Finitely many numbers have a bound.
LEMMA FiniteIsBounded ==
  ASSUME NEW S \in SUBSET Nat, IsFiniteSet(S)
  PROVE  \E n \in Nat : S \subseteq 0..n
<1> DEFINE Bounded(T) == \E n \in Nat : T \subseteq 0..n
           Bad == {T \in SUBSET S : ~Bounded(T)}
<1> SUFFICES ASSUME Bad # {} PROVE FALSE
  OBVIOUS
<1>1. IsWellFoundedOn(StrictSubsetOrdering(S), SUBSET S)
  BY FS_StrictSubsetOrderingWellFounded, FS_FiniteSubsetsOfFinite
<1>2. Bad \subseteq SUBSET S
  OBVIOUS
<1>3. PICK T \in Bad : \A U \in Bad : ~ (<<U, T>> \in StrictSubsetOrdering(S))
  <2> HIDE DEF Bad
  <2> QED BY <1>1, <1>2, WFMin
<1>4. T \in SUBSET S /\ ~Bounded(T)
  OBVIOUS
<1>5. \A U \in SUBSET S : U \subseteq T /\ U # T => Bounded(U)
  BY <1>3, <1>4 DEF StrictSubsetOrdering
<1>6. PICK x \in T : TRUE
  <2>1. Bounded({})
    <3>1. {} \subseteq 0..0
      OBVIOUS
    <3> QED BY <3>1
  <2> QED BY <1>4, <2>1
<1>7. PICK n \in Nat : T \ {x} \subseteq 0..n
  BY <1>4, <1>5, <1>6
<1>8. x \in Nat
  BY <1>4, <1>6
<1>9. T \subseteq 0..(n + x)
  <2>1. ASSUME NEW y \in T PROVE y \in 0..(n + x)
    BY <1>7, <1>8
  <2> QED BY <2>1
<1>10. n + x \in Nat
  BY <1>8
<1> QED BY <1>4, <1>9, <1>10

-----------------------------------------------------------------------------
\* One unit for every count: the pairs <<x, i>> with i < f[x].
Units(f, S) == {u \in S \X Nat : u[2] < f[u[1]]}

\* The units are finitely many, and those of one place are as many as its count.
LEMMA UnitsCount ==
  ASSUME NEW S, IsFiniteSet(S), NEW m \in Nat, NEW f, \A x \in S : f[x] \in 0..m
  PROVE  /\ IsFiniteSet(Units(f, S)) /\ Cardinality(Units(f, S)) \in Nat
         /\ \A x \in S : Cardinality(Units(f, S)) = f[x] + Cardinality(Units(f, S \ {x}))
<1>1. IsFiniteSet(S \X (0..m))
  <2>1. 0 \in Int /\ m \in Int
    OBVIOUS
  <2>2. IsFiniteSet(0..m)
    BY <2>1, FS_Interval
  <2> QED BY <2>2, FS_Product
<1>2. Units(f, S) \in SUBSET (S \X (0..m))
  BY DEF Units
<1>3. IsFiniteSet(Units(f, S)) /\ Cardinality(Units(f, S)) \in Nat
  BY <1>1, <1>2, FS_Subset, FS_CardinalityType
<1>4. ASSUME NEW x \in S
      PROVE  Cardinality(Units(f, S)) = f[x] + Cardinality(Units(f, S \ {x}))
  <2> DEFINE C == {u \in {x} \X Nat : u[2] < f[x]}
             D == Units(f, S \ {x})
  <2>1. C \cup D = Units(f, S) /\ C \cap D = {}
    BY DEF Units
  <2>2. IsFiniteSet(C) /\ Cardinality(C) = f[x]
    <3>1. IsFiniteSet(1..f[x]) /\ Cardinality(1..f[x]) = f[x]
      <4>1. f[x] \in Nat /\ 1 \in Int /\ f[x] \in Int
        OBVIOUS
      <4>2. IsFiniteSet(1..f[x])
            /\ Cardinality(1..f[x]) = IF 1 > f[x] THEN 0 ELSE f[x] - 1 + 1
        BY <4>1, FS_Interval
      <4> QED BY <4>1, <4>2
    <3> DEFINE b == [i \in 1..f[x] |-> <<x, i - 1>>]
    <3>2. b \in Bijection(1..f[x], C)
      <4>1. \A i \in 1..f[x] : b[i] \in C
        OBVIOUS
      <4>2. \A i, j \in 1..f[x] : b[i] = b[j] => i = j
        OBVIOUS
      <4>3. \A u \in C : \E i \in 1..f[x] : b[i] = u
        <5>1. ASSUME NEW u \in C PROVE u[2] + 1 \in 1..f[x] /\ b[u[2] + 1] = u
          OBVIOUS
        <5> QED BY <5>1
      <4> HIDE DEF C
      <4> QED BY <4>1, <4>2, <4>3 DEF Bijection, Injection, Surjection, IsInjective
    <3> HIDE DEF C, b
    <3> QED BY <3>1, <3>2, FS_Bijection DEF ExistsBijection
  <2>3. IsFiniteSet(D) /\ Cardinality(D) \in Nat
    <3>1. D \in SUBSET Units(f, S)
      BY <2>1
    <3> QED BY <3>1, <1>3, FS_Subset, FS_CardinalityType
  <2>4. Cardinality(C \cup D) = Cardinality(C) + Cardinality(D) - Cardinality(C \cap D)
    BY <2>2, <2>3, FS_Union
  <2>5. Cardinality(C \cap D) = 0
    BY <2>1, FS_EmptySet
  <2>6. f[x] \in Nat
    OBVIOUS
  <2> HIDE DEF C, D
  <2>7. Cardinality(C \cup D) = f[x] + Cardinality(D)
    BY <2>2, <2>3, <2>4, <2>5, <2>6
  <2> QED BY <2>1, <2>7 DEF D
<1> QED BY <1>3, <1>4

\* f counts, at every place of S, up to m.
Counts(f, S, m) == \A x \in S : f[x] \in 0..m

\* One place taken out.
LEMMA UnitsTaken ==
  ASSUME NEW S, IsFiniteSet(S), NEW m \in Nat, NEW f, Counts(f, S, m), NEW x \in S
  PROVE  /\ Cardinality(Units(f, S)) \in Nat
         /\ Cardinality(Units(f, S)) = f[x] + Cardinality(Units(f, S \ {x}))
<1>1. \A y \in S : f[y] \in 0..m
  BY DEF Counts
<1>2. /\ Cardinality(Units(f, S)) \in Nat
      /\ \A y \in S : Cardinality(Units(f, S)) = f[y] + Cardinality(Units(f, S \ {y}))
  BY <1>1, UnitsCount
<1> QED BY <1>2

\* The units of two parts that share no place add up.
LEMMA UnitsUnion ==
  ASSUME NEW S, IsFiniteSet(S), NEW m \in Nat, NEW f, \A x \in S : f[x] \in 0..m,
         NEW A, NEW B, A \cup B = S, A \cap B = {}
  PROVE  Cardinality(Units(f, S)) = Cardinality(Units(f, A)) + Cardinality(Units(f, B))
<1>1. Units(f, A) \cup Units(f, B) = Units(f, S) /\ Units(f, A) \cap Units(f, B) = {}
  BY DEF Units
<1>2. IsFiniteSet(A) /\ IsFiniteSet(B)
  BY FS_Subset
<1>3. /\ IsFiniteSet(Units(f, A)) /\ Cardinality(Units(f, A)) \in Nat
      /\ IsFiniteSet(Units(f, B)) /\ Cardinality(Units(f, B)) \in Nat
  BY <1>2, UnitsCount
<1>4. Cardinality({}) = 0
  BY FS_EmptySet
<1> QED BY <1>1, <1>3, <1>4, FS_Union

\* Places that are carried into others, none with a smaller count, have no more units.
LEMMA UnitsEmbed ==
  ASSUME NEW S, IsFiniteSet(S), NEW m \in Nat, NEW f, \A x \in S : f[x] \in 0..m,
         NEW T, NEW g, NEW h \in Injection(T, S),
         \A x \in T : g[x] \in Nat /\ g[x] <= f[h[x]]
  PROVE  IsFiniteSet(Units(g, T)) /\ Cardinality(Units(g, T)) <= Cardinality(Units(f, S))
<1> DEFINE b == [u \in Units(g, T) |-> <<h[u[1]], u[2]>>]
<1>1. h \in [T -> S] /\ \A x, y \in T : h[x] = h[y] => x = y
  BY DEF Injection, IsInjective
<1>2. ASSUME NEW u \in Units(g, T) PROVE b[u] \in Units(f, S)
  <2>1. u \in T \X Nat /\ u[2] < g[u[1]] /\ u[1] \in T /\ u[2] \in Nat
    BY DEF Units
  <2>2. g[u[1]] \in Nat /\ g[u[1]] <= f[h[u[1]]] /\ h[u[1]] \in S /\ f[h[u[1]]] \in 0..m
    BY <1>1, <2>1
  <2>3. u[2] < f[h[u[1]]]
    BY <2>1, <2>2
  <2> QED BY <2>1, <2>2, <2>3 DEF Units
<1>3. ASSUME NEW u \in Units(g, T), NEW v \in Units(g, T), b[u] = b[v] PROVE u = v
  <2>1. u \in T \X Nat /\ v \in T \X Nat
    BY DEF Units
  <2>2. h[u[1]] = h[v[1]] /\ u[2] = v[2]
    BY <1>3
  <2> QED BY <1>1, <2>1, <2>2
<1>4. b \in Injection(Units(g, T), Units(f, S))
  BY <1>2, <1>3 DEF Injection, IsInjective
<1>5. IsFiniteSet(Units(f, S))
  BY UnitsCount
<1> HIDE DEF b
<1> QED BY <1>4, <1>5, FS_Injection

\* Parts of one set that share nothing: counts that are no larger than the parts have
\* together no more units than the set has elements.
LEMMA UnitsOfParts ==
  ASSUME NEW S, NEW U, IsFiniteSet(U), NEW A \in [S -> SUBSET U],
         \A x, y \in S : x # y => A[x] \cap A[y] = {},
         NEW f, \A x \in S : f[x] \in Nat /\ f[x] <= Cardinality(A[x])
  PROVE  Cardinality(Units(f, S)) <= Cardinality(U)
<1> DEFINE g == [x \in S |-> CHOOSE b : b \in Bijection(1..Cardinality(A[x]), A[x])]
           h == [u \in Units(f, S) |-> g[u[1]][u[2] + 1]]
<1>1. ASSUME NEW x \in S
      PROVE  Cardinality(A[x]) \in Nat /\ g[x] \in Bijection(1..Cardinality(A[x]), A[x])
  <2>1. IsFiniteSet(A[x])
    BY FS_Subset
  <2>2. Cardinality(A[x]) \in Nat /\ ExistsBijection(1..Cardinality(A[x]), A[x])
    BY <2>1, FS_CardinalityType
  <2>3. \E b : b \in Bijection(1..Cardinality(A[x]), A[x])
    BY <2>2 DEF ExistsBijection
  <2> QED BY <2>2, <2>3
<1>2. ASSUME NEW u \in Units(f, S)
      PROVE  u[1] \in S /\ u[2] \in Nat /\ u[2] + 1 \in 1..Cardinality(A[u[1]])
             /\ u = <<u[1], u[2]>> /\ h[u] = g[u[1]][u[2] + 1]
  <2>1. u \in S \X Nat /\ u[2] < f[u[1]] /\ u[1] \in S /\ u[2] \in Nat
    BY DEF Units
  <2>2. f[u[1]] \in Nat /\ f[u[1]] <= Cardinality(A[u[1]]) /\ Cardinality(A[u[1]]) \in Nat
    BY <1>1, <2>1
  <2>3. u[2] + 1 \in 1..Cardinality(A[u[1]])
    BY <2>1, <2>2
  <2> QED BY <2>1, <2>3
<1> HIDE DEF g, h
<1>3. ASSUME NEW u \in Units(f, S) PROVE h[u] \in A[u[1]] /\ h[u] \in U
  BY <1>1, <1>2 DEF Bijection, Injection
<1>4. ASSUME NEW u \in Units(f, S), NEW v \in Units(f, S), h[u] = h[v] PROVE u = v
  <2>1. u[1] = v[1]
    BY <1>2, <1>3, <1>4
  <2>2. g[u[1]][u[2] + 1] = g[u[1]][v[2] + 1]
    BY <1>2, <1>4, <2>1
  <2>3. \A i, j \in 1..Cardinality(A[u[1]]) : g[u[1]][i] = g[u[1]][j] => i = j
    BY <1>1, <1>2 DEF Bijection, Injection, IsInjective
  <2>4. u[2] + 1 = v[2] + 1
    BY <1>2, <2>1, <2>2, <2>3
  <2>5. u[2] = v[2]
    BY <1>2, <2>4
  <2> QED BY <1>2, <2>1, <2>5
<1>5. h \in Injection(Units(f, S), U)
  <2>1. h \in [Units(f, S) -> U]
    BY <1>3 DEF h
  <2> QED BY <1>4, <2>1 DEF Injection, IsInjective
<1> QED BY <1>5, FS_Injection

\* The fold of the community modules adds up a function's values: as many as it has units.
LEMMA SumIsCount ==
  ASSUME NEW S, IsFiniteSet(S), NEW m \in Nat, NEW f \in [S -> 0..m]
  PROVE  FoldFunction(+, 0, f) = Cardinality(Units(f, S))
<1> DEFINE pick(T) == CHOOSE x \in T : TRUE
           Folds(g) == g = [T \in SUBSET S |-> IF T = {} THEN 0
                                               ELSE f[pick(T)] + g[T \ {pick(T)}]]
           G == [T \in SUBSET S |-> Cardinality(Units(f, T))]
<1>1. \A T \in SUBSET S : T # {} => pick(T) \in T
  OBVIOUS
<1>2. FoldFunction(+, 0, f) = (CHOOSE g : Folds(g))[S]
  BY DEF FoldFunction, FoldFunctionOnSet, MapThenFoldSet
<1>3. Folds(G)
  <2>1. ASSUME NEW T \in SUBSET S
        PROVE  G[T] = IF T = {} THEN 0 ELSE f[pick(T)] + G[T \ {pick(T)}]
    <3>1. CASE T = {}
      <4>1. Units(f, T) = {}
        BY <3>1 DEF Units
      <4> QED BY <3>1, <4>1, FS_EmptySet
    <3>2. CASE T # {}
      <4>1. pick(T) \in T /\ T \ {pick(T)} \in SUBSET S
        BY <1>1, <3>2
      <4>2. IsFiniteSet(T) /\ \A x \in T : f[x] \in 0..m
        BY FS_Subset
      <4> HIDE DEF pick
      <4>3. Cardinality(Units(f, T)) = f[pick(T)] + Cardinality(Units(f, T \ {pick(T)}))
        BY <4>1, <4>2, UnitsCount
      <4> QED BY <3>2, <4>1, <4>3
    <3> QED BY <3>1, <3>2
  <2> HIDE DEF pick
  <2> QED BY <2>1
<1>4. ASSUME NEW g, Folds(g), NEW T \in SUBSET S
      PROVE  g[T] = IF T = {} THEN 0 ELSE f[pick(T)] + g[T \ {pick(T)}]
  <2> HIDE DEF pick
  <2>1. g = [U \in SUBSET S |-> IF U = {} THEN 0 ELSE f[pick(U)] + g[U \ {pick(U)}]]
    BY <1>4
  <2> DEFINE F(U) == IF U = {} THEN 0 ELSE f[pick(U)] + g[U \ {pick(U)}]
  <2>2. g = [U \in SUBSET S |-> F(U)]
    BY <2>1
  <2>3. F(T) = IF T = {} THEN 0 ELSE f[pick(T)] + g[T \ {pick(T)}]
    OBVIOUS
  <2> HIDE DEF F
  <2>4. g[T] = F(T)
    BY <2>2
  <2> QED BY <2>3, <2>4
<1>5. ASSUME NEW g, Folds(g) PROVE \A T \in SUBSET S : g[T] = G[T]
  <2> DEFINE Bad == {T \in SUBSET S : g[T] # G[T]}
  <2> SUFFICES ASSUME Bad # {} PROVE FALSE
    OBVIOUS
  <2>1. IsWellFoundedOn(StrictSubsetOrdering(S), SUBSET S)
    BY FS_StrictSubsetOrderingWellFounded, FS_FiniteSubsetsOfFinite
  <2>2. Bad \subseteq SUBSET S
    OBVIOUS
  <2>3. PICK T \in Bad : \A U \in Bad : ~ (<<U, T>> \in StrictSubsetOrdering(S))
    <3> HIDE DEF Bad
    <3> QED BY <2>1, <2>2, WFMin
  <2>4. T \in SUBSET S /\ g[T] # G[T]
    OBVIOUS
  <2>5. \A U \in SUBSET S : U \subseteq T /\ U # T => g[U] = G[U]
    BY <2>3, <2>4 DEF StrictSubsetOrdering
  <2> HIDE DEF G, pick, Folds, Bad
  <2>6. CASE T = {}
    BY <1>3, <1>4, <1>5, <2>4, <2>6
  <2>7. CASE T # {}
    <3>1. pick(T) \in T
      BY <1>1, <2>4, <2>7
    <3>2. g[T \ {pick(T)}] = G[T \ {pick(T)}]
      BY <2>4, <2>5, <3>1
    <3>3. g[T] = f[pick(T)] + g[T \ {pick(T)}]
      BY <1>4, <1>5, <2>4, <2>7
    <3>4. G[T] = f[pick(T)] + G[T \ {pick(T)}]
      BY <1>3, <1>4, <2>4, <2>7
    <3> QED BY <2>4, <3>2, <3>3, <3>4
  <2> QED BY <2>6, <2>7
<1>6. (CHOOSE g : Folds(g))[S] = G[S]
  <2> HIDE DEF Folds, G
  <2>1. Folds(CHOOSE g : Folds(g))
    BY <1>3
  <2> QED BY <2>1, <1>5
<1> QED BY <1>2, <1>6
=============================================================================
