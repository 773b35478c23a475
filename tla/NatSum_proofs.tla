---------------------------- MODULE NatSum_proofs ----------------------------
(***************************************************************************)
(* Facts about Total: it is a natural number, zero for the zero function,  *)
(* and an update at one point changes it by the change at that point.      *)
(* And the fact that stands in for induction: among naturals there is a    *)
(* least one, so that what fails at some step fails at a first one.        *)
(***************************************************************************)
EXTENDS NatSum, FiniteSetTheorems, FunctionTheorems, WellFoundedInduction, TLAPS

\* Among naturals there is a least one.
LEMMA LeastNumber ==
  ASSUME NEW T, T \subseteq Nat, T # {}
  PROVE  \E m \in T : \A n \in T : m <= n
<1> DEFINE R == OpToRel(<, Nat)
<1>1. IsWellFoundedOn(R, Nat)
  BY NatLessThanWellFounded
<1>2. \A m, n \in Nat : <<n, m>> \in R <=> n < m
  BY DEF OpToRel
<1> HIDE DEF R
<1>3. PICK m \in T : \A n \in T : <<n, m>> \notin R
  BY <1>1, WFMin
<1>4. ASSUME NEW n \in T  PROVE m <= n
  <2>1. m \in Nat /\ n \in Nat
    OBVIOUS
  <2>2. ~(n < m)
    BY <1>2, <1>3, <2>1
  <2> QED  BY <2>1, <2>2
<1> QED  BY <1>4

\* A column is a finite set of as many pieces as its height.
LEMMA ColumnSize ==
  ASSUME NEW x, NEW n \in Nat
  PROVE  /\ IsFiniteSet(Column(x, n))
         /\ Cardinality(Column(x, n)) = n
<1>1. IsFiniteSet({x}) /\ Cardinality({x}) = 1
  BY FS_Singleton
<1>2. IsFiniteSet(1..n) /\ Cardinality(1..n) = n
  <2>1. 1 \in Int /\ n \in Int
    OBVIOUS
  <2>2. IsFiniteSet(1..n) /\ Cardinality(1..n) = IF 1 > n THEN 0 ELSE n - 1 + 1
    BY <2>1, FS_Interval
  <2> QED  BY <2>2
<1> DEFINE S == {x}  T == 1..n
<1>3. IsFiniteSet(S \X T) /\ Cardinality(S \X T) = Cardinality(S) * Cardinality(T)
  <2>1. IsFiniteSet(S) /\ IsFiniteSet(T)
    BY <1>1, <1>2
  <2> HIDE DEF S, T
  <2> QED  BY <2>1, FS_Product, Zenon
<1>4. Column(x, n) = S \X T
  BY DEF Column
<1>5. Cardinality(S) * Cardinality(T) = n
  BY <1>1, <1>2
<1> QED  BY <1>3, <1>4, <1>5, Zenon

\* The columns of a function with a finite domain are finitely many.
LEMMA ColumnsFinite ==
  ASSUME NEW D, IsFiniteSet(D), NEW f \in [D -> Nat]
  PROVE  IsFiniteSet({Column(x, f[x]) : x \in D})
<1> DEFINE C == {Column(x, f[x]) : x \in D}
           g == [x \in D |-> Column(x, f[x])]
<1>1. g \in Surjection(D, C)
  BY DEF Surjection
<1> QED  BY <1>1, FS_Surjection

\* The pieces of a function with a finite domain are finitely many.
LEMMA UnitsFinite ==
  ASSUME NEW D, IsFiniteSet(D), NEW f \in [D -> Nat]
  PROVE  IsFiniteSet(Units(f))
<1> DEFINE C == {Column(x, f[x]) : x \in D}
<1>1. IsFiniteSet(C)
  BY ColumnsFinite
<1>2. \A T \in C : IsFiniteSet(T)
  BY ColumnSize
<1>3. Units(f) = UNION C
  BY DEF Units
<1> QED  BY <1>1, <1>2, <1>3, FS_UNION

\* The sum is a natural number.
LEMMA TotalType ==
  ASSUME NEW D, IsFiniteSet(D), NEW f \in [D -> Nat]
  PROVE  Total(f) \in Nat
BY UnitsFinite, FS_CardinalityType DEF Total

\* Nothing adds up to zero.
LEMMA TotalZero ==
  ASSUME NEW D, NEW f \in [D -> Nat], \A x \in D : f[x] = 0
  PROVE  Total(f) = 0
<1>1. \A x \in D : Column(x, f[x]) = {}
  BY DEF Column
<1>2. Units(f) = {}
  BY <1>1 DEF Units
<1> QED  BY <1>2, FS_EmptySet DEF Total

\* If f and g agree except at x, their sums differ as f[x] and g[x] do.
LEMMA TotalUpdate ==
  ASSUME NEW D, IsFiniteSet(D), NEW f \in [D -> Nat], NEW g \in [D -> Nat],
         NEW x \in D, \A y \in D \ {x} : g[y] = f[y]
  PROVE  Total(g) + f[x] = Total(f) + g[x]
<1> DEFINE Rest == Units(f) \ Column(x, f[x])
<1>1. Units(f) = Rest \cup Column(x, f[x])
  BY DEF Units
<1>2. Units(g) = Rest \cup Column(x, g[x])
  <2>1. Rest = UNION {Column(y, f[y]) : y \in D \ {x}}
    BY DEF Units, Column
  <2>2. Rest = UNION {Column(y, g[y]) : y \in D \ {x}}
    BY <2>1
  <2> QED  BY <2>2 DEF Units
<1>3. Rest \cap Column(x, f[x]) = {} /\ Rest \cap Column(x, g[x]) = {}
  BY DEF Units, Column
<1>4. IsFiniteSet(Rest)
  BY UnitsFinite, FS_Difference
<1>5. f[x] \in Nat /\ g[x] \in Nat
  OBVIOUS
<1>6. Total(f) = Cardinality(Rest) + f[x]
  <2>1. IsFiniteSet(Column(x, f[x])) /\ Cardinality(Column(x, f[x])) = f[x]
    BY <1>5, ColumnSize
  <2>2. Cardinality(Rest \cap Column(x, f[x])) = 0
    BY <1>3, FS_EmptySet
  <2>3. Cardinality(Units(f)) = Cardinality(Rest) + f[x] - 0
    BY <1>1, <1>4, <2>1, <2>2, FS_Union
  <2> QED  BY <2>3, <1>4, <1>5, FS_CardinalityType DEF Total
<1>7. Total(g) = Cardinality(Rest) + g[x]
  <2>1. IsFiniteSet(Column(x, g[x])) /\ Cardinality(Column(x, g[x])) = g[x]
    BY <1>5, ColumnSize
  <2>2. Cardinality(Rest \cap Column(x, g[x])) = 0
    BY <1>3, FS_EmptySet
  <2>3. Cardinality(Units(g)) = Cardinality(Rest) + g[x] - 0
    BY <1>2, <1>4, <2>1, <2>2, FS_Union
  <2> QED  BY <2>3, <1>4, <1>5, FS_CardinalityType DEF Total
<1>8. Cardinality(Rest) \in Nat
  BY <1>4, FS_CardinalityType
<1> QED  BY <1>5, <1>6, <1>7, <1>8

\* Functions that agree everywhere have the same sum.
LEMMA TotalSame ==
  ASSUME NEW D, NEW f \in [D -> Nat], NEW g \in [D -> Nat], \A y \in D : g[y] = f[y]
  PROVE  Total(g) = Total(f)
<1>1. f = g
  OBVIOUS
<1> QED  BY <1>1

\* The sum of two functions adds their sums.
LEMMA TotalAdd ==
  ASSUME NEW D, IsFiniteSet(D), NEW f \in [D -> Nat], NEW g \in [D -> Nat],
         NEW h \in [D -> Nat], \A x \in D : h[x] = f[x] + g[x]
  PROVE  Total(h) = Total(f) + Total(g)
<1> DEFINE Piece(x) == {x} \X ((f[x] + 1) .. (f[x] + g[x]))
           Rest == UNION {Piece(x) : x \in D}
           shift == [u \in Units(g) |-> <<u[1], u[2] + f[u[1]]>>]
<1>1. \A u : u \in Units(g) <=> (\E x \in D : \E k \in 1 .. g[x] : u = <<x, k>>)
  BY DEF Units, Column
<1>2. \A u : u \in Rest <=> (\E x \in D : \E k \in (f[x] + 1) .. (f[x] + g[x]) : u = <<x, k>>)
  OBVIOUS
<1> HIDE DEF Rest
<1>3. ASSUME NEW u \in Units(g) PROVE shift[u] \in Rest
  <2>1. PICK x \in D : \E k \in 1 .. g[x] : u = <<x, k>>
    BY <1>1
  <2>2. PICK k \in 1 .. g[x] : u = <<x, k>>
    BY <2>1
  <2>3. f[x] \in Nat /\ g[x] \in Nat /\ k + f[x] \in (f[x] + 1) .. (f[x] + g[x])
    OBVIOUS
  <2> QED  BY <1>2, <2>2, <2>3
<1>4. ASSUME NEW u \in Units(g), NEW v \in Units(g), shift[u] = shift[v] PROVE u = v
  <2>1. PICK x \in D : \E k \in 1 .. g[x] : u = <<x, k>>
    BY <1>1
  <2>2. PICK k \in 1 .. g[x] : u = <<x, k>>
    BY <2>1
  <2>3. PICK y \in D : \E l \in 1 .. g[y] : v = <<y, l>>
    BY <1>1
  <2>4. PICK l \in 1 .. g[y] : v = <<y, l>>
    BY <2>3
  <2>5. x = y /\ k + f[x] = l + f[y] /\ f[x] \in Nat /\ g[x] \in Nat
    BY <1>4, <2>2, <2>4
  <2>6. k = l
    BY <2>5
  <2> QED  BY <2>2, <2>4, <2>5, <2>6
<1>5. ASSUME NEW r \in Rest PROVE \E u \in Units(g) : shift[u] = r
  <2>1. PICK x \in D : \E k \in (f[x] + 1) .. (f[x] + g[x]) : r = <<x, k>>
    BY <1>2
  <2>2. PICK k \in (f[x] + 1) .. (f[x] + g[x]) : r = <<x, k>>
    BY <2>1
  <2>3. f[x] \in Nat /\ g[x] \in Nat
    OBVIOUS
  <2>4. k - f[x] \in 1 .. g[x] /\ k - f[x] + f[x] = k
    BY <2>3
  <2>5. <<x, k - f[x]>> \in Units(g)
    BY <1>1, <2>4
  <2>6. shift[<<x, k - f[x]>>] = r
    BY <2>2, <2>4, <2>5
  <2> QED  BY <2>5, <2>6
<1>6. shift \in Bijection(Units(g), Rest)
  <2>1. shift \in [Units(g) -> Rest]
    BY <1>3
  <2> HIDE DEF shift
  <2>2. shift \in Injection(Units(g), Rest)
    BY <1>4, <2>1 DEF Injection, IsInjective
  <2>3. shift \in Surjection(Units(g), Rest)
    BY <1>5, <2>1 DEF Surjection
  <2> QED  BY <2>2, <2>3 DEF Bijection
<1>7. IsFiniteSet(Rest) /\ Cardinality(Rest) = Total(g)
  BY <1>6, UnitsFinite, FS_Bijection DEF ExistsBijection, Total
<1>8. Units(h) = Units(f) \cup Rest
  <2>1. ASSUME NEW x \in D
        PROVE  Column(x, h[x]) = Column(x, f[x]) \cup Piece(x)
    <3>1. f[x] \in Nat /\ g[x] \in Nat /\ h[x] = f[x] + g[x]
      OBVIOUS
    <3>2. 1 .. h[x] = (1 .. f[x]) \cup ((f[x] + 1) .. (f[x] + g[x]))
      BY <3>1
    <3> QED  BY <3>2 DEF Column
  <2> QED  BY <2>1 DEF Units, Rest
<1>9. Units(f) \cap Rest = {}
  <2> SUFFICES ASSUME NEW x \in D, NEW k \in 1 .. f[x], k \in (f[x] + 1) .. (f[x] + g[x])
               PROVE  FALSE
    BY <1>2 DEF Units, Column
  <2>1. f[x] \in Nat /\ g[x] \in Nat
    OBVIOUS
  <2> QED  BY <2>1
<1>10. Cardinality(Units(f) \cap Rest) = 0
  BY <1>9, FS_EmptySet
<1>11. Total(h) = Total(f) + Total(g) - 0
  BY <1>7, <1>8, <1>10, UnitsFinite, FS_Union DEF Total
<1>12. Total(f) \in Nat /\ Total(g) \in Nat
  BY TotalType
<1> QED  BY <1>11, <1>12

\* A function that is nowhere above another has the same sum only if it is the same.
LEMMA TotalBelow ==
  ASSUME NEW D, IsFiniteSet(D), NEW f \in [D -> Nat], NEW g \in [D -> Nat],
         \A x \in D : f[x] <= g[x], Total(f) = Total(g)
  PROVE  f = g
<1>1. \A x \in D : 1 .. f[x] \subseteq 1 .. g[x]
  OBVIOUS
<1>2. Units(f) \subseteq Units(g)
  BY <1>1 DEF Units, Column
<1>3. Units(f) = Units(g)
  BY <1>2, UnitsFinite, FS_Subset DEF Total
<1>4. ASSUME NEW x \in D PROVE f[x] = g[x]
  <2>1. f[x] \in Nat /\ g[x] \in Nat /\ f[x] <= g[x]
    OBVIOUS
  <2>2. CASE g[x] = 0
    BY <2>1, <2>2
  <2>3. CASE g[x] # 0
    <3>1. <<x, g[x]>> \in Units(f)
      BY <1>3, <2>1, <2>3 DEF Units, Column
    <3>2. g[x] \in 1 .. f[x]
      BY <3>1 DEF Units, Column
    <3> QED  BY <2>1, <3>2
  <2> QED  BY <2>2, <2>3
<1> QED  BY <1>4

\* Where a function is zero it adds nothing to the sum.
LEMMA TotalOfPart ==
  ASSUME NEW D, NEW E \in SUBSET D, NEW f \in [D -> Nat], NEW g \in [E -> Nat],
         \A x \in D : f[x] = IF x \in E THEN g[x] ELSE 0
  PROVE  Total(f) = Total(g)
<1>1. \A x \in D \ E : Column(x, f[x]) = {}
  BY DEF Column
<1>2. \A x \in E : Column(x, f[x]) = Column(x, g[x])
  OBVIOUS
<1>3. Units(f) = Units(g)
  BY <1>1, <1>2 DEF Units
<1> QED  BY <1>3 DEF Total
=============================================================================
