------------------------------ MODULE SetLemmas ------------------------------
(***************************************************************************)
(* Facts about finite sets that the proofs of several components need:     *)
(* least and greatest elements of sets of naturals, the operators Max and  *)
(* Min, which are defined by CHOOSE, sums over a set, maps, folds and      *)
(* selections from sequences.  Induction on the size of a set, or along a  *)
(* sequence, is done with a least counterexample.                          *)
(***************************************************************************)
EXTENDS Collections, FiniteSetTheorems, WellFoundedInduction, TLAPS

\* Every non-empty set of naturals has a least element.
LEMMA LeastNatural ==
  ASSUME NEW T \in SUBSET Nat, T # {}
  PROVE  \E x \in T : \A y \in T : x <= y
<1>1. PICK x \in T : \A y \in T : <<y, x>> \notin OpToRel(<, Nat)
  BY NatLessThanWellFounded, WFMin, Zenon
<1>2. \A y \in T : ~(y < x)
  BY <1>1 DEF OpToRel
<1> QED BY <1>2

\* Every finite, non-empty set of naturals has a greatest element.
LEMMA GreatestNatural ==
  ASSUME NEW S \in SUBSET Nat, IsFiniteSet(S), S # {}
  PROVE  \E m \in S : \A x \in S : x <= m
<1> DEFINE Topped(T) == \E m \in T : \A x \in T : x <= m
           Bad == {k \in Nat : \E T \in SUBSET Nat :
                     /\ IsFiniteSet(T) /\ T # {}
                     /\ Cardinality(T) = k
                     /\ ~Topped(T)}
<1>1. ASSUME Bad # {} PROVE FALSE
  <2>1. PICK k \in Bad : \A j \in Bad : k <= j
    BY <1>1, LeastNatural
  <2>2. PICK T \in SUBSET Nat : /\ IsFiniteSet(T) /\ T # {}
                                /\ Cardinality(T) = k
                                /\ ~Topped(T)
    BY <2>1
  <2>3. PICK x \in T : TRUE
    BY <2>2
  <2>4. IsFiniteSet(T \ {x}) /\ Cardinality(T \ {x}) = k - 1
    BY <2>2, <2>3, FS_RemoveElement
  <2>5. T \ {x} # {}
    BY <2>2, <2>3
  <2>6. k - 1 \in Nat
    BY <2>4, FS_CardinalityType
  <2>7. k - 1 \notin Bad
    BY <2>1, <2>6
  <2>8. PICK m \in T \ {x} : \A y \in T \ {x} : y <= m
    BY <2>4, <2>5, <2>6, <2>7
  <2>9. CASE m <= x
    BY <2>2, <2>3, <2>8, <2>9
  <2>10. CASE x <= m
    BY <2>2, <2>3, <2>8, <2>10
  <2> QED BY <2>3, <2>8, <2>9, <2>10
<1>2. Cardinality(S) \in Nat
  BY FS_CardinalityType
<1> QED BY <1>1, <1>2

\* Max of a finite, non-empty set of naturals is its greatest element.
LEMMA MaxIsGreatest ==
  ASSUME NEW S \in SUBSET Nat, IsFiniteSet(S), S # {}
  PROVE  Max(S) \in S /\ \A x \in S : x <= Max(S)
<1>1. PICK m \in S : \A x \in S : x <= m
  BY GreatestNatural
<1>2. \A x \in S : m >= x
  BY <1>1
<1>3. Max(S) \in S /\ \A x \in S : Max(S) >= x
  BY <1>2, Zenon DEF Max
<1> QED BY <1>3

\* Min of a non-empty set of naturals is its least element.
LEMMA MinIsLeast ==
  ASSUME NEW S \in SUBSET Nat, S # {}
  PROVE  Min(S) \in S /\ \A x \in S : Min(S) <= x
<1>1. PICK m \in S : \A x \in S : m <= x
  BY LeastNatural
<1> QED BY <1>1, Zenon DEF Min

\* The greater of two naturals.
LEMMA MaxOfTwo ==
  ASSUME NEW a \in Nat, NEW b \in Nat
  PROVE  /\ Max({a, b}) \in {a, b}
         /\ a <= Max({a, b}) /\ b <= Max({a, b})
<1>1. IsFiniteSet({a, b}) /\ {a, b} # {}
  <2>1. IsFiniteSet({a} \cup {b})
    BY FS_Singleton, FS_AddElement
  <2>2. {a, b} = {a} \cup {b}
    OBVIOUS
  <2> QED BY <2>1, <2>2
<1> QED BY <1>1, MaxIsGreatest
-----------------------------------------------------------------------------
\* Sums over finite sets.  MapThenSumSet is a fold, whose recursive function on
\* the subsets is defined by CHOOSE: that it exists and is unique is shown by
\* least counterexamples, one size of subsets after the other.
Some(s) == CHOOSE x \in s : TRUE

\* The fold on the subsets of S.
IsFoldOf(h, f, S) ==
  h = [s \in SUBSET S |-> IF s = {} THEN 0 ELSE f[Some(s)] + h[s \ {Some(s)}]]

\* The sum over a set as the value of a function defined by recursion on subsets.
LEMMA SumIsFold ==
  ASSUME NEW f, NEW S
  PROVE  SumOver(f, S) = (CHOOSE h : IsFoldOf(h, f, S))[S]
BY Zenon DEF SumOver, MapThenSumSet, MapThenFoldSet, IsFoldOf, Some

\* The element that the fold takes next.
LEMMA SomeIsIn ==
  ASSUME NEW s, s # {}
  PROVE  Some(s) \in s
BY DEF Some

LEMMA SmallerSubset ==
  ASSUME NEW S, IsFiniteSet(S), NEW s \in SUBSET S, s # {}
  PROVE  /\ s \ {Some(s)} \in SUBSET S
         /\ Cardinality(s) \in Nat /\ Cardinality(s \ {Some(s)}) = Cardinality(s) - 1
         /\ Cardinality(s \ {Some(s)}) \in Nat
<1>1. IsFiniteSet(s)
  BY FS_Subset
<1>2. Some(s) \in s
  BY SomeIsIn
<1>3. IsFiniteSet(s \ {Some(s)}) /\ Cardinality(s \ {Some(s)}) = Cardinality(s) - 1
  BY <1>1, <1>2, FS_RemoveElement
<1> QED BY <1>1, <1>3, FS_CardinalityType

\* A fold takes naturals to naturals, ...
LEMMA FoldType ==
  ASSUME NEW f, NEW S, IsFiniteSet(S), \A x \in S : f[x] \in Nat, NEW h, IsFoldOf(h, f, S)
  PROVE  \A s \in SUBSET S : h[s] \in Nat
<1> DEFINE Bad == {k \in Nat : \E s \in SUBSET S : Cardinality(s) = k /\ h[s] \notin Nat}
<1>1. \A s \in SUBSET S : h[s] = IF s = {} THEN 0 ELSE f[Some(s)] + h[s \ {Some(s)}]
  BY DEF IsFoldOf
<1>2. ASSUME Bad # {} PROVE FALSE
  <2>1. PICK k \in Bad : \A j \in Bad : k <= j
    BY <1>2, LeastNatural
  <2>2. PICK s \in SUBSET S : Cardinality(s) = k /\ h[s] \notin Nat
    BY <2>1
  <2>3. s # {} /\ h[s] = f[Some(s)] + h[s \ {Some(s)}]
    <3>1. CASE s = {}
      <4>1. h[s] = 0
        BY <1>1, <3>1
      <4> QED BY <2>2, <4>1
    <3>2. CASE s # {}
      BY <1>1, <3>2
    <3> QED BY <3>1, <3>2
  <2>4. /\ s \ {Some(s)} \in SUBSET S /\ Cardinality(s \ {Some(s)}) = k - 1
        /\ k - 1 \in Nat
    BY <2>2, <2>3, SmallerSubset
  <2>5. k - 1 \notin Bad
    BY <2>1, <2>4
  <2>6. h[s \ {Some(s)}] \in Nat
    BY <2>4, <2>5
  <2>7. f[Some(s)] \in Nat
    BY <2>3, SomeIsIn
  <2> QED BY <2>2, <2>3, <2>6, <2>7
<1>3. \A s \in SUBSET S : Cardinality(s) \in Nat
  BY FS_Subset, FS_CardinalityType
<1> QED BY <1>2, <1>3

\* ... depends only on the values it adds up, whichever set it is defined on, ...
LEMMA FoldsAgree ==
  ASSUME NEW f, NEW g, NEW S, IsFiniteSet(S), NEW U \in SUBSET S,
         \A x \in U : f[x] = g[x], NEW h, IsFoldOf(h, f, S), NEW i, IsFoldOf(i, g, U)
  PROVE  h[U] = i[U]
<1> DEFINE Bad == {k \in Nat : \E s \in SUBSET U : Cardinality(s) = k /\ h[s] # i[s]}
<1>1. IsFiniteSet(U)
  BY FS_Subset
<1>2. \A s \in SUBSET U : /\ h[s] = IF s = {} THEN 0 ELSE f[Some(s)] + h[s \ {Some(s)}]
                          /\ i[s] = IF s = {} THEN 0 ELSE g[Some(s)] + i[s \ {Some(s)}]
  <2>1. \A s \in SUBSET U : s \in SUBSET S
    OBVIOUS
  <2> QED BY <2>1 DEF IsFoldOf
<1>3. ASSUME Bad # {} PROVE FALSE
  <2>1. PICK k \in Bad : \A j \in Bad : k <= j
    BY <1>3, LeastNatural
  <2>2. PICK s \in SUBSET U : Cardinality(s) = k /\ h[s] # i[s]
    BY <2>1
  <2>3. s # {}
    BY <1>2, <2>2
  <2>4. /\ h[s] = f[Some(s)] + h[s \ {Some(s)}]
        /\ i[s] = g[Some(s)] + i[s \ {Some(s)}]
    BY <1>2, <2>3
  <2>5. /\ s \ {Some(s)} \in SUBSET U /\ Cardinality(s \ {Some(s)}) = k - 1
        /\ k - 1 \in Nat
    <3> HIDE DEF Bad
    <3>1. /\ s \ {Some(s)} \in SUBSET U
          /\ Cardinality(s) \in Nat /\ Cardinality(s \ {Some(s)}) = Cardinality(s) - 1
          /\ Cardinality(s \ {Some(s)}) \in Nat
      BY <1>1, <2>3, SmallerSubset
    <3> QED BY <2>2, <3>1
  <2>6. k - 1 \notin Bad
    BY <2>1, <2>5
  <2>7. h[s \ {Some(s)}] = i[s \ {Some(s)}]
    BY <2>5, <2>6
  <2>8. f[Some(s)] = g[Some(s)]
    BY <2>3, SomeIsIn
  <2> QED BY <2>2, <2>4, <2>7, <2>8
<1>4. Cardinality(U) \in Nat
  BY <1>1, FS_CardinalityType
<1> QED BY <1>3, <1>4

\* The fold over a set and the fold over a subset agree below the subset.
LEMMA FoldBelow ==
  ASSUME NEW f, NEW S, IsFiniteSet(S), NEW U \in SUBSET S, NEW h, IsFoldOf(h, f, S),
         NEW i, IsFoldOf(i, f, U)
  PROVE  h[U] = i[U]
<1>1. PICK g : g = f
  OBVIOUS
<1>2. (\A x \in U : f[x] = g[x]) /\ IsFoldOf(i, g, U)
  BY <1>1
<1> QED BY <1>2, FoldsAgree

\* ... and exists.
LEMMA FoldExists ==
  ASSUME NEW f, NEW S, IsFiniteSet(S)
  PROVE  \E h : IsFoldOf(h, f, S)
<1> DEFINE Sub(n) == {s \in SUBSET S : Cardinality(s) <= n}
           Body(h, s) == IF s = {} THEN 0 ELSE f[Some(s)] + h[s \ {Some(s)}]
           Partial(n) == \E h : /\ DOMAIN h = Sub(n)
                                /\ \A s \in Sub(n) : h[s] = Body(h, s)
           Bad == {n \in Nat : ~Partial(n)}
<1>1. \A s \in SUBSET S : Cardinality(s) \in Nat
  BY FS_Subset, FS_CardinalityType
<1>2. \A s \in SUBSET S : Cardinality(s) = 0 => s = {}
  BY FS_Subset, FS_EmptySet
<1>3. Partial(0)
  <2> DEFINE z == [s \in Sub(0) |-> 0]
  <2>1. \A s \in Sub(0) : z[s] = Body(z, s)
    <3>1. \A s \in Sub(0) : s = {}
      BY <1>1, <1>2
    <3> QED BY <3>1
  <2>2. DOMAIN z = Sub(0)
    OBVIOUS
  <2> HIDE DEF z, Body, Sub
  <2> QED BY <2>1, <2>2
<1>4. ASSUME NEW n \in Nat, Partial(n) PROVE Partial(n + 1)
  <2>1. PICK h : /\ DOMAIN h = Sub(n) /\ \A s \in Sub(n) : h[s] = Body(h, s)
    BY <1>4
  <2> DEFINE e == [s \in Sub(n + 1) |-> Body(h, s)]
  <2>2. ASSUME NEW s \in Sub(n) PROVE s \in Sub(n + 1) /\ e[s] = h[s]
    <3>1. s \in Sub(n + 1)
      BY <1>1
    <3> HIDE DEF Sub, Body
    <3> QED BY <2>1, <3>1
  <2>3. ASSUME NEW s \in Sub(n + 1) PROVE e[s] = Body(e, s)
    <3>1. CASE s = {}
      BY <3>1
    <3>2. CASE s # {}
      <4>1. s \ {Some(s)} \in Sub(n)
        BY <3>2, SmallerSubset
      <4>2. e[s \ {Some(s)}] = h[s \ {Some(s)}]
        BY <2>2, <4>1
      <4>3. e[s] = f[Some(s)] + h[s \ {Some(s)}]
        BY <3>2
      <4>4. Body(e, s) = f[Some(s)] + e[s \ {Some(s)}]
        BY <3>2
      <4> HIDE DEF e, Body
      <4> QED BY <4>2, <4>3, <4>4
    <3> QED BY <3>1, <3>2
  <2>4. DOMAIN e = Sub(n + 1)
    OBVIOUS
  <2> HIDE DEF e, Body, Sub
  <2> QED BY <2>3, <2>4
<1>5. ASSUME Bad # {} PROVE FALSE
  <2>1. PICK n \in Bad : \A m \in Bad : n <= m
    <3> HIDE DEF Partial
    <3> QED BY <1>5, LeastNatural
  <2> HIDE DEF Partial
  <2>2. n # 0
    BY <1>3, <2>1
  <2>3. n - 1 \in Nat /\ n - 1 \notin Bad
    BY <2>1, <2>2
  <2>4. Partial(n - 1)
    BY <2>3
  <2>5. Partial((n - 1) + 1)
    BY <1>4, <2>3, <2>4
  <2>6. (n - 1) + 1 = n
    BY <2>1
  <2> QED BY <2>1, <2>5, <2>6
<1>6. Partial(Cardinality(S))
  <2> HIDE DEF Partial
  <2> QED BY <1>5, FS_CardinalityType
<1>7. Sub(Cardinality(S)) = SUBSET S
  BY FS_Subset
<1>8. PICK h : DOMAIN h = SUBSET S /\ \A s \in SUBSET S : h[s] = Body(h, s)
  <2> HIDE DEF Sub, Body
  <2> QED BY <1>6, <1>7
<1> DEFINE k == [s \in SUBSET S |-> Body(h, s)]
<1>9. \A s \in SUBSET S : k[s] = h[s]
  <2> HIDE DEF Body
  <2> QED BY <1>8
<1>10. \A s \in SUBSET S : s # {} => s \ {Some(s)} \in SUBSET S
  OBVIOUS
<1>11. \A s \in SUBSET S : Body(k, s) = Body(h, s)
  <2> HIDE DEF k
  <2> QED BY <1>9, <1>10
<1>12. k = [s \in SUBSET S |-> Body(k, s)]
  <2> DEFINE bh(s) == Body(h, s)
             bk(s) == Body(k, s)
  <2>1. \A s \in SUBSET S : bk(s) = bh(s)
    BY <1>11
  <2>2. k = [s \in SUBSET S |-> bh(s)]
    OBVIOUS
  <2> HIDE DEF bh, bk, k
  <2>3. [s \in SUBSET S |-> bh(s)] = [s \in SUBSET S |-> bk(s)]
    BY <2>1
  <2> QED BY <2>2, <2>3 DEF bk
<1> HIDE DEF k
<1> QED BY <1>12, Zenon DEF IsFoldOf

-----------------------------------------------------------------------------
\* What the rest of a proof needs of a sum.
LEMMA TheFold ==
  ASSUME NEW f, NEW S, IsFiniteSet(S)
  PROVE  IsFoldOf(CHOOSE h : IsFoldOf(h, f, S), f, S)
BY FoldExists, Zenon

\* Laws of sums over finite sets.
LEMMA SumType ==
  ASSUME NEW f, NEW S, IsFiniteSet(S), \A x \in S : f[x] \in Nat
  PROVE  SumOver(f, S) \in Nat
<1> DEFINE h == CHOOSE h : IsFoldOf(h, f, S)
<1>1. IsFoldOf(h, f, S)
  BY TheFold
<1>2. SumOver(f, S) = h[S]
  BY SumIsFold
<1> HIDE DEF h
<1> QED BY <1>1, <1>2, FoldType

LEMMA SumCongruent ==
  ASSUME NEW f, NEW g, NEW S, IsFiniteSet(S), \A x \in S : f[x] = g[x]
  PROVE  SumOver(f, S) = SumOver(g, S)
<1> DEFINE h == CHOOSE h : IsFoldOf(h, f, S)
           i == CHOOSE i : IsFoldOf(i, g, S)
<1>1. IsFoldOf(h, f, S) /\ IsFoldOf(i, g, S)
  BY TheFold
<1>2. SumOver(f, S) = h[S] /\ SumOver(g, S) = i[S]
  BY SumIsFold
<1> HIDE DEF h, i
<1>3. h[S] = i[S]
  BY <1>1, FoldsAgree
<1> QED BY <1>2, <1>3

LEMMA SumEmpty ==
  ASSUME NEW f
  PROVE  SumOver(f, {}) = 0
<1> DEFINE h == CHOOSE h : IsFoldOf(h, f, {})
<1>1. IsFoldOf(h, f, {})
  BY TheFold, FS_EmptySet
<1>2. SumOver(f, {}) = h[{}]
  BY SumIsFold
<1> HIDE DEF h
<1> QED BY <1>1, <1>2 DEF IsFoldOf

\* The sum unfolds at the element that CHOOSE picks.
LEMMA SumOfSome ==
  ASSUME NEW f, NEW S, IsFiniteSet(S), S # {}
  PROVE  SumOver(f, S) = f[Some(S)] + SumOver(f, S \ {Some(S)})
<1> DEFINE T == S \ {Some(S)}
           h == CHOOSE h : IsFoldOf(h, f, S)
           i == CHOOSE i : IsFoldOf(i, f, T)
<1>0. IsFiniteSet(T)
  BY FS_Subset
<1>1. IsFoldOf(h, f, S) /\ IsFoldOf(i, f, T)
  BY <1>0, TheFold
<1>2. SumOver(f, S) = h[S] /\ SumOver(f, T) = i[T]
  BY SumIsFold
<1> HIDE DEF h, i
<1>3. h[T] = i[T]
  <2>1. T \in SUBSET S
    OBVIOUS
  <2> HIDE DEF T
  <2> QED BY <1>1, <2>1, FoldBelow
<1>4. h[S] = f[Some(S)] + h[T]
  BY <1>1 DEF IsFoldOf
<1> QED BY <1>2, <1>3, <1>4

\* Any element can be taken out first.
LEMMA SumOfElement ==
  ASSUME NEW f, NEW S, IsFiniteSet(S), \A x \in S : f[x] \in Nat, NEW x \in S
  PROVE  SumOver(f, S) = f[x] + SumOver(f, S \ {x})
<1> DEFINE Bad == {k \in Nat : \E T \in SUBSET S : \E y \in T :
                     Cardinality(T) = k /\ SumOver(f, T) # f[y] + SumOver(f, T \ {y})}
<1>1. ASSUME Bad # {} PROVE FALSE
  <2>1. PICK k \in Bad : \A j \in Bad : k <= j
    BY <1>1, LeastNatural
  <2>2. PICK T \in SUBSET S : \E y \in T :
          Cardinality(T) = k /\ SumOver(f, T) # f[y] + SumOver(f, T \ {y})
    BY <2>1
  <2>3. PICK y \in T : Cardinality(T) = k /\ SumOver(f, T) # f[y] + SumOver(f, T \ {y})
    BY <2>2
  <2> DEFINE z == Some(T)
             Ty == T \ {y}
             Tz == T \ {z}
             R == T \ {y, z}
  <2>4. IsFiniteSet(T) /\ z \in T /\ SumOver(f, T) = f[z] + SumOver(f, Tz)
    <3>1. IsFiniteSet(T)
      BY FS_Subset
    <3> QED BY <2>3, <3>1, SumOfSome, SomeIsIn
  <2>5. z # y
    BY <2>3, <2>4
  <2> HIDE DEF z
  <2>6. /\ IsFiniteSet(Ty) /\ Cardinality(Ty) = k - 1 /\ Ty \in SUBSET S /\ z \in Ty
        /\ IsFiniteSet(Tz) /\ Cardinality(Tz) = k - 1 /\ Tz \in SUBSET S /\ y \in Tz
    BY <2>3, <2>4, <2>5, FS_RemoveElement
  <2>7. k - 1 \in Nat /\ k - 1 \notin Bad
    <3>1. k - 1 \in Nat
      BY <2>6, FS_CardinalityType
    <3> QED BY <2>1, <3>1
  <2>8. Ty \ {z} = R /\ Tz \ {y} = R
    OBVIOUS
  <2>9. SumOver(f, Tz) = f[y] + SumOver(f, Tz \ {y}) /\ SumOver(f, Ty) = f[z] + SumOver(f, Ty \ {z})
    BY <2>6, <2>7
  <2>10. f[y] \in Nat /\ f[z] \in Nat /\ SumOver(f, R) \in Nat
    <3>1. IsFiniteSet(R) /\ \A v \in R : f[v] \in Nat
      BY <2>4, FS_Subset
    <3> QED BY <2>3, <2>4, <3>1, SumType
  <2>11. SumOver(f, Tz) = f[y] + SumOver(f, R) /\ SumOver(f, Ty) = f[z] + SumOver(f, R)
    BY <2>8, <2>9
  <2> HIDE DEF Ty, Tz, R
  <2>12. SumOver(f, T) = f[y] + SumOver(f, Ty)
    BY <2>4, <2>10, <2>11
  <2> QED BY <2>3, <2>12 DEF Ty
<1>2. Cardinality(S) \in Nat
  BY FS_CardinalityType
<1> QED BY <1>1, <1>2

\* It unfolds at any other element as well: the order does not matter.
LEMMA SumOfMore ==
  ASSUME NEW f, NEW S, IsFiniteSet(S), NEW x, x \notin S, \A y \in S \cup {x} : f[y] \in Nat
  PROVE  SumOver(f, S \cup {x}) = f[x] + SumOver(f, S)
<1>1. IsFiniteSet(S \cup {x}) /\ (S \cup {x}) \ {x} = S /\ x \in S \cup {x}
  BY FS_AddElement
<1> QED BY <1>1, SumOfElement

\* The sums over two sets.
LEMMA SumOfUnion ==
  ASSUME NEW f, NEW S, IsFiniteSet(S), NEW T, IsFiniteSet(T),
         \A x \in S \cup T : f[x] \in Nat
  PROVE  SumOver(f, S \cup T) + SumOver(f, S \cap T) = SumOver(f, S) + SumOver(f, T)
<1> DEFINE Holds(U) == SumOver(f, S \cup U) + SumOver(f, S \cap U) = SumOver(f, S) + SumOver(f, U)
           Bad == {k \in Nat : \E U \in SUBSET T : Cardinality(U) = k /\ ~Holds(U)}
<1>1. ASSUME Bad # {} PROVE FALSE
  <2>1. PICK k \in Bad : \A j \in Bad : k <= j
    <3> HIDE DEF Holds
    <3> QED BY <1>1, LeastNatural
  <2>2. PICK U \in SUBSET T : Cardinality(U) = k /\ ~Holds(U)
    BY <2>1
  <2>3. U # {}
    <3>1. Holds({})
      <4>1. S \cup {} = S /\ S \cap {} = {}
        OBVIOUS
      <4>2. SumOver(f, S \cup {}) = SumOver(f, S) /\ SumOver(f, S \cap {}) = SumOver(f, {})
        BY <4>1
      <4>3. SumOver(f, S) \in Nat /\ SumOver(f, {}) = 0
        BY SumType, SumEmpty
      <4> QED BY <4>2, <4>3
    <3> HIDE DEF Holds
    <3> QED BY <2>2, <3>1
  <2>4. PICK x \in U : TRUE
    BY <2>3
  <2> DEFINE V == U \ {x}
  <2>5. /\ IsFiniteSet(U) /\ IsFiniteSet(V) /\ V \in SUBSET T
        /\ Cardinality(V) = k - 1 /\ k - 1 \in Nat
    <3>1. IsFiniteSet(U)
      BY FS_Subset
    <3>2. IsFiniteSet(V) /\ Cardinality(V) = k - 1
      BY <2>2, <2>4, <3>1, FS_RemoveElement
    <3> QED BY <3>1, <3>2, FS_CardinalityType
  <2>6. Holds(V)
    <3> HIDE DEF Holds, V
    <3>1. k - 1 \notin Bad
      BY <2>1, <2>5
    <3> QED BY <2>5, <3>1
  <2>7. /\ IsFiniteSet(S \cup V) /\ IsFiniteSet(S \cap V) /\ IsFiniteSet(S \cap U)
    <3>1. S \cap V \subseteq S /\ S \cap U \subseteq S
      OBVIOUS
    <3> QED BY <2>5, <3>1, FS_Union, FS_Subset
  <2>8. /\ f[x] \in Nat /\ SumOver(f, S) \in Nat /\ SumOver(f, V) \in Nat
        /\ SumOver(f, S \cup V) \in Nat /\ SumOver(f, S \cap V) \in Nat
    <3>1. \A W : W \subseteq S \cup T => \A y \in W : f[y] \in Nat
      OBVIOUS
    <3>2. V \subseteq S \cup T /\ S \cup V \subseteq S \cup T /\ S \cap V \subseteq S \cup T
          /\ S \subseteq S \cup T /\ x \in S \cup T
      OBVIOUS
    <3> QED BY <2>5, <2>7, <3>1, <3>2, SumType
  <2>9. SumOver(f, U) = f[x] + SumOver(f, V)
    <3>1. \A y \in U : f[y] \in Nat
      OBVIOUS
    <3> QED BY <2>4, <2>5, <3>1, SumOfElement
  <2>10. CASE x \in S
    <3>1. S \cup U = S \cup V /\ S \cap U = (S \cap V) \cup {x} /\ x \notin S \cap V
      BY <2>4, <2>10
    <3>2. \A y \in (S \cap V) \cup {x} : f[y] \in Nat
      BY <2>8
    <3>3. SumOver(f, (S \cap V) \cup {x}) = f[x] + SumOver(f, S \cap V)
      BY <2>7, <3>1, <3>2, SumOfMore
    <3>4. /\ SumOver(f, S \cup U) = SumOver(f, S \cup V)
          /\ SumOver(f, S \cap U) = f[x] + SumOver(f, S \cap V)
      BY <3>1, <3>3
    <3> HIDE DEF V
    <3> QED BY <2>2, <2>6, <2>8, <2>9, <3>4
  <2>11. CASE x \notin S
    <3>1. S \cup U = (S \cup V) \cup {x} /\ S \cap U = S \cap V /\ x \notin S \cup V
      BY <2>4, <2>11
    <3>2. \A y \in (S \cup V) \cup {x} : f[y] \in Nat
      BY <2>8
    <3>3. SumOver(f, (S \cup V) \cup {x}) = f[x] + SumOver(f, S \cup V)
      BY <2>7, <3>1, <3>2, SumOfMore
    <3>4. /\ SumOver(f, S \cup U) = f[x] + SumOver(f, S \cup V)
          /\ SumOver(f, S \cap U) = SumOver(f, S \cap V)
      BY <3>1, <3>3
    <3> HIDE DEF V
    <3> QED BY <2>2, <2>6, <2>8, <2>9, <3>4
  <2> QED BY <2>10, <2>11
<1>2. Cardinality(T) \in Nat
  BY FS_CardinalityType
<1>3. Holds(T)
  <2> HIDE DEF Holds
  <2> QED BY <1>1, <1>2
<1> QED BY <1>3

\* Sums of naturals are monotone.
LEMMA SumOfSubset ==
  ASSUME NEW f, NEW S, IsFiniteSet(S), \A x \in S : f[x] \in Nat, NEW T \in SUBSET S
  PROVE  SumOver(f, T) \in Nat /\ SumOver(f, T) <= SumOver(f, S)
<1> DEFINE R == S \ T
<1>1. /\ IsFiniteSet(T) /\ IsFiniteSet(R) /\ T \cup R = S /\ T \cap R = {}
      /\ \A x \in T : f[x] \in Nat
      /\ \A x \in R : f[x] \in Nat
  BY FS_Subset
<1>2. SumOver(f, T) \in Nat /\ SumOver(f, R) \in Nat /\ SumOver(f, S) \in Nat
  <2> HIDE DEF R
  <2> QED BY <1>1, SumType
<1>3. SumOver(f, T \cup R) + SumOver(f, T \cap R) = SumOver(f, T) + SumOver(f, R)
  <2> HIDE DEF R
  <2> QED BY <1>1, SumOfUnion
<1>4. SumOver(f, S) + SumOver(f, {}) = SumOver(f, T) + SumOver(f, R)
  BY <1>1, <1>3
<1> HIDE DEF R
<1> QED BY <1>2, <1>4, SumEmpty

-----------------------------------------------------------------------------
\* What a map holds once a key is inserted.
LEMMA WithFacts ==
  ASSUME NEW f, NEW x, NEW v
  PROVE  /\ DOMAIN With(f, x, v) = DOMAIN f \cup {x}
         /\ With(f, x, v)[x] = v
         /\ \A y \in DOMAIN f : y # x => With(f, x, v)[y] = f[y]
         /\ \A S : v \in S /\ f \in [DOMAIN f -> S] => With(f, x, v) \in [DOMAIN f \cup {x} -> S]
BY DEF With

-----------------------------------------------------------------------------
(* Filtering a sequence.                                                   *)

\* The recursive function behind Selected.
IsSelection(h, s, I) ==
  h = [n \in 0 .. Len(s) |->
         IF n = 0 THEN <<>>
         ELSE IF n \in I THEN Append(h[n - 1], s[n]) ELSE h[n - 1]]

\* Selected as the value of a recursive function, which exists.
LEMMA SelectedIs ==
  ASSUME NEW s, NEW I
  PROVE  Selected(s, I) = (CHOOSE h : IsSelection(h, s, I))[Len(s)]
BY Zenon DEF Selected, IsSelection

\* It exists.
LEMMA SelectionExists ==
  ASSUME NEW s, NEW I, Len(s) \in Nat
  PROVE  \E h : IsSelection(h, s, I)
<1> DEFINE N == Len(s)
           Body(h, n) == IF n = 0 THEN <<>>
                         ELSE IF n \in I THEN Append(h[n - 1], s[n]) ELSE h[n - 1]
           Partial(m) == \E h : /\ DOMAIN h = 0 .. m
                                /\ \A n \in 0 .. m : h[n] = Body(h, n)
           Bad == {m \in Nat : ~Partial(m)}
<1>1. Partial(0)
  <2> DEFINE z == [n \in 0 .. 0 |-> <<>>]
  <2>1. DOMAIN z = 0 .. 0 /\ \A n \in 0 .. 0 : z[n] = Body(z, n)
    OBVIOUS
  <2> HIDE DEF z, Body
  <2> QED BY <2>1
<1>2. ASSUME NEW m \in Nat, Partial(m) PROVE Partial(m + 1)
  <2>1. PICK h : DOMAIN h = 0 .. m /\ \A n \in 0 .. m : h[n] = Body(h, n)
    BY <1>2
  <2> DEFINE e == [n \in 0 .. (m + 1) |-> Body(h, n)]
  <2>2. ASSUME NEW n \in 0 .. m PROVE n \in 0 .. (m + 1) /\ e[n] = h[n]
    <3>1. n \in 0 .. (m + 1)
      OBVIOUS
    <3>2. e[n] = Body(h, n)
      BY <3>1
    <3> HIDE DEF e, Body
    <3> QED BY <2>1, <3>1, <3>2
  <2>3. ASSUME NEW n \in 0 .. (m + 1) PROVE e[n] = Body(e, n)
    <3>1. CASE n = 0
      BY <3>1
    <3>2. CASE n # 0
      <4>0. n - 1 \in 0 .. m
        BY <3>2
      <4>1. e[n - 1] = h[n - 1]
        <5> HIDE DEF e
        <5> QED BY <2>2, <4>0
      <4>2. e[n] = Body(h, n)
        OBVIOUS
      <4>3. Body(h, n) = Body(e, n)
        <5> HIDE DEF e
        <5> QED BY <3>2, <4>1
      <4> HIDE DEF e, Body
      <4> QED BY <4>2, <4>3
    <3> QED BY <3>1, <3>2
  <2>4. DOMAIN e = 0 .. (m + 1)
    OBVIOUS
  <2> HIDE DEF e, Body
  <2> QED BY <2>3, <2>4
<1>3. ASSUME Bad # {} PROVE FALSE
  <2> HIDE DEF Partial
  <2>1. PICK m \in Bad : \A k \in Bad : m <= k
    BY <1>3, LeastNatural
  <2>2. m # 0
    BY <1>1, <2>1
  <2>3. m - 1 \in Nat /\ m - 1 \notin Bad
    BY <2>1, <2>2
  <2>4. Partial((m - 1) + 1)
    BY <1>2, <2>3
  <2>5. (m - 1) + 1 = m
    BY <2>1
  <2> QED BY <2>1, <2>4, <2>5
<1>4. Partial(N)
  <2> HIDE DEF Partial
  <2> QED BY <1>3
<1>5. PICK h : DOMAIN h = 0 .. N /\ \A n \in 0 .. N : h[n] = Body(h, n)
  BY <1>4
<1> DEFINE k == [n \in 0 .. N |-> Body(h, n)]
<1>6. \A n \in 0 .. N : k[n] = h[n]
  <2> HIDE DEF Body
  <2> QED BY <1>5
<1>7. \A n \in 0 .. N : n # 0 => n - 1 \in 0 .. N
  OBVIOUS
<1>8. \A n \in 0 .. N : Body(k, n) = Body(h, n)
  <2> HIDE DEF k
  <2> QED BY <1>6, <1>7
<1>9. k = [n \in 0 .. N |-> Body(k, n)]
  <2> DEFINE bh(n) == Body(h, n)
             bk(n) == Body(k, n)
  <2>1. \A n \in 0 .. N : bk(n) = bh(n)
    BY <1>8
  <2>2. k = [n \in 0 .. N |-> bh(n)]
    OBVIOUS
  <2> HIDE DEF bh, bk, k, N
  <2>3. [n \in 0 .. N |-> bh(n)] = [n \in 0 .. N |-> bk(n)]
    BY <2>1
  <2> QED BY <2>2, <2>3 DEF bk
<1> HIDE DEF k
<1> QED BY <1>9, Zenon DEF IsSelection

\* What it has kept of the first n elements.
KeptOf(t, s, I, n) ==
  /\ \A k \in 1 .. Len(t) : \E i \in I : i <= n /\ t[k] = s[i]
  /\ \A i \in I : i <= n => \E k \in 1 .. Len(t) : t[k] = s[i]
  /\ (\A i, j \in 1 .. Len(s) : s[i] = s[j] => i = j)
       => \A k, l \in 1 .. Len(t) : t[k] = t[l] => k = l

\* The elements selected are those at the positions, each once if s has no
\* element twice.
LEMMA SelectedKept ==
  ASSUME NEW T, NEW s \in Seq(T), NEW I \in SUBSET (1 .. Len(s))
  PROVE  Selected(s, I) \in Seq(T) /\ KeptOf(Selected(s, I), s, I, Len(s))
<1> DEFINE h == CHOOSE g : IsSelection(g, s, I)
           Good(n) == h[n] \in Seq(T) /\ KeptOf(h[n], s, I, n)
           Bad == {n \in Nat : n <= Len(s) /\ ~Good(n)}
<1>0. Len(s) \in Nat /\ \A i \in 1 .. Len(s) : s[i] \in T
  OBVIOUS
<1>1. IsSelection(h, s, I)
  <2>1. \E g : IsSelection(g, s, I)
    BY <1>0, SelectionExists
  <2> QED BY <2>1, Zenon
<1>2. Selected(s, I) = h[Len(s)]
  BY SelectedIs
<1> HIDE DEF h
<1>3. h[0] = <<>>
  BY <1>0, <1>1 DEF IsSelection
<1>4. \A n \in 1 .. Len(s) : h[n] = IF n \in I THEN Append(h[n - 1], s[n]) ELSE h[n - 1]
  <2> SUFFICES ASSUME NEW n \in 1 .. Len(s)
               PROVE  h[n] = IF n \in I THEN Append(h[n - 1], s[n]) ELSE h[n - 1]
    OBVIOUS
  <2>1. n \in 0 .. Len(s) /\ n # 0
    BY <1>0
  <2>2. h[n] = IF n = 0 THEN <<>>
               ELSE IF n \in I THEN Append(h[n - 1], s[n]) ELSE h[n - 1]
    BY <1>1, <2>1, Zenon DEF IsSelection
  <2> QED BY <2>1, <2>2
<1>5. Good(0)
  <2>1. KeptOf(<<>>, s, I, 0)
    BY <1>0 DEF KeptOf
  <2> QED BY <1>3, <2>1
<1>6. ASSUME NEW n \in 1 .. Len(s), Good(n - 1) PROVE Good(n)
  <2>1. PICK t \in Seq(T) : t = h[n - 1] /\ KeptOf(t, s, I, n - 1)
    BY <1>6
  <2>2. CASE n \notin I
    <3>1. h[n] = t
      BY <1>4, <2>1, <2>2
    <3>2. \A i \in I : i <= n <=> i <= n - 1
      BY <1>0, <2>2
    <3>3. KeptOf(t, s, I, n)
      BY <2>1, <3>2 DEF KeptOf
    <3> QED BY <3>1, <3>3
  <2>3. CASE n \in I
    <3>1. PICK u : u = Append(t, s[n])
      OBVIOUS
    <3>2. h[n] = u
      BY <1>4, <2>1, <2>3, <3>1
    <3>3. s[n] \in T
      BY <1>0
    <3>4. /\ u \in Seq(T) /\ Len(u) = Len(t) + 1 /\ Len(t) \in Nat
          /\ u[Len(t) + 1] = s[n]
          /\ \A k \in 1 .. Len(t) : u[k] = t[k]
      BY <3>1, <3>3
    <3>5. \A k \in 1 .. Len(u) : \E i \in I : i <= n /\ u[k] = s[i]
      <4> SUFFICES ASSUME NEW k \in 1 .. Len(u) PROVE \E i \in I : i <= n /\ u[k] = s[i]
        OBVIOUS
      <4>1. CASE k = Len(t) + 1
        BY <1>0, <2>3, <3>4, <4>1
      <4>2. CASE k # Len(t) + 1
        <5>1. k \in 1 .. Len(t)
          BY <3>4, <4>2
        <5>2. PICK i \in I : i <= n - 1 /\ t[k] = s[i]
          BY <2>1, <5>1 DEF KeptOf
        <5> QED BY <1>0, <3>4, <5>1, <5>2
      <4> QED BY <4>1, <4>2
    <3>6. \A i \in I : i <= n => \E k \in 1 .. Len(u) : u[k] = s[i]
      <4> SUFFICES ASSUME NEW i \in I, i <= n PROVE \E k \in 1 .. Len(u) : u[k] = s[i]
        OBVIOUS
      <4>1. CASE i = n
        BY <3>4, <4>1
      <4>2. CASE i # n
        <5>1. i <= n - 1
          BY <1>0, <4>2
        <5>2. PICK k \in 1 .. Len(t) : t[k] = s[i]
          BY <2>1, <5>1 DEF KeptOf
        <5> QED BY <3>4, <5>2
      <4> QED BY <4>1, <4>2
    <3>7. ASSUME \A i, j \in 1 .. Len(s) : s[i] = s[j] => i = j,
                 NEW k \in 1 .. Len(u), NEW l \in 1 .. Len(u), u[k] = u[l]
          PROVE  k = l
      <4>1. \A m \in 1 .. Len(t) : t[m] # s[n]
        <5> SUFFICES ASSUME NEW m \in 1 .. Len(t), t[m] = s[n] PROVE FALSE
          OBVIOUS
        <5>1. PICK i \in I : i <= n - 1 /\ t[m] = s[i]
          BY <2>1 DEF KeptOf
        <5>2. i \in 1 .. Len(s)
          OBVIOUS
        <5>3. i = n
          BY <3>7, <5>1, <5>2
        <5> QED BY <1>0, <5>1, <5>3
      <4>2. k = Len(t) + 1 \/ k \in 1 .. Len(t)
        BY <3>4
      <4>3. l = Len(t) + 1 \/ l \in 1 .. Len(t)
        BY <3>4
      <4>4. CASE k \in 1 .. Len(t) /\ l \in 1 .. Len(t)
        BY <2>1, <3>4, <3>7, <4>4 DEF KeptOf
      <4> QED BY <3>4, <3>7, <4>1, <4>2, <4>3, <4>4
    <3>8. KeptOf(u, s, I, n)
      BY <3>5, <3>6, <3>7 DEF KeptOf
    <3> QED BY <3>2, <3>4, <3>8
  <2> QED BY <2>2, <2>3
<1>7. Bad = {}
  <2> HIDE DEF Good
  <2> SUFFICES ASSUME Bad # {} PROVE FALSE
    OBVIOUS
  <2>1. PICK n \in Bad : \A k \in Bad : n <= k
    BY LeastNatural
  <2>2. n # 0
    BY <1>5, <2>1
  <2>3. n - 1 \in Nat /\ n - 1 \notin Bad /\ n - 1 <= Len(s)
    BY <1>0, <2>1, <2>2
  <2>4. Good(n - 1) /\ n \in 1 .. Len(s)
    BY <1>0, <2>1, <2>2, <2>3
  <2> QED BY <1>6, <2>1, <2>4
<1>8. Good(Len(s))
  <2> HIDE DEF Good
  <2> QED BY <1>0, <1>7
<1> QED BY <1>2, <1>8

-----------------------------------------------------------------------------
\* Induction along the positions of a sequence.
LEMMA UpTo ==
  ASSUME NEW N \in Nat, NEW S, 0 \in S, \A n \in 0 .. (N - 1) : n \in S => n + 1 \in S
  PROVE  \A n \in 0 .. N : n \in S
<1> DEFINE Bad == {n \in Nat : n <= N /\ n \notin S}
<1>1. ASSUME Bad # {} PROVE FALSE
  <2>1. PICK n \in Bad : \A m \in Bad : n <= m
    BY <1>1, LeastNatural
  <2>2. n # 0 /\ n - 1 \in Nat /\ n - 1 <= N - 1 /\ n - 1 \in 0 .. (N - 1)
    BY <2>1
  <2>3. n - 1 \in S
    BY <2>1, <2>2
  <2>4. (n - 1) + 1 \in S
    BY <2>2, <2>3
  <2> QED BY <2>1, <2>4
<1> QED BY <1>1

\* The greatest position of a non-empty set of them.
LEMMA LastPosition ==
  ASSUME NEW N \in Nat, NEW s \in SUBSET (1 .. N), s # {}
  PROVE  /\ Max(s) \in s /\ Max(s) \in 1 .. N /\ s \ {Max(s)} \in SUBSET (1 .. N)
         /\ IsFiniteSet(s) /\ Cardinality(s) \in Nat
         /\ Cardinality(s \ {Max(s)}) = Cardinality(s) - 1
<1>1. IsFiniteSet(s)
  <2>1. IsFiniteSet(1 .. N)
    BY FS_Interval
  <2> QED BY <2>1, FS_Subset
<1>2. Max(s) \in s
  <2>1. s \in SUBSET Nat
    OBVIOUS
  <2> QED BY <1>1, <2>1, MaxIsGreatest
<1>3. Cardinality(s \ {Max(s)}) = Cardinality(s) - 1
  BY <1>1, <1>2, FS_RemoveElement
<1> QED BY <1>1, <1>2, <1>3, FS_CardinalityType

LEMMA LastOfInterval ==
  ASSUME NEW n \in Nat, n # 0
  PROVE  Max(1 .. n) = n /\ (1 .. n) \ {n} = 1 .. (n - 1)
<1>1. n \in 1 .. n /\ \A y \in 1 .. n : n >= y
  OBVIOUS
<1>2. Max(1 .. n) \in 1 .. n /\ \A y \in 1 .. n : Max(1 .. n) >= y
  BY <1>1, Zenon DEF Max
<1>3. Max(1 .. n) = n
  BY <1>1, <1>2
<1> QED BY <1>3

\* FoldLeft is a fold over the sets of positions that takes the last one off.
\* With step[value, position] for its operator, it exists ...
IsLeftFold(h, step, x, N) ==
  h = [s \in SUBSET (1 .. N) |->
         IF s = {} THEN x ELSE step[<<h[s \ {Max(s)}], Max(s)>>]]

LEMMA LeftFoldExists ==
  ASSUME NEW N \in Nat, NEW step, NEW x
  PROVE  \E h : IsLeftFold(h, step, x, N)
<1> DEFINE S == 1 .. N
           Sub(n) == {s \in SUBSET S : Cardinality(s) <= n}
           Body(h, s) == IF s = {} THEN x ELSE step[<<h[s \ {Max(s)}], Max(s)>>]
           Partial(n) == \E h : /\ DOMAIN h = Sub(n)
                                /\ \A s \in Sub(n) : h[s] = Body(h, s)
           T == {n \in Nat : Partial(n)}
<1>1. IsFiniteSet(S) /\ Cardinality(S) \in Nat
  BY FS_Interval, FS_CardinalityType
<1>2. \A s \in SUBSET S : Cardinality(s) \in Nat /\ (Cardinality(s) = 0 => s = {})
  BY <1>1, FS_Subset, FS_CardinalityType, FS_EmptySet
<1>3. Partial(0)
  <2> DEFINE z == [s \in Sub(0) |-> x]
  <2>1. \A s \in Sub(0) : z[s] = Body(z, s)
    <3>1. \A s \in Sub(0) : s = {}
      BY <1>2
    <3> QED BY <3>1
  <2>2. DOMAIN z = Sub(0)
    OBVIOUS
  <2> HIDE DEF z, Body, Sub
  <2> QED BY <2>1, <2>2
<1>4. ASSUME NEW n \in Nat, Partial(n) PROVE Partial(n + 1)
  <2>1. PICK h : /\ DOMAIN h = Sub(n) /\ \A s \in Sub(n) : h[s] = Body(h, s)
    BY <1>4
  <2> DEFINE e == [s \in Sub(n + 1) |-> Body(h, s)]
  <2>2. ASSUME NEW s \in Sub(n) PROVE s \in Sub(n + 1) /\ e[s] = h[s]
    <3>1. s \in Sub(n + 1)
      BY <1>2
    <3> HIDE DEF Sub, Body
    <3> QED BY <2>1, <3>1
  <2>3. ASSUME NEW s \in Sub(n + 1) PROVE e[s] = Body(e, s)
    <3>1. CASE s = {}
      BY <3>1
    <3>2. CASE s # {}
      <4>1. s \ {Max(s)} \in Sub(n)
        BY <3>2, LastPosition
      <4>2. e[s \ {Max(s)}] = h[s \ {Max(s)}]
        BY <2>2, <4>1
      <4>3. e[s] = step[<<h[s \ {Max(s)}], Max(s)>>]
        BY <3>2
      <4>4. Body(e, s) = step[<<e[s \ {Max(s)}], Max(s)>>]
        BY <3>2
      <4> HIDE DEF e, Body
      <4> QED BY <4>2, <4>3, <4>4
    <3> QED BY <3>1, <3>2
  <2>4. DOMAIN e = Sub(n + 1)
    OBVIOUS
  <2> HIDE DEF e, Body, Sub
  <2> QED BY <2>3, <2>4
<1>5. Partial(N)
  <2> HIDE DEF Partial
  <2>1. 0 \in T /\ \A n \in 0 .. (N - 1) : n \in T => n + 1 \in T
    BY <1>3, <1>4
  <2>2. N \in T
    <3> HIDE DEF T
    <3> QED BY <2>1, UpTo
  <2> QED BY <2>2
<1>6. Sub(N) = SUBSET S
  <2>1. Cardinality(S) = N
    BY FS_Interval
  <2> QED BY <1>1, <2>1, FS_Subset
<1>7. PICK h : DOMAIN h = SUBSET S /\ \A s \in SUBSET S : h[s] = Body(h, s)
  <2> HIDE DEF Sub, Body
  <2> QED BY <1>5, <1>6
<1> DEFINE k == [s \in SUBSET S |-> Body(h, s)]
<1>8. \A s \in SUBSET S : k[s] = h[s]
  <2> HIDE DEF Body
  <2> QED BY <1>7
<1>9. \A s \in SUBSET S : s # {} => s \ {Max(s)} \in SUBSET S
  OBVIOUS
<1>10. \A s \in SUBSET S : Body(k, s) = Body(h, s)
  <2> HIDE DEF k
  <2> QED BY <1>8, <1>9
<1>11. k = [s \in SUBSET S |-> Body(k, s)]
  <2> DEFINE bh(s) == Body(h, s)
             bk(s) == Body(k, s)
  <2>1. \A s \in SUBSET S : bk(s) = bh(s)
    BY <1>10
  <2>2. k = [s \in SUBSET S |-> bh(s)]
    OBVIOUS
  <2> HIDE DEF bh, bk, k
  <2>3. [s \in SUBSET S |-> bh(s)] = [s \in SUBSET S |-> bk(s)]
    BY <2>1
  <2> QED BY <2>2, <2>3 DEF bk
<1> HIDE DEF k
<1> QED BY <1>11, Zenon DEF IsLeftFold

\* ... and stays in a set that step does not leave.
LEMMA LeftFoldTyped ==
  ASSUME NEW N \in Nat, NEW X, NEW x \in X, NEW step \in [X \X (1 .. N) -> X]
  PROVE  \E h : IsLeftFold(h, step, x, N) /\ \A s \in SUBSET (1 .. N) : h[s] \in X
<1>1. PICK h : IsLeftFold(h, step, x, N)
  BY LeftFoldExists
<1> DEFINE T == {n \in Nat : \A s \in SUBSET (1 .. N) : Cardinality(s) <= n => h[s] \in X}
<1>2. /\ h[{}] = x
      /\ \A s \in SUBSET (1 .. N) : s # {} => h[s] = step[<<h[s \ {Max(s)}], Max(s)>>]
  BY <1>1 DEF IsLeftFold
<1>3. IsFiniteSet(1 .. N) /\ Cardinality(1 .. N) = N
  BY FS_Interval
<1>4. \A s \in SUBSET (1 .. N) : Cardinality(s) = 0 => s = {}
  BY <1>3, FS_Subset, FS_CardinalityType, FS_EmptySet
<1>5. 0 \in T
  <2>1. ASSUME NEW s \in SUBSET (1 .. N), Cardinality(s) <= 0 PROVE h[s] \in X
    <3>0. Cardinality(s) \in Nat
      BY <1>3, FS_Subset, FS_CardinalityType
    <3>1. Cardinality(s) = 0
      BY <2>1, <3>0
    <3>2. s = {}
      BY <1>4, <3>1
    <3> QED BY <1>2, <3>2
  <2> QED BY <2>1
<1>6. ASSUME NEW n \in 0 .. (N - 1), n \in T PROVE n + 1 \in T
  <2>1. ASSUME NEW s \in SUBSET (1 .. N), Cardinality(s) <= n + 1 PROVE h[s] \in X
    <3>1. CASE s = {}
      BY <1>2, <3>1
    <3>2. CASE s # {}
      <4>1. /\ s \ {Max(s)} \in SUBSET (1 .. N) /\ Max(s) \in 1 .. N
            /\ Cardinality(s \ {Max(s)}) <= n
        <5>1. /\ s \ {Max(s)} \in SUBSET (1 .. N) /\ Max(s) \in 1 .. N
              /\ Cardinality(s) \in Nat /\ Cardinality(s \ {Max(s)}) = Cardinality(s) - 1
          BY <3>2, LastPosition
        <5> QED BY <2>1, <5>1
      <4>2. h[s \ {Max(s)}] \in X
        BY <1>6, <4>1
      <4>3. <<h[s \ {Max(s)}], Max(s)>> \in X \X (1 .. N)
        BY <4>1, <4>2
      <4> QED BY <1>2, <3>2, <4>3
    <3> QED BY <3>1, <3>2
  <2> QED BY <2>1
<1>7. N \in T
  <2> HIDE DEF T
  <2> QED BY <1>5, <1>6, UpTo
<1>8. ASSUME NEW s \in SUBSET (1 .. N) PROVE h[s] \in X
  <2>0. Cardinality(s) <= Cardinality(1 .. N)
    BY <1>3, FS_Subset
  <2>1. Cardinality(s) <= N
    BY <1>3, <2>0
  <2> QED BY <1>7, <2>1
<1> QED BY <1>1, <1>8

\* A run that starts in a set its steps do not leave stays in it.
LEMMA RunTyped ==
  ASSUME NEW N \in Nat, NEW X, NEW g, g = [n \in 0 .. N |-> g[n]], g[0] \in X,
         \A n \in 1 .. N : g[n - 1] \in X => g[n] \in X
  PROVE  g \in [0 .. N -> X]
<1> DEFINE T == {n \in 0 .. N : g[n] \in X}
<1>1. 0 \in T
  OBVIOUS
<1>2. ASSUME NEW n \in 0 .. (N - 1), n \in T PROVE n + 1 \in T
  <2>1. PICK m \in 1 .. N : m = n + 1 /\ m - 1 = n
    OBVIOUS
  <2>2. g[m] \in X
    BY <1>2, <2>1
  <2> QED BY <2>1, <2>2
<1>3. \A n \in 0 .. N : n \in T
  <2> HIDE DEF T
  <2> QED BY <1>1, <1>2, UpTo
<1> QED BY <1>3

\* The positions up to n, without the last one.
LEMMA PrefixOf ==
  ASSUME NEW N \in Nat, NEW n \in 1 .. N
  PROVE  /\ 1 .. n \in SUBSET (1 .. N) /\ 1 .. n # {} /\ Max(1 .. n) = n
         /\ (1 .. n) \ {n} = 1 .. (n - 1)
         /\ n \in 0 .. N /\ n - 1 \in 0 .. N
<1>1. n \in Nat \ {0}
  OBVIOUS
<1>2. Max(1 .. n) = n /\ (1 .. n) \ {n} = 1 .. (n - 1)
  BY <1>1, LastOfInterval
<1>3. 1 \in 1 .. n
  OBVIOUS
<1>4. 1 .. n \in SUBSET (1 .. N)
  OBVIOUS
<1>5. n \in 0 .. N /\ n - 1 \in 0 .. N
  OBVIOUS
<1> QED BY <1>2, <1>3, <1>4, <1>5
================================================================================
