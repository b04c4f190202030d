-------------------------------- MODULE SumFacts --------------------------------
(***************************************************************************)
(* Facts about the sum of a function over a finite set, as the folds of    *)
(* the community modules define it.  A fold is a recursive function, so    *)
(* nothing can be said of it before one is known to exist and to be the    *)
(* only one.  Here the sum is counted: the function that takes a set to    *)
(* the number of its items, f[x] of every x, satisfies the equation of the *)
(* fold, which shows that there is a solution, and since the subsets of a  *)
(* finite set are well-founded there is no other.                          *)
(***************************************************************************)
EXTENDS SequencesExt, FiniteSetTheorems, TLAPS

\* The element that a fold takes next.
Pick(s) == CHOOSE x \in s : TRUE

\* h is the sum of f over the subsets of S.
IsSum(h, f, S) ==
  h = [s \in SUBSET S |-> IF s = {} THEN 0 ELSE f[Pick(s)] + h[s \ {Pick(s)}]]

\* As many items of each element as the function has it.
Items(f, S) == {p \in S \X Nat : p[2] \in 1..f[p[1]]}

-----------------------------------------------------------------------------
(* Counting items.                                                         *)

\* The items of one element.
LEMMA ItemsOfOne ==
  ASSUME NEW x, NEW n \in Nat
  PROVE  IsFiniteSet({x} \X (1..n)) /\ Cardinality({x} \X (1..n)) = n
<1>1. IsFiniteSet({x}) /\ Cardinality({x}) = 1
  BY FS_Singleton, Zenon
<1>2. IsFiniteSet(1..n) /\ Cardinality(1..n) = n
  BY FS_Interval
<1>3. /\ IsFiniteSet({x} \X (1..n))
      /\ Cardinality({x} \X (1..n)) = Cardinality({x}) * Cardinality(1..n)
  BY <1>1, <1>2, FS_Product, Zenon
<1> QED BY <1>1, <1>2, <1>3

\* A finite set has finitely many items.
LEMMA ItemsFinite ==
  ASSUME NEW S, IsFiniteSet(S), NEW f, \A x \in S : f[x] \in Nat
  PROVE  IsFiniteSet(Items(f, S))
<1> DEFINE g == [x \in S |-> {x} \X (1..f[x])]
           T == {g[x] : x \in S}
<1>1. g \in Surjection(S, T)
  BY Zenon DEF Surjection
<1>2. IsFiniteSet(T)
  <2> HIDE DEF g, T
  <2> QED BY <1>1, FS_Surjection, Zenon
<1>3. ASSUME NEW t \in T PROVE IsFiniteSet(t)
  <2>1. PICK x \in S : t = g[x]
    BY <1>3, Zenon
  <2>2. t = {x} \X (1..f[x]) /\ f[x] \in Nat
    BY <2>1
  <2> HIDE DEF g, T
  <2> QED BY <2>2, ItemsOfOne
<1>4. IsFiniteSet(UNION T)
  <2> HIDE DEF T
  <2> QED BY <1>2, <1>3, FS_UNION, Zenon
<1>5. Items(f, S) \subseteq UNION T
  <2>1. SUFFICES ASSUME NEW p \in Items(f, S) PROVE p \in UNION T
    OBVIOUS
  <2>2. p[1] \in S /\ p = <<p[1], p[2]>> /\ p[2] \in 1..f[p[1]]
    BY <2>1 DEF Items
  <2>3. p \in g[p[1]]
    BY <2>2
  <2> QED BY <2>2, <2>3
<1> QED BY <1>4, <1>5, FS_Subset, Zenon

\* Those of an element are counted apart.
LEMMA ItemsStep ==
  ASSUME NEW S, IsFiniteSet(S), NEW f, \A x \in S : f[x] \in Nat, NEW x \in S
  PROVE  Cardinality(Items(f, S)) = f[x] + Cardinality(Items(f, S \ {x}))
<1> DEFINE A == {x} \X (1..f[x])
           B == Items(f, S \ {x})
<1>1. IsFiniteSet(A) /\ Cardinality(A) = f[x]
  BY ItemsOfOne
<1>2. IsFiniteSet(S \ {x})
  BY FS_RemoveElement, Zenon
<1>3. IsFiniteSet(B)
  BY <1>2, ItemsFinite
<1>4. Items(f, S) = A \cup B
  <2>1. ASSUME NEW p \in Items(f, S) PROVE p \in A \cup B
    BY DEF Items
  <2>2. ASSUME NEW p \in A PROVE p \in Items(f, S)
    BY DEF Items
  <2>3. ASSUME NEW p \in B PROVE p \in Items(f, S)
    BY DEF Items
  <2> QED BY <2>1, <2>2, <2>3
<1>5. A \cap B = {}
  BY DEF Items
<1>6. Cardinality(A \cap B) = 0
  BY <1>5, FS_EmptySet, Zenon
<1>7. Cardinality(A \cup B) = Cardinality(A) + Cardinality(B) - Cardinality(A \cap B)
  <2> HIDE DEF A, B
  <2> QED BY <1>1, <1>3, FS_Union, Zenon
<1>8. Cardinality(B) \in Nat
  BY <1>3, FS_CardinalityType, Zenon
<1> QED BY <1>1, <1>4, <1>6, <1>7, <1>8

\* Where some elements get one more and none of the others does, there are at most as
\* many more items as there are such elements.
LEMMA ItemsGrow ==
  ASSUME NEW S, IsFiniteSet(S), NEW f, \A x \in S : f[x] \in Nat,
         NEW D \in SUBSET S,
         NEW g, \A x \in S : g[x] \in Nat /\ g[x] <= IF x \in D THEN f[x] + 1 ELSE f[x]
  PROVE  Cardinality(Items(g, S)) <= Cardinality(Items(f, S)) + Cardinality(D)
<1> DEFINE top == [x \in D |-> <<x, f[x] + 1>>]
           Top == {top[x] : x \in D}
           A == Items(f, S)
<1>1. IsFiniteSet(D) /\ Cardinality(D) \in Nat
  BY FS_Subset, FS_CardinalityType, Zenon
<1>2. top \in Surjection(D, Top)
  BY Zenon DEF Surjection
<1>3. IsFiniteSet(Top) /\ Cardinality(Top) <= Cardinality(D)
  <2> HIDE DEF top, Top
  <2> QED BY <1>1, <1>2, FS_Surjection, Zenon
<1>4. IsFiniteSet(A)
  BY ItemsFinite
<1>5. Items(g, S) \subseteq A \cup Top
  <2>1. SUFFICES ASSUME NEW p \in Items(g, S), p \notin A PROVE p \in Top
    OBVIOUS
  <2>2. /\ p = <<p[1], p[2]>> /\ p[1] \in S /\ p[2] \in Nat
        /\ p[2] \in 1..g[p[1]] /\ p[2] \notin 1..f[p[1]]
    BY <2>1 DEF Items
  <2>3. p[1] \in D /\ p[2] = f[p[1]] + 1
    BY <2>2
  <2>4. p = top[p[1]]
    BY <2>2, <2>3
  <2> QED BY <2>3, <2>4
<1>6. /\ IsFiniteSet(A \cup Top)
      /\ Cardinality(A \cup Top) = Cardinality(A) + Cardinality(Top) - Cardinality(A \cap Top)
  <2> HIDE DEF A, Top
  <2> QED BY <1>3, <1>4, FS_Union, Zenon
<1>7. Cardinality(Items(g, S)) <= Cardinality(A \cup Top)
  <2> HIDE DEF A, Top
  <2> QED BY <1>5, <1>6, FS_Subset, Zenon
<1>8. /\ Cardinality(A) \in Nat /\ Cardinality(Top) \in Nat
      /\ Cardinality(A \cap Top) \in Nat
  <2>1. IsFiniteSet(A \cap Top)
    <3> HIDE DEF A, Top
    <3> QED BY <1>4, FS_Intersection, Zenon
  <2> HIDE DEF A, Top
  <2> QED BY <1>3, <1>4, <2>1, FS_CardinalityType, Zenon
<1>9. Cardinality(Items(g, S)) \in Nat
  BY ItemsFinite, FS_CardinalityType
<1> HIDE DEF A, Top
<1>10. Cardinality(Items(g, S)) <= Cardinality(A) + Cardinality(D)
  BY <1>1, <1>3, <1>6, <1>7, <1>8, <1>9
<1> QED BY <1>10 DEF A

\* The items of a bounded function.
LEMMA ItemsBound ==
  ASSUME NEW S, IsFiniteSet(S), NEW m \in Nat, NEW f, \A x \in S : f[x] \in 0..m
  PROVE  Cardinality(Items(f, S)) \in 0..(Cardinality(S) * m)
<1>1. IsFiniteSet(1..m) /\ Cardinality(1..m) = m
  BY FS_Interval
<1>2. IsFiniteSet(S \X (1..m)) /\ Cardinality(S \X (1..m)) = Cardinality(S) * Cardinality(1..m)
  BY <1>1, FS_Product, Zenon
<1>3. Items(f, S) \subseteq S \X (1..m)
  BY DEF Items
<1>4. /\ IsFiniteSet(Items(f, S))
      /\ Cardinality(Items(f, S)) <= Cardinality(S \X (1..m))
  BY <1>2, <1>3, FS_Subset, Zenon
<1>5. Cardinality(Items(f, S)) \in Nat /\ Cardinality(S) \in Nat
  BY <1>4, FS_CardinalityType, Zenon
<1> QED BY <1>1, <1>2, <1>4, <1>5

\* The place before one that is not the first.
LEMMA Predecessor ==
  ASSUME NEW n \in Nat, NEW i \in 2..n
  PROVE  i - 1 \in 1..(n - 1) /\ i - 1 \in 1..n /\ i - 1 # n /\ (i - 1) + 1 = i
OBVIOUS

\* A window that moves on by one loses the items of its oldest value and takes those of
\* the newest.
LEMMA ItemsShift ==
  ASSUME NEW n \in Nat \ {0}, NEW b \in [1..n -> Nat], NEW v \in Nat, NEW d \in [1..n -> Nat],
         \A i \in 1..n : d[i] = IF i = n THEN v ELSE b[i + 1]
  PROVE  Cardinality(Items(d, 1..n)) + b[1] = Cardinality(Items(b, 1..n)) + v
<1> DEFINE A == Items(b, 2..n)
           B == Items(d, 1..(n - 1))
           shift == [p \in A |-> <<p[1] - 1, p[2]>>]
<1>1. IsFiniteSet(1..n)
  BY FS_Interval
<1>2. Cardinality(Items(b, 1..n)) = b[1] + Cardinality(A)
  <2>1. (1..n) \ {1} = 2..n
    OBVIOUS
  <2>2. 1 \in 1..n /\ \A x \in 1..n : b[x] \in Nat
    OBVIOUS
  <2>3. Cardinality(Items(b, 1..n)) = b[1] + Cardinality(Items(b, (1..n) \ {1}))
    BY <1>1, <2>2, ItemsStep, Zenon
  <2> QED BY <2>1, <2>3
<1>3. Cardinality(Items(d, 1..n)) = v + Cardinality(B)
  <2>1. (1..n) \ {n} = 1..(n - 1)
    OBVIOUS
  <2>2. n \in 1..n /\ d[n] = v /\ \A x \in 1..n : d[x] \in Nat
    OBVIOUS
  <2>3. Cardinality(Items(d, 1..n)) = d[n] + Cardinality(Items(d, (1..n) \ {n}))
    BY <1>1, <2>2, ItemsStep, Zenon
  <2> QED BY <2>1, <2>2, <2>3
<1>4. IsFiniteSet(A) /\ Cardinality(A) \in Nat
  <2>1. IsFiniteSet(2..n) /\ \A x \in 2..n : b[x] \in Nat
    <3>1. 2 \in Int /\ n \in Int
      OBVIOUS
    <3>2. IsFiniteSet(2..n)
      BY <3>1, FS_Interval, Zenon
    <3> QED BY <3>2
  <2>2. IsFiniteSet(A)
    BY <2>1, ItemsFinite
  <2> QED BY <2>2, FS_CardinalityType
<1>5. \A p \in A : /\ p = <<p[1], p[2]>> /\ p[1] \in 2..n /\ p[2] \in 1..b[p[1]]
                   /\ p[2] \in Nat
  BY DEF Items
<1>6. \A p \in A : <<p[1] - 1, p[2]>> \in B
  <2> TAKE p \in A
  <2>1. p[1] \in 2..n /\ p[2] \in 1..b[p[1]] /\ p[2] \in Nat
    BY <1>5
  <2>2. p[1] - 1 \in 1..(n - 1) /\ d[p[1] - 1] = b[p[1]] /\ p[2] \in Nat /\ p[2] \in 1..b[p[1]]
    <3>1. PICK i \in 2..n : i = p[1]
      BY <2>1
    <3>2. i - 1 \in 1..(n - 1) /\ i - 1 \in 1..n /\ i - 1 # n /\ (i - 1) + 1 = i
      BY Predecessor
    <3>3. d[i - 1] = b[i]
      BY <3>2
    <3> QED BY <2>1, <3>1, <3>2, <3>3
  <2>3. <<p[1] - 1, p[2]>> \in (1..(n - 1)) \X Nat
    BY <2>2
  <2> QED BY <2>2, <2>3 DEF Items
<1>7. \A p, q \in A : shift[p] = shift[q] => p = q
  <2>1. TAKE p, q \in A
  <2>2. HAVE shift[p] = shift[q]
  <2>3. p[1] - 1 = q[1] - 1 /\ p[2] = q[2]
    BY <2>2
  <2>4. p[1] = q[1]
    BY <1>5, <2>3
  <2> QED BY <1>5, <2>3, <2>4
<1>8. \A q \in B : \E p \in A : shift[p] = q
  <2>1. TAKE q \in B
  <2>2. /\ q = <<q[1], q[2]>> /\ q[1] \in 1..(n - 1) /\ q[2] \in Nat
        /\ q[2] \in 1..d[q[1]]
    BY DEF Items
  <2>3. d[q[1]] = b[q[1] + 1] /\ q[1] + 1 \in 2..n /\ (q[1] + 1) - 1 = q[1]
    BY <2>2
  <2>4. <<q[1] + 1, q[2]>> \in A
    BY <2>2, <2>3 DEF Items
  <2> QED BY <2>2, <2>3, <2>4
<1>9. shift \in Bijection(A, B)
  <2>1. shift \in [A -> B]
    BY <1>6
  <2> HIDE DEF A, B, shift
  <2>2. shift \in Injection(A, B)
    BY <1>7, <2>1, Zenon DEF Injection, IsInjective
  <2>3. shift \in Surjection(A, B)
    BY <1>8, <2>1, Zenon DEF Surjection
  <2> QED BY <2>2, <2>3, Zenon DEF Bijection
<1>10. Cardinality(A) = Cardinality(B)
  <2> HIDE DEF A, B, shift
  <2>1. ExistsBijection(A, B)
    BY <1>9, Zenon DEF ExistsBijection
  <2> QED BY <1>4, <2>1, FS_Bijection, Zenon
<1> HIDE DEF A, B, shift
<1> QED BY <1>2, <1>3, <1>4, <1>10

-----------------------------------------------------------------------------
(* Sums.                                                                   *)

\* There is a sum.
LEMMA SumExists ==
  ASSUME NEW S, IsFiniteSet(S), NEW f, \A x \in S : f[x] \in Nat
  PROVE  \E h : IsSum(h, f, S)
<1> DEFINE h == [s \in SUBSET S |-> Cardinality(Items(f, s))]
<1>1. ASSUME NEW s \in SUBSET S
      PROVE  h[s] = IF s = {} THEN 0 ELSE f[Pick(s)] + h[s \ {Pick(s)}]
  <2>1. CASE s = {}
    <3>1. Items(f, s) = {}
      BY <2>1 DEF Items
    <3> QED BY <2>1, <3>1, FS_EmptySet, Zenon
  <2>2. CASE s # {}
    <3>1. Pick(s) \in s
      BY <2>2 DEF Pick
    <3>2. IsFiniteSet(s)
      BY FS_Subset, Zenon
    <3>3. Cardinality(Items(f, s)) = f[Pick(s)] + Cardinality(Items(f, s \ {Pick(s)}))
      BY <3>1, <3>2, ItemsStep
    <3> QED BY <2>2, <3>3
  <2> QED BY <2>1, <2>2
<1>2. IsSum(h, f, S)
  BY <1>1, Zenon DEF IsSum
<1> QED BY <1>2, Zenon

\* There is one, and it counts the items.
LEMMA SumCounts ==
  ASSUME NEW S, IsFiniteSet(S), NEW f, \A x \in S : f[x] \in Nat,
         NEW h, IsSum(h, f, S)
  PROVE  h[S] = Cardinality(Items(f, S))
<1> DEFINE Bad == {s \in SUBSET S : h[s] # Cardinality(Items(f, s))}
           R == StrictSubsetOrdering(S)
<1>1. SUFFICES ASSUME Bad # {} PROVE FALSE
  OBVIOUS
<1>2. IsWellFoundedOn(R, SUBSET S)
  BY FS_StrictSubsetOrderingWellFounded, FS_FiniteSubsetsOfFinite
<1>3. PICK s \in Bad : \A t \in Bad : <<t, s>> \notin R
  <2>1. Bad \subseteq SUBSET S
    OBVIOUS
  <2> HIDE DEF Bad, R
  <2> QED BY <1>1, <1>2, <2>1, WFMin
<1>4. s # {}
  <2>1. SUFFICES ASSUME s = {} PROVE FALSE
    OBVIOUS
  <2>2. Items(f, s) = {}
    BY <2>1 DEF Items
  <2>3. h[s] = 0
    BY <2>1 DEF IsSum
  <2> QED BY <2>2, <2>3, FS_EmptySet
<1>5. DEFINE t == s \ {Pick(s)}
<1>6. Pick(s) \in s
  BY <1>4 DEF Pick
<1>7. t \notin Bad
  <2>1. s \in SUBSET S /\ t \in SUBSET S
    OBVIOUS
  <2>2. t \subseteq s /\ t # s
    BY <1>6
  <2>3. <<t, s>> \in R
    <3> HIDE DEF t, Bad
    <3> QED BY <2>1, <2>2, Zenon DEF StrictSubsetOrdering
  <2> HIDE DEF R, t, Bad
  <2> QED BY <1>3, <2>3
<1>8. h[t] = Cardinality(Items(f, t))
  BY <1>7
<1>9. h[s] = f[Pick(s)] + h[t]
  BY <1>4 DEF IsSum
<1>10. IsFiniteSet(s)
  BY FS_Subset, Zenon
<1>11. Cardinality(Items(f, s)) = f[Pick(s)] + Cardinality(Items(f, t))
  BY <1>6, <1>10, ItemsStep
<1> QED BY <1>8, <1>9, <1>11

\* The sum of a sequence counts its items.
LEMMA SequenceSum ==
  ASSUME NEW b \in Seq(Nat)
  PROVE  FoldSeq(LAMBDA x, y : x + y, 0, b) = Cardinality(Items(b, DOMAIN b))
<1> DEFINE S == DOMAIN b
           it == CHOOSE h : h = [s \in SUBSET S |-> IF s = {} THEN 0
                                                    ELSE b[Pick(s)] + h[s \ {Pick(s)}]]
<1>1. FoldSeq(LAMBDA x, y : x + y, 0, b) = it[S]
  BY Zenon DEF FoldSeq, FoldFunction, FoldFunctionOnSet, MapThenFoldSet, Pick
<1>2. IsFiniteSet(S) /\ \A x \in S : b[x] \in Nat
  <2>1. S = 1..Len(b) /\ Len(b) \in Nat
    OBVIOUS
  <2>2. IsFiniteSet(1..Len(b))
    BY <2>1, FS_Interval
  <2> QED BY <2>1, <2>2
<1>3. \E h : IsSum(h, b, S)
  <2> HIDE DEF S
  <2> QED BY <1>2, SumExists
<1>4. IsSum(it, b, S)
  <2> HIDE DEF S
  <2> QED BY <1>3, Zenon DEF IsSum
<1> HIDE DEF S, it
<1>5. it[S] = Cardinality(Items(b, S))
  BY <1>2, <1>4, SumCounts
<1> QED BY <1>1, <1>5 DEF S
=============================================================================
