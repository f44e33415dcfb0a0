------------------------------ MODULE FiniteSums ------------------------------
(***************************************************************************)
(* What the proofs of the components need about SumFunctionOnSet and       *)
(* FlattenSeq, for sets and sequences of any size: each is a recursive     *)
(* function, so a fact about it is proved at a least counterexample.       *)
(***************************************************************************)
EXTENDS Integers, Sequences, FiniteSets, Functions, SequencesExt, WellFoundedInduction,
        FiniteSetTheorems, TLAPS

\* A set of numbers that is not empty has a least element.
LEMMA LeastExists ==
  ASSUME NEW S \in SUBSET Nat, S # {}
  PROVE  \E x \in S : \A y \in S : x <= y
<1>1. \E x \in S : \A y \in S : ~(<<y, x>> \in OpToRel(<, Nat))
  BY NatLessThanWellFounded, WFMin
<1>2. \A x, y \in Nat : y < x => <<y, x>> \in OpToRel(<, Nat)
  BY Zenon DEF OpToRel
<1>3. PICK x \in S : \A y \in S : ~(y < x)
  BY <1>1, <1>2
<1> QED BY <1>3

\* A nonempty set of naturals with an upper bound has a greatest element.
LEMMA GreatestExists ==
  ASSUME NEW n \in Nat, NEW S \in SUBSET (0 .. n), S # {}
  PROVE  \E x \in S : \A y \in S : y <= x
<1> DEFINE T == {n - x : x \in S}
<1>1. T \in SUBSET Nat /\ T # {}
  <2>1. \A x \in S : n - x \in Nat
    OBVIOUS
  <2>2. PICK x \in S : TRUE
    OBVIOUS
  <2>3. n - x \in T
    BY <2>2
  <2> QED BY <2>1, <2>3
<1>2. PICK t \in T : \A u \in T : t <= u
  BY <1>1, LeastExists
<1>3. PICK x \in S : t = n - x
  BY <1>2
<1>4. ASSUME NEW y \in S PROVE y <= x
  <2>1. n - y \in T
    OBVIOUS
  <2>2. n - x <= n - y
    BY <2>1, <1>2, <1>3
  <2>3. n \in Int /\ x \in Int /\ y \in Int
    OBVIOUS
  <2> HIDE DEF T
  <2> QED BY ONLY <2>2, <2>3
<1> QED BY <1>4

\* Induction on sizes: a set of sets closed under adding an element to any of
\* its members contains every finite set it can.
LEMMA SizeInduction ==
  ASSUME NEW U, IsFiniteSet(U), NEW G \in SUBSET (SUBSET U),
         \A T \in SUBSET U : (\A V \in SUBSET T : V # T => V \in G) => T \in G
  PROVE  U \in G
<1>1. SUFFICES ASSUME U \notin G PROVE FALSE
  OBVIOUS
<1> DEFINE Bad == {T \in SUBSET U : T \notin G}
<1> DEFINE Sizes == {Cardinality(T) : T \in Bad}
<1>2. Sizes \in SUBSET Nat /\ Sizes # {}
  <2>1. \A T \in SUBSET U : Cardinality(T) \in Nat
    BY FS_Subset, FS_CardinalityType
  <2>2. Cardinality(U) \in Sizes
    BY <1>1
  <2> QED BY <2>1, <2>2
<1>3. PICK n \in Sizes : \A m \in Sizes : n <= m
  BY <1>2, LeastExists
<1>4. PICK T \in Bad : n = Cardinality(T)
  OBVIOUS
<1>5. ASSUME NEW V \in SUBSET T, V # T PROVE V \in G
  <2>1. IsFiniteSet(T) /\ IsFiniteSet(V) /\ V \in SUBSET U
    BY FS_Subset
  <2>2. Cardinality(V) \in Nat /\ Cardinality(T) \in Nat
    BY <2>1, FS_CardinalityType
  <2>3. Cardinality(V) <= Cardinality(T) /\ Cardinality(V) # Cardinality(T)
    BY <2>1, <1>5, FS_Subset
  <2>4. V \in Bad => n <= Cardinality(V)
    BY <1>3
  <2> QED BY <2>1, <2>2, <2>3, <2>4, <1>4
<1> QED BY <1>4, <1>5

\* The recursion behind SumFunctionOnSet, at one set of the recursion.
Pick(s) == CHOOSE x \in s : TRUE
SumBody(f, h, s) == IF s = {} THEN 0 ELSE f[Pick(s)] + h[s \ {Pick(s)}]
IsSum(f, S, h) == h = [s \in SUBSET S |-> SumBody(f, h, s)]

\* SumFunctionOnSet is the value of the recursion at the whole set.
LEMMA SumUnfolds ==
  ASSUME NEW f, NEW S
  PROVE  SumFunctionOnSet(f, S) = (CHOOSE h : IsSum(f, S, h))[S]
BY Zenon DEF SumFunctionOnSet, FoldFunctionOnSet, MapThenFoldSet, IsSum, SumBody, Pick

\* The element taken out of a set is one of its own.
LEMMA PickIn == ASSUME NEW s, s # {} PROVE Pick(s) \in s
BY DEF Pick

\* The subsets of S of at most n elements.
Small(S, n) == {s \in SUBSET S : Cardinality(s) <= n}
IsPartSum(f, S, n, h) == h = [s \in Small(S, n) |-> SumBody(f, h, s)]

\* A set without the element taken out is a size smaller.
LEMMA SmallStep ==
  ASSUME NEW S, IsFiniteSet(S), NEW n \in Nat, NEW s \in Small(S, n + 1), s # {}
  PROVE  s \ {Pick(s)} \in Small(S, n)
<1>1. IsFiniteSet(s) /\ Pick(s) \in s
  BY FS_Subset, PickIn DEF Small
<1>2. Cardinality(s \ {Pick(s)}) = Cardinality(s) - 1
  BY <1>1, FS_RemoveElement
<1>3. Cardinality(s) \in Nat /\ Cardinality(s) <= n + 1
  BY <1>1, FS_CardinalityType DEF Small
<1> QED BY <1>2, <1>3 DEF Small

\* The recursion has a solution over the sets of any bounded size.
LEMMA PartSumExists ==
  ASSUME NEW f, NEW S, IsFiniteSet(S)
  PROVE  \A n \in Nat : \E h : IsPartSum(f, S, n, h)
<1> DEFINE Bad == {n \in Nat : ~ \E h : IsPartSum(f, S, n, h)}
<1>1. 0 \notin Bad
  <2> DEFINE z == [s \in Small(S, 0) |-> 0]
  <2>1. ASSUME NEW s \in Small(S, 0) PROVE s = {}
    <3>1. IsFiniteSet(s) /\ Cardinality(s) <= 0
      BY FS_Subset DEF Small
    <3> QED BY <3>1, FS_EmptySet, FS_CardinalityType
  <2>2. \A s \in Small(S, 0) : SumBody(f, z, s) = 0
    BY <2>1 DEF SumBody
  <2>3. IsPartSum(f, S, 0, z)
    BY <2>2 DEF IsPartSum
  <2> QED BY <2>3
<1>2. ASSUME NEW n \in Nat, n \notin Bad PROVE n + 1 \notin Bad
  <2>1. PICK h : IsPartSum(f, S, n, h)
    BY <1>2
  <2> DEFINE g == [s \in Small(S, n + 1) |-> SumBody(f, h, s)]
  <2>2. \A s \in Small(S, n) : s \in Small(S, n + 1) /\ g[s] = h[s]
    <3>1. \A s \in Small(S, n) : s \in Small(S, n + 1)
      <4> SUFFICES ASSUME NEW s \in Small(S, n) PROVE s \in Small(S, n + 1)
        OBVIOUS
      <4>1. IsFiniteSet(s)
        BY FS_Subset DEF Small
      <4>2. Cardinality(s) \in Nat
        BY <4>1, FS_CardinalityType
      <4> QED BY <4>2 DEF Small
    <3>2. \A s \in Small(S, n) : h[s] = SumBody(f, h, s)
      BY <2>1 DEF IsPartSum
    <3> QED BY <3>1, <3>2
  <2>3. ASSUME NEW s \in Small(S, n + 1) PROVE SumBody(f, h, s) = SumBody(f, g, s)
    <3>1. CASE s = {}
      BY <3>1 DEF SumBody
    <3>2. CASE s # {}
      <4>1. g[s \ {Pick(s)}] = h[s \ {Pick(s)}]
        BY <3>2, <2>2, SmallStep
      <4> HIDE DEF g
      <4> QED BY <3>2, <4>1 DEF SumBody
    <3> QED BY <3>1, <3>2
  <2>4. g = [s \in Small(S, n + 1) |-> SumBody(f, g, s)]
    BY <2>3
  <2> HIDE DEF g
  <2>5. IsPartSum(f, S, n + 1, g)
    BY <2>4 DEF IsPartSum
  <2> QED BY <2>5
<1>3. Bad = {}
  <2>1. SUFFICES ASSUME Bad # {} PROVE FALSE
    OBVIOUS
  <2>2. PICK n \in Bad : \A m \in Bad : n <= m
    BY <2>1, LeastExists
  <2> HIDE DEF Bad
  <2>3. n \in Nat
    BY DEF Bad
  <2>4. CASE n = 0
    BY <2>4, <1>1
  <2>5. CASE n # 0
    <3>1. n - 1 \in Nat /\ n - 1 \notin Bad
      BY <2>2, <2>3, <2>5
    <3>2. (n - 1) + 1 = n
      BY <2>3
    <3> QED BY <3>1, <3>2, <1>2
  <2> QED BY <2>4, <2>5
<1> QED BY <1>3

\* The recursion has a solution over all the subsets.
LEMMA SumExists ==
  ASSUME NEW f, NEW S, IsFiniteSet(S)
  PROVE  \E h : IsSum(f, S, h)
<1>1. Cardinality(S) \in Nat
  BY FS_CardinalityType
<1>2. PICK h : IsPartSum(f, S, Cardinality(S), h)
  BY <1>1, PartSumExists
<1>3. Small(S, Cardinality(S)) = SUBSET S
  BY FS_Subset DEF Small
<1> QED BY <1>2, <1>3 DEF IsPartSum, IsSum

\* Solutions over different sets agree where both are defined.
LEMMA SumUnique ==
  ASSUME NEW f, NEW S, NEW T \in SUBSET S, IsFiniteSet(S), NEW h, NEW g,
         IsSum(f, S, h), IsSum(f, T, g)
  PROVE  h[T] = g[T]
<1> DEFINE G == {V \in SUBSET T : h[V] = g[V]}
<1>1. ASSUME NEW V \in SUBSET T, \A W \in SUBSET V : W # V => W \in G
      PROVE  V \in G
  <2>1. h[V] = SumBody(f, h, V) /\ g[V] = SumBody(f, g, V)
    BY DEF IsSum
  <2>2. CASE V = {}
    BY <2>1, <2>2 DEF SumBody
  <2>3. CASE V # {}
    <3>1. V \ {Pick(V)} \in G
      BY <1>1, <2>3, PickIn
    <3> QED BY <2>1, <2>3, <3>1 DEF SumBody
  <2> QED BY <2>2, <2>3
<1>2. IsFiniteSet(T)
  BY FS_Subset
<1>3. T \in G
  <2>1. G \in SUBSET (SUBSET T)
    OBVIOUS
  <2> HIDE DEF G
  <2> QED BY <1>1, <1>2, <2>1, SizeInduction
<1> QED BY <1>3

\* A sum is the value at one of the indices plus the sum over the others.
LEMMA SumRecursion ==
  ASSUME NEW f, NEW S, IsFiniteSet(S)
  PROVE  SumFunctionOnSet(f, S) =
           IF S = {} THEN 0 ELSE f[Pick(S)] + SumFunctionOnSet(f, S \ {Pick(S)})
<1> DEFINE T == S \ {Pick(S)}
<1> DEFINE h == CHOOSE x : IsSum(f, S, x)
<1> DEFINE g == CHOOSE x : IsSum(f, T, x)
<1>1. IsFiniteSet(T) /\ T \in SUBSET S
  BY FS_Subset
<1>2. IsSum(f, S, h)
  BY SumExists
<1>3. IsSum(f, T, g)
  BY <1>1, SumExists
<1>4. SumFunctionOnSet(f, S) = h[S] /\ SumFunctionOnSet(f, T) = g[T]
  BY SumUnfolds
<1> HIDE DEF h, g
<1>5. h[S] = SumBody(f, h, S)
  BY <1>2 DEF IsSum
<1>6. h[T] = g[T]
  BY <1>1, <1>2, <1>3, SumUnique
<1> QED BY <1>4, <1>5, <1>6 DEF SumBody

\* The sum over no index is zero.
LEMMA SumEmpty == ASSUME NEW f PROVE SumFunctionOnSet(f, {}) = 0
BY SumRecursion, FS_EmptySet

\* A sum of integers is an integer.
LEMMA SumInt ==
  ASSUME NEW f, NEW S, IsFiniteSet(S), \A x \in S : f[x] \in Int
  PROVE  SumFunctionOnSet(f, S) \in Int
<1> DEFINE G == {T \in SUBSET S : SumFunctionOnSet(f, T) \in Int}
<1>1. ASSUME NEW T \in SUBSET S, \A V \in SUBSET T : V # T => V \in G
      PROVE  T \in G
  <2>1. IsFiniteSet(T)
    BY FS_Subset
  <2>2. CASE T = {}
    BY <2>2, SumEmpty
  <2>3. CASE T # {}
    <3>1. T \ {Pick(T)} \in G /\ Pick(T) \in S
      BY <1>1, <2>3, PickIn
    <3> QED BY <2>1, <2>3, <3>1, SumRecursion
  <2> QED BY <2>2, <2>3
<1>2. G \in SUBSET (SUBSET S)
  OBVIOUS
<1> HIDE DEF G
<1>3. S \in G
  BY <1>1, <1>2, SizeInduction
<1> QED BY <1>3 DEF G

\* A sum of naturals is a natural.
LEMMA SumNat ==
  ASSUME NEW f, NEW S, IsFiniteSet(S), \A x \in S : f[x] \in Nat
  PROVE  SumFunctionOnSet(f, S) \in Nat
<1> DEFINE G == {T \in SUBSET S : SumFunctionOnSet(f, T) \in Nat}
<1>1. ASSUME NEW T \in SUBSET S, \A V \in SUBSET T : V # T => V \in G
      PROVE  T \in G
  <2>1. IsFiniteSet(T)
    BY FS_Subset
  <2>2. CASE T = {}
    BY <2>2, SumEmpty
  <2>3. CASE T # {}
    <3>1. T \ {Pick(T)} \in G /\ Pick(T) \in S
      BY <1>1, <2>3, PickIn
    <3> QED BY <2>1, <2>3, <3>1, SumRecursion
  <2> QED BY <2>2, <2>3
<1>2. G \in SUBSET (SUBSET S)
  OBVIOUS
<1> HIDE DEF G
<1>3. S \in G
  BY <1>1, <1>2, SizeInduction
<1> QED BY <1>3 DEF G

\* The index taken out of a sum may be any of its indices.
LEMMA SumTakesOut ==
  ASSUME NEW f, NEW S, IsFiniteSet(S), \A x \in S : f[x] \in Int, NEW x \in S
  PROVE  SumFunctionOnSet(f, S) = f[x] + SumFunctionOnSet(f, S \ {x})
<1> DEFINE Sum(T) == SumFunctionOnSet(f, T)
<1> DEFINE G == {T \in SUBSET S : \A y \in T : Sum(T) = f[y] + Sum(T \ {y})}
<1>1. ASSUME NEW T \in SUBSET S, \A V \in SUBSET T : V # T => V \in G
      PROVE  T \in G
  <2> SUFFICES ASSUME NEW y \in T PROVE Sum(T) = f[y] + Sum(T \ {y})
    OBVIOUS
  <2> DEFINE p == Pick(T)
  <2>1. /\ IsFiniteSet(T) /\ IsFiniteSet(T \ {y})
        /\ p \in T
    BY FS_Subset, PickIn
  <2> HIDE DEF p
  <2>2. Sum(T) = f[p] + Sum(T \ {p})
    BY <2>1, SumRecursion DEF p
  <2>3. CASE p = y
    BY <2>2, <2>3
  <2>4. CASE p # y
    <3> DEFINE R == T \ {p, y}
    <3>1. T \ {p} \in G /\ T \ {y} \in G
      BY <1>1, <2>1
    <3>2. (T \ {p}) \ {y} = R /\ (T \ {y}) \ {p} = R
      OBVIOUS
    <3>3. Sum(T \ {p}) = f[y] + Sum(R) /\ Sum(T \ {y}) = f[p] + Sum(R)
      BY <3>1, <3>2, <2>1, <2>4
    <3>4. Sum(R) \in Int /\ f[p] \in Int /\ f[y] \in Int
      <4>1. IsFiniteSet(R) /\ \A z \in R : f[z] \in Int
        BY FS_Subset
      <4> QED BY <4>1, <2>1, SumInt
    <3> HIDE DEF Sum
    <3> QED BY <2>2, <3>3, <3>4
  <2> QED BY <2>3, <2>4
<1>2. G \in SUBSET (SUBSET S)
  OBVIOUS
<1> HIDE DEF G
<1>3. S \in G
  BY <1>1, <1>2, SizeInduction
<1> QED BY <1>3 DEF G

\* Sums of functions that agree on the indices are equal.
LEMMA SumAgrees ==
  ASSUME NEW f, NEW g, NEW S, IsFiniteSet(S), \A x \in S : f[x] = g[x]
  PROVE  SumFunctionOnSet(f, S) = SumFunctionOnSet(g, S)
<1> DEFINE G == {T \in SUBSET S : SumFunctionOnSet(f, T) = SumFunctionOnSet(g, T)}
<1>1. ASSUME NEW T \in SUBSET S, \A V \in SUBSET T : V # T => V \in G
      PROVE  T \in G
  <2>1. IsFiniteSet(T)
    BY FS_Subset
  <2>2. CASE T = {}
    BY <2>2, SumEmpty
  <2>3. CASE T # {}
    <3>1. T \ {Pick(T)} \in G /\ Pick(T) \in S
      BY <1>1, <2>3, PickIn
    <3> QED BY <2>1, <2>3, <3>1, SumRecursion
  <2> QED BY <2>2, <2>3
<1>2. G \in SUBSET (SUBSET S)
  OBVIOUS
<1> HIDE DEF G
<1>3. S \in G
  BY <1>1, <1>2, SizeInduction
<1> QED BY <1>3 DEF G

\* A sum of zeros is zero.
LEMMA SumZero ==
  ASSUME NEW f, NEW S, IsFiniteSet(S), \A x \in S : f[x] = 0
  PROVE  SumFunctionOnSet(f, S) = 0
<1> DEFINE G == {T \in SUBSET S : SumFunctionOnSet(f, T) = 0}
<1>1. ASSUME NEW T \in SUBSET S, \A V \in SUBSET T : V # T => V \in G
      PROVE  T \in G
  <2>1. IsFiniteSet(T)
    BY FS_Subset
  <2>2. CASE T = {}
    BY <2>2, SumEmpty
  <2>3. CASE T # {}
    <3>1. T \ {Pick(T)} \in G /\ Pick(T) \in S
      BY <1>1, <2>3, PickIn
    <3> QED BY <2>1, <2>3, <3>1, SumRecursion
  <2> QED BY <2>2, <2>3
<1>2. G \in SUBSET (SUBSET S)
  OBVIOUS
<1> HIDE DEF G
<1>3. S \in G
  BY <1>1, <1>2, SizeInduction
<1> QED BY <1>3 DEF G

\* Disjoint index sets sum separately.
LEMMA SumSplits ==
  ASSUME NEW f, NEW S, NEW T, IsFiniteSet(S), IsFiniteSet(T), S \cap T = {},
         \A x \in S \cup T : f[x] \in Int
  PROVE  SumFunctionOnSet(f, S \cup T) = SumFunctionOnSet(f, S) + SumFunctionOnSet(f, T)
<1> DEFINE Sum(V) == SumFunctionOnSet(f, V)
<1> DEFINE G == {V \in SUBSET S : Sum(V \cup T) = Sum(V) + Sum(T)}
<1>1. ASSUME NEW V \in SUBSET S, \A W \in SUBSET V : W # V => W \in G
      PROVE  V \in G
  <2>1. IsFiniteSet(V) /\ IsFiniteSet(V \cup T) /\ Sum(T) \in Int
    BY FS_Subset, FS_Union, SumInt
  <2>2. CASE V = {}
    <3>1. V \cup T = T
      BY <2>2
    <3>2. Sum(V \cup T) = Sum(T) /\ Sum(V) = 0
      BY <2>2, <3>1, SumEmpty
    <3> HIDE DEF Sum
    <3> QED BY <2>1, <3>2
  <2>3. CASE V # {}
    <3> DEFINE p == Pick(V)
    <3>1. p \in V
      BY <2>3, PickIn
    <3> HIDE DEF p
    <3>2. V \ {p} \in G
      BY <1>1, <3>1
    <3>3. (V \cup T) \ {p} = (V \ {p}) \cup T
      BY <3>1
    <3>4. Sum(V \cup T) = f[p] + Sum((V \ {p}) \cup T)
      BY <2>1, <3>1, <3>3, SumTakesOut
    <3>5. Sum(V) = f[p] + Sum(V \ {p})
      BY <2>1, <3>1, SumTakesOut
    <3>6. f[p] \in Int /\ Sum(V \ {p}) \in Int
      <4>1. IsFiniteSet(V \ {p})
        BY <2>1, FS_Subset
      <4> QED BY <4>1, <3>1, SumInt
    <3>7. Sum((V \ {p}) \cup T) = Sum(V \ {p}) + Sum(T)
      BY <3>2
    <3> HIDE DEF Sum
    <3> QED BY <2>1, <3>4, <3>5, <3>6, <3>7
  <2> QED BY <2>2, <2>3
<1>2. G \in SUBSET (SUBSET S)
  OBVIOUS
<1> HIDE DEF G
<1>3. S \in G
  BY <1>1, <1>2, SizeInduction
<1> QED BY <1>3 DEF G
\* Sums add up index by index.
LEMMA SumPlus ==
  ASSUME NEW f, NEW g, NEW h, NEW S, IsFiniteSet(S),
         \A x \in S : f[x] \in Int /\ g[x] \in Int /\ h[x] = f[x] + g[x]
  PROVE  SumFunctionOnSet(h, S) = SumFunctionOnSet(f, S) + SumFunctionOnSet(g, S)
<1> DEFINE Sum(e, T) == SumFunctionOnSet(e, T)
<1> DEFINE G == {T \in SUBSET S : Sum(h, T) = Sum(f, T) + Sum(g, T)}
<1>1. ASSUME NEW T \in SUBSET S, \A V \in SUBSET T : V # T => V \in G
      PROVE  T \in G
  <2>1. IsFiniteSet(T)
    BY FS_Subset
  <2>2. CASE T = {}
    <3>1. Sum(h, T) = 0 /\ Sum(f, T) = 0 /\ Sum(g, T) = 0
      BY <2>2, SumEmpty
    <3> QED BY <3>1
  <2>3. CASE T # {}
    <3> DEFINE p == Pick(T)
               R == T \ {p}
    <3>1. R \in G /\ p \in S /\ IsFiniteSet(R)
      BY <1>1, <2>1, <2>3, PickIn, FS_Subset
    <3>2. Sum(f, R) \in Int /\ Sum(g, R) \in Int
      BY <3>1, SumInt
    <3>3. /\ Sum(f, T) = f[p] + Sum(f, R)
          /\ Sum(g, T) = g[p] + Sum(g, R)
          /\ Sum(h, T) = h[p] + Sum(h, R)
      BY <2>1, <2>3, SumRecursion
    <3>4. f[p] \in Int /\ g[p] \in Int /\ h[p] = f[p] + g[p]
      BY <3>1
    <3>5. Sum(h, R) = Sum(f, R) + Sum(g, R)
      BY <3>1
    <3> HIDE DEF Sum, p, R
    <3>6. Sum(h, T) = Sum(f, T) + Sum(g, T)
      BY <3>2, <3>3, <3>4, <3>5
    <3> QED BY <3>6
  <2> QED BY <2>2, <2>3
<1>2. G \in SUBSET (SUBSET S)
  OBVIOUS
<1> HIDE DEF G
<1>3. S \in G
  BY <1>1, <1>2, SizeInduction
<1> QED BY <1>3 DEF G

\* The members of S that b puts into bucket y, or into one of the buckets B.
Bucket(S, b, y) == {x \in S : b[x] = y}
Buckets(S, b, B) == {x \in S : b[x] \in B}

\* Summing bucket by bucket is summing what is in the buckets.
LEMMA SumBuckets ==
  ASSUME NEW f, NEW b, NEW S, IsFiniteSet(S), \A x \in S : f[x] \in Int,
         NEW B, IsFiniteSet(B), NEW t,
         \A y \in B : t[y] = SumFunctionOnSet(f, Bucket(S, b, y))
  PROVE  SumFunctionOnSet(t, B) = SumFunctionOnSet(f, Buckets(S, b, B))
<1> DEFINE In(C) == Buckets(S, b, C)
<1> DEFINE Sum(T) == SumFunctionOnSet(f, T)
<1> DEFINE G == {C \in SUBSET B : SumFunctionOnSet(t, C) = Sum(In(C))}
<1>1. ASSUME NEW C \in SUBSET B, \A D \in SUBSET C : D # C => D \in G
      PROVE  C \in G
  <2>1. IsFiniteSet(C)
    BY FS_Subset
  <2>2. CASE C = {}
    <3>1. In(C) = {}
      BY <2>2 DEF Buckets
    <3> HIDE DEF In
    <3> QED BY <2>2, <3>1, SumEmpty
  <2>3. CASE C # {}
    <3> DEFINE p == Pick(C)
               P == Bucket(S, b, p)
               R == In(C \ {p})
    <3>1. p \in C /\ C \ {p} \in G
      BY <1>1, <2>3, PickIn
    <3>2. SumFunctionOnSet(t, C) = t[p] + SumFunctionOnSet(t, C \ {p})
      BY <2>1, <2>3, SumRecursion
    <3>3. t[p] = Sum(P) /\ SumFunctionOnSet(t, C \ {p}) = Sum(R)
      BY <3>1
    <3> HIDE DEF p
    <3>4. In(C) = P \cup R /\ P \cap R = {}
      BY <3>1 DEF Bucket, Buckets
    <3>5. IsFiniteSet(P) /\ IsFiniteSet(R) /\ \A x \in P \cup R : f[x] \in Int
      BY FS_Subset DEF Bucket, Buckets
    <3> HIDE DEF P, R, In
    <3>6. Sum(P \cup R) = Sum(P) + Sum(R)
      BY <3>4, <3>5, SumSplits
    <3> QED BY <3>2, <3>3, <3>4, <3>6
  <2> QED BY <2>2, <2>3
<1>2. G \in SUBSET (SUBSET B)
  OBVIOUS
<1> HIDE DEF G
<1>3. B \in G
  BY <1>1, <1>2, SizeInduction
<1> QED BY <1>3 DEF G

\* A sum of one value is that value times the number of indices.
LEMMA SumConstant ==
  ASSUME NEW f, NEW S, IsFiniteSet(S), NEW v \in Int, \A x \in S : f[x] = v
  PROVE  SumFunctionOnSet(f, S) = v * Cardinality(S)
<1> DEFINE G == {T \in SUBSET S : SumFunctionOnSet(f, T) = v * Cardinality(T)}
<1>1. ASSUME NEW T \in SUBSET S, \A V \in SUBSET T : V # T => V \in G
      PROVE  T \in G
  <2>1. IsFiniteSet(T)
    BY FS_Subset
  <2>2. CASE T = {}
    BY <2>2, SumEmpty, FS_EmptySet
  <2>3. CASE T # {}
    <3> DEFINE p == Pick(T)
               n == Cardinality(T)
    <3>1. T \ {p} \in G /\ p \in T
      BY <1>1, <2>3, PickIn
    <3>2. n \in Nat /\ Cardinality(T \ {p}) = n - 1
      BY <2>1, <3>1, FS_RemoveElement, FS_CardinalityType
    <3>3. SumFunctionOnSet(f, T) = v + SumFunctionOnSet(f, T \ {p})
      BY <2>1, <2>3, <3>1, SumRecursion
    <3>4. SumFunctionOnSet(f, T \ {p}) = v * (n - 1)
      BY <3>1, <3>2
    <3> HIDE DEF n
    <3>5. v + v * (n - 1) = v * n
      BY <3>2
    <3> QED BY <3>3, <3>4, <3>5 DEF n
  <2> QED BY <2>2, <2>3
<1>2. G \in SUBSET (SUBSET S)
  OBVIOUS
<1> HIDE DEF G
<1>3. S \in G
  BY <1>1, <1>2, SizeInduction
<1> QED BY <1>3 DEF G

\* A nonempty finite set of naturals has a greatest element.
LEMMA FiniteHasGreatest ==
  ASSUME NEW S \in SUBSET Nat, IsFiniteSet(S), S # {}
  PROVE  \E x \in S : \A y \in S : x >= y
<1> DEFINE G == {T \in SUBSET S : T = {} \/ \E x \in T : \A y \in T : x >= y}
<1>1. ASSUME NEW T \in SUBSET S, \A V \in SUBSET T : V # T => V \in G
      PROVE  T \in G
  <2>1. CASE T = {}
    BY <2>1
  <2>2. ASSUME NEW z \in T PROVE T \in G
    <3>1. T \ {z} \in G
      BY <1>1, <2>2
    <3>2. CASE T \ {z} = {}
      <4>1. \A y \in T : y = z
        BY <3>2
      <4> QED BY <4>1
    <3>3. CASE T \ {z} # {}
      <4>1. PICK x \in T \ {z} : \A y \in T \ {z} : x >= y
        BY <3>1, <3>3
      <4>2. CASE x >= z
        BY <4>1, <4>2
      <4>3. CASE z > x
        <5>1. \A y \in T : z >= y
          BY <4>1, <4>3
        <5> QED BY <5>1
      <4> QED BY <4>1, <4>2, <4>3
    <3> QED BY <3>2, <3>3
  <2> QED BY <2>1, <2>2
<1>2. G \in SUBSET (SUBSET S)
  OBVIOUS
<1> HIDE DEF G
<1>3. S \in G
  BY <1>1, <1>2, SizeInduction
<1> QED BY <1>3 DEF G

-----------------------------------------------------------------------------
(* Concatenations                                                          *)

\* A set of numbers with 0, and with the successor of each of its numbers, has
\* them all.
LEMMA Counting ==
  ASSUME NEW G \in SUBSET Nat, 0 \in G, \A n \in G : n + 1 \in G
  PROVE  G = Nat
<1> DEFINE Bad == {n \in Nat : n \notin G}
<1> SUFFICES ASSUME Bad # {} PROVE FALSE
  OBVIOUS
<1>1. PICK n \in Bad : \A m \in Bad : n <= m
  BY LeastExists
<1>2. n \in Nat /\ n # 0
  OBVIOUS
<1>3. n - 1 \in Nat /\ n - 1 \notin Bad /\ (n - 1) + 1 = n
  BY <1>1, <1>2
<1> QED BY <1>1, <1>3

\* The recursion behind FlattenSeq, up to the n-th sequence.
FlatBody(s, h, i) == IF i = 1 THEN s[i] ELSE h[i - 1] \o s[i]
IsFlat(s, n, h) == h = [i \in 1 .. n |-> FlatBody(s, h, i)]

\* FlattenSeq takes the recursion to the last sequence.
LEMMA FlattenUnfolds ==
  ASSUME NEW s
  PROVE  FlattenSeq(s) = IF Len(s) = 0 THEN s ELSE (CHOOSE h : IsFlat(s, Len(s), h))[Len(s)]
BY Zenon DEF FlattenSeq, IsFlat, FlatBody

\* The recursion has a solution.
LEMMA FlatExists ==
  ASSUME NEW s
  PROVE  \A n \in Nat : \E h : IsFlat(s, n, h)
<1> DEFINE G == {n \in Nat : \E h : IsFlat(s, n, h)}
<1>1. 0 \in G
  <2> DEFINE z == [i \in 1 .. 0 |-> s[i]]
  <2>1. z = [i \in 1 .. 0 |-> FlatBody(s, z, i)]
    OBVIOUS
  <2> HIDE DEF z
  <2>2. IsFlat(s, 0, z)
    BY <2>1 DEF IsFlat
  <2> QED BY <2>2
<1>2. ASSUME NEW n \in G PROVE n + 1 \in G
  <2>1. n \in Nat
    OBVIOUS
  <2>2. PICK h : IsFlat(s, n, h)
    OBVIOUS
  <2> DEFINE g == [i \in 1 .. n + 1 |-> FlatBody(s, h, i)]
  <2>3. \A i \in 1 .. n : g[i] = h[i]
    <3>1. \A i \in 1 .. n : h[i] = FlatBody(s, h, i)
      BY <2>2 DEF IsFlat
    <3>2. \A i \in 1 .. n : i \in 1 .. n + 1
      BY <2>1
    <3> QED BY <3>1, <3>2
  <2>4. ASSUME NEW i \in 1 .. n + 1 PROVE FlatBody(s, h, i) = FlatBody(s, g, i)
    <3>1. i # 1 => i - 1 \in 1 .. n
      BY <2>1
    <3> HIDE DEF g
    <3> QED BY <2>3, <3>1 DEF FlatBody
  <2>5. g = [i \in 1 .. n + 1 |-> FlatBody(s, g, i)]
    BY <2>4
  <2> HIDE DEF g
  <2>6. IsFlat(s, n + 1, g)
    BY <2>5 DEF IsFlat
  <2> QED BY <2>1, <2>6
<1> HIDE DEF G
<1>3. G = Nat
  BY <1>1, <1>2, Counting DEF G
<1> QED BY <1>3 DEF G

\* Solutions agree as far as both go, over sequences that agree so far.
LEMMA FlatUnique ==
  ASSUME NEW s, NEW t, NEW m \in Nat, NEW n \in Nat, m <= n, NEW g, NEW h,
         IsFlat(s, m, g), IsFlat(t, n, h), \A i \in 1 .. m : s[i] = t[i]
  PROVE  \A i \in 1 .. m : g[i] = h[i]
<1> DEFINE G == {k \in Nat : k \in 1 .. m => g[k] = h[k]}
<1>1. 0 \in G
  OBVIOUS
<1>2. ASSUME NEW k \in G PROVE k + 1 \in G
  <2>1. k \in Nat /\ k + 1 \in Nat
    OBVIOUS
  <2> SUFFICES ASSUME k + 1 \in 1 .. m PROVE g[k + 1] = h[k + 1]
    BY <2>1
  <2>2. k + 1 \in 1 .. n /\ s[k + 1] = t[k + 1] /\ (k + 1) - 1 = k
    BY <2>1
  <2>3. g[k + 1] = FlatBody(s, g, k + 1) /\ h[k + 1] = FlatBody(t, h, k + 1)
    BY <2>2 DEF IsFlat
  <2>4. k + 1 # 1 => g[k] = h[k]
    <3>1. k + 1 # 1 => k \in 1 .. m
      BY <2>1
    <3> QED BY <3>1
  <2> HIDE DEF G
  <2> QED BY <2>2, <2>3, <2>4 DEF FlatBody
<1> HIDE DEF G
<1>3. G = Nat
  BY <1>1, <1>2, Counting DEF G
<1>4. \A i \in 1 .. m : i \in G
  BY <1>3
<1> QED BY <1>4 DEF G

\* One more sequence is put at the end.
LEMMA FlattenAppend ==
  ASSUME NEW B, NEW s \in Seq(Seq(B)), NEW x \in Seq(B)
  PROVE  FlattenSeq(Append(s, x)) = FlattenSeq(s) \o x
<1> DEFINE t == Append(s, x)
           n == Len(s)
           g == CHOOSE y : IsFlat(s, n, y)
           h == CHOOSE y : IsFlat(t, n + 1, y)
<1>1. /\ n \in Nat /\ Len(t) = n + 1 /\ t[n + 1] = x
      /\ \A i \in 1 .. n : s[i] = t[i]
  OBVIOUS
<1>2. IsFlat(s, n, g) /\ IsFlat(t, n + 1, h)
  <2>1. \E y : IsFlat(s, n, y)
    BY <1>1, FlatExists
  <2>2. \E y : IsFlat(t, n + 1, y)
    <3>1. n + 1 \in Nat
      BY <1>1
    <3> HIDE DEF t, n
    <3> QED BY <3>1, FlatExists
  <2> HIDE DEF t, n
  <2> QED BY <2>1, <2>2
<1>3. FlattenSeq(s) = IF n = 0 THEN s ELSE g[n]
  BY FlattenUnfolds
<1>4. FlattenSeq(t) = h[n + 1]
  <2>1. FlattenSeq(t) = IF Len(t) = 0 THEN t ELSE (CHOOSE y : IsFlat(t, Len(t), y))[Len(t)]
    BY FlattenUnfolds
  <2>2. Len(t) # 0 /\ Len(t) = n + 1
    BY <1>1
  <2> QED BY <2>1, <2>2
<1> HIDE DEF g, h
<1>5. h[n + 1] = FlatBody(t, h, n + 1)
  <2>1. n + 1 \in 1 .. n + 1
    BY <1>1
  <2> HIDE DEF n, t
  <2> QED BY <1>2, <2>1 DEF IsFlat
<1>6. CASE n = 0
  <2>1. s = << >> /\ s \o x = x
    BY <1>6
  <2>2. h[n + 1] = x
    BY <1>1, <1>5, <1>6 DEF FlatBody
  <2> QED BY <1>3, <1>4, <1>6, <2>1, <2>2
<1>7. CASE n # 0
  <2>1. g[n] = h[n]
    <3>1. n \in 1 .. n /\ n <= n + 1 /\ n + 1 \in Nat
      BY <1>1, <1>7
    <3> HIDE DEF n, t
    <3> QED BY <1>1, <1>2, <3>1, FlatUnique
  <2>2. n + 1 # 1 /\ (n + 1) - 1 = n
    BY <1>1, <1>7
  <2>3. h[n + 1] = h[n] \o x
    BY <1>1, <1>5, <2>2 DEF FlatBody
  <2> QED BY <1>3, <1>4, <1>7, <2>1, <2>3
<1> QED BY <1>6, <1>7

\* The concatenation of no sequences is empty.
LEMMA FlattenEmpty == FlattenSeq(<< >>) = << >>
BY FlattenUnfolds

\* Concatenating sequences over B gives one.
LEMMA FlattenType ==
  ASSUME NEW B, NEW s \in Seq(Seq(B))
  PROVE  FlattenSeq(s) \in Seq(B)
<1> DEFINE n == Len(s)
           h == CHOOSE y : IsFlat(s, n, y)
           G == {k \in Nat : k \in 1 .. n => h[k] \in Seq(B)}
<1>1. n \in Nat /\ \A i \in 1 .. n : s[i] \in Seq(B)
  OBVIOUS
<1> HIDE DEF n
<1>2. IsFlat(s, n, h)
  BY <1>1, FlatExists
<1> HIDE DEF h
<1>3. ASSUME NEW k \in G PROVE k + 1 \in G
  <2>1. k \in Nat /\ k + 1 \in Nat
    OBVIOUS
  <2> SUFFICES ASSUME k + 1 \in 1 .. n PROVE h[k + 1] \in Seq(B)
    BY <2>1
  <2>2. h[k + 1] = FlatBody(s, h, k + 1)
    BY <1>2 DEF IsFlat
  <2>3. (k + 1) - 1 = k /\ (k + 1 # 1 => k \in 1 .. n)
    BY <1>1, <2>1
  <2>4. k + 1 # 1 => h[k] \in Seq(B)
    BY <2>3
  <2>5. s[k + 1] \in Seq(B)
    BY <1>1
  <2> HIDE DEF G
  <2> QED BY <2>2, <2>3, <2>4, <2>5 DEF FlatBody
<1>4. 0 \in G
  OBVIOUS
<1>5. G \in SUBSET Nat
  OBVIOUS
<1> HIDE DEF G
<1>6. G = Nat
  BY <1>3, <1>4, <1>5, Counting
<1>7. n # 0 => h[n] \in Seq(B)
  BY <1>1, <1>6 DEF G
<1>8. FlattenSeq(s) = IF n = 0 THEN s ELSE h[n]
  BY FlattenUnfolds DEF n, h
<1>9. n = 0 => s \in Seq(B)
  BY DEF n
<1> QED BY <1>7, <1>8, <1>9
=============================================================================
