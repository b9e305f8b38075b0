----------------------------- MODULE FoldFacts -----------------------------
(***************************************************************************)
(* Induction without an operator as its parameter, and what follows from   *)
(* it about the folds of the community modules: a fold to the left goes    *)
(* through its sequence step by step, a fold of a set that turns the same  *)
(* way for every element does so once for each; SumFunctionOnSet is        *)
(* defined, adds up its elements in any order, and depends on nothing      *)
(* else.                                                                   *)
(***************************************************************************)
EXTENDS FiniteSetsExt, FiniteSetTheorems, TLAPS

-----------------------------------------------------------------------------
(* Induction.                                                              *)

\* A set of numbers with 0 and every successor has all of them.
LEMMA NumbersIn ==
  ASSUME NEW N, 0 \in N, \A n \in Nat : n \in N => n + 1 \in N
  PROVE  \A n \in Nat : n \in N
<1> DEFINE Bad == {n \in Nat : n \notin N}
<1>1. SUFFICES ASSUME Bad # {} PROVE FALSE
  OBVIOUS
<1>2. PICK n \in Bad : \A m \in Bad : ~(<<m, n>> \in OpToRel(<, Nat))
  <2>1. Bad \subseteq Nat
    OBVIOUS
  <2> HIDE DEF Bad
  <2>2. QED
    BY Zenon, <1>1, <2>1, NatLessThanWellFounded, WFMin
<1>3. \A m \in Bad : ~(m < n)
  BY <1>2 DEF OpToRel
<1>4. n # 0 /\ n - 1 \in Nat
  OBVIOUS
<1>5. n - 1 \in N
  BY <1>3, <1>4
<1>6. QED
  BY <1>4, <1>5

\* A family of subsets of a finite set has one with none below it.
LEMMA SmallestIn ==
  ASSUME NEW S, IsFiniteSet(S), NEW W, W \subseteq SUBSET S, W # {}
  PROVE  \E X \in W : \A Y \in SUBSET X : Y # X => Y \notin W
<1>1. W \subseteq FiniteSubsetsOf(S)
  BY FS_FiniteSubsetsOfFinite
<1>2. PICK X \in W : \A Y \in W : ~(<<Y, X>> \in StrictSubsetOrdering(S))
  BY <1>1, FS_StrictSubsetOrderingWellFounded, WFMin
<1>3. \A Y \in W : ~(Y \subseteq X /\ Y # X)
  BY <1>2 DEF StrictSubsetOrdering
<1>4. QED
  BY <1>3

-----------------------------------------------------------------------------
(* The recursive function inside FoldLeft, with one step of it per place.   *)

\* The largest number of a set is in it ...
LEMMA MaxIn ==
  ASSUME NEW n \in Nat, NEW S \in SUBSET (1..n), S # {}
  PROVE  Max(S) \in S /\ \A x \in S : x <= Max(S)
<1> DEFINE Above == {m \in Nat : \A x \in S : x <= m}
<1>1. n \in Above /\ Above \subseteq Nat
  OBVIOUS
<1> HIDE DEF Above
<1>2. PICK m \in Above : \A k \in Above : ~(<<k, m>> \in OpToRel(<, Nat))
  BY Zenon, <1>1, NatLessThanWellFounded, WFMin
<1>3. \A k \in Above : ~(k < m)
  BY <1>1, <1>2 DEF OpToRel
<1>4. m \in Nat /\ \A x \in S : x <= m
  BY DEF Above
<1>5. m \in S
  <2>1. SUFFICES ASSUME m \notin S PROVE FALSE
    OBVIOUS
  <2>2. \A x \in S : x \in Nat /\ x <= m - 1 /\ m - 1 \in Nat
    BY <1>4, <2>1
  <2>5. m - 1 \in Nat
    BY <2>2
  <2>3. m - 1 \in Above /\ m - 1 < m
    BY <1>4, <2>2, <2>5 DEF Above
  <2>4. QED
    BY <1>3, <2>3
<1>6. \A y \in S : m >= y /\ y \in Nat
  BY <1>4
<1>7. Max(S) \in S /\ \A y \in S : Max(S) >= y
  BY <1>5, <1>6 DEF Max
<1>8. QED
  BY <1>6, <1>7

\* ... and which it is.
LEMMA MaxIs ==
  ASSUME NEW n \in Nat
  PROVE  /\ Max(1..n + 1) = n + 1 /\ (1..n + 1) \ {n + 1} = 1..n /\ 1..n + 1 # {}
         /\ 1..0 = {}
<1>1. n + 1 \in 1..n + 1 /\ \A x \in 1..n + 1 : (\A y \in 1..n + 1 : x >= y) <=> x = n + 1
  OBVIOUS
<1>2. Max(1..n + 1) = n + 1
  BY <1>1 DEF Max
<1>3. QED
  BY <1>1, <1>2

\* A set of natural numbers has a smallest one.
LEMMA MinIn ==
  ASSUME NEW S \in SUBSET Nat, S # {}
  PROVE  Min(S) \in S /\ \A x \in S : Min(S) <= x
<1>1. PICK m \in S : \A k \in S : ~(<<k, m>> \in OpToRel(<, Nat))
  BY Zenon, NatLessThanWellFounded, WFMin
<1>2. \A k \in S : ~(k < m)
  BY <1>1 DEF OpToRel
<1>3. m \in S /\ \A k \in S : m <= k
  BY <1>2
<1>4. QED
  BY Zenon, <1>3 DEF Min

\* The first numbers of an interval are as many as the last of them says.
LEMMA FirstOnes ==
  ASSUME NEW n \in Nat, NEW S \in SUBSET (1..n),
         \A i \in S : \A j \in 1..n : j < i => j \in S
  PROVE  Cardinality(S) \in 0..n /\ S = 1..Cardinality(S)
<1>1. CASE S = {}
  <2>1. Cardinality(S) = 0 /\ 1..0 = {}
    BY <1>1, FS_EmptySet
  <2>2. QED
    BY <1>1, <2>1
<1>2. CASE S # {}
  <2> DEFINE m == Max(S)
  <2>1. m \in S /\ \A x \in S : x <= m
    BY <1>2, MaxIn
  <2> HIDE DEF m
  <2>6. m \in 1..n /\ \A x \in S : x \in 1..n
    BY <2>1
  <2>2. m \in 1..n /\ \A j \in 1..m : j \in S
    <3>1. \A j \in 1..m : j = m \/ (j \in 1..n /\ j < m)
      BY <2>6
    <3>2. QED
      BY <2>1, <2>6, <3>1
  <2>5. S = 1..m
    <3>1. \A x \in S : x \in 1..m
      BY <2>1, <2>6
    <3>2. QED
      BY <2>2, <3>1
  <2>3. Cardinality(S) = m
    BY <2>2, <2>5, FS_Interval
  <2>4. QED
    BY <2>2, <2>3, <2>5
<1>3. QED
  BY <1>1, <1>2

\* A function on the subsets of 1..n that takes the steps of their numbers.
Folded(X, base, n, st, g) ==
  /\ g \in [SUBSET (1..n) -> X]
  /\ \A S \in SUBSET (1..n) :
       g[S] = IF S = {} THEN base ELSE st[Max(S)][g[S \ {Max(S)}]]

LEMMA StepsDefined ==
  ASSUME NEW X, NEW base \in X, NEW n \in Nat, NEW st \in [1..n -> [X -> X]]
  PROVE  \E g : Folded(X, base, n, st, g)
<1> DEFINE Val(g, S) == IF S = {} THEN base ELSE st[Max(S)][g[S \ {Max(S)}]]
           Good(g, k) == \A S \in SUBSET (1..k) : g[S] = Val(g, S)
           Has(k) == \E g \in [SUBSET (1..k) -> X] : Good(g, k)
           N == {k \in Nat : k <= n => Has(k)}
<1>1. 0 \in N
  <2> DEFINE g == [S \in SUBSET (1..0) |-> base]
  <2>1. \A S \in SUBSET (1..0) : S = {}
    <3>1. \A x : x \notin 1..0
      OBVIOUS
    <3>2. QED
      BY <3>1
  <2>2. g \in [SUBSET (1..0) -> X] /\ \A S \in SUBSET (1..0) : g[S] = base
    OBVIOUS
  <2> HIDE DEF g
  <2>4. Good(g, 0)
    BY <2>1, <2>2
  <2> HIDE DEF Good
  <2>3. Has(0)
    BY <2>2, <2>4
  <2> HIDE DEF Has
  <2>5. QED
    BY <2>3
<1>2. ASSUME NEW k \in Nat, k + 1 <= n, Has(k) PROVE Has(k + 1)
  <2>1. PICK g \in [SUBSET (1..k) -> X] : Good(g, k)
    BY <1>2
  <2> DEFINE h == [S \in SUBSET (1..k+1) |->
                    IF k + 1 \in S THEN st[k+1][g[S \ {k+1}]] ELSE g[S]]
  <2>2. \A S \in SUBSET (1..k+1) :
          /\ S \ {k+1} \in SUBSET (1..k)
          /\ k + 1 \notin S => S \in SUBSET (1..k)
          /\ k + 1 \in S => Max(S) = k + 1
    <3>1. TAKE S \in SUBSET (1..k+1)
    <3>2. ASSUME NEW x \in S PROVE x \in Int /\ x <= k + 1 /\ (x # k + 1 => x \in 1..k)
      BY <1>2
    <3>3. ASSUME k + 1 \in S PROVE Max(S) = k + 1
      <4>1. \A x \in S : (\A y \in S : x >= y) <=> x = k + 1
        BY <3>2, <3>3
      <4>2. QED
        BY <3>3, <4>1 DEF Max
    <3>4. QED
      BY <3>2, <3>3
  <2>3. k + 1 \in 1..n /\ \A x \in X : st[k+1][x] \in X
    BY <1>2
  <2>4. h \in [SUBSET (1..k+1) -> X]
    BY <2>1, <2>2, <2>3
  <2>5. ASSUME NEW S \in SUBSET (1..k+1) PROVE h[S] = Val(h, S)
    <3>1. CASE k + 1 \in S
      <4>1. h[S \ {k+1}] = g[S \ {k+1}]
        <5>1. S \ {k+1} \in SUBSET (1..k+1) /\ k + 1 \notin S \ {k+1}
          OBVIOUS
        <5>2. QED
          BY <5>1
      <4>2. h[S] = st[k+1][h[S \ {k+1}]]
        BY <3>1, <4>1
      <4>3. Max(S) = k + 1 /\ S # {}
        BY <2>2, <3>1
      <4> HIDE DEF h
      <4>4. QED
        BY <4>2, <4>3
    <3>2. CASE k + 1 \notin S
      <4>1. S \in SUBSET (1..k) /\ h[S] = g[S]
        BY <2>2, <3>2
      <4>2. g[S] = Val(g, S)
        BY <2>1, <4>1
      <4>3. h[S \ {Max(S)}] = g[S \ {Max(S)}]
        <5>1. S \ {Max(S)} \in SUBSET (1..k+1) /\ k + 1 \notin S \ {Max(S)}
          BY <3>2
        <5>2. QED
          BY <5>1
      <4> HIDE DEF h
      <4>4. QED
        BY <4>1, <4>2, <4>3
    <3>3. QED
      BY <3>1, <3>2
  <2> HIDE DEF h, Val
  <2>7. Good(h, k + 1)
    BY <2>5
  <2> HIDE DEF Good
  <2>6. QED
    BY <2>4, <2>7
<1> HIDE DEF Has
<1>3. \A k \in Nat : k \in N => k + 1 \in N
  BY <1>2
<1>4. n \in N
  <2> HIDE DEF N
  <2>1. QED
    BY <1>1, <1>3, NumbersIn
<1>5. Has(n)
  BY <1>4
<1>6. PICK g \in [SUBSET (1..n) -> X] : \A S \in SUBSET (1..n) : g[S] = Val(g, S)
  BY <1>5 DEF Has
<1>7. \A S \in SUBSET (1..n) :
        g[S] = IF S = {} THEN base ELSE st[Max(S)][g[S \ {Max(S)}]]
  BY <1>6
<1>8. Folded(X, base, n, st, g)
  BY Zenon, <1>7 DEF Folded
<1>9. QED
  BY Zenon, <1>8

-----------------------------------------------------------------------------
(* The folds of sets.                                                      *)

Pick(s) == CHOOSE x \in s : TRUE

LEMMA PickIn == \A s : s # {} => Pick(s) \in s
BY DEF Pick

\* A function on the subsets of T that takes a turn for every element.
Turned(X, base, T, st, g) ==
  /\ g \in [SUBSET T -> X]
  /\ \A S \in SUBSET T : g[S] = IF S = {} THEN base ELSE st[g[S \ {Pick(S)}]]

LEMMA TurnsDefined ==
  ASSUME NEW X, NEW base \in X, NEW T, IsFiniteSet(T), NEW st \in [X -> X]
  PROVE  \E g : Turned(X, base, T, st, g)
<1> DEFINE Val(g, s) == IF s = {} THEN base ELSE st[g[s \ {Pick(s)}]]
           Upto(n) == {s \in SUBSET T : Cardinality(s) <= n}
           Good(g, n) == \A s \in Upto(n) : g[s] = Val(g, s)
           N == {n \in Nat : \E g \in [SUBSET T -> X] : Good(g, n)}
<1>1. \A s \in SUBSET T :
        /\ IsFiniteSet(s) /\ Cardinality(s) \in Nat
        /\ Cardinality(s) = 0 <=> s = {}
        /\ s # {} => Cardinality(s \ {Pick(s)}) = Cardinality(s) - 1
  BY FS_Subset, FS_EmptySet, FS_RemoveElement, FS_CardinalityType, PickIn
<1>2. 0 \in N
  <2> DEFINE g == [s \in SUBSET T |-> base]
  <2>1. \A s \in Upto(0) : s = {}
    <3>1. \A k \in Nat : k <= 0 => k = 0
      OBVIOUS
    <3>2. QED
      BY <1>1, <3>1
  <2>2. Good(g, 0) /\ g \in [SUBSET T -> X]
    BY <2>1
  <2> HIDE DEF g, Good
  <2>3. \E w \in [SUBSET T -> X] : Good(w, 0)
    BY <2>2
  <2>4. QED
    BY <2>3
<1>3. ASSUME NEW n \in Nat, n \in N PROVE n + 1 \in N
  <2>1. PICK g \in [SUBSET T -> X] : Good(g, n)
    BY <1>3
  <2> DEFINE h == [s \in SUBSET T |-> IF s \in Upto(n) THEN g[s] ELSE Val(g, s)]
  <2>2. \A s \in SUBSET T : Val(g, s) \in X
    BY <2>1, PickIn
  <2>3. h \in [SUBSET T -> X]
    BY <2>1, <2>2
  <2>4. \A s \in Upto(n + 1) : s # {} => s \ {Pick(s)} \in Upto(n)
    BY <1>1
  <2>5. \A s \in Upto(n + 1) : Val(h, s) = Val(g, s)
    BY <2>4
  <2>6. \A s \in Upto(n + 1) : h[s] = Val(g, s)
    BY <2>1
  <2>7. Good(h, n + 1)
    BY <2>5, <2>6
  <2> HIDE DEF h, Good
  <2>8. \E w \in [SUBSET T -> X] : Good(w, n + 1)
    BY <2>3, <2>7
  <2>9. QED
    BY <2>8
<1>4. Cardinality(T) \in N
  <2> HIDE DEF N
  <2>1. Cardinality(T) \in Nat
    BY FS_CardinalityType
  <2>2. QED
    BY <1>2, <1>3, <2>1, NumbersIn
<1>5. PICK g \in [SUBSET T -> X] : Good(g, Cardinality(T))
  BY <1>4
<1>6. \A s \in SUBSET T : s \in Upto(Cardinality(T))
  BY FS_Subset
<1>7. \A s \in SUBSET T : g[s] = IF s = {} THEN base ELSE st[g[s \ {Pick(s)}]]
  BY <1>5, <1>6
<1>8. Turned(X, base, T, st, g)
  BY Zenon, <1>7 DEF Turned
<1>9. QED
  BY Zenon, <1>8

-----------------------------------------------------------------------------
(* The recursive function inside SumFunctionOnSet.                         *)

Turn(f, g, s) == IF s = {} THEN 0 ELSE f[Pick(s)] + g[s \ {Pick(s)}]
Sums(f, T) == CHOOSE g : g = [s \in SUBSET T |-> Turn(f, g, s)]

LEMMA SumIs ==
  ASSUME NEW f, NEW T
  PROVE  SumFunctionOnSet(f, T) = Sums(f, T)[T]
BY Zenon DEF SumFunctionOnSet, FoldFunctionOnSet, MapThenFoldSet, Sums, Turn, Pick

\* It satisfies its equation: there is a function that does for the sets of
\* up to n elements, for every n.
LEMMA SumsDefined ==
  ASSUME NEW T, IsFiniteSet(T), NEW f, \A x \in T : f[x] \in Int
  PROVE  /\ Sums(f, T) \in [SUBSET T -> Int]
         /\ \A s \in SUBSET T : Sums(f, T)[s] = Turn(f, Sums(f, T), s)
<1> DEFINE Upto(n) == {s \in SUBSET T : Cardinality(s) <= n}
           Good(g, n) == \A s \in Upto(n) : g[s] = Turn(f, g, s)
           N == {n \in Nat : \E g \in [SUBSET T -> Int] : Good(g, n)}
<1>1. \A s \in SUBSET T :
        /\ IsFiniteSet(s) /\ Cardinality(s) \in Nat
        /\ Cardinality(s) = 0 <=> s = {}
        /\ s # {} => Cardinality(s \ {Pick(s)}) = Cardinality(s) - 1
  BY FS_Subset, FS_EmptySet, FS_RemoveElement, FS_CardinalityType, PickIn
<1>2. 0 \in N
  <2> DEFINE g == [s \in SUBSET T |-> 0]
  <2>1. \A s \in Upto(0) : s = {}
    <3>1. \A k \in Nat : k <= 0 => k = 0
      OBVIOUS
    <3>2. QED
      BY <1>1, <3>1
  <2>2. Good(g, 0) /\ g \in [SUBSET T -> Int]
    BY <2>1 DEF Turn
  <2> HIDE DEF g, Good
  <2>3. \E w \in [SUBSET T -> Int] : Good(w, 0)
    BY <2>2
  <2>4. QED
    BY <2>3
<1>3. ASSUME NEW n \in Nat, n \in N PROVE n + 1 \in N
  <2>1. PICK g \in [SUBSET T -> Int] : Good(g, n)
    BY <1>3
  <2> DEFINE h == [s \in SUBSET T |-> IF s \in Upto(n) THEN g[s] ELSE Turn(f, g, s)]
  <2>2. \A s \in SUBSET T : Turn(f, g, s) \in Int
    BY <2>1, PickIn DEF Turn
  <2>3. h \in [SUBSET T -> Int]
    BY <2>1, <2>2
  <2>4. \A s \in Upto(n + 1) : s # {} => s \ {Pick(s)} \in Upto(n)
    BY <1>1
  <2>5. \A s \in Upto(n + 1) : Turn(f, h, s) = Turn(f, g, s)
    BY <2>4 DEF Turn
  <2>6. \A s \in Upto(n + 1) : h[s] = Turn(f, g, s)
    BY <2>1
  <2>7. Good(h, n + 1)
    BY <2>5, <2>6
  <2> HIDE DEF h, Good
  <2>8. \E w \in [SUBSET T -> Int] : Good(w, n + 1)
    BY <2>3, <2>7
  <2>9. QED
    BY <2>8
<1>4. Cardinality(T) \in N
  <2> HIDE DEF N
  <2>1. Cardinality(T) \in Nat
    BY FS_CardinalityType
  <2>2. QED
    BY <1>2, <1>3, <2>1, NumbersIn
<1>5. PICK g \in [SUBSET T -> Int] : Good(g, Cardinality(T))
  BY <1>4
<1>6. \A s \in SUBSET T : s \in Upto(Cardinality(T))
  BY FS_Subset
<1>7. g = [s \in SUBSET T |-> Turn(f, g, s)]
  BY <1>5, <1>6
<1>8. Sums(f, T) = [s \in SUBSET T |-> Turn(f, Sums(f, T), s)]
  BY <1>7 DEF Sums
<1> HIDE DEF N, Good, Upto
<1>9. ASSUME NEW s \in SUBSET T, Sums(f, T)[s] \notin Int
      PROVE  FALSE
  <2> DEFINE W == {x \in SUBSET T : Sums(f, T)[x] \notin Int}
  <2>1. W \subseteq SUBSET T /\ W # {}
    BY <1>9
  <2>2. PICK X \in W : \A Y \in SUBSET X : Y # X => Y \notin W
    <3> HIDE DEF W
    <3>1. QED
      BY <2>1, SmallestIn
  <2>3. CASE X = {}
    BY <1>8, <2>2, <2>3 DEF Turn
  <2>4. CASE X # {}
    <3>1. Pick(X) \in X
      BY <2>4, PickIn
    <3>2. Sums(f, T)[X \ {Pick(X)}] \in Int
      BY <2>2, <3>1
    <3>3. Turn(f, Sums(f, T), X) \in Int
      BY <2>2, <2>4, <3>1, <3>2 DEF Turn
    <3>4. QED
      BY <1>8, <2>2, <3>3
  <2>5. QED
    BY <2>3, <2>4
<1>10. QED
  BY <1>8, <1>9

\* The function does not depend on the set it is a part of.
LEMMA SumsRestrict ==
  ASSUME NEW T, IsFiniteSet(T), NEW f, \A x \in T : f[x] \in Int,
         NEW S \in SUBSET T
  PROVE  Sums(f, T)[S] = SumFunctionOnSet(f, S)
<1>1. IsFiniteSet(S) /\ \A x \in S : f[x] \in Int
  BY FS_Subset
<1> DEFINE W == {s \in SUBSET S : Sums(f, T)[s] # Sums(f, S)[s]}
<1>2. SUFFICES ASSUME W # {} PROVE FALSE
  BY SumIs
<1>3. PICK X \in W : \A Y \in SUBSET X : Y # X => Y \notin W
  <2>1. W \subseteq SUBSET S
    OBVIOUS
  <2> HIDE DEF W
  <2>2. QED
    BY <1>1, <1>2, <2>1, SmallestIn
<1>4. /\ Sums(f, T)[X] = Turn(f, Sums(f, T), X)
      /\ Sums(f, S)[X] = Turn(f, Sums(f, S), X)
  BY <1>1, SumsDefined
<1>5. CASE X = {}
  BY <1>3, <1>4, <1>5 DEF Turn
<1>6. CASE X # {}
  <2>1. Pick(X) \in X
    BY <1>6, PickIn
  <2>2. X \ {Pick(X)} \notin W
    BY <1>3, <2>1
  <2>3. Sums(f, T)[X \ {Pick(X)}] = Sums(f, S)[X \ {Pick(X)}]
    BY <2>2
  <2>4. QED
    BY <1>3, <1>4, <2>3 DEF Turn
<1>7. QED
  BY <1>5, <1>6

-----------------------------------------------------------------------------
(* What the sum is.                                                        *)

LEMMA SumEmpty == \A f : SumFunctionOnSet(f, {}) = 0
<1> TAKE f
<1>1. IsFiniteSet({})
  BY FS_EmptySet
<1>2. Sums(f, {})[{}] = Turn(f, Sums(f, {}), {})
  BY <1>1, SumsDefined
<1>3. QED
  BY <1>2, SumIs DEF Turn

LEMMA SumInt ==
  ASSUME NEW T, IsFiniteSet(T), NEW f, \A x \in T : f[x] \in Int
  PROVE  SumFunctionOnSet(f, T) \in Int
<1>1. Sums(f, T)[T] \in Int
  BY SumsDefined
<1>2. QED
  BY <1>1, SumIs

\* The sum whose elements are taken in the order Pick gives.
LEMMA SumPick ==
  ASSUME NEW T, IsFiniteSet(T), T # {}, NEW f, \A x \in T : f[x] \in Int
  PROVE  SumFunctionOnSet(f, T) = f[Pick(T)] + SumFunctionOnSet(f, T \ {Pick(T)})
<1>1. Sums(f, T)[T] = Turn(f, Sums(f, T), T)
  BY SumsDefined
<1>2. Sums(f, T)[T \ {Pick(T)}] = SumFunctionOnSet(f, T \ {Pick(T)})
  BY SumsRestrict
<1>3. QED
  BY <1>1, <1>2, SumIs DEF Turn

\* Any element can be taken out first.
LEMMA SumElement ==
  ASSUME NEW T, IsFiniteSet(T), NEW f, \A x \in T : f[x] \in Int, NEW x \in T
  PROVE  SumFunctionOnSet(f, T) = f[x] + SumFunctionOnSet(f, T \ {x})
<1> DEFINE Out(s, y) == SumFunctionOnSet(f, s) = f[y] + SumFunctionOnSet(f, s \ {y})
           W == {s \in SUBSET T : \E y \in s : ~Out(s, y)}
<1>1. \A s \in SUBSET T : IsFiniteSet(s) /\ SumFunctionOnSet(f, s) \in Int
  BY FS_Subset, SumInt
<1>2. SUFFICES ASSUME W # {} PROVE FALSE
  OBVIOUS
<1>3. PICK X \in W : \A Y \in SUBSET X : Y # X => Y \notin W
  <2>1. W \subseteq SUBSET T
    OBVIOUS
  <2> HIDE DEF W
  <2>2. QED
    BY <1>2, <2>1, SmallestIn
<1>4. PICK y \in X : ~Out(X, y)
  BY <1>3
<1>5. X \in SUBSET T /\ X # {}
  BY <1>3, <1>4
<1> DEFINE p == Pick(X)
<1>6. p \in X /\ Out(X, p)
  BY <1>1, <1>5, SumPick, PickIn
<1> HIDE DEF p
<1>7. y # p
  BY <1>4, <1>6
<1>8. X \ {p} \notin W /\ X \ {y} \notin W
  BY <1>3, <1>4, <1>6
<1>9. Out(X \ {p}, y) /\ Out(X \ {y}, p)
  BY <1>4, <1>5, <1>6, <1>7, <1>8
<1>10. (X \ {p}) \ {y} = (X \ {y}) \ {p}
  OBVIOUS
<1>11. /\ SumFunctionOnSet(f, X) \in Int
       /\ SumFunctionOnSet(f, (X \ {y}) \ {p}) \in Int
       /\ f[y] \in Int /\ f[p] \in Int
  BY <1>1, <1>4, <1>5, <1>6
<1>12. \A s, z : Out(s, z) <=> SumFunctionOnSet(f, s) = f[z] + SumFunctionOnSet(f, s \ {z})
  OBVIOUS
<1> HIDE DEF Out
<1>13. /\ SumFunctionOnSet(f, X) = f[p] + SumFunctionOnSet(f, X \ {p})
       /\ SumFunctionOnSet(f, X \ {p}) = f[y] + SumFunctionOnSet(f, (X \ {p}) \ {y})
       /\ SumFunctionOnSet(f, X \ {y}) = f[p] + SumFunctionOnSet(f, (X \ {y}) \ {p})
  BY <1>6, <1>9, <1>12
<1>14. SumFunctionOnSet(f, X) = f[y] + SumFunctionOnSet(f, X \ {y})
  <2>1. \A a, c, d \in Int : a + (c + d) = c + (a + d)
    OBVIOUS
  <2>2. SumFunctionOnSet(f, X) = f[p] + (f[y] + SumFunctionOnSet(f, (X \ {y}) \ {p}))
    BY Zenon, <1>10, <1>13
  <2>3. SumFunctionOnSet(f, X) = f[y] + (f[p] + SumFunctionOnSet(f, (X \ {y}) \ {p}))
    BY Zenon, <1>11, <2>1, <2>2
  <2>4. QED
    BY Zenon, <1>13, <2>3
<1>15. QED
  BY <1>4, <1>12, <1>14

\* Only the elements count, under whatever names: b renames those of S.
LEMMA SumRenamed ==
  ASSUME NEW S, IsFiniteSet(S), NEW T, IsFiniteSet(T), NEW b \in Bijection(S, T),
         NEW f, NEW g, \A x \in S : f[x] = g[b[x]] /\ f[x] \in Int
  PROVE  SumFunctionOnSet(f, S) = SumFunctionOnSet(g, T)
<1> DEFINE Img(s) == {b[x] : x \in s}
           W == {s \in SUBSET S : SumFunctionOnSet(f, s) # SumFunctionOnSet(g, Img(s))}
<1>1. /\ b \in [S -> T] /\ \A y \in T : \E x \in S : b[x] = y
      /\ \A x, y \in S : b[x] = b[y] => x = y
  BY DEF Bijection, Injection, Surjection, IsInjective
<1>2. Img(S) = T
  BY <1>1
<1>3. SUFFICES ASSUME W # {} PROVE FALSE
  BY <1>2
<1>4. PICK X \in W : \A Y \in SUBSET X : Y # X => Y \notin W
  <2>1. W \subseteq SUBSET S
    OBVIOUS
  <2> HIDE DEF W
  <2>2. QED
    BY <1>3, <2>1, SmallestIn
<1>5. CASE X = {}
  <2>1. Img(X) = {}
    BY <1>5
  <2>2. QED
    BY <1>4, <1>5, <2>1, SumEmpty
<1>6. CASE X # {}
  <2>1. PICK x \in X : TRUE
    BY <1>6
  <2>2. X \in SUBSET S /\ IsFiniteSet(X)
    BY <1>4, FS_Subset
  <2>3. Img(X) \in SUBSET T /\ IsFiniteSet(Img(X)) /\ b[x] \in Img(X)
    <3>1. Img(X) \in SUBSET T
      BY <1>1, <2>2
    <3> HIDE DEF Img
    <3>2. IsFiniteSet(Img(X))
      BY <3>1, FS_Subset
    <3> USE DEF Img
    <3>3. QED
      BY <3>1, <3>2, <2>1
  <2>4. Img(X \ {x}) = Img(X) \ {b[x]}
    BY <1>1, <2>1, <2>2
  <2>5. SumFunctionOnSet(f, X) = f[x] + SumFunctionOnSet(f, X \ {x})
    BY <2>1, <2>2, SumElement
  <2>6. \A y \in Img(X) : g[y] \in Int
    BY <1>1, <2>2
  <2>7. SumFunctionOnSet(g, Img(X)) = g[b[x]] + SumFunctionOnSet(g, Img(X) \ {b[x]})
    <3> HIDE DEF Img
    <3>1. QED
      BY <2>3, <2>6, SumElement
  <2>8. X \ {x} \notin W
    BY <1>4, <2>1
  <2>9. SumFunctionOnSet(f, X \ {x}) = SumFunctionOnSet(g, Img(X \ {x}))
    BY <2>2, <2>8
  <2>10. QED
    BY <1>4, <2>1, <2>2, <2>4, <2>5, <2>7, <2>9
<1>7. QED
  BY <1>5, <1>6

\* Where two functions agree, so do their sums.
LEMMA SumAgree ==
  ASSUME NEW T, IsFiniteSet(T), NEW f, NEW g,
         \A x \in T : f[x] = g[x] /\ f[x] \in Int
  PROVE  SumFunctionOnSet(f, T) = SumFunctionOnSet(g, T)
<1> DEFINE b == [x \in T |-> x]
<1>1. b \in Bijection(T, T)
  BY DEF Bijection, Injection, Surjection, IsInjective
<1>2. \A x \in T : f[x] = g[b[x]] /\ f[x] \in Int
  OBVIOUS
<1> HIDE DEF b
<1>3. QED
  BY <1>1, <1>2, SumRenamed

\* From f to g, only the element x of T changes.
OneChanges(T, f, g, x) ==
  /\ IsFiniteSet(T) /\ x \in T
  /\ \A y \in T : f[y] \in Int /\ g[y] \in Int
  /\ \A y \in T \ {x} : f[y] = g[y]

LEMMA SumChange ==
  \A T, f, g, x : OneChanges(T, f, g, x) =>
    SumFunctionOnSet(g, T) = SumFunctionOnSet(f, T) - f[x] + g[x]
<1> TAKE T, f, g, x
<1> HAVE OneChanges(T, f, g, x)
<1>1. IsFiniteSet(T \ {x})
  BY FS_Subset DEF OneChanges
<1>2. SumFunctionOnSet(f, T \ {x}) = SumFunctionOnSet(g, T \ {x})
  BY <1>1, SumAgree DEF OneChanges
<1>3. SumFunctionOnSet(f, T \ {x}) \in Int
  BY <1>1, SumInt DEF OneChanges
<1>4. SumFunctionOnSet(f, T) = f[x] + SumFunctionOnSet(f, T \ {x})
  BY SumElement DEF OneChanges
<1>5. SumFunctionOnSet(g, T) = g[x] + SumFunctionOnSet(g, T \ {x})
  BY SumElement DEF OneChanges
<1>6. f[x] \in Int /\ g[x] \in Int
  BY DEF OneChanges
<1>7. QED
  BY <1>2, <1>3, <1>4, <1>5, <1>6

\* A sum of natural numbers is one, and no smaller than any of them.
LEMMA SumNat ==
  ASSUME NEW T, IsFiniteSet(T), NEW f, \A x \in T : f[x] \in Nat
  PROVE  /\ SumFunctionOnSet(f, T) \in Nat
         /\ \A x \in T : f[x] <= SumFunctionOnSet(f, T)
<1> DEFINE W == {s \in SUBSET T : SumFunctionOnSet(f, s) \notin Nat}
<1>1. W = {}
  <2>1. SUFFICES ASSUME W # {} PROVE FALSE
    OBVIOUS
  <2>2. PICK X \in W : \A Y \in SUBSET X : Y # X => Y \notin W
    <3>1. W \subseteq SUBSET T
      OBVIOUS
    <3> HIDE DEF W
    <3>2. QED
      BY <2>1, <3>1, SmallestIn
  <2>3. X \in SUBSET T /\ IsFiniteSet(X)
    BY FS_Subset
  <2>4. X # {}
    <3>1. SumFunctionOnSet(f, X) \notin Nat
      OBVIOUS
    <3>2. SumFunctionOnSet(f, {}) = 0
      BY SumEmpty
    <3> HIDE DEF W
    <3>3. QED
      BY <3>1, <3>2
  <2>5. PICK x \in X : TRUE
    BY <2>4
  <2>6. SumFunctionOnSet(f, X \ {x}) \in Nat
    BY <2>2, <2>3, <2>5
  <2>7. SumFunctionOnSet(f, X) = f[x] + SumFunctionOnSet(f, X \ {x})
    BY <2>3, <2>5, SumElement
  <2>8. QED
    BY <2>3, <2>5, <2>6, <2>7
<1>2. \A s \in SUBSET T : SumFunctionOnSet(f, s) \in Nat
  BY <1>1
<1>3. \A x \in T : SumFunctionOnSet(f, T) = f[x] + SumFunctionOnSet(f, T \ {x})
  BY SumElement
<1>4. ASSUME NEW x \in T PROVE f[x] <= SumFunctionOnSet(f, T)
  <2>1. \A a, c \in Nat : a <= a + c
    OBVIOUS
  <2>2. SumFunctionOnSet(f, T \ {x}) \in Nat
    BY <1>2
  <2>3. f[x] <= f[x] + SumFunctionOnSet(f, T \ {x})
    BY Zenon, <2>1, <2>2
  <2>4. QED
    BY Zenon, <1>3, <2>3
<1>5. QED
  BY <1>2, <1>4

\* A part of natural numbers adds up to no more than all of them.
LEMMA SumSubset ==
  ASSUME NEW T, IsFiniteSet(T), NEW f, \A x \in T : f[x] \in Nat, NEW S \in SUBSET T
  PROVE  SumFunctionOnSet(f, S) <= SumFunctionOnSet(f, T)
<1> DEFINE W == {s \in SUBSET T : S \subseteq s
                  /\ ~(SumFunctionOnSet(f, S) <= SumFunctionOnSet(f, s))}
<1>1. SUFFICES ASSUME W # {} PROVE FALSE
  OBVIOUS
<1>2. PICK X \in W : \A Y \in SUBSET X : Y # X => Y \notin W
  <2>1. W \subseteq SUBSET T
    OBVIOUS
  <2> HIDE DEF W
  <2>2. QED
    BY <1>1, <2>1, SmallestIn
<1>3. ASSUME NEW s \in SUBSET T PROVE IsFiniteSet(s) /\ SumFunctionOnSet(f, s) \in Nat
  <2>1. IsFiniteSet(s)
    BY FS_Subset
  <2>2. QED
    BY <2>1, SumNat
<1>4. X \in SUBSET T /\ S \subseteq X /\ X # S
  BY <1>3
<1>5. PICK x \in X : x \notin S
  BY <1>4
<1>6. X \ {x} \in SUBSET X /\ X \ {x} # X /\ S \subseteq X \ {x} /\ X \ {x} \in SUBSET T
  BY <1>4, <1>5
<1>7. SumFunctionOnSet(f, S) <= SumFunctionOnSet(f, X \ {x})
  BY <1>2, <1>6
<1>8. SumFunctionOnSet(f, X) = f[x] + SumFunctionOnSet(f, X \ {x})
  BY <1>3, <1>4, SumElement
<1>9. /\ SumFunctionOnSet(f, S) \in Nat /\ SumFunctionOnSet(f, X) \in Nat
      /\ SumFunctionOnSet(f, X \ {x}) \in Nat /\ f[x] \in Nat
  BY <1>3, <1>4, <1>6
<1>10. ~(SumFunctionOnSet(f, S) <= SumFunctionOnSet(f, X))
  OBVIOUS
<1> HIDE DEF W
<1>11. QED
  BY <1>7, <1>8, <1>9, <1>10

\* Element by element at most c more, in all at most c more for each.
LEMMA SumBelow ==
  ASSUME NEW T, IsFiniteSet(T), NEW f, NEW g, NEW c \in Int,
         \A x \in T : f[x] \in Int /\ g[x] \in Int /\ f[x] <= g[x] + c
  PROVE  SumFunctionOnSet(f, T) <= SumFunctionOnSet(g, T) + Cardinality(T) * c
<1> DEFINE Below(s) == SumFunctionOnSet(f, s) <= SumFunctionOnSet(g, s) + Cardinality(s) * c
           W == {s \in SUBSET T : ~Below(s)}
<1>1. SUFFICES ASSUME W # {} PROVE FALSE
  OBVIOUS
<1>2. PICK X \in W : \A Y \in SUBSET X : Y # X => Y \notin W
  <2>1. W \subseteq SUBSET T
    OBVIOUS
  <2> HIDE DEF W
  <2>2. QED
    BY <1>1, <2>1, SmallestIn
<1>3. X \in SUBSET T /\ IsFiniteSet(X) /\ ~Below(X)
  BY FS_Subset
<1>4. CASE X = {}
  <2>1. SumFunctionOnSet(f, {}) = 0 /\ SumFunctionOnSet(g, {}) = 0 /\ Cardinality({}) = 0
    BY SumEmpty, FS_EmptySet
  <2>2. Below({})
    BY <2>1
  <2> HIDE DEF Below, W
  <2>3. QED
    BY <1>3, <1>4, <2>2
<1>5. CASE X # {}
  <2>1. PICK x \in X : TRUE
    BY <1>5
  <2> DEFINE Y == X \ {x}
  <2>2. Y \in SUBSET X /\ Y # X /\ Y \in SUBSET T /\ IsFiniteSet(Y)
    BY <1>3, <2>1, FS_Subset
  <2>3. Below(Y)
    <3> HIDE DEF Below, Y
    <3>1. QED
      BY <1>2, <2>2
  <2>4. Cardinality(X) = Cardinality(Y) + 1 /\ Cardinality(Y) \in Nat
    <3>1. Cardinality(Y) = Cardinality(X) - 1 /\ Cardinality(X) \in Nat /\ Cardinality(Y) \in Nat
      BY <1>3, <2>2, FS_RemoveElement, FS_CardinalityType
    <3>2. QED
      BY <3>1
  <2>5. /\ SumFunctionOnSet(f, X) = f[x] + SumFunctionOnSet(f, Y)
        /\ SumFunctionOnSet(g, X) = g[x] + SumFunctionOnSet(g, Y)
    BY <1>3, SumElement
  <2>6. SumFunctionOnSet(f, Y) \in Int /\ SumFunctionOnSet(g, Y) \in Int
    BY <2>2, SumInt
  <2>7. f[x] \in Int /\ g[x] \in Int /\ f[x] <= g[x] + c
    BY <1>3
  <2>8. \A a, d, p, q \in Int, n \in Nat :
          a <= d + c /\ p <= q + n * c => a + p <= d + q + (n + 1) * c
    <3>1. \A n \in Nat : (n + 1) * c = n * c + c /\ n * c \in Int
      OBVIOUS
    <3>2. \A a, d, p, q, m \in Int : a <= d + c /\ p <= q + m => a + p <= d + q + (m + c)
      OBVIOUS
    <3>3. QED
      BY Zenon, <3>1, <3>2
  <2> HIDE DEF Y, W
  <2>9. f[x] + SumFunctionOnSet(f, Y) <= g[x] + SumFunctionOnSet(g, Y) + (Cardinality(Y) + 1) * c
    BY Zenon, <2>3, <2>4, <2>6, <2>7, <2>8
  <2>10. Below(X)
    BY Zenon, <2>4, <2>5, <2>9
  <2>11. QED
    BY <1>3, <2>10
<1>6. QED
  BY <1>4, <1>5

\* Nothing adds up to nothing.
LEMMA SumZero ==
  ASSUME NEW T, IsFiniteSet(T), NEW f, \A x \in T : f[x] = 0
  PROVE  SumFunctionOnSet(f, T) = 0
<1> DEFINE W == {s \in SUBSET T : SumFunctionOnSet(f, s) # 0}
<1>1. SUFFICES ASSUME W # {} PROVE FALSE
  OBVIOUS
<1>2. PICK X \in W : \A Y \in SUBSET X : Y # X => Y \notin W
  <2>1. W \subseteq SUBSET T
    OBVIOUS
  <2> HIDE DEF W
  <2>2. QED
    BY <1>1, <2>1, SmallestIn
<1>3. X \in SUBSET T /\ IsFiniteSet(X) /\ SumFunctionOnSet(f, X) # 0
  BY FS_Subset
<1>4. X # {}
  <2>1. SumFunctionOnSet(f, {}) = 0
    BY SumEmpty
  <2> HIDE DEF W
  <2>2. QED
    BY <1>3, <2>1
<1>5. PICK x \in X : TRUE
  BY <1>4
<1>6. SumFunctionOnSet(f, X \ {x}) = 0
  BY <1>2, <1>3, <1>5
<1>7. SumFunctionOnSet(f, X) = f[x] + SumFunctionOnSet(f, X \ {x})
  <2>1. \A y \in X : f[y] \in Int
    BY <1>3
  <2>2. QED
    BY <1>3, <1>5, <2>1, SumElement
<1>8. QED
  BY <1>3, <1>5, <1>6, <1>7
=============================================================================
