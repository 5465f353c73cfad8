----------------------------- MODULE SumTheorems -----------------------------
(***************************************************************************)
(* Sums of the natural numbers a function has on a finite set, the form in *)
(* which the properties of the counters are stated: what MapThenSumSet     *)
(* computes for every finite set, and the sums over intervals of ages.     *)
(***************************************************************************)
EXTENDS Integers, FiniteSets, FiniteSetsExt, FiniteSetTheorems,
        WellFoundedInduction, TLAPS

Total(f, S) == MapThenSumSet(LAMBDA x : f[x], S)

\* Ordinary induction, over a set of numbers in place of a predicate.
LEMMA SetInduction ==
  ASSUME NEW T \in SUBSET Nat, 0 \in T, \A n \in T : n + 1 \in T
  PROVE  T = Nat
<1> DEFINE R == OpToRel(<, Nat)
           U == Nat \ T
<1> SUFFICES ASSUME U # {} PROVE FALSE
  OBVIOUS
<1>1. IsWellFoundedOn(R, Nat)
  BY NatLessThanWellFounded
<1>2. U \subseteq Nat
  OBVIOUS
<1>3. \A x, y \in Nat : x < y => <<x, y>> \in R
  BY DEF OpToRel
<1> HIDE DEF R
<1>4. PICK n \in U : \A m \in U : ~(<<m, n>> \in R)
  <2> HIDE DEF U
  <2> QED BY <1>1, <1>2, WFMin
<1>5. \A m \in U : ~(m < n)
  BY <1>3, <1>4
<1>6. n # 0 /\ n - 1 \in Nat /\ n - 1 < n
  BY <1>4
<1>7. n - 1 \in T
  BY <1>5, <1>6
<1>8. (n - 1) + 1 \in T
  BY <1>7
<1> QED BY <1>4, <1>6, <1>8

Pick(s) == CHOOSE x \in s : TRUE

\* g sums f over every subset of S with at most n elements.
SumsUpTo(g, f, S, n) ==
  \A s \in SUBSET S :
    Cardinality(s) <= n =>
      g[s] = IF s = {} THEN 0 ELSE f[Pick(s)] + g[s \ {Pick(s)}]

FoldIsDefined(g, f, S) ==
  g = [s \in SUBSET S |-> IF s = {} THEN 0 ELSE f[Pick(s)] + g[s \ {Pick(s)}]]

LEMMA PickIsMember == ASSUME NEW s, s # {} PROVE Pick(s) \in s
BY DEF Pick

LEMMA SmallSumsExist ==
  ASSUME NEW S, IsFiniteSet(S), NEW f, \A x \in S : f[x] \in Nat
  PROVE  \A n \in Nat : \E g \in [SUBSET S -> Nat] : SumsUpTo(g, f, S, n)
<1> DEFINE T == {n \in Nat : \E g \in [SUBSET S -> Nat] : SumsUpTo(g, f, S, n)}
<1>1. 0 \in T
  <2> DEFINE g == [s \in SUBSET S |-> 0]
  <2>1. g \in [SUBSET S -> Nat]
    OBVIOUS
  <2>2. ASSUME NEW s \in SUBSET S, Cardinality(s) <= 0 PROVE s = {}
    <3>1. IsFiniteSet(s) /\ Cardinality(s) \in Nat
      BY FS_Subset, FS_CardinalityType
    <3> QED BY <2>2, <3>1, FS_EmptySet
  <2>3. SumsUpTo(g, f, S, 0)
    BY <2>2 DEF SumsUpTo
  <2> QED BY <2>1, <2>3
<1>2. ASSUME NEW n \in T PROVE n + 1 \in T
  <2>1. PICK g \in [SUBSET S -> Nat] : SumsUpTo(g, f, S, n)
    BY <1>2
  <2> DEFINE h == [s \in SUBSET S |->
                     IF s = {} THEN 0
                     ELSE f[Pick(s)] + g[s \ {Pick(s)}]]
  <2>2. h \in [SUBSET S -> Nat]
    <3> SUFFICES ASSUME NEW s \in SUBSET S, s # {}
                 PROVE  f[Pick(s)] + g[s \ {Pick(s)}] \in Nat
      OBVIOUS
    <3>1. Pick(s) \in S
      BY PickIsMember
    <3>2. s \ {Pick(s)} \in SUBSET S
      OBVIOUS
    <3>3. f[Pick(s)] \in Nat /\ g[s \ {Pick(s)}] \in Nat
      BY <3>1, <3>2
    <3> QED BY <3>3
  <2>3. ASSUME NEW s \in SUBSET S, Cardinality(s) <= n + 1, s # {}
        PROVE  h[s \ {Pick(s)}] = g[s \ {Pick(s)}]
    <3> DEFINE t == s \ {Pick(s)}
    <3>1. t \in SUBSET S /\ Pick(s) \in s
      BY <2>3, PickIsMember
    <3>2. IsFiniteSet(s) /\ Cardinality(s) \in Nat
      BY FS_Subset, FS_CardinalityType
    <3>3. Cardinality(t) = Cardinality(s) - 1
      BY <3>1, <3>2, FS_RemoveElement, ZenonT(60)
    <3>4. Cardinality(t) <= n
      BY <2>3, <3>2, <3>3
    <3>5. g[t] = IF t = {} THEN 0 ELSE f[Pick(t)] + g[t \ {Pick(t)}]
      BY <2>1, <3>1, <3>4 DEF SumsUpTo
    <3>6. h[t] = IF t = {} THEN 0 ELSE f[Pick(t)] + g[t \ {Pick(t)}]
      BY <3>1
    <3> QED BY <3>5, <3>6
  <2>4. SumsUpTo(h, f, S, n + 1)
    <3> SUFFICES ASSUME NEW s \in SUBSET S, Cardinality(s) <= n + 1
                 PROVE  h[s] = IF s = {} THEN 0 ELSE f[Pick(s)] + h[s \ {Pick(s)}]
      BY DEF SumsUpTo
    <3>1. h[s] = IF s = {} THEN 0 ELSE f[Pick(s)] + g[s \ {Pick(s)}]
      OBVIOUS
    <3> HIDE DEF h
    <3> QED BY <2>3, <3>1
  <2>5. n \in Nat
    OBVIOUS
  <2>6. \E x \in [SUBSET S -> Nat] : SumsUpTo(x, f, S, n + 1)
    <3> HIDE DEF h
    <3> QED BY <2>2, <2>4, Zenon
  <2>7. n + 1 \in Nat
    BY <2>5
  <2> QED BY <2>6, <2>7
<1>3. T = Nat
  <2> HIDE DEF T
  <2>1. T \in SUBSET Nat
    BY DEF T
  <2> QED BY <1>1, <1>2, <2>1, SetInduction
<1> QED BY <1>3

LEMMA FoldExists ==
  ASSUME NEW S, IsFiniteSet(S), NEW f, \A x \in S : f[x] \in Nat
  PROVE  \E g \in [SUBSET S -> Nat] : FoldIsDefined(g, f, S)
<1>1. Cardinality(S) \in Nat
  BY FS_CardinalityType
<1>2. PICK g \in [SUBSET S -> Nat] : SumsUpTo(g, f, S, Cardinality(S))
  BY <1>1, SmallSumsExist
<1>3. ASSUME NEW s \in SUBSET S
      PROVE  g[s] = IF s = {} THEN 0 ELSE f[Pick(s)] + g[s \ {Pick(s)}]
  BY <1>2, FS_Subset DEF SumsUpTo
<1>4. FoldIsDefined(g, f, S)
  BY <1>3 DEF FoldIsDefined
<1> QED BY <1>4

Fold(f, S) == CHOOSE g : FoldIsDefined(g, f, S)

LEMMA TotalIsFold == ASSUME NEW f, NEW S PROVE Total(f, S) = Fold(f, S)[S]
BY DEF Total, MapThenSumSet, MapThenFoldSet, Pick, Fold, FoldIsDefined

LEMMA FoldUnfolds ==
  ASSUME NEW S, IsFiniteSet(S), NEW f, \A x \in S : f[x] \in Nat,
         NEW s \in SUBSET S
  PROVE  Fold(f, S)[s] =
           IF s = {} THEN 0 ELSE f[Pick(s)] + Fold(f, S)[s \ {Pick(s)}]
<1>1. FoldIsDefined(Fold(f, S), f, S)
  BY FoldExists DEF Fold
<1> QED BY <1>1 DEF FoldIsDefined

LEMMA FoldOfSubset ==
  ASSUME NEW S, IsFiniteSet(S), NEW f, \A x \in S : f[x] \in Nat,
         NEW R \in SUBSET S
  PROVE  \A n \in Nat : \A s \in SUBSET R :
           Cardinality(s) <= n => Fold(f, S)[s] = Fold(f, R)[s]
<1> DEFINE T == {n \in Nat : \A s \in SUBSET R :
                   Cardinality(s) <= n => Fold(f, S)[s] = Fold(f, R)[s]}
<1>1. IsFiniteSet(R) /\ \A x \in R : f[x] \in Nat
  BY FS_Subset
<1>2. 0 \in T
  <2> SUFFICES ASSUME NEW s \in SUBSET R, Cardinality(s) <= 0
               PROVE  Fold(f, S)[s] = Fold(f, R)[s]
    OBVIOUS
  <2>1. IsFiniteSet(s) /\ Cardinality(s) \in Nat
    BY <1>1, FS_Subset, FS_CardinalityType
  <2>2. s = {}
    BY <2>1, FS_EmptySet
  <2> QED BY <1>1, <2>2, FoldUnfolds
<1>3. ASSUME NEW n \in T PROVE n + 1 \in T
  <2> SUFFICES ASSUME NEW s \in SUBSET R, Cardinality(s) <= n + 1, s # {}
               PROVE  Fold(f, S)[s] = Fold(f, R)[s]
    <3>1. n \in Nat /\ n + 1 \in Nat
      OBVIOUS
    <3>2. Fold(f, S)[{}] = 0 /\ Fold(f, R)[{}] = 0
      BY <1>1, FoldUnfolds
    <3> QED BY <3>1, <3>2
  <2> DEFINE t == s \ {Pick(s)}
  <2>1. t \in SUBSET R /\ Pick(s) \in s
    BY PickIsMember
  <2>2. IsFiniteSet(s) /\ Cardinality(s) \in Nat
    BY <1>1, FS_Subset, FS_CardinalityType
  <2>3. Cardinality(t) = Cardinality(s) - 1
    BY <2>1, <2>2, FS_RemoveElement
  <2>4. Cardinality(t) <= n
    BY <2>2, <2>3
  <2>5. Fold(f, S)[t] = Fold(f, R)[t]
    BY <2>1, <2>4
  <2>6. Fold(f, S)[s] = f[Pick(s)] + Fold(f, S)[t]
    BY FoldUnfolds
  <2>7. Fold(f, R)[s] = f[Pick(s)] + Fold(f, R)[t]
    BY <1>1, FoldUnfolds
  <2> QED BY <2>5, <2>6, <2>7
<1>4. T = Nat
  <2> HIDE DEF T
  <2>1. T \in SUBSET Nat
    BY DEF T
  <2> QED BY <1>2, <1>3, <2>1, SetInduction
<1> QED BY <1>4

LEMMA TotalUnfolds ==
  ASSUME NEW S, IsFiniteSet(S), NEW f, \A x \in S : f[x] \in Nat
  PROVE  Total(f, S) =
           IF S = {} THEN 0 ELSE f[Pick(S)] + Total(f, S \ {Pick(S)})
<1> DEFINE R == S \ {Pick(S)}
<1>1. R \in SUBSET S
  OBVIOUS
<1>2. IsFiniteSet(R) /\ Cardinality(R) \in Nat
  BY <1>1, FS_Subset, FS_CardinalityType
<1>3. Fold(f, S)[R] = Fold(f, R)[R]
  <2> HIDE DEF R
  <2>1. R \in SUBSET R /\ Cardinality(R) <= Cardinality(R)
    BY <1>2
  <2> QED BY <1>1, <1>2, <2>1, FoldOfSubset
<1>4. Fold(f, S)[S] = IF S = {} THEN 0 ELSE f[Pick(S)] + Fold(f, S)[R]
  BY FoldUnfolds
<1> QED BY <1>3, <1>4, TotalIsFold

LEMMA TotalOfEmpty == ASSUME NEW f PROVE Total(f, {}) = 0
BY TotalUnfolds, FS_EmptySet

LEMMA TotalOfSize ==
  \A n \in Nat : \A S, f :
    IsFiniteSet(S) /\ Cardinality(S) = n /\ (\A x \in S : f[x] \in Nat)
      => Total(f, S) \in Nat
<1> DEFINE Q(n) == \A S, f :
             IsFiniteSet(S) /\ Cardinality(S) = n /\ (\A x \in S : f[x] \in Nat)
               => Total(f, S) \in Nat
           T == {n \in Nat : Q(n)}
<1>1. 0 \in T
  BY TotalOfEmpty, FS_EmptySet
<1>2. ASSUME NEW n \in T PROVE n + 1 \in T
  <2> SUFFICES ASSUME NEW S, NEW f, IsFiniteSet(S), Cardinality(S) = n + 1,
                      \A x \in S : f[x] \in Nat
               PROVE  Total(f, S) \in Nat
    OBVIOUS
  <2> DEFINE R == S \ {Pick(S)}
  <2>1. S # {}
    BY FS_EmptySet
  <2>2. Pick(S) \in S
    BY <2>1, PickIsMember
  <2>3. IsFiniteSet(R) /\ Cardinality(R) = n
    BY <2>2, FS_RemoveElement
  <2>4. \A x \in R : f[x] \in Nat
    OBVIOUS
  <2>5. Q(n)
    OBVIOUS
  <2>6. Total(f, R) \in Nat
    BY <2>3, <2>4, <2>5
  <2> QED BY <2>1, <2>2, <2>6, TotalUnfolds
<1>3. T = Nat
  <2> HIDE DEF T
  <2>1. T \in SUBSET Nat
    BY DEF T
  <2> QED BY <1>1, <1>2, <2>1, SetInduction
<1> QED BY <1>3

LEMMA TotalType ==
  ASSUME NEW S, IsFiniteSet(S), NEW f, \A x \in S : f[x] \in Nat
  PROVE  Total(f, S) \in Nat
BY TotalOfSize, FS_CardinalityType

LEMMA TotalWithoutOfSize ==
  \A n \in Nat : \A S, f :
    IsFiniteSet(S) /\ Cardinality(S) = n /\ (\A x \in S : f[x] \in Nat)
      => \A x \in S : Total(f, S) = f[x] + Total(f, S \ {x})
<1> DEFINE Q(n) == \A S, f :
             IsFiniteSet(S) /\ Cardinality(S) = n /\ (\A x \in S : f[x] \in Nat)
               => \A x \in S : Total(f, S) = f[x] + Total(f, S \ {x})
           T == {n \in Nat : Q(n)}
<1>1. 0 \in T
  BY FS_EmptySet
<1>2. ASSUME NEW n \in T PROVE n + 1 \in T
  <2> SUFFICES ASSUME NEW S, NEW f, IsFiniteSet(S), Cardinality(S) = n + 1,
                      \A x \in S : f[x] \in Nat, NEW x \in S
               PROVE  Total(f, S) = f[x] + Total(f, S \ {x})
    OBVIOUS
  <2> DEFINE p == Pick(S)
  <2>1. p \in S /\ S # {}
    BY PickIsMember
  <2>2. Total(f, S) = f[p] + Total(f, S \ {p})
    BY <2>1, TotalUnfolds
  <2> HIDE DEF p
  <2>3. CASE x = p
    BY <2>2, <2>3
  <2>4. CASE x # p
    <3> DEFINE U == S \ {p}
               V == S \ {x}
               W == (S \ {p}) \ {x}
    <3>1. IsFiniteSet(U) /\ Cardinality(U) = n
      BY <2>1, FS_RemoveElement, SMTT(40)
    <3>2. IsFiniteSet(V) /\ Cardinality(V) = n
      BY FS_RemoveElement
    <3>3. (\A y \in U : f[y] \in Nat) /\ (\A y \in V : f[y] \in Nat)
      OBVIOUS
    <3>4. x \in U /\ p \in V /\ W = V \ {p}
      BY <2>1, <2>4
    <3>5. Q(n)
      OBVIOUS
    <3>6. Total(f, U) = f[x] + Total(f, U \ {x})
      <4> HIDE DEF U
      <4> QED BY <3>1, <3>3, <3>4, <3>5
    <3>7. Total(f, V) = f[p] + Total(f, V \ {p})
      <4> HIDE DEF V, W
      <4> QED BY <3>2, <3>3, <3>4, <3>5
    <3>8. IsFiniteSet(W) /\ \A y \in W : f[y] \in Nat
      BY <3>1, FS_RemoveElement
    <3>9. Total(f, W) \in Nat
      <4> HIDE DEF W
      <4> QED BY <3>8, TotalType
    <3>10. f[x] \in Nat /\ f[p] \in Nat
      BY <2>1
    <3>11. Total(f, S) = f[p] + Total(f, U) /\ W = U \ {x}
      BY <2>2
    <3>12. Total(f, S) = f[x] + Total(f, V)
      <4> HIDE DEF U, V, W
      <4>1. Total(f, U) = f[x] + Total(f, W)
        BY <3>6, <3>11
      <4>2. Total(f, V) = f[p] + Total(f, W)
        BY <3>4, <3>7
      <4> QED BY <3>9, <3>10, <3>11, <4>1, <4>2
    <3> QED BY <3>12
  <2> QED BY <2>3, <2>4
<1>3. T = Nat
  <2> HIDE DEF T
  <2>1. T \in SUBSET Nat
    BY DEF T
  <2> QED BY <1>1, <1>2, <2>1, SetInduction
<1> QED BY <1>3

\* A sum may be taken apart at any element, not just at the one the fold picks.
LEMMA TotalWithout ==
  ASSUME NEW S, IsFiniteSet(S), NEW f, \A x \in S : f[x] \in Nat, NEW x \in S
  PROVE  Total(f, S) = f[x] + Total(f, S \ {x})
BY TotalWithoutOfSize, FS_CardinalityType

LEMMA TotalOfLast ==
  ASSUME NEW a \in Int, NEW b \in Int, a <= b,
         NEW f, \A x \in a..b : f[x] \in Nat
  PROVE  Total(f, a..b) = Total(f, a..(b - 1)) + f[b]
<1>1. IsFiniteSet(a..b) /\ IsFiniteSet(a..(b - 1))
  BY FS_Interval
<1>2. b \in a..b /\ (a..b) \ {b} = a..(b - 1)
  OBVIOUS
<1>3. Total(f, a..b) = f[b] + Total(f, a..(b - 1))
  BY <1>1, <1>2, TotalWithout
<1>4. Total(f, a..(b - 1)) \in Nat /\ f[b] \in Nat
  <2>1. \A x \in a..(b - 1) : f[x] \in Nat
    OBVIOUS
  <2> QED BY <1>1, <1>2, <2>1, TotalType
<1> QED BY <1>3, <1>4

LEMMA TotalOfFirst ==
  ASSUME NEW a \in Int, NEW b \in Int, a <= b, NEW c \in Int, c = a + 1,
         NEW f, \A x \in a..b : f[x] \in Nat
  PROVE  Total(f, a..b) = f[a] + Total(f, c..b)
<1>1. IsFiniteSet(a..b)
  BY FS_Interval
<1>2. a \in a..b /\ (a..b) \ {a} = c..b
  OBVIOUS
<1> QED BY <1>1, <1>2, TotalWithout

LEMMA TotalOfEmptyInterval ==
  ASSUME NEW a \in Int, NEW b \in Int, b < a, NEW f
  PROVE  Total(f, a..b) = 0
<1>1. a..b = {}
  OBVIOUS
<1> QED BY <1>1, TotalOfEmpty

LEMMA TotalOfIntervalType ==
  ASSUME NEW a \in Int, NEW b \in Int, NEW f, \A x \in a..b : f[x] \in Nat
  PROVE  Total(f, a..b) \in Nat
BY FS_Interval, TotalType

LEMMA TotalOfOne ==
  ASSUME NEW a \in Int, NEW f, f[a] \in Nat
  PROVE  Total(f, a..a) = f[a]
<1>1. a..a = {a} /\ {a} \ {a} = {}
  OBVIOUS
<1>2. \A x \in {a} : f[x] \in Nat
  OBVIOUS
<1>3. Total(f, {a}) = f[a] + Total(f, {})
  BY <1>1, <1>2, FS_Singleton, TotalWithout
<1> QED BY <1>1, <1>3, TotalOfEmpty

\* A sum over adjacent intervals is the sum of their sums.
LEMMA TotalSplits ==
  ASSUME NEW a \in Int, NEW b \in Int, NEW c \in Int, a - 1 <= b, b <= c,
         NEW f, \A x \in a..c : f[x] \in Nat
  PROVE  Total(f, a..c) = Total(f, a..b) + Total(f, (b + 1)..c)
<1> DEFINE Q(n) == b + n <= c =>
                     Total(f, a..(b + n)) = Total(f, a..b) + Total(f, (b + 1)..(b + n))
           T == {n \in Nat : Q(n)}
<1>1. Total(f, a..b) \in Nat
  <2>1. \A x \in a..b : f[x] \in Nat
    OBVIOUS
  <2> QED BY <2>1, TotalOfIntervalType
<1>2. 0 \in T
  <2>1. Total(f, (b + 1)..b) = 0
    BY TotalOfEmptyInterval
  <2>2. b + 0 = b
    OBVIOUS
  <2> QED BY <1>1, <2>1, <2>2
<1>3. ASSUME NEW n \in T PROVE n + 1 \in T
  <2>1. n \in Nat /\ Q(n)
    OBVIOUS
  <2> SUFFICES ASSUME b + (n + 1) <= c
               PROVE  Total(f, a..(b + (n + 1)))
                        = Total(f, a..b) + Total(f, (b + 1)..(b + (n + 1)))
    BY <2>1
  <2> DEFINE d == b + (n + 1)
  <2>2. d \in Int /\ a <= d /\ b + 1 <= d /\ d <= c /\ d - 1 = b + n
    BY <2>1
  <2> HIDE DEF d
  <2>3. \A x \in a..d : f[x] \in Nat
    BY <2>2
  <2>4. \A x \in (b + 1)..d : f[x] \in Nat
    BY <2>2
  <2>5. Total(f, a..d) = Total(f, a..(d - 1)) + f[d]
    BY <2>2, <2>3, TotalOfLast
  <2>6. Total(f, (b + 1)..d) = Total(f, (b + 1)..(d - 1)) + f[d]
    BY <2>2, <2>4, TotalOfLast
  <2>7. Total(f, a..(d - 1)) = Total(f, a..b) + Total(f, (b + 1)..(d - 1))
    BY <2>1, <2>2
  <2>8. Total(f, (b + 1)..(d - 1)) \in Nat
    <3>1. \A x \in (b + 1)..(d - 1) : f[x] \in Nat
      BY <2>2
    <3> QED BY <2>2, <3>1, TotalOfIntervalType
  <2>9. f[d] \in Nat
    BY <2>2, <2>3
  <2> QED BY <1>1, <2>5, <2>6, <2>7, <2>8, <2>9 DEF d
<1>4. T = Nat
  <2> HIDE DEF T
  <2>1. T \in SUBSET Nat
    BY DEF T
  <2> QED BY <1>2, <1>3, <2>1, SetInduction
<1>5. c - b \in Nat /\ b + (c - b) = c
  OBVIOUS
<1>6. Q(c - b)
  BY <1>4, <1>5
<1> QED BY <1>5, <1>6

\* The same numbers, k places on.
LEMMA TotalShifts ==
  ASSUME NEW a \in Int, NEW b \in Int, NEW k \in Int, NEW f, NEW g,
         \A x \in a..b : f[x] \in Nat /\ g[x + k] = f[x]
  PROVE  Total(g, (a + k)..(b + k)) = Total(f, a..b)
<1> DEFINE Q(n) == a + n <= b + 1 =>
                     Total(g, (a + k)..(a + k + n - 1)) = Total(f, a..(a + n - 1))
           T == {n \in Nat : Q(n)}
<1>1. 0 \in T
  BY TotalOfEmptyInterval
<1>2. ASSUME NEW n \in T PROVE n + 1 \in T
  <2>1. n \in Nat /\ Q(n)
    OBVIOUS
  <2> SUFFICES ASSUME a + (n + 1) <= b + 1
               PROVE  Total(g, (a + k)..(a + k + (n + 1) - 1))
                        = Total(f, a..(a + (n + 1) - 1))
    BY <2>1
  <2> DEFINE d == a + n
             e == d + k
  <2>2. /\ d \in Int /\ a <= d /\ d <= b
        /\ a + (n + 1) - 1 = d /\ a + n - 1 = d - 1
    BY <2>1
  <2>3. /\ e \in Int /\ a + k <= e /\ e = d + k
        /\ a + k + (n + 1) - 1 = e /\ a + k + n - 1 = e - 1
    BY <2>1
  <2>4. Total(g, (a + k)..(e - 1)) = Total(f, a..(d - 1))
    <3>1. Total(g, (a + k)..(a + k + n - 1)) = Total(f, a..(a + n - 1))
      BY <2>1, <2>2
    <3> HIDE DEF d, e
    <3> QED BY <2>2, <2>3, <3>1
  <2> HIDE DEF d, e
  <2>5. \A x \in a..d : f[x] \in Nat /\ g[x + k] = f[x]
    BY <2>2
  <2>6. \A x \in (a + k)..e : g[x] \in Nat
    <3> TAKE x \in (a + k)..e
    <3>1. x - k \in a..d /\ (x - k) + k = x
      BY <2>2, <2>3
    <3> QED BY <2>5, <3>1
  <2>7. Total(f, a..d) = Total(f, a..(d - 1)) + f[d]
    BY <2>2, <2>5, TotalOfLast
  <2>8. Total(g, (a + k)..e) = Total(g, (a + k)..(e - 1)) + g[e]
    <3>1. a + k \in Int
      OBVIOUS
    <3> QED BY <2>3, <2>6, <3>1, TotalOfLast
  <2>9. g[e] = f[d]
    BY <2>2, <2>3, <2>5
  <2> QED BY <2>2, <2>3, <2>4, <2>7, <2>8, <2>9
<1>3. T = Nat
  <2> HIDE DEF T
  <2>1. T \in SUBSET Nat
    BY DEF T
  <2> QED BY <1>1, <1>2, <2>1, SetInduction
<1>4. CASE b + 1 < a
  BY <1>4, TotalOfEmptyInterval
<1>5. CASE a <= b + 1
  <2> DEFINE n == b - a + 1
  <2>1. /\ n \in Nat /\ a + n <= b + 1
        /\ a + n - 1 = b /\ a + k + n - 1 = b + k
    BY <1>5
  <2>2. Q(n)
    BY <1>3, <2>1
  <2> HIDE DEF n
  <2> QED BY <2>1, <2>2
<1> QED BY <1>4, <1>5

LEMMA TotalAgrees ==
  ASSUME NEW a \in Int, NEW b \in Int, NEW f, NEW g,
         \A x \in a..b : f[x] \in Nat /\ g[x] = f[x]
  PROVE  Total(g, a..b) = Total(f, a..b)
<1>1. PICK k \in Int : k = 0
  OBVIOUS
<1>2. \A x \in a..b : f[x] \in Nat /\ g[x + k] = f[x]
  BY <1>1
<1>3. Total(g, (a + k)..(b + k)) = Total(f, a..b)
  <2>1. k \in Int
    BY <1>1
  <2> HIDE <1>1
  <2> QED BY <1>2, <2>1, TotalShifts
<1>4. a + k = a /\ b + k = b
  BY <1>1
<1> QED BY <1>3, <1>4

LEMMA TotalOfZeros ==
  ASSUME NEW a \in Int, NEW b \in Int, NEW f, \A x \in a..b : f[x] = 0
  PROVE  Total(f, a..b) = 0
<1> DEFINE Q(n) == a + n <= b + 1 => Total(f, a..(a + n - 1)) = 0
           T == {n \in Nat : Q(n)}
<1>1. 0 \in T
  BY TotalOfEmptyInterval
<1>2. ASSUME NEW n \in T PROVE n + 1 \in T
  <2>1. n \in Nat /\ Q(n)
    OBVIOUS
  <2> SUFFICES ASSUME a + (n + 1) <= b + 1
               PROVE  Total(f, a..(a + (n + 1) - 1)) = 0
    BY <2>1
  <2> DEFINE d == a + n
  <2>2. /\ d \in Int /\ a <= d /\ d <= b
        /\ a + (n + 1) - 1 = d /\ a + n - 1 = d - 1
    BY <2>1
  <2> HIDE DEF d
  <2>3. \A x \in a..d : f[x] \in Nat
    BY <2>2
  <2>4. Total(f, a..d) = Total(f, a..(d - 1)) + f[d]
    BY <2>2, <2>3, TotalOfLast
  <2>5. Total(f, a..(a + n - 1)) = 0
    BY <2>1, <2>2
  <2> QED BY <2>2, <2>4, <2>5
<1>3. T = Nat
  <2> HIDE DEF T
  <2>1. T \in SUBSET Nat
    BY DEF T
  <2> QED BY <1>1, <1>2, <2>1, SetInduction
<1>4. CASE b + 1 < a
  BY <1>4, TotalOfEmptyInterval
<1>5. CASE a <= b + 1
  <2> DEFINE n == b - a + 1
  <2>1. n \in Nat /\ a + n <= b + 1 /\ a + n - 1 = b
    BY <1>5
  <2>2. Q(n)
    BY <1>3, <2>1
  <2> HIDE DEF n
  <2> QED BY <2>1, <2>2
<1> QED BY <1>4, <1>5

\* What an interval sums to is at least what a part of it does.
LEMMA TotalGrows ==
  ASSUME NEW a \in Int, NEW b \in Int, NEW c \in Int, NEW d \in Int,
         a <= c, c - 1 <= d, d <= b,
         NEW f, \A x \in a..b : f[x] \in Nat
  PROVE  Total(f, c..d) <= Total(f, a..b)
<1>1. Total(f, a..b) = Total(f, a..(c - 1)) + Total(f, c..b)
  <2>1. c - 1 \in Int /\ a - 1 <= c - 1 /\ c - 1 <= b /\ (c - 1) + 1 = c
    OBVIOUS
  <2> QED BY <2>1, TotalSplits
<1>2. Total(f, c..b) = Total(f, c..d) + Total(f, (d + 1)..b)
  <2>1. \A x \in c..b : f[x] \in Nat
    OBVIOUS
  <2> QED BY <2>1, TotalSplits
<1>3. /\ \A x \in a..(c - 1) : f[x] \in Nat
      /\ \A x \in c..d : f[x] \in Nat
      /\ \A x \in (d + 1)..b : f[x] \in Nat
  OBVIOUS
<1>4. /\ Total(f, a..(c - 1)) \in Nat /\ Total(f, c..d) \in Nat
      /\ Total(f, (d + 1)..b) \in Nat
  BY <1>3, TotalOfIntervalType
<1> QED BY <1>1, <1>2, <1>4

LEMMA TotalBoundsMember ==
  ASSUME NEW a \in Int, NEW b \in Int, NEW f, \A x \in a..b : f[x] \in Nat,
         NEW x \in a..b
  PROVE  f[x] <= Total(f, a..b)
<1> DEFINE S == a..b
           R == S \ {x}
<1>1. /\ IsFiniteSet(S) /\ x \in S
      /\ \A y \in S : f[y] \in Nat
      /\ \A y \in R : f[y] \in Nat
  BY FS_Interval
<1> HIDE DEF S
<1>2. Total(f, S) = f[x] + Total(f, R)
  BY <1>1, TotalWithout
<1>3. Total(f, R) \in Nat
  <2>1. IsFiniteSet(R)
    BY <1>1, FS_RemoveElement
  <2> HIDE DEF R
  <2> QED BY <1>1, <2>1, TotalType
<1>4. f[x] \in Nat
  BY <1>1
<1>5. f[x] <= Total(f, S)
  BY <1>2, <1>3, <1>4
<1> QED BY <1>5 DEF S

-----------------------------------------------------------------------------
(* Sums over any finite set                                                *)

\* Induction over a finite set, with a set of its subsets in place of a predicate.
LEMMA FiniteInduction ==
  ASSUME NEW S, IsFiniteSet(S), NEW T \in SUBSET SUBSET S, {} \in T,
         \A s \in T : \A x \in S \ s : s \cup {x} \in T
  PROVE  S \in T
<1> DEFINE N == {n \in Nat : \A s \in SUBSET S : Cardinality(s) = n => s \in T}
<1>1. \A s \in SUBSET S : IsFiniteSet(s) /\ Cardinality(s) \in Nat
  BY FS_Subset, FS_CardinalityType
<1>2. 0 \in N
  BY <1>1, FS_EmptySet
<1>3. ASSUME NEW n \in N PROVE n + 1 \in N
  <2>1. n \in Nat /\ \A s \in SUBSET S : Cardinality(s) = n => s \in T
    OBVIOUS
  <2>2. ASSUME NEW s \in SUBSET S, Cardinality(s) = n + 1 PROVE s \in T
    <3>1. s # {}
      <4>1. Cardinality({}) = 0
        BY FS_EmptySet
      <4>2. n + 1 # 0
        BY <2>1
      <4> QED BY <2>2, <4>1, <4>2
    <3>2. PICK x : x \in s
      BY <3>1
    <3>3. Cardinality(s \ {x}) = n
      <4>1. IsFiniteSet(s)
        BY <1>1
      <4>2. Cardinality(s \ {x}) = Cardinality(s) - 1
        BY <3>2, <4>1, FS_RemoveElement
      <4> QED BY <2>1, <2>2, <4>2
    <3>4. s \ {x} \in T /\ x \in S \ (s \ {x}) /\ (s \ {x}) \cup {x} = s
      BY <2>1, <3>2, <3>3
    <3> QED BY <3>4
  <2> QED BY <2>1, <2>2
<1>4. N = Nat
  <2>1. N \in SUBSET Nat
    OBVIOUS
  <2> HIDE DEF N
  <2> QED BY <1>2, <1>3, <2>1, SetInduction
<1> QED BY <1>1, <1>4

LEMMA TotalAdds ==
  ASSUME NEW S, IsFiniteSet(S), NEW x, x \notin S,
         NEW f, f[x] \in Nat, \A y \in S : f[y] \in Nat
  PROVE  Total(f, S \cup {x}) = f[x] + Total(f, S)
<1> DEFINE R == S \cup {x}
<1>1. IsFiniteSet(R) /\ x \in R /\ R \ {x} = S /\ \A y \in R : f[y] \in Nat
  BY FS_AddElement
<1> HIDE DEF R
<1>2. Total(f, R) = f[x] + Total(f, R \ {x})
  BY <1>1, TotalWithout
<1> QED BY <1>1, <1>2 DEF R

LEMMA TotalOfUnion ==
  ASSUME NEW A, NEW B, IsFiniteSet(A), IsFiniteSet(B), A \cap B = {},
         NEW f, \A x \in A \cup B : f[x] \in Nat
  PROVE  Total(f, A \cup B) = Total(f, A) + Total(f, B)
<1> DEFINE T == {s \in SUBSET B : Total(f, A \cup s) = Total(f, A) + Total(f, s)}
<1>1. \A s \in SUBSET B :
        /\ IsFiniteSet(s) /\ IsFiniteSet(A \cup s)
        /\ Total(f, A) \in Nat /\ Total(f, s) \in Nat
  <2>1. \A s \in SUBSET B : IsFiniteSet(s) /\ \A x \in s : f[x] \in Nat
    BY FS_Subset
  <2>2. \A s \in SUBSET B : IsFiniteSet(A \cup s)
    BY <2>1, FS_Union
  <2>3. Total(f, A) \in Nat
    BY TotalType
  <2>4. \A s \in SUBSET B : Total(f, s) \in Nat
    BY <2>1, TotalType
  <2> QED BY <2>1, <2>2, <2>3, <2>4
<1>2. {} \in T
  <2>1. A \cup {} = A /\ Total(f, {}) = 0 /\ {} \in SUBSET B
    BY TotalOfEmpty
  <2>2. Total(f, A) \in Nat
    BY <1>1
  <2> QED BY <2>1, <2>2
<1>3. ASSUME NEW s \in T, NEW x \in B \ s PROVE s \cup {x} \in T
  <2>1. s \in SUBSET B /\ Total(f, A \cup s) = Total(f, A) + Total(f, s)
    OBVIOUS
  <2>2. /\ x \notin A \cup s /\ x \notin s /\ f[x] \in Nat
        /\ \A y \in A \cup s : f[y] \in Nat
        /\ \A y \in s : f[y] \in Nat
    BY <2>1
  <2>3. Total(f, (A \cup s) \cup {x}) = f[x] + Total(f, A \cup s)
    BY <1>1, <2>1, <2>2, TotalAdds
  <2>4. Total(f, s \cup {x}) = f[x] + Total(f, s)
    BY <1>1, <2>1, <2>2, TotalAdds
  <2>5. (A \cup s) \cup {x} = A \cup (s \cup {x})
    OBVIOUS
  <2>6. Total(f, A) \in Nat /\ Total(f, s) \in Nat
    BY <1>1, <2>1
  <2>7. Total(f, A \cup (s \cup {x})) = Total(f, A) + Total(f, s \cup {x})
    <3> DEFINE a == Total(f, A)
               b == Total(f, s)
               c == f[x]
    <3>1. Total(f, A \cup (s \cup {x})) = c + (a + b) /\ Total(f, s \cup {x}) = c + b
      BY <2>1, <2>3, <2>4, <2>5
    <3>2. a \in Nat /\ b \in Nat /\ c \in Nat
      BY <2>2, <2>6
    <3> HIDE DEF a, b, c
    <3>3. c + (a + b) = a + (c + b)
      BY <3>2
    <3> QED BY <3>1, <3>3 DEF a
  <2> QED BY <2>1, <2>7
<1>4. B \in T
  <2>1. T \in SUBSET SUBSET B
    OBVIOUS
  <2> HIDE DEF T
  <2> QED BY <1>2, <1>3, <2>1, FiniteInduction
<1> QED BY <1>4

\* Members whose number is zero can be left out.
LEMMA TotalWithZeros ==
  ASSUME NEW S, IsFiniteSet(S), NEW R \in SUBSET S, NEW f, NEW g,
         \A x \in R : f[x] \in Nat /\ g[x] = f[x],
         \A x \in S \ R : g[x] = 0
  PROVE  Total(g, S) = Total(f, R)
<1> DEFINE T == {s \in SUBSET S : Total(g, s) = Total(f, s \cap R)}
<1>1. \A s \in SUBSET S :
        /\ IsFiniteSet(s) /\ IsFiniteSet(s \cap R)
        /\ \A x \in s : g[x] \in Nat
        /\ \A x \in s \cap R : f[x] \in Nat
  <2>1. \A s \in SUBSET S : s \cap R \in SUBSET S
    OBVIOUS
  <2>2. \A s \in SUBSET S : IsFiniteSet(s)
    BY FS_Subset
  <2> QED BY <2>1, <2>2
<1>2. {} \in T
  BY TotalOfEmpty
<1>3. ASSUME NEW s \in T, NEW x \in S \ s PROVE s \cup {x} \in T
  <2>1. s \in SUBSET S /\ Total(g, s) = Total(f, s \cap R)
    OBVIOUS
  <2>2. Total(g, s \cup {x}) = g[x] + Total(g, s)
    BY <1>1, <2>1, TotalAdds
  <2>3. CASE x \in R
    <3>1. (s \cup {x}) \cap R = (s \cap R) \cup {x} /\ x \notin s \cap R
      BY <2>3
    <3>2. Total(f, (s \cap R) \cup {x}) = f[x] + Total(f, s \cap R)
      BY <1>1, <2>1, <2>3, <3>1, TotalAdds
    <3> QED BY <2>1, <2>2, <2>3, <3>1, <3>2
  <2>4. CASE x \notin R
    <3>1. (s \cup {x}) \cap R = s \cap R /\ g[x] = 0
      BY <2>4
    <3>2. Total(g, s) \in Nat
      BY <1>1, <2>1, TotalType
    <3>3. Total(g, s \cup {x}) = Total(f, (s \cup {x}) \cap R)
      <4> DEFINE a == Total(g, s)
                 c == g[x]
      <4>1. Total(g, s \cup {x}) = c + a /\ c = 0 /\ a \in Nat
        BY <2>2, <3>1, <3>2
      <4>2. Total(f, (s \cup {x}) \cap R) = a
        BY <2>1, <3>1
      <4> HIDE DEF a, c
      <4> QED BY <4>1, <4>2
    <3> QED BY <2>1, <3>3
  <2> QED BY <2>3, <2>4
<1>4. S \in T
  <2>1. T \in SUBSET SUBSET S
    OBVIOUS
  <2> HIDE DEF T
  <2> QED BY <1>2, <1>3, <2>1, FiniteInduction
<1>5. S \cap R = R
  OBVIOUS
<1> QED BY <1>4, <1>5

LEMMA TotalMonotone ==
  ASSUME NEW S, IsFiniteSet(S), NEW R \in SUBSET S, NEW f, NEW g,
         \A x \in R : f[x] \in Nat /\ f[x] <= g[x],
         \A x \in S : g[x] \in Nat
  PROVE  Total(f, R) <= Total(g, S)
<1> DEFINE T == {s \in SUBSET S : Total(f, s \cap R) <= Total(g, s)}
<1>1. \A s \in SUBSET S :
        /\ IsFiniteSet(s) /\ IsFiniteSet(s \cap R)
        /\ \A x \in s : g[x] \in Nat
        /\ \A x \in s \cap R : f[x] \in Nat
        /\ Total(f, s \cap R) \in Nat /\ Total(g, s) \in Nat
  <2>1. \A s \in SUBSET S : s \cap R \in SUBSET S
    OBVIOUS
  <2>2. \A s \in SUBSET S : IsFiniteSet(s)
    BY FS_Subset
  <2>3. \A s \in SUBSET S : Total(g, s) \in Nat
    BY <2>2, TotalType
  <2>4. \A s \in SUBSET S : Total(f, s \cap R) \in Nat
    BY <2>1, <2>2, TotalType
  <2> QED BY <2>1, <2>2, <2>3, <2>4
<1>2. {} \in T
  <2>1. Total(f, {} \cap R) = 0 /\ Total(g, {}) = 0
    BY TotalOfEmpty
  <2> QED BY <2>1
<1>3. ASSUME NEW s \in T, NEW x \in S \ s PROVE s \cup {x} \in T
  <2>1. s \in SUBSET S /\ Total(f, s \cap R) <= Total(g, s)
    OBVIOUS
  <2>2. Total(g, s \cup {x}) = g[x] + Total(g, s)
    BY <1>1, <2>1, TotalAdds
  <2>3. Total(f, s \cap R) \in Nat /\ Total(g, s) \in Nat /\ g[x] \in Nat
    BY <1>1, <2>1
  <2>4. CASE x \in R
    <3>1. (s \cup {x}) \cap R = (s \cap R) \cup {x} /\ x \notin s \cap R
      BY <2>4
    <3>2. Total(f, (s \cap R) \cup {x}) = f[x] + Total(f, s \cap R)
      BY <1>1, <2>1, <2>4, <3>1, TotalAdds
    <3>3. f[x] \in Nat /\ f[x] <= g[x]
      BY <2>4
    <3>4. Total(f, (s \cup {x}) \cap R) <= Total(g, s \cup {x})
      BY <2>1, <2>2, <2>3, <3>1, <3>2, <3>3
    <3> QED BY <2>1, <3>4
  <2>5. CASE x \notin R
    <3>1. (s \cup {x}) \cap R = s \cap R
      BY <2>5
    <3>2. Total(f, (s \cup {x}) \cap R) <= Total(g, s \cup {x})
      BY <2>1, <2>2, <2>3, <3>1
    <3> QED BY <2>1, <3>2
  <2> QED BY <2>4, <2>5
<1>4. S \in T
  <2>1. T \in SUBSET SUBSET S
    OBVIOUS
  <2> HIDE DEF T
  <2> QED BY <1>2, <1>3, <2>1, FiniteInduction
<1>5. S \cap R = R
  OBVIOUS
<1> QED BY <1>4, <1>5

\* The sums of groups add up to the sum.
LEMMA TotalByGroups ==
  ASSUME NEW K, IsFiniteSet(K), NEW D, IsFiniteSet(D), NEW key,
         \A k \in K : key[k] \in D,
         NEW f, \A k \in K : f[k] \in Nat,
         NEW h, \A d \in D : h[d] = Total(f, {k \in K : key[k] = d})
  PROVE  Total(h, D) = Total(f, K)
<1> DEFINE Group(d) == {k \in K : key[k] = d}
           Groups(s) == {k \in K : key[k] \in s}
           T == {s \in SUBSET D : Total(h, s) = Total(f, Groups(s))}
<1>1. \A d : IsFiniteSet(Group(d)) /\ Total(f, Group(d)) \in Nat
  <2>1. \A d : Group(d) \in SUBSET K
    OBVIOUS
  <2>2. \A d : IsFiniteSet(Group(d)) /\ \A k \in Group(d) : f[k] \in Nat
    BY <2>1, FS_Subset
  <2> HIDE DEF Group
  <2> QED BY <2>2, TotalType
<1>2. \A s : IsFiniteSet(Groups(s)) /\ \A k \in Groups(s) : f[k] \in Nat
  <2>1. \A s : Groups(s) \in SUBSET K
    OBVIOUS
  <2> HIDE DEF Groups
  <2> QED BY <2>1, FS_Subset
<1>3. {} \in T
  <2>1. Groups({}) = {}
    OBVIOUS
  <2> QED BY <2>1, TotalOfEmpty
<1>4. ASSUME NEW s \in T, NEW d \in D \ s PROVE s \cup {d} \in T
  <2>1. s \in SUBSET D /\ Total(h, s) = Total(f, Groups(s))
    OBVIOUS
  <2>2. Total(h, s \cup {d}) = h[d] + Total(h, s)
    <3>1. \A x \in D : h[x] \in Nat
      <4>1. \A x \in D : h[x] = Total(f, Group(x))
        OBVIOUS
      <4> HIDE DEF Group
      <4> QED BY <1>1, <4>1
    <3>2. IsFiniteSet(s) /\ d \notin s /\ h[d] \in Nat /\ \A x \in s : h[x] \in Nat
      BY <2>1, <3>1, FS_Subset
    <3> QED BY <3>2, TotalAdds
  <2>3. /\ Groups(s \cup {d}) = Groups(s) \cup Group(d)
        /\ Groups(s) \cap Group(d) = {}
    OBVIOUS
  <2>4. h[d] = Total(f, Group(d))
    OBVIOUS
  <2>5. \A k \in Groups(s) \cup Group(d) : f[k] \in Nat
    OBVIOUS
  <2> HIDE DEF Groups, Group
  <2>6. Total(f, Groups(s) \cup Group(d)) = Total(f, Groups(s)) + Total(f, Group(d))
    BY <1>1, <1>2, <2>3, <2>5, TotalOfUnion
  <2>7. Total(f, Groups(s)) \in Nat /\ Total(f, Group(d)) \in Nat
    BY <1>1, <1>2, TotalType
  <2>8. Total(h, s \cup {d}) = Total(f, Groups(s \cup {d}))
    <3> DEFINE a == Total(f, Groups(s))
               b == Total(f, Group(d))
    <3>1. Total(h, s \cup {d}) = b + a /\ Total(f, Groups(s \cup {d})) = a + b
      BY <2>1, <2>2, <2>3, <2>4, <2>6
    <3>2. a \in Nat /\ b \in Nat
      BY <2>7
    <3> HIDE DEF a, b
    <3> QED BY <3>1, <3>2
  <2> QED BY <2>1, <2>8
<1>5. D \in T
  <2>1. T \in SUBSET SUBSET D
    OBVIOUS
  <2> HIDE DEF T
  <2> QED BY <1>3, <1>4, <2>1, FiniteInduction
<1>6. Groups(D) = K
  OBVIOUS
<1> QED BY <1>5, <1>6
=============================================================================
