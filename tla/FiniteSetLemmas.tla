-------------------------- MODULE FiniteSetLemmas --------------------------
(***************************************************************************)
(* Finite sets: ranks in an order, which LIMIT and OFFSET count            *)
(* (HostConsole_proofs), what Min and Max choose (Retention_proofs,        *)
(* RateLimits_proofs), and sums (Retention_proofs).                        *)
(***************************************************************************)
EXTENDS Integers, FiniteSetsExt, FiniteSetTheorems, TLAPS

\* The set R of pairs orders the elements of S.
Orders(R, S) ==
  /\ \A x \in S : <<x, x>> \notin R
  /\ \A x, y, z \in S : <<x, y>> \in R /\ <<y, z>> \in R => <<x, z>> \in R
  /\ \A x, y \in S : x # y => <<x, y>> \in R \/ <<y, x>> \in R

\* How many elements of S come after x.
Beyond(R, S, x) == Cardinality({y \in S : <<x, y>> \in R})

\* It is less than the size of S.
LEMMA BeyondType ==
  ASSUME NEW S, IsFiniteSet(S), NEW R, Orders(R, S), NEW x \in S
  PROVE  Beyond(R, S, x) \in Nat /\ Beyond(R, S, x) < Cardinality(S)
<1> DEFINE T == {y \in S : <<x, y>> \in R}
<1>1. T \in SUBSET S /\ T # S
  BY DEF Orders
<1>2. IsFiniteSet(T) /\ Cardinality(T) <= Cardinality(S) /\ Cardinality(T) # Cardinality(S)
  BY <1>1, FS_Subset
<1>3. Cardinality(T) \in Nat /\ Cardinality(S) \in Nat
  BY <1>2, FS_CardinalityType
<1>4. QED
  BY <1>2, <1>3 DEF Beyond

\* What comes later has fewer elements after it.
LEMMA BeyondDecreases ==
  ASSUME NEW S, IsFiniteSet(S), NEW R, Orders(R, S), NEW x \in S, NEW y \in S, <<x, y>> \in R
  PROVE  Beyond(R, S, y) < Beyond(R, S, x)
<1> DEFINE T == {z \in S : <<x, z>> \in R}
           U == {z \in S : <<y, z>> \in R}
<1>1. U \in SUBSET T /\ U # T
  <2>1. U \subseteq T
    BY DEF Orders
  <2>2. y \in T /\ y \notin U
    BY DEF Orders
  <2>3. QED
    BY <2>1, <2>2
<1>2. IsFiniteSet(T)
  <2>1. T \in SUBSET S
    OBVIOUS
  <2>2. QED
    BY <2>1, FS_Subset
<1>3. IsFiniteSet(U) /\ Cardinality(U) <= Cardinality(T) /\ Cardinality(U) # Cardinality(T)
  <2> HIDE DEF T, U
  <2> QED  BY <1>1, <1>2, FS_Subset
<1>4. Cardinality(T) \in Nat /\ Cardinality(U) \in Nat
  BY <1>2, <1>3, FS_CardinalityType
<1>5. QED
  BY <1>3, <1>4 DEF Beyond

\* Every number below the size of S is the rank of exactly one element.
LEMMA BeyondBijection ==
  ASSUME NEW S, IsFiniteSet(S), NEW R, Orders(R, S)
  PROVE  [x \in S |-> Beyond(R, S, x)] \in Bijection(S, 0 .. Cardinality(S) - 1)
<1> DEFINE n == Cardinality(S)
           r == [x \in S |-> Beyond(R, S, x)]
<1>1. n \in Nat
  BY FS_CardinalityType
<1>2. r \in [S -> 0 .. n - 1]
  <2>1. \A x \in S : Beyond(R, S, x) \in 0 .. n - 1
    BY <1>1, BeyondType
  <2>2. QED
    BY <2>1
<1>3. \A x, y \in S : x # y => r[x] # r[y]
  <2>1. SUFFICES ASSUME NEW x \in S, NEW y \in S, <<x, y>> \in R PROVE r[x] # r[y]
    BY DEF Orders
  <2>2. Beyond(R, S, y) < Beyond(R, S, x)
    BY <2>1, BeyondDecreases
  <2>3. QED
    BY <2>2, BeyondType
<1>4. r \in Injection(S, 0 .. n - 1)
  <2> HIDE DEF r
  <2> QED  BY <1>2, <1>3 DEF Injection, IsInjective
<1>5. IsFiniteSet(0 .. n - 1) /\ Cardinality(0 .. n - 1) = n
  BY <1>1, FS_Interval
<1>6. r \in Surjection(S, 0 .. n - 1)
  <2> HIDE DEF r
  <2> QED  BY <1>4, <1>5, FS_Injection
<1>7. QED
  BY <1>4, <1>6 DEF Bijection

\* What lies in an interval of ranks is as long as the interval, or shorter; and
\* no shorter if the ranks of all of it are taken.
LEMMA BeyondInterval ==
  ASSUME NEW S, IsFiniteSet(S), NEW R, Orders(R, S), NEW a \in Nat, NEW n \in Nat
  PROVE  LET T == {x \in S : Beyond(R, S, x) \in a .. a + n - 1}
         IN  /\ IsFiniteSet(T) /\ Cardinality(T) \in Nat /\ Cardinality(T) <= n
             /\ a + n <= Cardinality(S) => Cardinality(T) = n
<1> DEFINE I == a .. a + n - 1
           T == {x \in S : Beyond(R, S, x) \in I}
           r == [x \in S |-> Beyond(R, S, x)]
           t == [x \in T |-> r[x]]
<1>1. IsFiniteSet(I) /\ Cardinality(I) = n
  BY FS_Interval
<1>2. r \in Bijection(S, 0 .. Cardinality(S) - 1)
  BY BeyondBijection
<1>3. \A x, y \in S : r[x] = r[y] => x = y
  <2> HIDE DEF r
  <2> QED  BY <1>2 DEF Bijection, Injection, IsInjective
<1>4. t \in Injection(T, I)
  <2>1. t \in [T -> I]
    OBVIOUS
  <2>2. \A x, y \in T : t[x] = t[y] => x = y
    BY <1>3
  <2> HIDE DEF t
  <2>3. QED
    BY <2>1, <2>2 DEF Injection, IsInjective
<1>5. IsFiniteSet(T) /\ Cardinality(T) <= n
      /\ (Cardinality(T) = n <=> t \in Surjection(T, I))
  <2> HIDE DEF t, T, I
  <2> QED  BY <1>1, <1>4, FS_Injection
<1>6. Cardinality(T) \in Nat
  BY <1>5, FS_CardinalityType
<1>7. ASSUME a + n <= Cardinality(S) PROVE t \in Surjection(T, I)
  <2>1. Cardinality(S) \in Nat
    BY FS_CardinalityType
  <2>2. \A k \in I : k \in 0 .. Cardinality(S) - 1
    BY <1>7, <2>1
  <2>3. \A k \in 0 .. Cardinality(S) - 1 : \E x \in S : r[x] = k
    <3> HIDE DEF r
    <3> QED  BY <1>2 DEF Bijection, Surjection
  <2>4. \A k \in I : \E x \in T : t[x] = k
    <3>1. SUFFICES ASSUME NEW k \in I PROVE \E x \in T : t[x] = k
      OBVIOUS
    <3>2. PICK x \in S : r[x] = k
      BY <2>2, <2>3
    <3>3. x \in T
      BY <3>2
    <3>4. QED
      BY <3>2, <3>3
  <2>5. t \in [T -> I]
    OBVIOUS
  <2> HIDE DEF t
  <2>6. QED
    BY <2>4, <2>5 DEF Surjection
<1>8. QED
  BY <1>5, <1>6, <1>7

-----------------------------------------------------------------------------
\* A finite set of numbers that is not empty has a least and a greatest element.
LEMMA Extremes ==
  ASSUME NEW S \in SUBSET Nat, IsFiniteSet(S), S # {}
  PROVE  /\ \E x \in S : \A y \in S : x <= y
         /\ \E x \in S : \A y \in S : y <= x
<1>1. Cardinality(S) \in Nat /\ Cardinality(S) > 0
  BY FS_CardinalityType, FS_EmptySet
<1>2. ASSUME NEW R, Orders(R, S)
      PROVE  \E x \in S : \A y \in S : x # y => <<y, x>> \in R
  <2> DEFINE r == [x \in S |-> Beyond(R, S, x)]
  <2>1. r \in Surjection(S, 0 .. Cardinality(S) - 1)
    BY <1>2, BeyondBijection DEF Bijection
  <2>2. PICK x \in S : Beyond(R, S, x) = 0
    <3>1. 0 \in 0 .. Cardinality(S) - 1
      BY <1>1
    <3>2. \A k \in 0 .. Cardinality(S) - 1 : \E x \in S : r[x] = k
      <4> HIDE DEF r
      <4> QED  BY <2>1 DEF Surjection
    <3>3. QED
      BY <3>1, <3>2
  <2>3. ASSUME NEW y \in S, <<x, y>> \in R PROVE FALSE
    BY <1>2, <2>2, <2>3, BeyondType, BeyondDecreases
  <2>4. QED
    BY <1>2, <2>3 DEF Orders
<1>3. \E x \in S : \A y \in S : x <= y
  <2> DEFINE R == {p \in Nat \X Nat : p[1] > p[2]}
  <2>1. \A x, y \in Nat : <<x, y>> \in R <=> x > y
    OBVIOUS
  <2> HIDE DEF R
  <2>2. Orders(R, S)
    BY <2>1 DEF Orders
  <2>3. PICK x \in S : \A y \in S : x # y => <<y, x>> \in R
    BY <1>2, <2>2
  <2>4. ASSUME NEW y \in S PROVE x <= y
    <3>1. x \in Nat /\ y \in Nat
      OBVIOUS
    <3>2. CASE x = y
      BY <3>1, <3>2
    <3>3. CASE x # y
      <4>1. <<y, x>> \in R
        BY <2>3, <3>3
      <4>2. QED
        BY <2>1, <3>1, <4>1
    <3>4. QED
      BY <3>2, <3>3
  <2>5. QED
    BY <2>4
<1>4. \E x \in S : \A y \in S : y <= x
  <2> DEFINE R == {p \in Nat \X Nat : p[1] < p[2]}
  <2>1. \A x, y \in Nat : <<x, y>> \in R <=> x < y
    OBVIOUS
  <2> HIDE DEF R
  <2>2. Orders(R, S)
    BY <2>1 DEF Orders
  <2>3. PICK x \in S : \A y \in S : x # y => <<y, x>> \in R
    BY <1>2, <2>2
  <2>4. ASSUME NEW y \in S PROVE y <= x
    <3>1. x \in Nat /\ y \in Nat
      OBVIOUS
    <3>2. CASE x = y
      BY <3>1, <3>2
    <3>3. CASE x # y
      <4>1. <<y, x>> \in R
        BY <2>3, <3>3
      <4>2. QED
        BY <2>1, <3>1, <4>1
    <3>4. QED
      BY <3>2, <3>3
  <2>5. QED
    BY <2>4
<1>5. QED
  BY <1>3, <1>4

\* What MIN and MAX choose.
LEMMA MinMax ==
  ASSUME NEW S \in SUBSET Nat, IsFiniteSet(S), S # {}
  PROVE  /\ Min(S) \in S /\ \A y \in S : Min(S) <= y
         /\ Max(S) \in S /\ \A y \in S : y <= Max(S)
<1>1. \E x \in S : \A y \in S : x >= y
  <2>1. PICK x \in S : \A y \in S : y <= x
    BY Extremes
  <2>2. \A y \in S : x >= y
    BY <2>1
  <2>3. QED
    BY <2>2
<1>2. Max(S) \in S /\ \A y \in S : Max(S) >= y
  BY <1>1 DEF Max
<1>3. Min(S) \in S /\ \A y \in S : Min(S) <= y
  BY Extremes DEF Min
<1>4. QED
  BY <1>2, <1>3

\* The lesser and the greater of two numbers.
LEMMA PairMinMax ==
  ASSUME NEW x \in Nat, NEW y \in Nat
  PROVE  /\ Min({x, y}) \in {x, y} /\ Min({x, y}) <= x /\ Min({x, y}) <= y
         /\ Max({x, y}) \in {x, y} /\ Max({x, y}) >= x /\ Max({x, y}) >= y
<1>1. IsFiniteSet({x, y})
  <2>1. IsFiniteSet({x}) /\ {x} \cup {y} = {x, y}
    BY FS_Singleton
  <2>2. QED
    BY <2>1, FS_AddElement
<1>2. QED
  BY <1>1, MinMax

LEMMA MinOfTwo ==
  ASSUME NEW x \in Nat, NEW y \in Nat
  PROVE  Min({x, y}) = IF x <= y THEN x ELSE y
BY PairMinMax

LEMMA MaxOfTwo ==
  ASSUME NEW x \in Nat, NEW y \in Nat
  PROVE  Max({x, y}) = IF x <= y THEN y ELSE x
BY PairMinMax

-----------------------------------------------------------------------------
(* Induction without an operator for the formula: the set of the numbers, or *)
(* of the subsets, that it holds of is all of them.                          *)

\* Induction over the natural numbers, for the members of a set.
LEMMA NatInductionSet ==
  ASSUME NEW N \in SUBSET Nat, 0 \in N, \A n \in N : n + 1 \in N
  PROVE  N = Nat
<1>1. SUFFICES ASSUME NEW n \in Nat, n \notin N PROVE FALSE
  OBVIOUS
<1> DEFINE Out == {m \in 0 .. n : m \notin N}
<1>2. Out \in SUBSET Nat /\ n \in Out
  BY <1>1
<1>3. IsFiniteSet(Out)
  <2>1. IsFiniteSet(0 .. n) /\ Out \in SUBSET (0 .. n)
    BY <1>1, FS_Interval
  <2> HIDE DEF Out
  <2>2. QED
    BY <2>1, FS_Subset
<1>4. PICK m \in Out : \A k \in Out : m <= k
  <2> HIDE DEF Out
  <2> QED  BY <1>2, <1>3, Extremes
<1>5. m \in Nat /\ m # 0 /\ m \notin N /\ m <= n
  OBVIOUS
<1>6. m - 1 \in Nat /\ m - 1 \notin Out
  BY <1>4, <1>5
<1>7. m - 1 \in N
  BY <1>1, <1>5, <1>6
<1>8. (m - 1) + 1 = m
  BY <1>5
<1>9. QED
  BY <1>5, <1>7, <1>8

\* Induction over the subsets of a finite set.
LEMMA SubsetInduction ==
  ASSUME NEW S, IsFiniteSet(S), NEW F, {} \in F,
         \A T \in SUBSET S : T \in F => \A x \in S \ T : T \cup {x} \in F
  PROVE  SUBSET S \subseteq F
<1> DEFINE N == {n \in Nat : \A T \in SUBSET S : Cardinality(T) = n => T \in F}
<1>1. \A T \in SUBSET S : IsFiniteSet(T) /\ Cardinality(T) \in Nat
  BY FS_Subset, FS_CardinalityType
<1>2. 0 \in N
  BY <1>1, FS_EmptySet
<1>3. ASSUME NEW n \in N PROVE n + 1 \in N
  <2>1. SUFFICES ASSUME NEW T \in SUBSET S, Cardinality(T) = n + 1 PROVE T \in F
    OBVIOUS
  <2>2. PICK x \in T : TRUE
    <3>1. Cardinality({}) = 0
      BY FS_EmptySet
    <3>2. QED
      BY <2>1, <3>1
  <2>3. Cardinality(T \ {x}) = n
    BY <1>1, <2>1, FS_RemoveElement
  <2>4. T \ {x} \in F
    BY <2>3
  <2>5. (T \ {x}) \cup {x} = T
    OBVIOUS
  <2>6. QED
    BY <2>4, <2>5
<1>4. N = Nat
  <2> HIDE DEF N
  <2> QED  BY <1>2, <1>3, NatInductionSet DEF N
<1>5. QED
  BY <1>1, <1>4

-----------------------------------------------------------------------------
(* Sums over finite sets.                                                  *)

\* The sum of f over S.
SumOver(f, S) == MapThenSumSet(LAMBDA x : f[x], S)

\* The partial sums of the definition of MapThenFoldSet: each from a smaller one.
SumStep(f, g, s) == IF s = {} THEN 0 ELSE f[CHOOSE x \in s : TRUE] + g[s \ {CHOOSE x \in s : TRUE}]

SumsUp(f, g, S) == g = [s \in SUBSET S |-> SumStep(f, g, s)]

\* What the definition computes is one of these functions, applied to S.
LEMMA SumDef ==
  ASSUME NEW f, NEW S
  PROVE  SumOver(f, S) = (CHOOSE g : SumsUp(f, g, S))[S]
BY DEF SumOver, MapThenSumSet, MapThenFoldSet, SumsUp, SumStep

\* There is one, because a partial sum of n + 1 values only needs those of n.
LEMMA SumsExist ==
  ASSUME NEW S, IsFiniteSet(S), NEW f, \A x \in S : f[x] \in Int
  PROVE  \E g \in [SUBSET S -> Int] : SumsUp(f, g, S)
<1> DEFINE Good(g, n) == \A s \in SUBSET S : Cardinality(s) <= n => g[s] = SumStep(f, g, s)
           N == {n \in Nat : \E g \in [SUBSET S -> Int] : Good(g, n)}
<1>1. \A s \in SUBSET S : IsFiniteSet(s) /\ Cardinality(s) \in Nat
  BY FS_Subset, FS_CardinalityType
<1>2. \A s \in SUBSET S : s # {} => LET x == CHOOSE x \in s : TRUE
                                    IN  /\ x \in s /\ f[x] \in Int /\ s \ {x} \in SUBSET S
                                        /\ Cardinality(s \ {x}) = Cardinality(s) - 1
  BY <1>1, FS_RemoveElement
<1>3. \A g \in [SUBSET S -> Int] : \A s \in SUBSET S : SumStep(f, g, s) \in Int
  BY <1>2 DEF SumStep
<1>4. 0 \in N
  <2> DEFINE g == [s \in SUBSET S |-> 0]
  <2>1. \A s \in SUBSET S : Cardinality(s) <= 0 => s = {}
    BY <1>1, FS_EmptySet
  <2>2. Good(g, 0)
    BY <2>1 DEF SumStep
  <2>3. g \in [SUBSET S -> Int]
    OBVIOUS
  <2>4. QED
    BY <2>2, <2>3
<1>5. ASSUME NEW n \in N PROVE n + 1 \in N
  <2>1. PICK g \in [SUBSET S -> Int] : Good(g, n)
    OBVIOUS
  <2> DEFINE h == [s \in SUBSET S |-> SumStep(f, g, s)]
  <2>2. h \in [SUBSET S -> Int]
    BY <1>3
  <2>3. ASSUME NEW s \in SUBSET S, Cardinality(s) <= n + 1 PROVE SumStep(f, g, s) = SumStep(f, h, s)
    <3>1. CASE s = {}
      BY <3>1 DEF SumStep
    <3>2. CASE s # {}
      <4> DEFINE x == CHOOSE x \in s : TRUE
                 r == s \ {x}
      <4>1. r \in SUBSET S /\ Cardinality(r) <= n
        <5>1. Cardinality(r) = Cardinality(s) - 1 /\ r \in SUBSET S
          BY <1>2, <3>2
        <5>2. Cardinality(s) \in Nat /\ n \in Nat
          BY <1>1
        <5> HIDE DEF r
        <5>3. QED
          BY <2>3, <5>1, <5>2
      <4>2. h[r] = g[r]
        BY <2>1, <4>1
      <4>3. SumStep(f, g, s) = f[x] + g[r] /\ SumStep(f, h, s) = f[x] + h[r]
        BY <3>2 DEF SumStep
      <4>4. QED
        BY <4>2, <4>3
    <3>3. QED
      BY <3>1, <3>2
  <2>4. Good(h, n + 1)
    BY <2>3
  <2> HIDE DEF h
  <2>5. QED
    BY <2>2, <2>4
<1>6. N = Nat
  <2> HIDE DEF N
  <2> QED  BY <1>4, <1>5, NatInductionSet DEF N
<1>7. Cardinality(S) \in Nat
  BY FS_CardinalityType
<1>8. PICK g \in [SUBSET S -> Int] : Good(g, Cardinality(S))
  BY <1>6, <1>7
<1>9. \A s \in SUBSET S : g[s] = SumStep(f, g, s)
  BY <1>8, FS_Subset
<1>10. SumsUp(f, g, S)
  BY <1>9 DEF SumsUp
<1>11. QED
  BY <1>10

\* There is only one: that of a larger set agrees with that of its subsets.
LEMMA SumsAgree ==
  ASSUME NEW S, IsFiniteSet(S), NEW f, NEW T \in SUBSET S,
         NEW g, SumsUp(f, g, S), NEW h, SumsUp(f, h, T)
  PROVE  \A s \in SUBSET T : g[s] = h[s]
<1> DEFINE N == {n \in Nat : \A s \in SUBSET T : Cardinality(s) = n => g[s] = h[s]}
<1>1. \A s \in SUBSET T : IsFiniteSet(s) /\ Cardinality(s) \in Nat
  BY FS_Subset, FS_CardinalityType
<1>2. \A s \in SUBSET T : g[s] = SumStep(f, g, s) /\ h[s] = SumStep(f, h, s)
  <2>1. \A s \in SUBSET S : g[s] = SumStep(f, g, s)
    BY DEF SumsUp
  <2>2. \A s \in SUBSET T : h[s] = SumStep(f, h, s)
    BY DEF SumsUp
  <2>3. QED
    BY <2>1, <2>2
<1>3. 0 \in N
  <2>1. ASSUME NEW s \in SUBSET T, Cardinality(s) = 0 PROVE g[s] = h[s]
    <3>1. s = {}
      BY <1>1, <2>1, FS_EmptySet
    <3>2. QED
      BY <1>2, <3>1 DEF SumStep
  <2>2. QED
    BY <2>1
<1>4. ASSUME NEW n \in N PROVE n + 1 \in N
  <2>1. SUFFICES ASSUME NEW s \in SUBSET T, Cardinality(s) = n + 1 PROVE g[s] = h[s]
    OBVIOUS
  <2> DEFINE x == CHOOSE x \in s : TRUE
  <2>2. s # {}
    BY <2>1, FS_EmptySet
  <2>3. x \in s
    BY <2>2
  <2>4. s \ {x} \in SUBSET T /\ Cardinality(s \ {x}) = n
    <3>1. n \in Nat /\ IsFiniteSet(s)
      BY <1>1
    <3> HIDE DEF x, N
    <3>2. Cardinality(s \ {x}) = Cardinality(s) - 1
      BY <2>3, <3>1, FS_RemoveElement
    <3>3. QED
      BY <2>1, <3>1, <3>2
  <2>5. g[s \ {x}] = h[s \ {x}]
    BY <2>4
  <2>6. QED
    BY <1>2, <2>2, <2>5 DEF SumStep
<1>5. N = Nat
  <2> HIDE DEF N
  <2> QED  BY <1>3, <1>4, NatInductionSet DEF N
<1>6. QED
  BY <1>1, <1>5

\* The sum over a set, by the element the definition chooses.
LEMMA SumChosen ==
  ASSUME NEW S, IsFiniteSet(S), NEW f, \A x \in S : f[x] \in Int
  PROVE  /\ SumOver(f, S) \in Int
         /\ S = {} => SumOver(f, S) = 0
         /\ S # {} => \E x \in S : SumOver(f, S) = f[x] + SumOver(f, S \ {x})
<1> DEFINE g(T) == CHOOSE g : SumsUp(f, g, T)
<1>1. ASSUME NEW T \in SUBSET S PROVE SumsUp(f, g(T), T) /\ g(T)[T] \in Int /\ SumOver(f, T) = g(T)[T]
  <2>1. PICK h \in [SUBSET T -> Int] : SumsUp(f, h, T)
    BY FS_Subset, SumsExist
  <2>2. SumsUp(f, g(T), T)
    BY <2>1
  <2> HIDE DEF g
  <2>3. h[T] = g(T)[T]
    BY <2>1, <2>2, SumsAgree, FS_Subset
  <2>4. h[T] \in Int
    BY <2>1
  <2>5. SumOver(f, T) = g(T)[T]
    BY SumDef DEF g
  <2>6. QED
    BY <2>2, <2>3, <2>4, <2>5
<1> HIDE DEF g
<1>2. g(S)[S] = SumStep(f, g(S), S)
  <2>1. SumsUp(f, g(S), S)
    BY <1>1
  <2>2. QED
    BY <2>1 DEF SumsUp
<1>3. ASSUME S # {} PROVE \E x \in S : SumOver(f, S) = f[x] + SumOver(f, S \ {x})
  <2> DEFINE x == CHOOSE x \in S : TRUE
  <2>1. x \in S
    BY <1>3
  <2>2. g(S)[S \ {x}] = g(S \ {x})[S \ {x}]
    <3>1. SumsUp(f, g(S), S) /\ SumsUp(f, g(S \ {x}), S \ {x}) /\ S \ {x} \in SUBSET S
      BY <1>1
    <3> HIDE DEF x
    <3>2. QED
      BY <3>1, SumsAgree
  <2>3. g(S)[S] = f[x] + g(S)[S \ {x}]
    BY <1>2, <1>3 DEF SumStep
  <2>4. SumOver(f, S) = g(S)[S] /\ SumOver(f, S \ {x}) = g(S \ {x})[S \ {x}]
    BY <1>1
  <2>5. QED
    BY <2>1, <2>2, <2>3, <2>4
<1>4. S = {} => SumOver(f, S) = 0
  BY <1>1, <1>2 DEF SumStep
<1>5. QED
  BY <1>1, <1>3, <1>4

\* Whichever element is taken first.
LEMMA SumRemove ==
  ASSUME NEW S, IsFiniteSet(S), NEW f, \A x \in S : f[x] \in Int, NEW y \in S
  PROVE  SumOver(f, S) = f[y] + SumOver(f, S \ {y})
<1> DEFINE Holds(T) == \A z \in T : SumOver(f, T) = f[z] + SumOver(f, T \ {z})
           N == {n \in Nat : \A T \in SUBSET S : Cardinality(T) = n => Holds(T)}
<1>1. \A T \in SUBSET S : /\ IsFiniteSet(T) /\ Cardinality(T) \in Nat
                          /\ SumOver(f, T) \in Int
  BY FS_Subset, FS_CardinalityType, SumChosen
<1>2. 0 \in N
  BY <1>1, FS_EmptySet
<1>3. ASSUME NEW n \in N PROVE n + 1 \in N
  <2>1. SUFFICES ASSUME NEW T \in SUBSET S, Cardinality(T) = n + 1, NEW z \in T
                 PROVE  SumOver(f, T) = f[z] + SumOver(f, T \ {z})
    OBVIOUS
  <2>2. PICK x \in T : SumOver(f, T) = f[x] + SumOver(f, T \ {x})
    <3>1. IsFiniteSet(T) /\ T # {} /\ \A x \in T : f[x] \in Int
      BY <1>1, <2>1
    <3> HIDE DEF N, Holds
    <3>2. QED
      BY <3>1, SumChosen
  <2>3. CASE x = z
    BY <2>2, <2>3
  <2>4. CASE x # z
    <3> DEFINE R == (T \ {x}) \ {z}
    <3>1. Cardinality(T \ {x}) = n /\ Cardinality(T \ {z}) = n
      <4>1. n \in Nat /\ IsFiniteSet(T)
        BY <1>1
      <4>2. Cardinality(T \ {x}) = Cardinality(T) - 1 /\ Cardinality(T \ {z}) = Cardinality(T) - 1
        BY <4>1, FS_RemoveElement
      <4>3. QED
        BY <2>1, <4>1, <4>2
    <3>2. SumOver(f, T \ {x}) = f[z] + SumOver(f, R)
      BY <2>4, <3>1
    <3>3. SumOver(f, T \ {z}) = f[x] + SumOver(f, R)
      <4>1. SumOver(f, T \ {z}) = f[x] + SumOver(f, (T \ {z}) \ {x})
        BY <2>4, <3>1
      <4>2. (T \ {z}) \ {x} = R
        OBVIOUS
      <4>3. QED
        BY <4>1, <4>2
    <3>4. f[x] \in Int /\ f[z] \in Int /\ SumOver(f, R) \in Int
      BY <1>1
    <3> HIDE DEF R
    <3>5. QED
      BY <2>2, <3>2, <3>3, <3>4
  <2>5. QED
    BY <2>3, <2>4
<1>4. N = Nat
  <2> HIDE DEF N
  <2> QED  BY <1>2, <1>3, NatInductionSet DEF N
<1>5. QED
  BY <1>1, <1>4

\* One element more.
LEMMA SumAdd ==
  ASSUME NEW S, IsFiniteSet(S), NEW y, y \notin S, NEW f, \A x \in S \cup {y} : f[x] \in Int
  PROVE  SumOver(f, S \cup {y}) = SumOver(f, S) + f[y]
<1>1. IsFiniteSet(S \cup {y})
  BY FS_AddElement
<1>2. (S \cup {y}) \ {y} = S
  OBVIOUS
<1>3. SumOver(f, S \cup {y}) = f[y] + SumOver(f, S)
  <2> DEFINE U == S \cup {y}
  <2>1. y \in U /\ \A x \in U : f[x] \in Int
    OBVIOUS
  <2> HIDE DEF U
  <2>2. SumOver(f, U) = f[y] + SumOver(f, U \ {y})
    BY <1>1, <2>1, SumRemove DEF U
  <2>3. QED
    BY <1>2, <2>2 DEF U
<1>4. SumOver(f, S) \in Int /\ f[y] \in Int
  BY SumChosen
<1>5. QED
  BY <1>3, <1>4

\* The sum depends on the values in the set only.
LEMMA SumSame ==
  ASSUME NEW S, IsFiniteSet(S), NEW f, NEW g, \A x \in S : f[x] \in Int /\ g[x] = f[x]
  PROVE  SumOver(f, S) = SumOver(g, S)
<1> DEFINE F == {T \in SUBSET S : SumOver(f, T) = SumOver(g, T)}
<1>1. {} \in F
  BY FS_EmptySet, SumChosen
<1>2. ASSUME NEW T \in SUBSET S, T \in F, NEW x \in S \ T PROVE T \cup {x} \in F
  <2>1. IsFiniteSet(T)
    BY FS_Subset
  <2>2. \A z \in T \cup {x} : f[z] \in Int /\ g[z] \in Int
    OBVIOUS
  <2>3. SumOver(f, T \cup {x}) = SumOver(f, T) + f[x]
    BY <2>1, <2>2, SumAdd
  <2>4. SumOver(g, T \cup {x}) = SumOver(g, T) + g[x]
    BY <2>1, <2>2, SumAdd
  <2>5. QED
    BY <1>2, <2>3, <2>4
<1>3. SUBSET S \subseteq F
  <2> HIDE DEF F
  <2> QED  BY <1>1, <1>2, SubsetInduction
<1>4. QED
  BY <1>3

\* The sum over two sets that share nothing.
LEMMA SumUnion ==
  ASSUME NEW S, IsFiniteSet(S), NEW T, IsFiniteSet(T), S \cap T = {},
         NEW f, \A x \in S \cup T : f[x] \in Int
  PROVE  SumOver(f, S \cup T) = SumOver(f, S) + SumOver(f, T)
<1> DEFINE F == {U \in SUBSET T : SumOver(f, S \cup U) = SumOver(f, S) + SumOver(f, U)}
<1>1. SumOver(f, S) \in Int
  BY SumChosen
<1>2. {} \in F
  <2>1. S \cup {} = S
    OBVIOUS
  <2>2. SumOver(f, {}) = 0
    BY FS_EmptySet, SumChosen
  <2>3. QED
    BY <1>1, <2>1, <2>2
<1>3. ASSUME NEW U \in SUBSET T, U \in F, NEW x \in T \ U PROVE U \cup {x} \in F
  <2>1. IsFiniteSet(U) /\ IsFiniteSet(S \cup U) /\ x \notin U /\ x \notin S \cup U
    BY FS_Subset, FS_Union
  <2>2. (\A z \in U \cup {x} : f[z] \in Int) /\ (\A z \in (S \cup U) \cup {x} : f[z] \in Int)
    OBVIOUS
  <2>3. SumOver(f, U \cup {x}) = SumOver(f, U) + f[x]
    BY <2>1, <2>2, SumAdd
  <2>4. SumOver(f, (S \cup U) \cup {x}) = SumOver(f, S \cup U) + f[x]
    BY <2>1, <2>2, SumAdd
  <2>5. SumOver(f, S \cup (U \cup {x})) = SumOver(f, S \cup U) + f[x]
    <3>1. S \cup (U \cup {x}) = (S \cup U) \cup {x}
      OBVIOUS
    <3>2. QED
      BY <2>4, <3>1
  <2>6. SumOver(f, U) \in Int /\ f[x] \in Int
    BY <2>1, SumChosen
  <2>7. SumOver(f, S \cup U) = SumOver(f, S) + SumOver(f, U)
    BY <1>3
  <2>8. SumOver(f, S \cup (U \cup {x})) = SumOver(f, S) + SumOver(f, U \cup {x})
    BY <1>1, <2>3, <2>5, <2>6, <2>7
  <2>9. QED
    BY <2>8
<1>4. SUBSET T \subseteq F
  <2> HIDE DEF F
  <2> QED  BY <1>2, <1>3, SubsetInduction
<1>5. QED
  BY <1>4

\* One value that changes changes the sum by as much.
LEMMA SumChange ==
  ASSUME NEW S, IsFiniteSet(S), NEW y \in S, NEW f, NEW g,
         \A x \in S : f[x] \in Int /\ g[x] \in Int /\ (x # y => g[x] = f[x])
  PROVE  SumOver(g, S) = SumOver(f, S) + (g[y] - f[y])
<1>1. SumOver(f, S) = f[y] + SumOver(f, S \ {y}) /\ SumOver(g, S) = g[y] + SumOver(g, S \ {y})
  BY SumRemove
<1>2. IsFiniteSet(S \ {y})
  BY FS_RemoveElement
<1>3. SumOver(f, S \ {y}) = SumOver(g, S \ {y}) /\ SumOver(f, S \ {y}) \in Int
  BY <1>2, SumSame, SumChosen
<1>4. QED
  BY <1>1, <1>3

\* The sum of zeros and ones counts the ones.
LEMMA SumCounts ==
  ASSUME NEW S, IsFiniteSet(S), NEW W, NEW f, \A x \in S : f[x] = IF x \in W THEN 1 ELSE 0
  PROVE  SumOver(f, S) = Cardinality({x \in S : x \in W})
<1> DEFINE In(T) == {x \in T : x \in W}
           F == {T \in SUBSET S : SumOver(f, T) = Cardinality(In(T))}
<1>1. {} \in F
  <2>1. In({}) = {}
    OBVIOUS
  <2>2. QED
    BY <2>1, FS_EmptySet, SumChosen
<1>2. ASSUME NEW T \in SUBSET S, T \in F, NEW x \in S \ T PROVE T \cup {x} \in F
  <2>1. IsFiniteSet(T) /\ IsFiniteSet(In(T))
    <3>1. In(T) \in SUBSET T
      OBVIOUS
    <3> HIDE DEF In
    <3>2. QED
      BY <3>1, FS_Subset
  <2>2. SumOver(f, T \cup {x}) = SumOver(f, T) + f[x]
    <3>1. \A z \in T \cup {x} : f[z] \in Int
      OBVIOUS
    <3>2. QED
      BY <2>1, <3>1, SumAdd
  <2>3. Cardinality(In(T)) \in Nat
    BY <2>1, FS_CardinalityType
  <2>4. CASE x \in W
    <3>1. In(T \cup {x}) = In(T) \cup {x} /\ x \notin In(T)
      BY <1>2, <2>4
    <3>2. Cardinality(In(T) \cup {x}) = Cardinality(In(T)) + 1
      <4> HIDE DEF In
      <4> QED  BY <2>1, <3>1, FS_AddElement
    <3>3. QED
      BY <1>2, <2>2, <2>4, <3>1, <3>2
  <2>5. CASE x \notin W
    <3>1. In(T \cup {x}) = In(T)
      BY <1>2, <2>5
    <3>2. SumOver(f, T) = Cardinality(In(T)) /\ f[x] = 0
      BY <1>2, <2>5
    <3>3. SumOver(f, T \cup {x}) = Cardinality(In(T \cup {x}))
      <4> HIDE DEF In
      <4> QED  BY <2>2, <2>3, <3>1, <3>2
    <3>4. QED
      BY <1>2, <3>3
  <2>6. QED
    BY <2>4, <2>5
<1>3. SUBSET S \subseteq F
  <2> HIDE DEF F
  <2> QED  BY <1>1, <1>2, SubsetInduction
<1>4. QED
  BY <1>3
=============================================================================
