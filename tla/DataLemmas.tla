----------------------------- MODULE DataLemmas -----------------------------
(***************************************************************************)
(* What the proofs need to know about data: induction as the principle of  *)
(* the least counterexample, sets in an order (module Order), and folds.   *)
(* The induction theorems of the library take a predicate as a parameter;  *)
(* here it is the set of what satisfies it, so that first-order provers    *)
(* can use the lemma.                                                      *)
(***************************************************************************)
EXTENDS Order, Sequences, FiniteSetsExt, FiniteSetTheorems, FunctionTheorems, WellFoundedInduction, TLAPS

\* A set of natural numbers has a least one.
LEMMA LeastNumber ==
    ASSUME NEW T \in SUBSET Nat, T # {}
    PROVE  \E x \in T : \A y \in T : x <= y
<1> DEFINE R == {p \in Nat \X Nat : p[1] < p[2]}
<1>1. IsWellFoundedOn(R, Nat)
  BY NatLessThanWellFounded DEF OpToRel
<1> HIDE DEF R
<1>2. PICK x \in T : \A y \in T : <<y, x>> \notin R
  BY <1>1, WFMin
<1>3. \A y \in T : ~(y < x)
  BY <1>2 DEF R
<1> QED BY <1>3

\* So has, by inclusion, a family of subsets of a finite set.
LEMMA LeastSubset ==
    ASSUME NEW S, IsFiniteSet(S), NEW F \in SUBSET SUBSET S, F # {}
    PROVE  \E T \in F : \A U \in F : U \subseteq T => U = T
<1>1. F \subseteq FiniteSubsetsOf(S)
  BY FS_FiniteSubsetsOfFinite
<1>2. IsWellFoundedOn(StrictSubsetOrdering(S), FiniteSubsetsOf(S))
  BY FS_StrictSubsetOrderingWellFounded
<1>3. PICK T \in F : \A U \in F : <<U, T>> \notin StrictSubsetOrdering(S)
  BY <1>1, <1>2, WFMin
<1> QED BY <1>3 DEF StrictSubsetOrdering

\* Induction over the natural numbers, for the set of those that satisfy something.
LEMMA Induction ==
    ASSUME NEW P \in SUBSET Nat, 0 \in P, \A n \in P : n + 1 \in P
    PROVE  P = Nat
<1> SUFFICES ASSUME Nat \ P # {} PROVE FALSE
  OBVIOUS
<1>1. PICK x \in Nat \ P : \A y \in Nat \ P : x <= y
  BY LeastNumber
<1>2. x # 0 /\ x - 1 \in Nat
  OBVIOUS
<1>3. x - 1 \in P
  BY <1>1, <1>2
<1> QED BY <1>3, <1>2

\* A recursion that ends everywhere, because each call has a smaller rank, has a solution.
Recurses(S, V, b, rank, stop, base, call, h) ==
    /\ b \in Nat /\ rank \in [S -> 0..b] /\ stop \in SUBSET S
    /\ base \in [S -> V] /\ call \in [S -> S] /\ h \in [S \X V -> V]
    /\ \A x \in S \ stop : rank[call[x]] < rank[x]

LEMMA Recursion ==
    ASSUME NEW S, NEW V, NEW b, NEW rank, NEW stop, NEW base, NEW call, NEW h,
           Recurses(S, V, b, rank, stop, base, call, h)
    PROVE  \E f \in [S -> V] :
              \A x \in S : f[x] = IF x \in stop THEN base[x] ELSE h[<<x, f[call[x]]>>]
<1> USE DEF Recurses
<1> DEFINE Solves(f, x) == f[x] = IF x \in stop THEN base[x] ELSE h[<<x, f[call[x]]>>]
           P == {n \in Nat : \E f \in [S -> V] : \A x \in S : rank[x] < n => Solves(f, x)}
<1>1. 0 \in P
  <2>1. \A x \in S : ~(rank[x] < 0)
    OBVIOUS
  <2>2. base \in [S -> V] /\ \A x \in S : rank[x] < 0 => Solves(base, x)
    BY <2>1
  <2> HIDE DEF Solves
  <2> QED BY <2>2
<1>2. ASSUME NEW n \in P PROVE n + 1 \in P
  <2>1. PICK f \in [S -> V] : \A x \in S : rank[x] < n => Solves(f, x)
    OBVIOUS
  <2> DEFINE g == [x \in S |-> IF rank[x] < n \/ x \in stop
                               THEN IF x \in stop THEN base[x] ELSE f[x]
                               ELSE h[<<x, f[call[x]]>>]]
  <2>2. g \in [S -> V]
    OBVIOUS
  <2>3. \A x \in S : rank[x] < n => g[x] = f[x]
    BY <2>1
  <2>4. ASSUME NEW x \in S, rank[x] < n + 1 PROVE Solves(g, x)
    <3>1. CASE x \in stop
      BY <3>1
    <3>2. CASE x \notin stop /\ rank[x] < n
      <4>1. call[x] \in S /\ rank[call[x]] < n
        BY <3>2
      <4>2. g[call[x]] = f[call[x]] /\ g[x] = f[x]
        BY <2>3, <3>2, <4>1
      <4> HIDE DEF g
      <4> QED BY <2>1, <3>2, <4>2
    <3>3. CASE x \notin stop /\ ~(rank[x] < n)
      <4>1. call[x] \in S /\ rank[call[x]] < n
        BY <2>4, <3>3
      <4>2. g[call[x]] = f[call[x]] /\ g[x] = h[<<x, f[call[x]]>>]
        BY <2>3, <3>3, <4>1
      <4> HIDE DEF g
      <4> QED BY <3>3, <4>2
    <3> QED BY <3>1, <3>2, <3>3
  <2> HIDE DEF g, Solves
  <2> QED BY <2>2, <2>4
<1>3. P = Nat
  <2> HIDE DEF P
  <2>1. P \in SUBSET Nat
    BY DEF P
  <2> QED BY <1>1, <1>2, <2>1, Induction
<1>4. PICK f \in [S -> V] : \A x \in S : rank[x] < b + 1 => Solves(f, x)
  <2>1. b + 1 \in P
    <3> HIDE DEF P
    <3> QED BY <1>3
  <2> HIDE DEF Solves
  <2> QED BY <2>1
<1>5. \A x \in S : rank[x] < b + 1
  OBVIOUS
<1> QED BY <1>4, <1>5

\* The first n places.
LEMMA FirstPlaces ==
    ASSUME NEW n \in Nat
    PROVE  IsFiniteSet(1..n) /\ Cardinality(1..n) = n
<1>1. /\ IsFiniteSet(1..n)
      /\ Cardinality(1..n) = IF 1 > n THEN 0 ELSE n - 1 + 1
  BY FS_Interval
<1> QED BY <1>1

\* The values of a function on a finite set are finitely many.
LEMMA FiniteImage ==
    ASSUME NEW S, IsFiniteSet(S), NEW f
    PROVE  IsFiniteSet({f[x] : x \in S}) /\ Cardinality({f[x] : x \in S}) <= Cardinality(S)
<1> DEFINE T == {f[x] : x \in S}
           g == [x \in S |-> f[x]]
<1>1. g \in [S -> T] /\ \A t \in T : \E x \in S : g[x] = t
  OBVIOUS
<1>2. g \in Surjection(S, T)
  <2> HIDE DEF g, T
  <2> QED BY <1>1, Fun_IsSurj
<1> HIDE DEF g
<1> QED BY <1>2, FS_Surjection

\* A function on the first n places is a sequence.
LEMMA FunctionIsSequence ==
    ASSUME NEW X, NEW n \in Nat, NEW f \in [1..n -> X]
    PROVE  f \in Seq(X) /\ Len(f) = n /\ DOMAIN f = 1..n
OBVIOUS

\* Minimum is the least member.
LEMMA MinimumIsLeast ==
    ASSUME NEW S \in SUBSET Nat, S # {}
    PROVE  Minimum(S) \in S /\ \A y \in S : Minimum(S) <= y
BY LeastNumber DEF Minimum

\* A finite set of numbers has a greatest one.
LEMMA GreatestNumber ==
    ASSUME NEW T \in SUBSET Nat, T # {}, NEW b \in Nat, \A y \in T : y <= b
    PROVE  \E x \in T : \A y \in T : y <= x
<1> DEFINE U == {n \in Nat : \A y \in T : y <= n}
<1>1. PICK u \in U : \A n \in U : u <= n
  BY LeastNumber
<1>2. u \in T
  <2> SUFFICES ASSUME u \notin T PROVE FALSE
    OBVIOUS
  <2>1. \A y \in T : y <= u - 1
    BY <1>1
  <2>2. u - 1 \in Nat
    <3>1. PICK y \in T : TRUE
      OBVIOUS
    <3>2. y \in Nat /\ y <= u - 1 /\ u \in Nat
      BY <2>1
    <3> QED BY <3>2
  <2>3. u - 1 \in U
    BY <2>1, <2>2
  <2> QED BY <2>3, <1>1
<1> QED BY <1>1, <1>2

\* Max is that one.
LEMMA MaxIsGreatest ==
    ASSUME NEW T \in SUBSET Nat, T # {}, NEW b \in Nat, \A y \in T : y <= b
    PROVE  Max(T) \in T /\ \A y \in T : y <= Max(T)
<1>1. \E x \in T : \A y \in T : x >= y
  BY GreatestNumber
<1> QED BY <1>1 DEF Max

LEMMA MaxOfTwo ==
    ASSUME NEW a \in Int, NEW c \in Int
    PROVE  Max({a, c}) = IF a >= c THEN a ELSE c
  BY DEF Max

\* A sequence of numbers each below the next one is in ascending order throughout.
LEMMA StepsAscend ==
    ASSUME NEW n \in Nat, NEW f \in [1..n -> Int], \A i \in 1..(n - 1) : f[i] < f[i + 1]
    PROVE  \A i, j \in 1..n : i < j => f[i] < f[j]
<1> DEFINE P == {d \in Nat : \A i \in 1..n : i + d + 1 \in 1..n => f[i] < f[i + d + 1]}
<1>1. 0 \in P
  OBVIOUS
<1>2. ASSUME NEW d \in P PROVE d + 1 \in P
  <2>1. d \in Nat /\ \A i \in 1..n : i + d + 1 \in 1..n => f[i] < f[i + d + 1]
    OBVIOUS
  <2>2. ASSUME NEW i \in 1..n, i + (d + 1) + 1 \in 1..n PROVE f[i] < f[i + (d + 1) + 1]
    <3>1. i + d + 1 \in 1..(n - 1)
      BY <2>1, <2>2
    <3>2. f[i] < f[i + d + 1] /\ f[i + d + 1] < f[(i + d + 1) + 1]
      BY <2>1, <3>1
    <3>3. (i + d + 1) + 1 = i + (d + 1) + 1
      BY <2>1
    <3>4. f[i] \in Int /\ f[i + d + 1] \in Int /\ f[i + (d + 1) + 1] \in Int
      BY <2>2, <3>1
    <3> QED BY <3>2, <3>3, <3>4
  <2> QED BY <2>1, <2>2
<1>3. P = Nat
  <2> HIDE DEF P
  <2> QED BY <1>1, <1>2, Induction DEF P
<1>4. ASSUME NEW i \in 1..n, NEW j \in 1..n, i < j PROVE f[i] < f[j]
  <2>1. j - i - 1 \in Nat
    BY <1>4
  <2>2. j - i - 1 \in P
    <3> HIDE DEF P
    <3> QED BY <1>3, <2>1
  <2>3. i + (j - i - 1) + 1 = j
    OBVIOUS
  <2> QED BY <2>2, <2>3
<1> QED BY <1>4

-----------------------------------------------------------------------------
(* Sets in an order. *)

\* R orders S strictly and totally.
IsOrder(S, R) ==
    /\ \A x, y \in S : x # y => <<x, y>> \in R \/ <<y, x>> \in R
    /\ \A x, y \in S : ~(<<x, y>> \in R /\ <<y, x>> \in R)
    /\ \A x, y, z \in S : <<x, y>> \in R /\ <<y, z>> \in R => <<x, z>> \in R

\* Arranged lists every member once, in the order.
LEMMA ArrangedInOrder ==
    ASSUME NEW S, IsFiniteSet(S), NEW R, IsOrder(S, R)
    PROVE  /\ Cardinality(S) \in Nat
           /\ Arranged(S, R) \in [1..Cardinality(S) -> S]
           /\ \A x \in S : \E n \in 1..Cardinality(S) : Arranged(S, R)[n] = x
           /\ \A m, n \in 1..Cardinality(S) :
                 m < n <=> <<Arranged(S, R)[m], Arranged(S, R)[n]>> \in R
<1> DEFINE N == Cardinality(S)
           place == [x \in S |-> Cardinality(Before(S, R, x))]
           A == Arranged(S, R)
<1>0. N \in Nat
  BY FS_CardinalityType
<1>1. \A x \in S : IsFiniteSet(Before(S, R, x)) /\ place[x] \in 0..(N - 1)
  <2> SUFFICES ASSUME NEW x \in S
               PROVE  IsFiniteSet(Before(S, R, x)) /\ place[x] \in 0..(N - 1)
    OBVIOUS
  <2>1. Before(S, R, x) \in SUBSET (S \ {x})
    BY DEF Before, IsOrder
  <2>2. IsFiniteSet(S \ {x}) /\ Cardinality(S \ {x}) = N - 1
    BY FS_RemoveElement
  <2>3. /\ IsFiniteSet(Before(S, R, x))
        /\ Cardinality(Before(S, R, x)) <= Cardinality(S \ {x})
    BY <2>1, <2>2, FS_Subset
  <2>4. Cardinality(Before(S, R, x)) \in Nat
    BY <2>3, FS_CardinalityType
  <2> QED BY <2>2, <2>3, <2>4, <1>0
<1>2. \A x, y \in S : <<x, y>> \in R => place[x] < place[y]
  <2> SUFFICES ASSUME NEW x \in S, NEW y \in S, <<x, y>> \in R PROVE place[x] < place[y]
    OBVIOUS
  <2>1. Before(S, R, x) \cup {x} \in SUBSET Before(S, R, y)
    BY DEF Before, IsOrder
  <2>2. x \notin Before(S, R, x)
    BY DEF Before, IsOrder
  <2>3. Cardinality(Before(S, R, x) \cup {x}) = Cardinality(Before(S, R, x)) + 1
    BY <1>1, <2>2, FS_AddElement
  <2>4. Cardinality(Before(S, R, x) \cup {x}) <= Cardinality(Before(S, R, y))
    BY <1>1, <2>1, FS_Subset
  <2> QED BY <2>3, <2>4, <1>1
<1>11. \A x, y \in S : place[x] = place[y] => x = y
  <2> SUFFICES ASSUME NEW x \in S, NEW y \in S, x # y PROVE place[x] # place[y]
    OBVIOUS
  <2>1. <<x, y>> \in R \/ <<y, x>> \in R
    BY DEF IsOrder
  <2>2. place[x] \in Int /\ place[y] \in Int
    BY <1>1
  <2>3. place[x] < place[y] \/ place[y] < place[x]
    BY <1>2, <2>1
  <2> HIDE DEF place
  <2> QED BY <2>2, <2>3
<1>3. place \in Injection(S, 0..(N - 1))
  <2>1. place \in [S -> 0..(N - 1)]
    BY <1>1
  <2>2. \A x, y \in S : place[x] = place[y] => x = y
    BY <1>11
  <2> HIDE DEF place
  <2> QED BY <2>1, <2>2, Fun_IsInj
<1>4. IsFiniteSet(0..(N - 1)) /\ Cardinality(0..(N - 1)) = N
  BY <1>0, FS_Interval
<1>5. place \in Surjection(S, 0..(N - 1))
  BY <1>3, <1>4, FS_Injection
<1>6. \A k \in 0..(N - 1) : \E x \in S : place[x] = k
  <2> HIDE DEF place
  <2> QED BY <1>5 DEF Surjection
<1>7. \A n \in 1..N : A[n] \in S /\ place[A[n]] = n - 1
  <2> SUFFICES ASSUME NEW n \in 1..N PROVE A[n] \in S /\ place[A[n]] = n - 1
    OBVIOUS
  <2>1. A[n] = CHOOSE x \in S : Cardinality(Before(S, R, x)) = n - 1
    BY DEF Arranged
  <2>2. PICK x \in S : place[x] = n - 1
    BY <1>0, <1>6
  <2>3. \E y \in S : Cardinality(Before(S, R, y)) = n - 1
    BY <2>2
  <2> QED BY <2>1, <2>3
<1>8. A \in [1..N -> S]
  BY <1>7 DEF Arranged
<1>9. \A x \in S : \E n \in 1..N : A[n] = x
  <2> SUFFICES ASSUME NEW x \in S PROVE \E n \in 1..N : A[n] = x
    OBVIOUS
  <2>1. place[x] + 1 \in 1..N
    BY <1>0, <1>1
  <2>2. A[place[x] + 1] \in S /\ place[A[place[x] + 1]] = place[x]
    BY <1>1, <1>7, <2>1
  <2>3. A[place[x] + 1] = x
    BY <2>2, <1>11
  <2> QED BY <2>1, <2>3
<1>10. \A m, n \in 1..N : m < n <=> <<A[m], A[n]>> \in R
  <2> SUFFICES ASSUME NEW m \in 1..N, NEW n \in 1..N PROVE m < n <=> <<A[m], A[n]>> \in R
    OBVIOUS
  <2>1. /\ A[m] \in S /\ place[A[m]] = m - 1
        /\ A[n] \in S /\ place[A[n]] = n - 1
    BY <1>7
  <2>2. A[m] = A[n] \/ <<A[m], A[n]>> \in R \/ <<A[n], A[m]>> \in R
    BY <2>1 DEF IsOrder
  <2> HIDE DEF A, place
  <2> QED BY <2>1, <2>2, <1>2
<1> HIDE DEF place, A
<1> QED BY <1>0, <1>8, <1>9, <1>10 DEF A

\* So does Ascending, from the least on.
LEMMA AscendingInOrder ==
    ASSUME NEW S \in SUBSET Int, IsFiniteSet(S)
    PROVE  /\ Cardinality(S) \in Nat
           /\ Ascending(S) \in [1..Cardinality(S) -> S]
           /\ \A x \in S : \E n \in 1..Cardinality(S) : Ascending(S)[n] = x
           /\ \A m, n \in 1..Cardinality(S) : m < n <=> Ascending(S)[m] < Ascending(S)[n]
<1> DEFINE R == {p \in S \X S : p[1] < p[2]}
<1>1. IsOrder(S, R)
  BY DEF IsOrder
<1>2. \A x, y \in S : <<x, y>> \in R <=> x < y
  OBVIOUS
<1>3. Ascending(S) = Arranged(S, R)
  BY DEF Ascending
<1> HIDE DEF R
<1>4. /\ Cardinality(S) \in Nat
      /\ Arranged(S, R) \in [1..Cardinality(S) -> S]
      /\ \A x \in S : \E n \in 1..Cardinality(S) : Arranged(S, R)[n] = x
      /\ \A m, n \in 1..Cardinality(S) :
            m < n <=> <<Arranged(S, R)[m], Arranged(S, R)[n]>> \in R
  BY <1>1, ArrangedInOrder
<1> DEFINE A == Ascending(S)
           N == Cardinality(S)
<1>5. /\ N \in Nat /\ A \in [1..N -> S]
      /\ \A x \in S : \E n \in 1..N : A[n] = x
      /\ \A m, n \in 1..N : m < n <=> <<A[m], A[n]>> \in R
  BY <1>3, <1>4
<1> HIDE DEF A, N
<1>6. \A m, n \in 1..N : m < n <=> A[m] < A[n]
  BY <1>2, <1>5
<1> QED BY <1>5, <1>6 DEF A, N

\* ByScore lists every member once, higher scores first, then smaller members.
LEMMA ByScoreInOrder ==
    ASSUME NEW S \in SUBSET Int, IsFiniteSet(S), NEW score, \A x \in S : score[x] \in Int
    PROVE  /\ Cardinality(S) \in Nat
           /\ ByScore(S, score) \in [1..Cardinality(S) -> S]
           /\ \A x \in S : \E n \in 1..Cardinality(S) : ByScore(S, score)[n] = x
           /\ \A m, n \in 1..Cardinality(S) :
                 LET x == ByScore(S, score)[m]
                     y == ByScore(S, score)[n]
                 IN m < n <=> score[x] > score[y] \/ (score[x] = score[y] /\ x < y)
<1> DEFINE R == {p \in S \X S : \/ score[p[1]] > score[p[2]]
                                \/ score[p[1]] = score[p[2]] /\ p[1] < p[2]}
<1>1. \A x, y \in S : <<x, y>> \in R <=> score[x] > score[y] \/ (score[x] = score[y] /\ x < y)
  OBVIOUS
<1>2. \A x \in S : x \in Int /\ score[x] \in Int
  OBVIOUS
<1>3. ByScore(S, score) = Arranged(S, R)
  BY DEF ByScore
<1> HIDE DEF R
<1>4. IsOrder(S, R)
  BY <1>1, <1>2 DEF IsOrder
<1>5. /\ Cardinality(S) \in Nat
      /\ Arranged(S, R) \in [1..Cardinality(S) -> S]
      /\ \A x \in S : \E n \in 1..Cardinality(S) : Arranged(S, R)[n] = x
      /\ \A m, n \in 1..Cardinality(S) :
            m < n <=> <<Arranged(S, R)[m], Arranged(S, R)[n]>> \in R
  BY <1>4, ArrangedInOrder
<1> DEFINE A == ByScore(S, score)
           N == Cardinality(S)
<1>6. /\ N \in Nat /\ A \in [1..N -> S]
      /\ \A x \in S : \E n \in 1..N : A[n] = x
      /\ \A m, n \in 1..N : m < n <=> <<A[m], A[n]>> \in R
  BY <1>3, <1>5
<1> HIDE DEF A, N
<1>7. \A m, n \in 1..N : m < n <=>
          score[A[m]] > score[A[n]] \/ (score[A[m]] = score[A[n]] /\ A[m] < A[n])
  BY <1>1, <1>6
<1> QED BY <1>6, <1>7 DEF A, N

\* The elements at some places of a list are a list of its elements, and each of them
\* comes from the place with its number.
LEMMA ElementsAtPlaces ==
    ASSUME NEW X, NEW list \in Seq(X), NEW places \in SUBSET DOMAIN list
    PROVE  /\ IsFiniteSet(places) /\ Cardinality(places) \in Nat
           /\ Cardinality(places) <= Len(list)
           /\ AtPlaces(list, places) \in Seq(X)
           /\ Len(AtPlaces(list, places)) = Cardinality(places)
           /\ Ascending(places) \in [1..Cardinality(places) -> places]
           /\ \A n \in 1..Cardinality(places) :
                 AtPlaces(list, places)[n] = list[Ascending(places)[n]]
           /\ \A i \in places : \E n \in 1..Cardinality(places) : Ascending(places)[n] = i
           /\ \A m, n \in 1..Cardinality(places) :
                 m < n <=> Ascending(places)[m] < Ascending(places)[n]
<1>1. DOMAIN list = 1..Len(list) /\ Len(list) \in Nat
  OBVIOUS
<1>2. IsFiniteSet(DOMAIN list) /\ Cardinality(DOMAIN list) = Len(list)
  <2>1. IsFiniteSet(1..Len(list)) /\ Cardinality(1..Len(list)) = Len(list)
    BY <1>1, FirstPlaces
  <2> QED BY <1>1, <2>1
<1>3. IsFiniteSet(places) /\ Cardinality(places) <= Len(list)
  BY <1>2, FS_Subset
<1>4. places \in SUBSET Int
  BY <1>1
<1>5. /\ Cardinality(places) \in Nat
      /\ Ascending(places) \in [1..Cardinality(places) -> places]
      /\ \A x \in places : \E n \in 1..Cardinality(places) : Ascending(places)[n] = x
      /\ \A m, n \in 1..Cardinality(places) :
            m < n <=> Ascending(places)[m] < Ascending(places)[n]
  BY <1>3, <1>4, AscendingInOrder
<1>6. \A n \in 1..Cardinality(places) : list[Ascending(places)[n]] \in X
  BY <1>1, <1>5
<1> QED BY <1>3, <1>5, <1>6 DEF AtPlaces

-----------------------------------------------------------------------------
(* Folds over finite sets: the member c[s] is taken from s, and the step h *)
(* combines it with the fold of the others.                                *)

IsFold(g, S, base, c, h) ==
    g = [s \in SUBSET S |-> IF s = {} THEN base ELSE h[<<c[s], g[s \ {c[s]}]>>]]

Chooses(c, S) == \A s \in SUBSET S : s # {} => c[s] \in s

\* Two folds agree where both are defined.
LEMMA FoldsAgree ==
    ASSUME NEW S, IsFiniteSet(S), NEW c, Chooses(c, S), NEW base, NEW h,
           NEW T, NEW f, IsFold(f, T, base, c, h), S \subseteq T,
           NEW U, NEW g, IsFold(g, U, base, c, h), S \subseteq U
    PROVE  \A s \in SUBSET S : f[s] = g[s]
<1> DEFINE Bad == {s \in SUBSET S : f[s] # g[s]}
<1> SUFFICES ASSUME Bad # {} PROVE FALSE
  OBVIOUS
<1>1. PICK s \in Bad : \A t \in Bad : t \subseteq s => t = s
  <2>1. Bad \in SUBSET SUBSET S /\ Bad # {}
    OBVIOUS
  <2> HIDE DEF Bad
  <2> QED BY <2>1, LeastSubset
<1>2. \A x \in SUBSET S : /\ f[x] = IF x = {} THEN base ELSE h[<<c[x], f[x \ {c[x]}]>>]
                          /\ g[x] = IF x = {} THEN base ELSE h[<<c[x], g[x \ {c[x]}]>>]
  BY DEF IsFold
<1>3. s # {} /\ s \in SUBSET S
  BY <1>1, <1>2
<1>4. c[s] \in s
  BY <1>3 DEF Chooses
<1>5. s \ {c[s]} \notin Bad
  BY <1>1, <1>4
<1>6. f[s \ {c[s]}] = g[s \ {c[s]}]
  BY <1>5, <1>3
<1>7. f[s] = g[s]
  BY <1>2, <1>3, <1>6
<1> QED BY <1>1, <1>7

\* There is a fold over every finite set.
LEMMA FoldExists ==
    ASSUME NEW S, IsFiniteSet(S), NEW c, Chooses(c, S), NEW base, NEW h
    PROVE  \E g : IsFold(g, S, base, c, h)
<1> DEFINE Bad == {T \in SUBSET S : ~\E g : IsFold(g, T, base, c, h)}
<1> SUFFICES ASSUME Bad # {} PROVE FALSE
  OBVIOUS
<1>1. PICK T \in Bad : \A U \in Bad : U \subseteq T => U = T
  <2>1. Bad \in SUBSET SUBSET S /\ Bad # {}
    OBVIOUS
  <2> HIDE DEF Bad
  <2> QED BY <2>1, LeastSubset
<1> DEFINE FoldOf(U) == CHOOSE g : IsFold(g, U, base, c, h)
           Value(U) == FoldOf(U)[U]
           G == [s \in SUBSET T |-> IF s = {} THEN base ELSE h[<<c[s], Value(s \ {c[s]})>>]]
<1>2. ASSUME NEW U \in SUBSET T, U # T PROVE IsFold(FoldOf(U), U, base, c, h)
  <2>1. \E g : IsFold(g, U, base, c, h)
    BY <1>1, <1>2
  <2> QED BY <2>1
<1>3. ASSUME NEW U \in SUBSET T, U # T PROVE G[U] = Value(U)
  <2>1. FoldOf(U)[U] = IF U = {} THEN base ELSE h[<<c[U], FoldOf(U)[U \ {c[U]}]>>]
    <3> HIDE DEF FoldOf
    <3> QED BY <1>2, <1>3 DEF IsFold
  <2>2. CASE U = {}
    BY <2>1, <2>2
  <2>3. CASE U # {}
    <3> DEFINE V == U \ {c[U]}
    <3>0. U \subseteq T /\ U # T /\ T \subseteq S
      BY <1>1, <1>3
    <3>1. V \in SUBSET U /\ V \in SUBSET T /\ V # T
      BY <3>0
    <3>2. IsFiniteSet(V) /\ Chooses(c, V)
      BY <3>0, <3>1, FS_Subset DEF Chooses
    <3>3. IsFold(FoldOf(V), V, base, c, h) /\ IsFold(FoldOf(U), U, base, c, h)
      BY <3>1, <1>2, <1>3
    <3>4. FoldOf(U)[V] = FoldOf(V)[V]
      <4> HIDE DEF FoldOf, V
      <4> QED BY <3>1, <3>2, <3>3, FoldsAgree
    <3> QED BY <2>1, <2>3, <3>4
  <2> QED BY <2>2, <2>3
<1>4. \A s \in SUBSET T : s # {} => c[s] \in s
  BY <1>1 DEF Chooses
<1>5. \A s \in SUBSET T : s # {} => G[s \ {c[s]}] = Value(s \ {c[s]})
  <2> SUFFICES ASSUME NEW s \in SUBSET T, s # {} PROVE G[s \ {c[s]}] = Value(s \ {c[s]})
    OBVIOUS
  <2>1. s \ {c[s]} \in SUBSET T /\ s \ {c[s]} # T
    BY <1>4
  <2> HIDE DEF G, Value
  <2> QED BY <2>1, <1>3
<1>6. IsFold(G, T, base, c, h)
  <2> DEFINE H == [s \in SUBSET T |-> IF s = {} THEN base ELSE h[<<c[s], G[s \ {c[s]}]>>]]
  <2>1. \A s \in SUBSET T : G[s] = H[s]
    <3> HIDE DEF Value
    <3> QED BY <1>5
  <2>2. G = H
    <3> HIDE DEF Value
    <3> QED BY <2>1
  <2> HIDE DEF G, Value
  <2> QED BY <2>2 DEF IsFold
<1> QED BY <1>1, <1>6

\* A fold with a step on V stays in V.
LEMMA FoldTyped ==
    ASSUME NEW S, IsFiniteSet(S), NEW c, Chooses(c, S), NEW V, NEW base \in V,
           NEW h \in [S \X V -> V], NEW g, IsFold(g, S, base, c, h)
    PROVE  g \in [SUBSET S -> V]
<1> DEFINE Bad == {s \in SUBSET S : g[s] \notin V}
<1>1. \A s \in SUBSET S : g[s] = IF s = {} THEN base ELSE h[<<c[s], g[s \ {c[s]}]>>]
  BY DEF IsFold
<1>2. Bad = {}
  <2> SUFFICES ASSUME Bad # {} PROVE FALSE
    OBVIOUS
  <2>1. PICK s \in Bad : \A t \in Bad : t \subseteq s => t = s
    <3>1. Bad \in SUBSET SUBSET S /\ Bad # {}
      OBVIOUS
    <3> HIDE DEF Bad
    <3> QED BY <3>1, LeastSubset
  <2>2. s # {} /\ s \in SUBSET S
    BY <2>1, <1>1
  <2>3. c[s] \in s
    BY <2>2 DEF Chooses
  <2>4. g[s \ {c[s]}] \in V
    BY <2>1, <2>2, <2>3
  <2>5. <<c[s], g[s \ {c[s]}]>> \in S \X V
    BY <2>2, <2>3, <2>4
  <2> QED BY <1>1, <2>1, <2>2, <2>5
<1> QED BY <1>2 DEF IsFold

-----------------------------------------------------------------------------
(* Sums over finite sets. *)

SumOver(w, S) == MapThenSumSet(LAMBDA d : w[d], S)

Chosen(s) == CHOOSE x \in s : TRUE
IsSum(g, w, S) ==
    g = [s \in SUBSET S |-> IF s = {} THEN 0 ELSE w[Chosen(s)] + g[s \ {Chosen(s)}]]
PartialSums(w, S) == CHOOSE g : IsSum(g, w, S)

\* The sum is the value of its recursive function, whose values are natural numbers.
LEMMA SumIsDefined ==
    ASSUME NEW S, IsFiniteSet(S), NEW w, \A x \in S : w[x] \in Nat
    PROVE  /\ IsSum(PartialSums(w, S), w, S)
           /\ PartialSums(w, S) \in [SUBSET S -> Nat]
           /\ SumOver(w, S) = PartialSums(w, S)[S]
<1> DEFINE c == [s \in SUBSET S |-> Chosen(s)]
           h == [p \in S \X Nat |-> w[p[1]] + p[2]]
<1>1. Chooses(c, S)
  <2> SUFFICES ASSUME NEW s \in SUBSET S, s # {} PROVE c[s] \in s
    BY DEF Chooses
  <2> QED BY DEF Chosen
<1>2. h \in [S \X Nat -> Nat]
  <2> SUFFICES ASSUME NEW p \in S \X Nat PROVE w[p[1]] + p[2] \in Nat
    OBVIOUS
  <2>1. w[p[1]] \in Nat /\ p[2] \in Nat
    OBVIOUS
  <2> QED BY <2>1
<1>3. PICK g : IsFold(g, S, 0, c, h)
  <2> HIDE DEF c, h
  <2> QED BY <1>1, FoldExists
<1>4. g \in [SUBSET S -> Nat]
  <2>1. 0 \in Nat
    OBVIOUS
  <2> HIDE DEF c, h
  <2> QED BY <1>1, <1>2, <1>3, <2>1, FoldTyped
<1>5. \A f \in [SUBSET S -> Nat] : IsFold(f, S, 0, c, h) <=> IsSum(f, w, S)
  <2> SUFFICES ASSUME NEW f \in [SUBSET S -> Nat]
               PROVE  IsFold(f, S, 0, c, h) <=> IsSum(f, w, S)
    OBVIOUS
  <2>1. \A s \in SUBSET S : s # {} =>
            h[<<c[s], f[s \ {c[s]}]>>] = w[Chosen(s)] + f[s \ {Chosen(s)}]
    <3> SUFFICES ASSUME NEW s \in SUBSET S, s # {}
                 PROVE  h[<<c[s], f[s \ {c[s]}]>>] = w[Chosen(s)] + f[s \ {Chosen(s)}]
      OBVIOUS
    <3>1. c[s] = Chosen(s) /\ Chosen(s) \in S /\ f[s \ {Chosen(s)}] \in Nat
      BY <1>1 DEF Chooses
    <3> HIDE DEF c
    <3> QED BY <3>1
  <2> HIDE DEF c, h
  <2>2. [s \in SUBSET S |-> IF s = {} THEN 0 ELSE h[<<c[s], f[s \ {c[s]}]>>]]
        = [s \in SUBSET S |-> IF s = {} THEN 0 ELSE w[Chosen(s)] + f[s \ {Chosen(s)}]]
    BY <2>1
  <2> QED BY <2>2 DEF IsFold, IsSum
<1>6. IsSum(g, w, S)
  BY <1>3, <1>4, <1>5
<1>7. IsSum(PartialSums(w, S), w, S)
  BY <1>6 DEF PartialSums
<1> DEFINE f == PartialSums(w, S)
           Bad == {s \in SUBSET S : f[s] \notin Nat}
<1>8. Bad = {}
  <2> SUFFICES ASSUME Bad # {} PROVE FALSE
    OBVIOUS
  <2>1. PICK s \in Bad : \A t \in Bad : t \subseteq s => t = s
    <3>1. Bad \in SUBSET SUBSET S /\ Bad # {}
      OBVIOUS
    <3> HIDE DEF Bad
    <3> QED BY <3>1, LeastSubset
  <2>2. f[s] = IF s = {} THEN 0 ELSE w[Chosen(s)] + f[s \ {Chosen(s)}]
    BY <1>7 DEF IsSum
  <2> HIDE DEF f
  <2>3. s # {} /\ Chosen(s) \in s /\ s \subseteq S
    BY <2>1, <2>2 DEF Chosen
  <2>4. f[s \ {Chosen(s)}] \in Nat
    BY <2>1, <2>3
  <2> QED BY <2>1, <2>2, <2>3, <2>4
<1>9. f \in [SUBSET S -> Nat]
  <2> HIDE DEF f
  <2>1. DOMAIN f = SUBSET S /\ f = [s \in SUBSET S |-> f[s]]
    BY <1>7 DEF IsSum, f
  <2> QED BY <1>8, <2>1
<1>10. SumOver(w, S) = PartialSums(w, S)[S]
  BY DEF SumOver, MapThenSumSet, MapThenFoldSet, PartialSums, IsSum, Chosen
<1> QED BY <1>7, <1>9, <1>10

\* The sum over a part is a value of the function of the whole.
LEMMA SumOfPart ==
    ASSUME NEW S, IsFiniteSet(S), NEW w, \A x \in S : w[x] \in Nat, NEW T \in SUBSET S
    PROVE  SumOver(w, T) = PartialSums(w, S)[T]
<1> DEFINE f == PartialSums(w, S)
           g == PartialSums(w, T)
           Bad == {s \in SUBSET T : f[s] # g[s]}
<1>0. IsFiniteSet(T)
  BY FS_Subset
<1>1. IsSum(f, w, S) /\ IsSum(g, w, T) /\ SumOver(w, T) = g[T]
  BY <1>0, SumIsDefined
<1> HIDE DEF f, g
<1>2. Bad = {}
  <2> SUFFICES ASSUME Bad # {} PROVE FALSE
    OBVIOUS
  <2>1. PICK s \in Bad : \A t \in Bad : t \subseteq s => t = s
    <3>1. Bad \in SUBSET SUBSET T /\ Bad # {}
      OBVIOUS
    <3> HIDE DEF Bad
    <3> QED BY <1>0, <3>1, LeastSubset
  <2>2. /\ f[s] = IF s = {} THEN 0 ELSE w[Chosen(s)] + f[s \ {Chosen(s)}]
        /\ g[s] = IF s = {} THEN 0 ELSE w[Chosen(s)] + g[s \ {Chosen(s)}]
    BY <1>1 DEF IsSum
  <2>3. s # {} /\ Chosen(s) \in s
    BY <2>1, <2>2 DEF Chosen
  <2>4. f[s \ {Chosen(s)}] = g[s \ {Chosen(s)}]
    BY <2>1, <2>3
  <2> QED BY <2>1, <2>2, <2>4
<1> QED BY <1>1, <1>2 DEF f

\* One member more adds its weight.
LEMMA SumAdds ==
    ASSUME NEW S, IsFiniteSet(S), NEW w, \A x \in S : w[x] \in Nat, NEW x \in S
    PROVE  /\ SumOver(w, S \ {x}) \in Nat
           /\ SumOver(w, S) = SumOver(w, S \ {x}) + w[x]
<1> DEFINE f == PartialSums(w, S)
           Bad == {s \in SUBSET S : \E y \in s : f[s] # f[s \ {y}] + w[y]}
<1>1. IsSum(f, w, S) /\ f \in [SUBSET S -> Nat]
  BY SumIsDefined
<1>2. SumOver(w, S) = f[S] /\ SumOver(w, S \ {x}) = f[S \ {x}]
  <2>1. S \in SUBSET S /\ S \ {x} \in SUBSET S
    OBVIOUS
  <2> HIDE DEF f
  <2> QED BY <2>1, SumOfPart DEF f
<1> HIDE DEF f
<1>3. Bad = {}
  <2> SUFFICES ASSUME Bad # {} PROVE FALSE
    OBVIOUS
  <2>1. PICK s \in Bad : \A t \in Bad : t \subseteq s => t = s
    <3>1. Bad \in SUBSET SUBSET S /\ Bad # {}
      OBVIOUS
    <3> HIDE DEF Bad
    <3> QED BY <3>1, LeastSubset
  <2>2. PICK y \in s : f[s] # f[s \ {y}] + w[y]
    OBVIOUS
  <2> DEFINE c == Chosen(s)
             t == (s \ {c}) \ {y}
  <2>3. c \in s /\ s \subseteq S
    BY <2>2 DEF Chosen
  <2>4. f[s] = w[c] + f[s \ {c}]
    BY <1>1, <2>2 DEF IsSum
  <2> HIDE DEF c
  <2>5. y # c
    <3> SUFFICES ASSUME y = c PROVE FALSE
      OBVIOUS
    <3>1. f[s \ {y}] \in Nat /\ w[y] \in Nat
      BY <1>1, <2>3
    <3>2. f[s] = w[y] + f[s \ {y}]
      BY <2>4
    <3> QED BY <2>2, <3>1, <3>2
  <2>6. s \ {c} \notin Bad /\ y \in s \ {c}
    BY <2>1, <2>3, <2>5
  <2>7. f[s \ {c}] = f[t] + w[y]
    BY <2>3, <2>6
  <2>8. s \ {y} \notin Bad /\ c \in s \ {y}
    BY <2>1, <2>3, <2>5
  <2>9. f[s \ {y}] = f[(s \ {y}) \ {c}] + w[c]
    BY <2>3, <2>8
  <2>10. (s \ {y}) \ {c} = t
    OBVIOUS
  <2>11. f[t] \in Nat /\ w[y] \in Nat /\ w[c] \in Nat
    BY <1>1, <2>3
  <2>12. f[s \ {y}] = f[t] + w[c]
    BY <2>9, <2>10
  <2>13. f[s] = w[c] + (f[t] + w[y])
    BY <2>4, <2>7
  <2> HIDE DEF t
  <2> QED BY <2>2, <2>11, <2>12, <2>13
<1>4. f[S] = f[S \ {x}] + w[x]
  BY <1>3
<1> QED BY <1>1, <1>2, <1>4

\* A part has no greater sum.
LEMMA SumOfLess ==
    ASSUME NEW S, IsFiniteSet(S), NEW w, \A x \in S : w[x] \in Nat, NEW T \in SUBSET S
    PROVE  /\ SumOver(w, T) \in Nat /\ SumOver(w, S) \in Nat
           /\ SumOver(w, T) <= SumOver(w, S)
<1>1. \A s \in SUBSET S : SumOver(w, s) \in Nat
  <2>1. \A s \in SUBSET S : PartialSums(w, S)[s] \in Nat
    <3>1. PartialSums(w, S) \in [SUBSET S -> Nat]
      BY SumIsDefined
    <3> QED BY <3>1
  <2>2. \A s \in SUBSET S : SumOver(w, s) = PartialSums(w, S)[s]
    BY SumOfPart
  <2> QED BY <2>1, <2>2
<1>2. \A s \in SUBSET S : \A y \in s : SumOver(w, s) = SumOver(w, s \ {y}) + w[y]
  BY FS_Subset, SumAdds
<1> DEFINE Bad == {s \in SUBSET S : T \subseteq s /\ ~(SumOver(w, T) <= SumOver(w, s))}
<1>3. Bad = {}
  <2> SUFFICES ASSUME Bad # {} PROVE FALSE
    OBVIOUS
  <2>1. PICK s \in Bad : \A t \in Bad : t \subseteq s => t = s
    <3>1. Bad \in SUBSET SUBSET S /\ Bad # {}
      OBVIOUS
    <3> HIDE DEF Bad
    <3> QED BY <3>1, LeastSubset
  <2>2. s # T
    BY <1>1, <2>1
  <2>3. PICK y \in s : y \notin T
    BY <2>1, <2>2
  <2>4. SumOver(w, T) <= SumOver(w, s \ {y})
    BY <2>1, <2>3
  <2>5. SumOver(w, s) = SumOver(w, s \ {y}) + w[y]
    BY <1>2, <2>1, <2>3
  <2>6. w[y] \in Nat /\ SumOver(w, T) \in Nat /\ SumOver(w, s \ {y}) \in Nat
    BY <1>1, <2>1, <2>3
  <2>7. ~(SumOver(w, T) <= SumOver(w, s))
    BY <2>1
  <2> HIDE DEF Bad
  <2> QED BY <2>4, <2>5, <2>6, <2>7
<1> QED BY <1>1, <1>3

\* Sums over equal weights are equal.
LEMMA SumDepends ==
    ASSUME NEW S, IsFiniteSet(S), NEW v, NEW w, \A x \in S : v[x] = w[x] /\ w[x] \in Nat
    PROVE  SumOver(v, S) = SumOver(w, S)
<1> DEFINE f == PartialSums(v, S)
           g == PartialSums(w, S)
           Bad == {s \in SUBSET S : f[s] # g[s]}
<1>1. /\ IsSum(f, v, S) /\ IsSum(g, w, S)
      /\ SumOver(v, S) = f[S] /\ SumOver(w, S) = g[S]
  BY SumIsDefined
<1> HIDE DEF f, g
<1>2. Bad = {}
  <2> SUFFICES ASSUME Bad # {} PROVE FALSE
    OBVIOUS
  <2>1. PICK s \in Bad : \A t \in Bad : t \subseteq s => t = s
    <3>1. Bad \in SUBSET SUBSET S /\ Bad # {}
      OBVIOUS
    <3> HIDE DEF Bad
    <3> QED BY <3>1, LeastSubset
  <2>2. /\ f[s] = IF s = {} THEN 0 ELSE v[Chosen(s)] + f[s \ {Chosen(s)}]
        /\ g[s] = IF s = {} THEN 0 ELSE w[Chosen(s)] + g[s \ {Chosen(s)}]
    BY <1>1 DEF IsSum
  <2>3. s # {} /\ Chosen(s) \in s
    BY <2>1, <2>2 DEF Chosen
  <2>4. f[s \ {Chosen(s)}] = g[s \ {Chosen(s)}] /\ v[Chosen(s)] = w[Chosen(s)]
    BY <2>1, <2>3
  <2> QED BY <2>1, <2>2, <2>4
<1> QED BY <1>1, <1>2

\* The sum over nothing, and the range of a sum.
LEMMA SumOfNone == \A w : SumOver(w, {}) = 0
<1> SUFFICES ASSUME NEW w PROVE SumOver(w, {}) = 0
  OBVIOUS
<1>1. IsFiniteSet({}) /\ \A x \in {} : w[x] \in Nat
  BY FS_EmptySet
<1>2. IsSum(PartialSums(w, {}), w, {}) /\ SumOver(w, {}) = PartialSums(w, {})[{}]
  BY <1>1, SumIsDefined
<1> QED BY <1>2 DEF IsSum

LEMMA SumBounded ==
    ASSUME NEW S, IsFiniteSet(S), NEW b \in Nat, NEW w, \A x \in S : w[x] \in 0..b
    PROVE  SumOver(w, S) \in Nat /\ SumOver(w, S) <= b * Cardinality(S)
<1> DEFINE f == PartialSums(w, S)
           Bad == {s \in SUBSET S : ~(f[s] <= b * Cardinality(s))}
<1>0. \A x \in S : w[x] \in Nat
  OBVIOUS
<1>1. IsSum(f, w, S) /\ f \in [SUBSET S -> Nat] /\ SumOver(w, S) = f[S]
  BY <1>0, SumIsDefined
<1> HIDE DEF f
<1>2. Bad = {}
  <2> SUFFICES ASSUME Bad # {} PROVE FALSE
    OBVIOUS
  <2>1. PICK s \in Bad : \A t \in Bad : t \subseteq s => t = s
    <3>1. Bad \in SUBSET SUBSET S /\ Bad # {}
      OBVIOUS
    <3> HIDE DEF Bad
    <3> QED BY <3>1, LeastSubset
  <2>2. f[s] = IF s = {} THEN 0 ELSE w[Chosen(s)] + f[s \ {Chosen(s)}]
    BY <1>1 DEF IsSum
  <2>3. s # {}
    <3>1. Cardinality({}) = 0 /\ b * 0 = 0 /\ 0 <= 0
      BY FS_EmptySet
    <3> QED BY <2>1, <2>2, <3>1
  <2> DEFINE c == Chosen(s)
             t == s \ {c}
  <2>4. c \in s /\ s \subseteq S
    BY <2>3 DEF Chosen
  <2>5. IsFiniteSet(s) /\ Cardinality(s) \in Nat
    BY <2>4, FS_Subset, FS_CardinalityType
  <2>6. Cardinality(t) = Cardinality(s) - 1
    BY <2>4, <2>5, FS_RemoveElement
  <2>7. f[t] <= b * Cardinality(t) /\ f[t] \in Nat
    BY <2>1, <2>4, <1>1
  <2>8. w[c] \in 0..b /\ f[s] = w[c] + f[t]
    BY <2>2, <2>3, <2>4
  <2> HIDE DEF c, t
  <2>9. b * (Cardinality(s) - 1) = b * Cardinality(s) - b /\ b * Cardinality(s) \in Nat
    BY <2>5
  <2>10. f[s] <= b * Cardinality(s)
    BY <2>6, <2>7, <2>8, <2>9
  <2> QED BY <2>1, <2>10
<1> QED BY <1>1, <1>2
=============================================================================
