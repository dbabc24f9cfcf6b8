------------------------- MODULE DeviceGridTheorems -------------------------
(***************************************************************************)
(* The lemmas that the proofs about both placers rest on: sorted sets and  *)
(* filters, the placement policy, and the search for a place on a grid.    *)
(***************************************************************************)
EXTENDS DeviceGrid, FiniteSetTheorems, WellFoundedInduction, TLAPS

-----------------------------------------------------------------------------
(***************************************************************************)
(* Sets of naturals, sorted sequences and filters.                         *)
(***************************************************************************)
\* The relation of the library for < on the naturals, as pairs.
LEMMA LessIsIn == \A y, x \in Nat : y < x => <<y, x>> \in OpToRel(<, Nat)
BY Zenon DEF OpToRel

\* WFMin of the library, with its parameters as bound variables.
LEMMA MinimalIn ==
  \A R, S, T : IsWellFoundedOn(R, S) /\ T \subseteq S /\ T # {}
     => \E x \in T : \A y \in T : ~ (<<y, x>> \in R)
BY WFMin

\* A non-empty set of naturals has a minimal element ...
LEMMA MinimalNat ==
  ASSUME NEW R, IsWellFoundedOn(R, Nat), NEW T, T \subseteq Nat, T # {}
  PROVE  \E x \in T : \A y \in T : ~ (<<y, x>> \in R)
BY MinimalIn, Zenon

\* ... which is its least ...
LEMMA LeastOf ==
  ASSUME NEW R, IsWellFoundedOn(R, Nat), \A y, x \in Nat : y < x => <<y, x>> \in R,
         NEW T, T \subseteq Nat, T # {}
  PROVE  \E m \in T : \A k \in T : m <= k
<1>1. \E x \in T : \A y \in T : ~ (<<y, x>> \in R)
  BY MinimalNat
<1>2. PICK x \in T : \A y \in T : ~(<<y, x>> \in R)
  BY <1>1
<1>3. \A y \in T : ~(y < x)
  BY <1>2
<1>4. x \in Nat /\ \A y \in T : y \in Nat
  OBVIOUS
<1> QED
  BY <1>3, <1>4

(* The least element of a set of naturals.  *)
LEMMA Least ==
  ASSUME NEW T, T \subseteq Nat, T # {}
  PROVE  \E m \in T : \A k \in T : m <= k
BY LeastOf, LessIsIn, NatLessThanWellFounded, Zenon

\* R orders T strictly; the rank of an element is the number of those before it.
StrictOrder(R, T) ==
    /\ \A x \in T : <<x, x>> \notin R
    /\ \A x, y, z \in T : <<x, y>> \in R /\ <<y, z>> \in R => <<x, z>> \in R
    /\ \A x, y \in T : x # y => <<x, y>> \in R \/ <<y, x>> \in R

Rank(R, T, x) == Cardinality({y \in T : <<y, x>> \in R})

\* The rank of an element, the number of those before it, tells the order,
LEMMA RankGrows ==
  ASSUME NEW T, IsFiniteSet(T), NEW R, StrictOrder(R, T), NEW x \in T, NEW y \in T,
         <<x, y>> \in R
  PROVE  Rank(R, T, x) \in Nat /\ Rank(R, T, y) \in Nat /\ Rank(R, T, x) < Rank(R, T, y)
<1> DEFINE A == {z \in T : <<z, x>> \in R}
           B == {z \in T : <<z, y>> \in R}
<1>1. IsFiniteSet(A) /\ IsFiniteSet(B)
  BY FS_Subset
<1>2. A \subseteq B /\ x \in B /\ x \notin A
  BY DEF StrictOrder
<1>3. Cardinality(A) <= Cardinality(B) /\ Cardinality(A) # Cardinality(B)
  BY <1>1, <1>2, FS_Subset
<1>4. Cardinality(A) \in Nat /\ Cardinality(B) \in Nat
  BY <1>1, FS_CardinalityType
<1> QED
  BY <1>3, <1>4 DEF Rank

\* is less than the number of elements,
LEMMA RankBounded ==
  ASSUME NEW T, IsFiniteSet(T), NEW R, StrictOrder(R, T), NEW x \in T
  PROVE  Rank(R, T, x) \in 0 .. Cardinality(T) - 1
<1> DEFINE A == {z \in T : <<z, x>> \in R}
<1>1. IsFiniteSet(A) /\ A \subseteq T /\ x \notin A
  BY FS_Subset DEF StrictOrder
<1>2. Cardinality(A) <= Cardinality(T) /\ Cardinality(A) # Cardinality(T)
  BY <1>1, FS_Subset
<1>3. Cardinality(A) \in Nat /\ Cardinality(T) \in Nat
  BY <1>1, FS_CardinalityType
<1> QED
  BY <1>2, <1>3 DEF Rank

\* and is every number below it once: the ids of the empty epochs leave no gap.
LEMMA RankIsOnto ==
  ASSUME NEW T, IsFiniteSet(T), NEW R, StrictOrder(R, T)
  PROVE  {Rank(R, T, x) : x \in T} = 0 .. Cardinality(T) - 1
<1> DEFINE f == [x \in T |-> Rank(R, T, x)]
           I == 0 .. Cardinality(T) - 1
<1>1. Cardinality(T) \in Nat
  BY FS_CardinalityType
<1>2. IsFiniteSet(I) /\ Cardinality(I) = Cardinality(T)
  BY <1>1, FS_Interval
<1>3. f \in [T -> I]
  BY RankBounded
<1>4. \A x, y \in T : f[x] = f[y] => x = y
  <2> SUFFICES ASSUME NEW x \in T, NEW y \in T, f[x] = f[y], x # y PROVE FALSE
    OBVIOUS
  <2>1. <<x, y>> \in R \/ <<y, x>> \in R
    BY DEF StrictOrder
  <2> QED
    BY <2>1, RankGrows
<1>5. f \in Injection(T, I)
  BY <1>3, <1>4 DEF Injection, IsInjective
<1>6. f \in Surjection(T, I)
  BY <1>2, <1>5, FS_Injection
<1>7. \A i \in I : \E x \in T : f[x] = i
  BY <1>6 DEF Surjection
<1>8. \A x \in T : f[x] = Rank(R, T, x) /\ f[x] \in I
  BY <1>3
<1> HIDE DEF f, I
<1>9. {Rank(R, T, x) : x \in T} = I
  BY <1>7, <1>8
<1> QED
  BY <1>9 DEF I

\* Nth(S, 1), Nth(S, 2), ... are the elements of S in increasing order.
LEMMA NthInOrder ==
  ASSUME NEW S, S \subseteq Int, IsFiniteSet(S)
  PROVE  /\ Cardinality(S) \in Nat
         /\ \A i \in 1 .. Cardinality(S) : Nth(S, i) \in S
         /\ \A i, j \in 1 .. Cardinality(S) : i < j => Nth(S, i) < Nth(S, j)
         /\ \A x \in S : \E i \in 1 .. Cardinality(S) : x = Nth(S, i)
<1> DEFINE R == {p \in S \X S : p[1] < p[2]}
           UpTo(x) == {y \in S : y <= x}
<1>1. Cardinality(S) \in Nat
  BY FS_CardinalityType
<1>2. StrictOrder(R, S)
  BY DEF StrictOrder
<1>21. \A x, y \in S : <<x, y>> \in R <=> x < y
  OBVIOUS
<1>23. \A i : Nth(S, i) = CHOOSE x \in S : Cardinality(UpTo(x)) = i
  BY DEF Nth
<1>24. \A x : UpTo(x) = {y \in S : y <= x}
  OBVIOUS
<1> HIDE DEF R, UpTo
<1>3. ASSUME NEW x \in S
      PROVE  Cardinality(UpTo(x)) = Rank(R, S, x) + 1
  <2> DEFINE A == {y \in S : <<y, x>> \in R}
  <2>0. A \subseteq S /\ x \notin A
    BY <1>2 DEF StrictOrder
  <2>5. \A y \in S : y <= x <=> (<<y, x>> \in R \/ y = x)
    BY <1>21
  <2>3. UpTo(x) = A \cup {x}
    BY <2>5, <1>24
  <2> HIDE DEF A
  <2>1. IsFiniteSet(A) /\ x \notin A /\ UpTo(x) = A \cup {x}
    BY <2>0, <2>3, FS_Subset
  <2>2. Cardinality(UpTo(x)) = Cardinality(A) + 1
    BY <2>1, FS_AddElement
  <2>4. A = {y \in S : <<y, x>> \in R}
    BY DEF A
  <2> QED
    BY <2>2, <2>4 DEF Rank
<1>4. ASSUME NEW i \in 1 .. Cardinality(S)
      PROVE  Nth(S, i) \in S /\ Rank(R, S, Nth(S, i)) = i - 1
  <2>1. i - 1 \in 0 .. Cardinality(S) - 1
    BY <1>1
  <2>6. {Rank(R, S, x) : x \in S} = 0 .. Cardinality(S) - 1
    BY <1>2, RankIsOnto
  <2>2. PICK x \in S : Rank(R, S, x) = i - 1
    BY <2>1, <2>6
  <2>3. Cardinality(UpTo(x)) = i
    BY <2>2, <1>3
  <2>4. Nth(S, i) \in S /\ Cardinality(UpTo(Nth(S, i))) = i
    BY <2>3, <1>23
  <2>5. Rank(R, S, Nth(S, i)) \in 0 .. Cardinality(S) - 1
    BY <2>4, <1>2, RankBounded
  <2>7. Cardinality(UpTo(Nth(S, i))) = Rank(R, S, Nth(S, i)) + 1
    BY <2>4, <1>3
  <2> QED
    BY <2>4, <2>5, <2>7, <1>1
<1>5. ASSUME NEW i \in 1 .. Cardinality(S), NEW j \in 1 .. Cardinality(S), i < j
      PROVE  Nth(S, i) < Nth(S, j)
  <2> SUFFICES ASSUME ~(Nth(S, i) < Nth(S, j)) PROVE FALSE
    OBVIOUS
  <2> DEFINE x == Nth(S, i)
             y == Nth(S, j)
  <2>1. x \in S /\ y \in S /\ Rank(R, S, x) = i - 1 /\ Rank(R, S, y) = j - 1
    BY <1>4
  <2>5. ~(x < y)
    OBVIOUS
  <2> HIDE DEF x, y
  <2>2. x = y \/ <<y, x>> \in R
    <3>1. x \in Int /\ y \in Int
      BY <2>1
    <3> QED
      BY <2>1, <2>5, <3>1, <1>21
  <2>3. x # y
    BY <2>1, <1>1, <1>5
  <2>4. Rank(R, S, y) < Rank(R, S, x)
    BY <2>1, <2>2, <2>3, <1>2, RankGrows
  <2> QED
    BY <2>1, <2>4, <1>1, <1>5
<1>6. ASSUME NEW x \in S
      PROVE  \E i \in 1 .. Cardinality(S) : x = Nth(S, i)
  <2> DEFINE i == Rank(R, S, x) + 1
  <2>1. Rank(R, S, x) \in 0 .. Cardinality(S) - 1
    BY <1>2, RankBounded
  <2>2. i \in 1 .. Cardinality(S)
    BY <2>1, <1>1
  <2>3. Nth(S, i) \in S /\ Rank(R, S, Nth(S, i)) = Rank(R, S, x)
    BY <2>1, <2>2, <1>4, <1>1
  <2>4. x = Nth(S, i)
    <3> SUFFICES ASSUME x # Nth(S, i) PROVE FALSE
      OBVIOUS
    <3> DEFINE y == Nth(S, i)
    <3>1. y \in S /\ Rank(R, S, y) = Rank(R, S, x) /\ x # y
      BY <2>3
    <3> HIDE DEF y
    <3>2. <<x, y>> \in R \/ <<y, x>> \in R
      BY <3>1, <1>2 DEF StrictOrder
    <3> QED
      BY <3>1, <3>2, <1>2, RankGrows
  <2> QED
    BY <2>2, <2>4
<1> QED
  BY <1>1, <1>4, <1>5, <1>6

\* The elements Filter keeps: a map from their places to the places they had.
Selects(f, at, s, S) ==
    /\ at \in [DOMAIN f -> DOMAIN s]
    /\ \A i \in DOMAIN f : f[i] = s[at[i]] /\ s[at[i]] \in S
    /\ \A i, j \in DOMAIN f : i < j => at[i] < at[j]
    /\ \A k \in DOMAIN s : s[k] \in S => \E i \in DOMAIN f : at[i] = k

\* Filter keeps the elements of s that are in S, in their order (a loop with push_back).
LEMMA FilterKeeps ==
  ASSUME NEW X, NEW s \in Seq(X), NEW S
  PROVE  Filter(s, S) \in Seq(X) /\ \E at : Selects(Filter(s, S), at, s, S)
<1> DEFINE K == {k \in DOMAIN s : s[k] \in S}
           kept == Sorted(K)
<1>1. DOMAIN s = 1 .. Len(s) /\ Len(s) \in Nat
  OBVIOUS
<1>20. K \subseteq DOMAIN s
  OBVIOUS
<1>3. kept = [i \in 1 .. Cardinality(K) |-> Nth(K, i)]
  BY DEF Sorted
<1>4. Filter(s, S) = [i \in DOMAIN kept |-> s[kept[i]]]
  BY DEF Filter
<1>5. \A k \in K : k \in DOMAIN s /\ s[k] \in S /\ s[k] \in X
  OBVIOUS
<1>6. \A k \in DOMAIN s : s[k] \in S => k \in K
  OBVIOUS
<1> HIDE DEF K
<1>21. IsFiniteSet(DOMAIN s)
  BY <1>1, FS_Interval
<1>2. K \subseteq Int /\ IsFiniteSet(K)
  BY <1>1, <1>20, <1>21, FS_Subset
<1>7. /\ Cardinality(K) \in Nat
      /\ \A i \in 1 .. Cardinality(K) : Nth(K, i) \in K
      /\ \A i, j \in 1 .. Cardinality(K) : i < j => Nth(K, i) < Nth(K, j)
      /\ \A x \in K : \E i \in 1 .. Cardinality(K) : x = Nth(K, i)
  BY <1>2, NthInOrder
<1> DEFINE n == Cardinality(K)
<1> HIDE DEF kept, n
<1>8. n \in Nat /\ DOMAIN kept = 1 .. n /\ kept \in [1 .. n -> DOMAIN s]
  BY <1>3, <1>5, <1>7 DEF n
<1>9. DOMAIN Filter(s, S) = 1 .. n
  BY <1>4, <1>8
<1>10. \A i \in 1 .. n : kept[i] \in K
  BY <1>3, <1>7 DEF n
<1>11. \A i \in 1 .. n : Filter(s, S)[i] = s[kept[i]] /\ s[kept[i]] \in S /\ s[kept[i]] \in X
  BY <1>4, <1>5, <1>8, <1>10
<1>12. \A i, j \in 1 .. n : i < j => kept[i] < kept[j]
  BY <1>3, <1>7 DEF n
<1>13. \A k \in DOMAIN s : s[k] \in S => \E i \in 1 .. n : kept[i] = k
  BY <1>3, <1>6, <1>7 DEF n
<1>14. Filter(s, S) \in [1 .. n -> X]
  BY <1>4, <1>8, <1>11
<1>15. Filter(s, S) \in Seq(X)
  BY <1>14, <1>8
<1>16. Selects(Filter(s, S), kept, s, S)
  BY <1>8, <1>9, <1>11, <1>12, <1>13 DEF Selects
<1> QED
  BY <1>15, <1>16

\* Filter(s, S) has the elements of s that are in S, once if s has them once.
LEMMA FilterRange ==
  ASSUME NEW X, NEW s \in Seq(X), NEW S
  PROVE  /\ Filter(s, S) \in Seq(X)
         /\ Range(Filter(s, S)) = Range(s) \cap S
         /\ IsInjective(s) => IsInjective(Filter(s, S))
<1> DEFINE f == Filter(s, S)
<1>4. f \in Seq(X) /\ \E at : Selects(f, at, s, S)
  BY FilterKeeps
<1> HIDE DEF f
<1>5. PICK at : Selects(f, at, s, S)
  BY <1>4
<1>1. /\ f \in Seq(X)
      /\ at \in [DOMAIN f -> DOMAIN s]
      /\ \A i \in DOMAIN f : f[i] = s[at[i]] /\ s[at[i]] \in S
      /\ \A i, j \in DOMAIN f : i < j => at[i] < at[j]
      /\ \A k \in DOMAIN s : s[k] \in S => \E i \in DOMAIN f : at[i] = k
  BY <1>4, <1>5 DEF Selects
<1>2. Range(f) = Range(s) \cap S
  <2>1. Range(f) \subseteq Range(s) \cap S
    BY <1>1 DEF Range
  <2>2. ASSUME NEW k \in DOMAIN s, s[k] \in S PROVE s[k] \in Range(f)
    BY <1>1, <2>2 DEF Range
  <2> QED
    BY <2>1, <2>2 DEF Range
<1>3. ASSUME IsInjective(s) PROVE IsInjective(f)
  <2> SUFFICES ASSUME NEW i \in DOMAIN f, NEW j \in DOMAIN f, f[i] = f[j] PROVE i = j
    BY DEF IsInjective
  <2>1. at[i] = at[j]
    BY <1>1, <1>3 DEF IsInjective
  <2>2. i \in Nat /\ j \in Nat /\ at[i] \in Nat /\ at[j] \in Nat
    BY <1>1
  <2>3. ~(i < j) /\ ~(j < i)
    BY <1>1, <2>1, <2>2
  <2> QED
    BY <2>2, <2>3
<1> QED
  BY <1>1, <1>2, <1>3 DEF f
\* A sequence without repetitions is as long as it has elements.
LEMMA LengthOfInjective ==
  ASSUME NEW X, NEW s \in Seq(X), IsInjective(s)
  PROVE  IsFiniteSet(Range(s)) /\ Cardinality(Range(s)) = Len(s)
<1> DEFINE I == 1 .. Len(s)
<1>1. Len(s) \in Nat /\ DOMAIN s = I
  OBVIOUS
<1>2. IsFiniteSet(I) /\ Cardinality(I) = Len(s)
  BY <1>1, FS_Interval
<1>3. s \in Injection(I, Range(s))
  BY <1>1 DEF Injection, Range
<1>4. s \in Surjection(I, Range(s))
  BY <1>1 DEF Surjection, Range
<1>5. ExistsBijection(I, Range(s))
  BY <1>3, <1>4 DEF ExistsBijection, Bijection
<1> QED
  BY <1>2, <1>5, FS_Bijection

\* What the concatenation of two sequences has, and when it repeats nothing.
LEMMA Concatenation ==
  ASSUME NEW X, NEW s \in Seq(X), NEW t \in Seq(X)
  PROVE  /\ s \o t \in Seq(X) /\ Len(s \o t) = Len(s) + Len(t)
         /\ Range(s \o t) = Range(s) \cup Range(t)
         /\ IsInjective(s) /\ IsInjective(t) /\ Range(s) \cap Range(t) = {} => IsInjective(s \o t)
<1> DEFINE u == s \o t
<1>1. /\ u \in Seq(X) /\ Len(u) = Len(s) + Len(t) /\ Len(s) \in Nat /\ Len(t) \in Nat
      /\ DOMAIN u = 1 .. Len(s) + Len(t) /\ DOMAIN s = 1 .. Len(s) /\ DOMAIN t = 1 .. Len(t)
      /\ \A i \in 1 .. Len(s) + Len(t) : u[i] = IF i <= Len(s) THEN s[i] ELSE t[i - Len(s)]
  OBVIOUS
<1> HIDE DEF u
<1>2. \A i \in DOMAIN s : i \in DOMAIN u /\ u[i] = s[i]
  BY <1>1
<1>3. \A i \in DOMAIN t : Len(s) + i \in DOMAIN u /\ u[Len(s) + i] = t[i]
  <2> SUFFICES ASSUME NEW i \in DOMAIN t
               PROVE  Len(s) + i \in DOMAIN u /\ u[Len(s) + i] = t[i]
    OBVIOUS
  <2>1. Len(s) + i \in 1 .. Len(s) + Len(t) /\ ~(Len(s) + i <= Len(s)) /\ (Len(s) + i) - Len(s) = i
    BY <1>1
  <2> QED
    BY <2>1, <1>1
<1>4. \A i \in DOMAIN u : \/ i \in DOMAIN s /\ u[i] = s[i]
                          \/ i - Len(s) \in DOMAIN t /\ u[i] = t[i - Len(s)]
  BY <1>1
<1>5. Range(u) = Range(s) \cup Range(t)
  <2>1. Range(s) \subseteq Range(u) /\ Range(t) \subseteq Range(u)
    BY <1>2, <1>3 DEF Range
  <2>2. Range(u) \subseteq Range(s) \cup Range(t)
    BY <1>4 DEF Range
  <2> QED
    BY <2>1, <2>2
<1>6. ASSUME IsInjective(s), IsInjective(t), Range(s) \cap Range(t) = {}
      PROVE  IsInjective(u)
  <2> SUFFICES ASSUME NEW i \in DOMAIN u, NEW j \in DOMAIN u, u[i] = u[j] PROVE i = j
    BY DEF IsInjective
  <2>1. CASE i \in DOMAIN s /\ u[i] = s[i] /\ j \in DOMAIN s /\ u[j] = s[j]
    BY <2>1, <1>6 DEF IsInjective
  <2>2. CASE /\ i - Len(s) \in DOMAIN t /\ u[i] = t[i - Len(s)]
             /\ j - Len(s) \in DOMAIN t /\ u[j] = t[j - Len(s)]
    <3>1. i - Len(s) = j - Len(s)
      BY <2>2, <1>6 DEF IsInjective
    <3> QED
      BY <3>1, <1>1
  <2>3. CASE i \in DOMAIN s /\ u[i] = s[i] /\ j - Len(s) \in DOMAIN t /\ u[j] = t[j - Len(s)]
    BY <2>3, <1>6 DEF Range
  <2>4. CASE j \in DOMAIN s /\ u[j] = s[j] /\ i - Len(s) \in DOMAIN t /\ u[i] = t[i - Len(s)]
    BY <2>4, <1>6 DEF Range
  <2> QED
    BY <1>4, <2>1, <2>2, <2>3, <2>4
<1> QED
  BY <1>1, <1>5, <1>6 DEF u

\* The reverse of a sequence has the same elements.
LEMMA Reversed ==
  ASSUME NEW X, NEW s \in Seq(X), IsInjective(s)
  PROVE  Reverse(s) \in Seq(X) /\ IsInjective(Reverse(s)) /\ Range(Reverse(s)) = Range(s)
<1> DEFINE r == Reverse(s)
           n == Len(s)
<1>1. n \in Nat /\ DOMAIN s = 1 .. n /\ \A i \in 1 .. n : s[i] \in X
  OBVIOUS
<1>2. r = [i \in 1 .. n |-> s[(n - i) + 1]]
  BY DEF Reverse
<1> HIDE DEF r, n
<1>3. \A i \in 1 .. n : (n - i) + 1 \in 1 .. n /\ (n - ((n - i) + 1)) + 1 = i
  BY <1>1
<1>4. r \in Seq(X) /\ DOMAIN r = 1 .. n
  BY <1>1, <1>2, <1>3
<1>5. IsInjective(r)
  <2> SUFFICES ASSUME NEW i \in 1 .. n, NEW j \in 1 .. n, r[i] = r[j] PROVE i = j
    BY <1>4 DEF IsInjective
  <2>1. (n - i) + 1 = (n - j) + 1
    BY <1>1, <1>2, <1>3 DEF IsInjective
  <2> QED
    BY <2>1, <1>1
<1>6. Range(r) = Range(s)
  <2>1. \A i \in 1 .. n : r[i] = s[(n - i) + 1]
    BY <1>2
  <2>2. \A i \in 1 .. n : s[i] = r[(n - i) + 1]
    BY <1>2, <1>3
  <2>3. /\ \A x : x \in Range(r) <=> \E i \in 1 .. n : x = r[i]
        /\ \A x : x \in Range(s) <=> \E i \in 1 .. n : x = s[i]
    BY <1>1, <1>4 DEF Range
  <2>4. \A x : x \in Range(r) => x \in Range(s)
    BY <2>1, <2>3, <1>3
  <2>5. \A x : x \in Range(s) => x \in Range(r)
    BY <2>2, <2>3, <1>3
  <2> QED
    BY <2>4, <2>5
<1> QED
  BY <1>4, <1>5, <1>6 DEF r

(* The placement policy lists every chip of the device once.                 *)
LEMMA PolicyHasAllChips ==
  ASSUME NEW c, c.chips \in Seq(Nat), IsInjective(c.chips),
         c.galaxy \in Seq(Nat), IsInjective(c.galaxy)
  PROVE  /\ Len(apply_chip_placement_policy(c)) = Len(c.chips)
         /\ apply_chip_placement_policy(c) \in Seq(Nat)
         /\ Range(apply_chip_placement_policy(c)) = Range(c.chips)
         /\ IsInjective(apply_chip_placement_policy(c))
<1> DEFINE first == IF c.galaxy # <<>> THEN Filter(c.galaxy, Range(c.chips))
                    ELSE Filter(c.chips, Range(c.chips) \ Range(c.mmio))
           rest == Filter(c.chips, Range(c.chips) \ Range(first))
<1>0. c.chips \in Seq(Nat) /\ IsInjective(c.chips) /\ c.galaxy \in Seq(Nat) /\ IsInjective(c.galaxy)
  OBVIOUS
<1>1. first \in Seq(Nat) /\ IsInjective(first) /\ Range(first) \subseteq Range(c.chips)
  <2>1. CASE c.galaxy # <<>>
    <3> DEFINE f == Filter(c.galaxy, Range(c.chips))
    <3>1. f \in Seq(Nat) /\ IsInjective(f) /\ Range(f) \subseteq Range(c.chips)
      BY <1>0, FilterRange
    <3> QED
      BY <2>1, <3>1
  <2>2. CASE ~(c.galaxy # <<>>)
    <3> DEFINE f == Filter(c.chips, Range(c.chips) \ Range(c.mmio))
    <3>1. f \in Seq(Nat) /\ IsInjective(f) /\ Range(f) \subseteq Range(c.chips)
      BY <1>0, FilterRange
    <3> QED
      BY <2>2, <3>1
  <2> QED
    BY <2>1, <2>2
<1>2. apply_chip_placement_policy(c) = first \o rest
  BY DEF apply_chip_placement_policy
<1> HIDE DEF first
<1>3. /\ rest \in Seq(Nat) /\ IsInjective(rest)
      /\ Range(rest) = Range(c.chips) \cap (Range(c.chips) \ Range(first))
  BY <1>0, FilterRange
<1> HIDE DEF rest
<1> DEFINE p == first \o rest
<1>4. p \in Seq(Nat) /\ IsInjective(p) /\ Range(p) = Range(first) \cup Range(rest)
  <2>1. Range(first) \cap Range(rest) = {}
    BY <1>3
  <2> QED
    BY <1>1, <1>3, <2>1, Concatenation
<1> HIDE DEF p
<1>5. Range(p) = Range(c.chips)
  BY <1>1, <1>3, <1>4
<1>6. Len(p) = Cardinality(Range(p)) /\ Len(c.chips) = Cardinality(Range(c.chips))
  BY <1>0, <1>4, LengthOfInjective
<1> QED
  BY <1>2, <1>4, <1>5, <1>6 DEF p

-----------------------------------------------------------------------------
(***************************************************************************)
(* The search for a place on the grid.                                     *)
(***************************************************************************)
Pos == Nat \ {0}

\* A set of coordinates has a first one in row-major order (Coord::operator<).
LEMMA FirstOfPairs ==
  ASSUME NEW F, F \subseteq Nat \X Nat, F # {}
  PROVE  \E s \in F : \A t \in F : s = t \/ Before(s, t)
<1> DEFINE A == {s[1] : s \in F}
<1>1. A \subseteq Nat /\ A # {}
  OBVIOUS
<1>2. PICK a \in A : \A k \in A : a <= k
  BY <1>1, Least
<1> DEFINE B == {s[2] : s \in {t \in F : t[1] = a}}
<1>3. B \subseteq Nat /\ B # {}
  BY <1>2
<1>4. PICK b \in B : \A k \in B : b <= k
  BY <1>3, Least
<1>5. PICK s \in F : s[1] = a /\ s[2] = b
  BY <1>4
<1>6. ASSUME NEW t \in F PROVE s = t \/ Before(s, t)
  <2>1. t[1] \in Nat /\ t[2] \in Nat /\ a \in Nat /\ b \in Nat /\ t = <<t[1], t[2]>> /\ s = <<a, b>>
    BY <1>1, <1>3, <1>5
  <2>2. a <= t[1]
    BY <1>2
  <2>3. t[1] = a => b <= t[2]
    BY <1>4
  <2> QED
    BY <2>1, <2>2, <2>3, <1>5 DEF Before
<1> QED
  BY <1>6

\* What get_next_grid_coordinate returns is a free place for the op.
LEMMA NextCoordinate ==
  ASSUME NEW g, g.rows \in Nat, g.cols \in Nat, NEW shape,
         get_next_grid_coordinate(g, shape) # NoCoord
  PROVE  /\ get_next_grid_coordinate(g, shape) \in Nat \X Nat
         /\ can_place_on_device_grid(g, get_next_grid_coordinate(g, shape), shape)
<1> DEFINE F == {s \in (0 .. g.rows - 1) \X (0 .. g.cols - 1) :
                    can_place_on_device_grid(g, s, shape)}
<1>1. F \subseteq Nat \X Nat /\ \A s \in F : can_place_on_device_grid(g, s, shape)
  OBVIOUS
<1>2. get_next_grid_coordinate(g, shape)
        = IF F = {} THEN NoCoord ELSE CHOOSE s \in F : \A t \in F : s = t \/ Before(s, t)
  BY DEF get_next_grid_coordinate
<1> HIDE DEF F
<1>3. F # {}
  BY <1>2
<1>4. get_next_grid_coordinate(g, shape) \in F
  BY <1>1, <1>2, <1>3, FirstOfPairs
<1> QED
  BY <1>1, <1>4

\* A placement on free cores of the grid, where the user wants it.
PlacedRight(r, shape, g, override) ==
    /\ r.start \in Nat \X Nat
    /\ r.shape \in {shape, Transposed(shape)}
    /\ r.transposed \in BOOLEAN
    /\ InGrid(g, r.start, r.shape)
    /\ Cores(r.start, r.shape) \cap g.used = {}
    /\ override.start \in {NoCoord, r.start}

\* A place that is free under the constraint grids is free on the grid of the epoch.
LEMMA OverTheGrid ==
  ASSUME NEW n, NEW m, NEW u, NEW g, g = [rows |-> n, cols |-> m, used |-> u], NEW op, NEW kept
  PROVE  LET over == superposition(g, op, kept)
         IN  /\ over.rows = n /\ over.cols = m
             /\ \A start, shape : can_place_on_device_grid(over, start, shape)
                  => InGrid(g, start, shape) /\ Cores(start, shape) \cap g.used = {}
<1> DEFINE over == superposition(g, op, kept)
<1> DEFINE X == UNION {kept[c].used : c \in DOMAIN kept \ {op}}
<1>4. over = [g EXCEPT !.used = @ \cup X]
  BY DEF superposition
<1> HIDE DEF X, over
<1>1. over = [rows |-> n, cols |-> m, used |-> u \cup X]
  BY <1>4
<1>2. over.rows = n /\ over.cols = m /\ u \subseteq over.used /\ g.rows = n /\ g.cols = m /\ g.used = u
  BY <1>1
<1>3. ASSUME NEW start, NEW shape, can_place_on_device_grid(over, start, shape)
      PROVE  InGrid(g, start, shape) /\ Cores(start, shape) \cap g.used = {}
  BY <1>2, <1>3 DEF can_place_on_device_grid, InGrid
<1> QED
  BY <1>2, <1>3 DEF over

\* What the search of get_placed_coordinate finds is a free place for the op.
LEMMA SearchedRight ==
  ASSUME NEW g, NEW over, NEW shape, NEW manual \in BOOLEAN, NEW auto,
         over.rows \in Nat, over.cols \in Nat,
         \A start, sh : can_place_on_device_grid(over, start, sh)
                  => InGrid(g, start, sh) /\ Cores(start, sh) \cap g.used = {},
         SearchGrid(g, over, shape, manual, auto).res = "placed",
         NEW override, override.start = NoCoord
  PROVE  PlacedRight(SearchGrid(g, over, shape, manual, auto), shape, g, override)
<1> DEFINE local == IF manual THEN Transposed(shape) ELSE shape
           next == get_next_grid_coordinate(over, local)
           nextT == get_next_grid_coordinate(over, Transposed(local))
           apply_auto_transpose ==
            /\ should_try_auto_transpose_op(g, shape, auto, manual)
            /\ next = NoCoord \/ get_active_placement_row_height(g, next) < shape[1]
           transpose ==
            /\ ~can_place_on_device_grid(over, <<0, 0>>, local)
            /\ apply_auto_transpose /\ nextT # NoCoord
            /\ next = NoCoord \/ nextT = next \/ Before(nextT, next)
           r == SearchGrid(g, over, shape, manual, auto)
<1>1. r = IF transpose THEN PlacedAt(nextT, shape, TRUE)
          ELSE IF next = NoCoord THEN Failed("no_room") ELSE PlacedAt(next, shape, manual)
  BY DEF SearchGrid
<1>2. transpose => ~manual /\ nextT # NoCoord /\ local = shape
  BY DEF should_try_auto_transpose_op
<1>3. next # NoCoord => next \in Nat \X Nat /\ can_place_on_device_grid(over, next, local)
  BY NextCoordinate
<1>4. nextT # NoCoord => nextT \in Nat \X Nat /\ can_place_on_device_grid(over, nextT, Transposed(local))
  BY NextCoordinate
<1>5. manual => local = Transposed(shape)
  OBVIOUS
<1>6. ~manual => local = shape
  OBVIOUS
<1>7. Failed("no_room").res # "placed"
  BY DEF Failed
<1>8. r.res = "placed"
  OBVIOUS
<1> HIDE DEF local, next, nextT, apply_auto_transpose, transpose, r
<1>9. CASE transpose
  <2>1. /\ r.start = nextT /\ r.shape = Transposed(shape) /\ r.transposed \in BOOLEAN
    BY <1>1, <1>9 DEF PlacedAt
  <2> QED
    BY <2>1, <1>2, <1>4, <1>9 DEF PlacedRight, r
<1>10. CASE ~transpose
  <2>1. next # NoCoord /\ r = PlacedAt(next, shape, manual)
    BY <1>1, <1>7, <1>8, <1>10
  <2>2. r.start = next /\ r.shape = local /\ r.transposed \in BOOLEAN
    BY <2>1, <1>5, <1>6 DEF PlacedAt
  <2>3. r.shape \in {shape, Transposed(shape)}
    BY <2>2, <1>5, <1>6
  <2> QED
    BY <2>1, <2>2, <2>3, <1>3 DEF PlacedRight, r
<1> QED
  BY <1>9, <1>10 DEF r

(* What get_placed_coordinate returns is free on the grid of the epoch.      *)
LEMMA CoordinateRight ==
  ASSUME NEW n \in Nat, NEW m \in Nat, NEW u, NEW g, g = [rows |-> n, cols |-> m, used |-> u],
         NEW op, NEW shape, NEW override,
         override.start \in {NoCoord} \cup (Nat \X Nat), override.transpose \in BOOLEAN, NEW auto, NEW kept,
         get_placed_coordinate(op, shape, g, override, auto, kept).res = "placed"
  PROVE  PlacedRight(get_placed_coordinate(op, shape, g, override, auto, kept),
                     shape, g, override)
<1> DEFINE over == superposition(g, op, kept)
           manual == override.transpose
           local == IF manual THEN Transposed(shape) ELSE shape
           r == get_placed_coordinate(op, shape, g, override, auto, kept)
           free == satisfies_constraints(op, override.start, local, kept)
           fits == can_place_on_device_grid(over, override.start, local)
           found == SearchGrid(g, over, shape, manual, auto)
           odd == manual /\ ~Transposable(g, shape)
<1>1. r = IF odd THEN Failed("abort")
          ELSE IF override.start = NoCoord THEN found
          ELSE IF ~free THEN Failed("conflict")
          ELSE IF fits THEN PlacedAt(override.start, shape, manual) ELSE Failed("taken")
  BY DEF get_placed_coordinate
<1>2. \A x \in {"abort", "conflict", "taken"} : Failed(x).res # "placed"
  BY DEF Failed
<1>3. r.res = "placed"
  OBVIOUS
<1>4. /\ over.rows = n /\ over.cols = m
      /\ \A start, sh : can_place_on_device_grid(over, start, sh)
           => InGrid(g, start, sh) /\ Cores(start, sh) \cap g.used = {}
  BY OverTheGrid
<1>5. manual \in BOOLEAN /\ override.start \in {NoCoord} \cup (Nat \X Nat)
  OBVIOUS
<1>6. local \in {shape, Transposed(shape)}
  OBVIOUS
<1>7. PlacedAt(override.start, shape, manual).start = override.start
      /\ PlacedAt(override.start, shape, manual).shape = local
      /\ PlacedAt(override.start, shape, manual).transposed \in BOOLEAN
  BY <1>5 DEF PlacedAt
<1> HIDE DEF over, local, r, free, fits, found, odd
<1>8. CASE override.start = NoCoord
  <2>1. r = found
    BY <1>1, <1>2, <1>3, <1>8
  <2>2. found.res = "placed"
    BY <2>1, <1>3
  <2> QED
    BY <2>1, <2>2, <1>4, <1>5, <1>8, SearchedRight DEF found, r
<1>9. CASE override.start # NoCoord
  <2>1. fits /\ r = PlacedAt(override.start, shape, manual)
    BY <1>1, <1>2, <1>3, <1>9
  <2>2. InGrid(g, override.start, local) /\ Cores(override.start, local) \cap g.used = {}
    BY <2>1, <1>4 DEF fits
  <2> QED
    BY <2>1, <2>2, <1>5, <1>6, <1>7, <1>9 DEF PlacedRight, r
<1> QED
  BY <1>8, <1>9

\* What it returns has the shape of the op, turned if it is reported as transposed.
LEMMA CoordinateShape ==
  ASSUME NEW op, NEW shape \in Pos \X Pos, NEW g, NEW override, override.transpose \in BOOLEAN,
         NEW auto, NEW kept,
         get_placed_coordinate(op, shape, g, override, auto, kept).res = "placed"
  PROVE  LET r == get_placed_coordinate(op, shape, g, override, auto, kept)
         IN  r.shape = IF r.transposed THEN Transposed(shape) ELSE shape
<1> DEFINE r == get_placed_coordinate(op, shape, g, override, auto, kept)
           over == superposition(g, op, kept)
           manual == override.transpose
           local == IF manual THEN Transposed(shape) ELSE shape
           found == SearchGrid(g, over, shape, manual, auto)
<1>1. \A x : Failed(x).res = x
  BY DEF Failed
<1>2. found.res = "placed" => \E s, tr : tr \in BOOLEAN /\ found = PlacedAt(s, shape, tr)
  <2> DEFINE next == get_next_grid_coordinate(over, local)
             nextT == get_next_grid_coordinate(over, Transposed(local))
  <2>1. \/ found = PlacedAt(nextT, shape, TRUE) \/ found = Failed("no_room")
        \/ found = PlacedAt(next, shape, manual)
    BY DEF SearchGrid
  <2> HIDE DEF next, nextT, found
  <2> QED
    BY <1>1, <2>1
<1>3. \/ \E x \in {"abort", "conflict", "taken"} : r = Failed(x)
      \/ r = found \/ r = PlacedAt(override.start, shape, manual)
  BY DEF get_placed_coordinate
<1> HIDE DEF found, r
<1>4. r.res = "placed"
  BY DEF r
<1>5. PICK s, tr : tr \in BOOLEAN /\ r = PlacedAt(s, shape, tr)
  BY <1>1, <1>2, <1>3, <1>4
<1>6. /\ r.transposed = (tr /\ shape[1] # shape[2])
      /\ r.shape = IF tr THEN Transposed(shape) ELSE shape
  BY <1>5 DEF PlacedAt
<1>7. shape[1] = shape[2] => Transposed(shape) = shape
  BY DEF Transposed
<1> QED
  BY <1>5, <1>6, <1>7 DEF r

\* Max of a bounded set of naturals is its greatest element.
LEMMA Greatest ==
  ASSUME NEW n \in Nat, NEW T, T \subseteq 0 .. n, T # {}
  PROVE  Max(T) \in T /\ \A k \in T : Max(T) >= k
<1> DEFINE D == {n - x : x \in T}
<1>1. D \subseteq Nat /\ D # {}
  <2>1. \A x \in T : n - x \in Nat
    OBVIOUS
  <2> QED
    BY <2>1
<1>2. PICK m \in D : \A k \in D : m <= k
  BY <1>1, Least
<1>3. PICK x \in T : m = n - x
  OBVIOUS
<1>5. \A k \in T : n - k \in D
  OBVIOUS
<1> HIDE DEF D
<1>4. \A k \in T : x >= k
  <2> SUFFICES ASSUME NEW k \in T PROVE x >= k
    OBVIOUS
  <2>1. n - k \in D
    BY <1>5
  <2>2. n - x <= n - k /\ k \in Int /\ x \in Int
    BY <1>2, <1>3, <2>1
  <2> QED
    BY <2>2
<1> QED
  BY <1>4 DEF Max

\* Min of a set of naturals is its least element.
LEMMA Smallest ==
  ASSUME NEW T, T \subseteq Nat, T # {}
  PROVE  Min(T) \in T /\ \A k \in T : Min(T) <= k
BY Least DEF Min

\* A remainder is below the divisor.
LEMMA ModRange ==
  ASSUME NEW a \in Int, NEW n \in Pos
  PROVE  a % n \in 0 .. n - 1
BY DEF Pos
=============================================================================
