------------------------- MODULE GraphSolverProofs -------------------------
(***************************************************************************)
(* Proofs about GraphSolver, for every graph, cost, limit and problem.     *)
(*                                                                         *)
(* The loops of the solver are recursive functions, so what they compute   *)
(* is got from the rounds: LoopExists gives the function of the values     *)
(* after each round, Induct carries a fact from round to round.            *)
(*                                                                         *)
(* The invariants: SoundState (the tables agree), SolutionsKept (every     *)
(* solution is on offer), Checked (an edge is consistent or an end of it   *)
(* is on the work list), Picked (a selected node has one model that is not *)
(* disabled), Lonely (a node without edges is not pruned), CostChecked     *)
(* (the costs at a selected node were checked or it is on the work list).  *)
(***************************************************************************)
EXTENDS GraphSolver, FiniteSetTheorems, WellFoundedInduction, TLAPS

-----------------------------------------------------------------------------
\* Loops: what the recursive functions of the model compute, round by round.

\* The relation of the library for < on the naturals, as pairs.
LEMMA LessIsIn == \A y, x \in Nat : y < x => <<y, x>> \in OpToRel(<, Nat)
BY Zenon DEF OpToRel

\* WFMin of the library, with its parameters as bound variables.
LEMMA MinimalIn ==
  \A R, S, T : IsWellFoundedOn(R, S) /\ T \subseteq S /\ T # {}
     => \E x \in T : \A y \in T : ~ (<<y, x>> \in R)
BY WFMin

\* The same for a set of naturals ...
LEMMA MinimalNat ==
  ASSUME NEW R, IsWellFoundedOn(R, Nat), NEW T, T \subseteq Nat, T # {}
  PROVE  \E x \in T : \A y \in T : ~ (<<y, x>> \in R)
BY MinimalIn, Zenon

\* ... and a minimal element of it is its least ...
LEMMA LeastOf ==
  ASSUME NEW R, IsWellFoundedOn(R, Nat), \A y, x \in Nat : y < x => <<y, x>> \in R,
         NEW T, T \subseteq Nat, T # {}
  PROVE  \E m \in T : \A k \in T : m <= k
<1>1. \E x \in T : \A y \in T : ~ (<<y, x>> \in R)
  BY MinimalNat
<1>2. PICK x \in T : \A y \in T : ~(<<y, x>> \in R)
  BY <1>1
<1>3. \A y \in T : ~(y < x)
  BY <1>2
<1>4. x \in Nat /\ \A y \in T : y \in Nat
  OBVIOUS
<1> QED
  BY <1>3, <1>4

\* ... so that a non-empty set of naturals has a least element.
LEMMA Least ==
  ASSUME NEW T, T \subseteq Nat, T # {}
  PROVE  \E m \in T : \A k \in T : m <= k
BY LeastOf, LessIsIn, NatLessThanWellFounded, Zenon

\* A set with 0 and with the successor of each of its elements has every number up to n.
LEMMA Induct ==
  ASSUME NEW n \in Nat, NEW S, 0 \in S, \A i \in 1 .. n : i - 1 \in S => i \in S
  PROVE  \A i \in 0 .. n : i \in S
<1> DEFINE Bad == {i \in 0 .. n : i \notin S}
<1> SUFFICES ASSUME Bad # {} PROVE FALSE
  OBVIOUS
<1>1. PICK m \in Bad : \A k \in Bad : m <= k
  <2>1. Bad \subseteq Nat
    OBVIOUS
  <2> HIDE DEF Bad
  <2> QED
    BY <2>1, Least
<1>2. m \in 1 .. n
  BY <1>1
<1>3. m - 1 \in 0 .. n /\ m - 1 \notin Bad
  BY <1>1, <1>2
<1> QED
  BY <1>1, <1>2, <1>3

\* A loop of n rounds from a, round i of which takes v to H[<<v, i>>].
LoopOf(n, a, H, f) == f = [i \in 0 .. n |-> IF i = 0 THEN a ELSE H[<<f[i - 1], i>>]]

\* There is the function of the values after each round.
LEMMA LoopExists ==
  ASSUME NEW T, NEW n \in Nat, NEW a \in T, NEW H \in [T \X (1 .. n) -> T]
  PROVE  \E f : LoopOf(n, a, H, f) /\ f \in [0 .. n -> T]
<1> DEFINE Loops == {k \in 0 .. n : \E f : LoopOf(k, a, H, f) /\ f \in [0 .. k -> T]}
<1>1. 0 \in Loops
  <2> DEFINE f == [i \in 0 .. 0 |-> a]
  <2>1. f = [i \in 0 .. 0 |-> IF i = 0 THEN a ELSE H[<<f[i - 1], i>>]] /\ f \in [0 .. 0 -> T]
    OBVIOUS
  <2> HIDE DEF f
  <2> QED
    BY <2>1 DEF LoopOf
<1>2. ASSUME NEW k \in 1 .. n, k - 1 \in Loops PROVE k \in Loops
  <2>1. PICK g : LoopOf(k - 1, a, H, g) /\ g \in [0 .. k - 1 -> T]
    BY <1>2
  <2>2. g = [i \in 0 .. k - 1 |-> IF i = 0 THEN a ELSE H[<<g[i - 1], i>>]]
    BY <2>1 DEF LoopOf
  <2> DEFINE f == [i \in 0 .. k |-> IF i = 0 THEN a ELSE H[<<g[i - 1], i>>]]
  <2>3. \A i \in 0 .. k - 1 : f[i] = g[i]
    BY <2>2
  <2>4. \A i \in 0 .. k : i # 0 => f[i - 1] = g[i - 1]
    <3> HIDE DEF f
    <3> QED
      BY <2>3
  <2>5. f = [i \in 0 .. k |-> IF i = 0 THEN a ELSE H[<<f[i - 1], i>>]]
    BY <2>4
  <2>6. \A i \in 0 .. k : f[i] \in T
    <3> SUFFICES ASSUME NEW i \in 0 .. k PROVE f[i] \in T
      OBVIOUS
    <3>1. CASE i = 0
      BY <3>1
    <3>2. CASE i # 0
      <4>1. i - 1 \in 0 .. k - 1 /\ i \in 1 .. n
        BY <3>2
      <4>2. <<g[i - 1], i>> \in T \X (1 .. n)
        BY <4>1, <2>1
      <4>3. H[<<g[i - 1], i>>] \in T
        BY <4>2
      <4> QED
        BY <3>2, <4>3
    <3> QED
      BY <3>1, <3>2
  <2>7. f \in [0 .. k -> T]
    BY <2>6
  <2> HIDE DEF f
  <2>8. LoopOf(k, a, H, f)
    BY <2>5 DEF LoopOf
  <2> QED
    BY <2>7, <2>8
<1>3. \A k \in 0 .. n : k \in Loops
  <2> HIDE DEF Loops
  <2> QED
    BY <1>1, <1>2, Induct
<1> QED
  BY <1>3

\* The elements of a sequence that are in a set.
LEMMA OnlyIs ==
  ASSUME NEW T, NEW s \in Seq(T), NEW S
  PROVE  Only(s, S) \in Seq(T) /\ Range(Only(s, S)) = Range(s) \cap S
<1> DEFINE n == Len(s)
           H == [p \in Seq(T) \X (1 .. n) |->
                    p[1] \o (IF s[p[2]] \in S THEN <<s[p[2]]>> ELSE <<>>)]
           upTo == CHOOSE f : f = [i \in 0 .. Len(s) |->
                     IF i = 0 THEN <<>>
                     ELSE f[i - 1] \o (IF s[i] \in S THEN <<s[i]>> ELSE <<>>)]
<1>0. n \in Nat /\ \A i \in 1 .. n : s[i] \in T
  OBVIOUS
<1>1. H \in [Seq(T) \X (1 .. n) -> Seq(T)]
  OBVIOUS
<1>2. \E f : LoopOf(n, <<>>, H, f) /\ f \in [0 .. n -> Seq(T)]
  <2> HIDE DEF H, n
  <2>1. <<>> \in Seq(T)
    OBVIOUS
  <2> QED
    BY <1>0, <1>1, <2>1, LoopExists
<1>3. PICK f : LoopOf(n, <<>>, H, f) /\ f \in [0 .. n -> Seq(T)]
  BY <1>2
<1>4. \A i \in 1 .. n : H[<<f[i - 1], i>>] = f[i - 1] \o (IF s[i] \in S THEN <<s[i]>> ELSE <<>>)
  <2> SUFFICES ASSUME NEW i \in 1 .. n
               PROVE  H[<<f[i - 1], i>>] = f[i - 1] \o (IF s[i] \in S THEN <<s[i]>> ELSE <<>>)
    OBVIOUS
  <2>1. f[i - 1] \in Seq(T)
    BY <1>3
  <2> QED
    BY <2>1
<1>5. f = [i \in 0 .. Len(s) |-> IF i = 0 THEN <<>>
             ELSE f[i - 1] \o (IF s[i] \in S THEN <<s[i]>> ELSE <<>>)]
  <2>1. f = [i \in 0 .. n |-> IF i = 0 THEN <<>> ELSE H[<<f[i - 1], i>>]]
    BY <1>3 DEF LoopOf
  <2> DEFINE R(i) == f[i - 1] \o (IF s[i] \in S THEN <<s[i]>> ELSE <<>>)
  <2>2. \A i \in 0 .. n : i # 0 => H[<<f[i - 1], i>>] = R(i)
    <3> HIDE DEF H, n
    <3>1. \A i \in 0 .. n : i # 0 => i \in 1 .. n
      BY <1>0
    <3> QED
      BY <3>1, <1>4
  <2> HIDE DEF H, R
  <2>3. f = [i \in 0 .. n |-> IF i = 0 THEN <<>> ELSE R(i)]
    BY <2>1, <2>2
  <2> QED
    BY <2>3 DEF R
<1>6. upTo = [i \in 0 .. Len(s) |-> IF i = 0 THEN <<>>
             ELSE upTo[i - 1] \o (IF s[i] \in S THEN <<s[i]>> ELSE <<>>)]
  <2> HIDE DEF H
  <2> QED
    BY <1>5
<1>7. Only(s, S) = upTo[n]
  BY DEF Only
<1>71. \A i \in 1 .. n : upTo[i] = upTo[i - 1] \o (IF s[i] \in S THEN <<s[i]>> ELSE <<>>)
  <2> DEFINE R(i) == upTo[i - 1] \o (IF s[i] \in S THEN <<s[i]>> ELSE <<>>)
  <2>1. upTo = [i \in 0 .. n |-> IF i = 0 THEN <<>> ELSE R(i)]
    BY <1>6
  <2> HIDE DEF upTo, R, n
  <2>2. \A i \in 1 .. n : upTo[i] = R(i)
    BY <2>1, <1>0
  <2> QED
    BY <2>2 DEF R
<1>72. upTo[0] = <<>>
  <2> HIDE DEF upTo
  <2> QED
    BY <1>6, <1>0
<1> HIDE DEF upTo, H
<1> DEFINE Good == {i \in 0 .. n : /\ upTo[i] \in Seq(T)
                                   /\ Range(upTo[i]) = {s[j] : j \in 1 .. i} \cap S}
<1>8. 0 \in Good
  <2>1. {s[j] : j \in 1 .. 0} = {} /\ Range(<<>>) = {}
    BY DEF Range
  <2>2. <<>> \in Seq(T) /\ 0 \in 0 .. n
    BY <1>0
  <2>3. upTo[0] \in Seq(T) /\ Range(upTo[0]) = {s[j] : j \in 1 .. 0} \cap S
    BY <2>1, <2>2, <1>72
  <2> QED
    BY <2>2, <2>3
<1>9. ASSUME NEW i \in 1 .. n, i - 1 \in Good PROVE i \in Good
  <2> DEFINE q == upTo[i - 1]
             t == IF s[i] \in S THEN <<s[i]>> ELSE <<>>
  <2>1. upTo[i] = q \o t
    BY <1>71
  <2>2. q \in Seq(T) /\ Range(q) = {s[j] : j \in 1 .. (i - 1)} \cap S
    BY <1>9
  <2>3. t \in Seq(T) /\ Range(t) = {s[i]} \cap S
    BY DEF Range
  <2>4. \A a, b \in Seq(T) : a \o b \in Seq(T) /\ Range(a \o b) = Range(a) \cup Range(b)
    <3> SUFFICES ASSUME NEW a \in Seq(T), NEW b \in Seq(T) PROVE Range(a \o b) = Range(a) \cup Range(b)
      OBVIOUS
    <3>1. Range(a \o b) \subseteq Range(a) \cup Range(b)
      BY DEF Range
    <3>2. ASSUME NEW k \in DOMAIN a PROVE a[k] \in Range(a \o b)
      <4>1. (a \o b)[k] = a[k] /\ k \in DOMAIN (a \o b)
        OBVIOUS
      <4> QED
        BY <4>1 DEF Range
    <3>3. ASSUME NEW k \in DOMAIN b PROVE b[k] \in Range(a \o b)
      <4>1. (a \o b)[Len(a) + k] = b[k] /\ Len(a) + k \in DOMAIN (a \o b)
        OBVIOUS
      <4> QED
        BY <4>1 DEF Range
    <3> QED
      BY <3>1, <3>2, <3>3 DEF Range
  <2>5. {s[j] : j \in 1 .. i} = {s[j] : j \in 1 .. (i - 1)} \cup {s[i]}
    OBVIOUS
  <2> HIDE DEF q, t
  <2>6. Range(q \o t) = {s[j] : j \in 1 .. i} \cap S /\ q \o t \in Seq(T)
    BY <2>2, <2>3, <2>4, <2>5
  <2>7. upTo[i] \in Seq(T) /\ Range(upTo[i]) = {s[j] : j \in 1 .. i} \cap S
    BY <2>6, <2>1
  <2> QED
    BY <2>7
<1>10. \A i \in 0 .. n : i \in Good
  <2> HIDE DEF Good, n
  <2> QED
    BY <1>0, <1>8, <1>9, Induct
<1>11. n \in Good
  <2> HIDE DEF Good, n
  <2> QED
    BY <1>0, <1>10
<1>12. Range(s) = {s[j] : j \in 1 .. n}
  BY DEF Range
<1> QED
  BY <1>11, <1>7, <1>12

-----------------------------------------------------------------------------
\* Sums and concatenations.

\* The sum of a sequence of naturals, term by term.
LEMMA SumIs ==
  ASSUME NEW s \in Seq(Nat)
  PROVE  \E f \in [0 .. Len(s) -> Nat] :
            f[0] = 0 /\ SumOf(s) = f[Len(s)] /\ \A i \in 1 .. Len(s) : f[i] = f[i - 1] + s[i]
<1> DEFINE n == Len(s)
           H == [p \in Nat \X (1 .. n) |-> p[1] + s[p[2]]]
           upTo == CHOOSE f : f = [i \in 0 .. Len(s) |-> IF i = 0 THEN 0 ELSE f[i - 1] + s[i]]
<1>1. n \in Nat /\ \A i \in 1 .. n : s[i] \in Nat
  OBVIOUS
<1>2. H \in [Nat \X (1 .. n) -> Nat]
  OBVIOUS
<1>3. PICK f : LoopOf(n, 0, H, f) /\ f \in [0 .. n -> Nat]
  <2> HIDE DEF H, n
  <2> QED
    BY <1>1, <1>2, LoopExists
<1>4. \A i \in 0 .. n : i # 0 => H[<<f[i - 1], i>>] = f[i - 1] + s[i]
  <2> SUFFICES ASSUME NEW i \in 1 .. n PROVE H[<<f[i - 1], i>>] = f[i - 1] + s[i]
    <3> HIDE DEF H, n
    <3> QED
      BY <1>1
  <2>1. f[i - 1] \in Nat
    <3> HIDE DEF H, n
    <3> QED
      BY <1>3, <1>1
  <2> QED
    BY <2>1
<1>5. f = [i \in 0 .. n |-> IF i = 0 THEN 0 ELSE f[i - 1] + s[i]]
  <2>1. f = [i \in 0 .. n |-> IF i = 0 THEN 0 ELSE H[<<f[i - 1], i>>]]
    BY <1>3 DEF LoopOf
  <2> HIDE DEF H, n
  <2> QED
    BY <2>1, <1>4
<1>6. upTo = [i \in 0 .. n |-> IF i = 0 THEN 0 ELSE upTo[i - 1] + s[i]]
  <2> HIDE DEF H
  <2> QED
    BY <1>5
<1>7. SumOf(s) = upTo[n]
  BY DEF SumOf
<1> HIDE DEF upTo, H, n
<1>8. upTo[0] = 0 /\ \A i \in 1 .. n : upTo[i] = upTo[i - 1] + s[i]
  BY <1>1, <1>6
<1>9. \A i \in 0 .. n : upTo[i] \in Nat
  <2> DEFINE Good == {i \in 0 .. n : upTo[i] \in Nat}
  <2>1. 0 \in Good
    BY <1>1, <1>8
  <2>2. ASSUME NEW i \in 1 .. n, i - 1 \in Good PROVE i \in Good
    <3>1. upTo[i - 1] \in Nat /\ s[i] \in Nat
      BY <2>2, <1>1
    <3>2. upTo[i] \in Nat
      BY <3>1, <1>8
    <3> QED
      BY <3>2, <1>1
  <2>3. \A i \in 0 .. n : i \in Good
    <3> HIDE DEF Good
    <3> QED
      BY <2>1, <2>2, <1>1, Induct
  <2> QED
    BY <2>3
<1>10. upTo \in [0 .. n -> Nat]
  BY <1>6, <1>9
<1> QED
  BY <1>7, <1>8, <1>10 DEF n

\* Sums are ordered as their terms are.
LEMMA SumMonotone ==
  ASSUME NEW s \in Seq(Nat), NEW t \in Seq(Nat), Len(s) = Len(t),
         \A i \in 1 .. Len(s) : s[i] <= t[i]
  PROVE  SumOf(s) <= SumOf(t) /\ SumOf(s) \in Nat /\ SumOf(t) \in Nat
<1>1. PICK f \in [0 .. Len(s) -> Nat] :
         f[0] = 0 /\ SumOf(s) = f[Len(s)] /\ \A i \in 1 .. Len(s) : f[i] = f[i - 1] + s[i]
  BY SumIs
<1>2. PICK g \in [0 .. Len(t) -> Nat] :
         g[0] = 0 /\ SumOf(t) = g[Len(t)] /\ \A i \in 1 .. Len(t) : g[i] = g[i - 1] + t[i]
  BY SumIs
<1> DEFINE n == Len(s)
           Good == {i \in 0 .. n : f[i] <= g[i]}
<1>3. n \in Nat /\ n = Len(t) /\ \A i \in 1 .. n : s[i] \in Nat /\ t[i] \in Nat /\ s[i] <= t[i]
  OBVIOUS
<1> HIDE DEF n
<1>4. f \in [0 .. n -> Nat] /\ g \in [0 .. n -> Nat]
      /\ \A i \in 1 .. n : f[i] = f[i - 1] + s[i] /\ g[i] = g[i - 1] + t[i]
  BY <1>1, <1>2, <1>3 DEF n
<1>5. 0 \in Good
  BY <1>1, <1>2, <1>3
<1>6. ASSUME NEW i \in 1 .. n, i - 1 \in Good PROVE i \in Good
  <2>1. f[i - 1] <= g[i - 1] /\ f[i - 1] \in Nat /\ g[i - 1] \in Nat
    BY <1>4, <1>6
  <2>2. s[i] \in Nat /\ t[i] \in Nat /\ s[i] <= t[i]
    BY <1>3
  <2>3. f[i] = f[i - 1] + s[i] /\ g[i] = g[i - 1] + t[i]
    BY <1>4
  <2>4. f[i] <= g[i]
    BY <2>1, <2>2, <2>3
  <2> QED
    BY <2>4, <1>3
<1>7. \A i \in 0 .. n : i \in Good
  <2> HIDE DEF Good
  <2> QED
    BY <1>3, <1>5, <1>6, Induct
<1>8. f[n] <= g[n] /\ f[n] \in Nat /\ g[n] \in Nat
  BY <1>7, <1>3, <1>4
<1> QED
  BY <1>8, <1>1, <1>2, <1>3 DEF n

\* The elements of a concatenation.
LEMMA RangeOfConcat ==
  ASSUME NEW T, NEW a \in Seq(T), NEW b \in Seq(T)
  PROVE  a \o b \in Seq(T) /\ Range(a \o b) = Range(a) \cup Range(b)
<1>1. Range(a \o b) \subseteq Range(a) \cup Range(b)
  BY DEF Range
<1>2. ASSUME NEW k \in DOMAIN a PROVE a[k] \in Range(a \o b)
  <2>1. (a \o b)[k] = a[k] /\ k \in DOMAIN (a \o b)
    OBVIOUS
  <2> QED
    BY <2>1 DEF Range
<1>3. ASSUME NEW k \in DOMAIN b PROVE b[k] \in Range(a \o b)
  <2>1. (a \o b)[Len(a) + k] = b[k] /\ Len(a) + k \in DOMAIN (a \o b)
    OBVIOUS
  <2> QED
    BY <2>1 DEF Range
<1>4. Range(a) \subseteq Range(a \o b)
  BY <1>2 DEF Range
<1>5. Range(b) \subseteq Range(a \o b)
  BY <1>3 DEF Range
<1> QED
  BY <1>1, <1>4, <1>5

\* The elements of a sequence of sequences, made one.
LEMMA FlattenIs ==
  ASSUME NEW T, NEW s \in Seq(Seq(T))
  PROVE  /\ FlattenSeq(s) \in Seq(T)
         /\ Range(FlattenSeq(s)) = UNION {Range(s[i]) : i \in DOMAIN s}
<1> DEFINE n == Len(s)
           H == [p \in Seq(T) \X (1 .. n - 1) |-> p[1] \o s[p[2] + 1]]
           flatten == CHOOSE f :
                         f = [i \in 1 .. Len(s) |-> IF i = 1 THEN s[i] ELSE f[i - 1] \o s[i]]
<1>1. CASE n = 0
  <2>1. s = <<>> /\ DOMAIN s = {}
    BY <1>1
  <2>2. FlattenSeq(s) = <<>>
    BY <2>1, <1>1 DEF FlattenSeq
  <2>3. Range(<<>>) = {}
    BY DEF Range
  <2>4. UNION {Range(s[i]) : i \in DOMAIN s} = {}
    BY <2>1
  <2> QED
    BY <2>2, <2>3, <2>4
<1>2. CASE n # 0
  <2>1. n \in Nat /\ n - 1 \in Nat /\ \A i \in 1 .. n : s[i] \in Seq(T)
    BY <1>2
  <2>2. H \in [Seq(T) \X (1 .. n - 1) -> Seq(T)]
    BY <2>1
  <2>3. s[1] \in Seq(T)
    BY <2>1
  <2>4. PICK f : LoopOf(n - 1, s[1], H, f) /\ f \in [0 .. n - 1 -> Seq(T)]
    <3> HIDE DEF H, n
    <3> QED
      BY <2>1, <2>2, <2>3, LoopExists
  <2> DEFINE g == [i \in 1 .. n |-> f[i - 1]]
  <2>5. \A i \in 1 .. n : f[i - 1] = (IF i = 1 THEN s[i] ELSE g[i - 1] \o s[i])
    <3> SUFFICES ASSUME NEW i \in 1 .. n
                 PROVE  f[i - 1] = (IF i = 1 THEN s[i] ELSE g[i - 1] \o s[i])
      OBVIOUS
    <3>1. f = [j \in 0 .. n - 1 |-> IF j = 0 THEN s[1] ELSE H[<<f[j - 1], j>>]]
      BY <2>4 DEF LoopOf
    <3>2. i - 1 \in 0 .. n - 1
      BY <2>1
    <3>3. CASE i = 1
      <4> HIDE DEF H, n
      <4> QED
        BY <3>1, <3>2, <3>3
    <3>4. CASE i # 1
      <4>1. i - 1 \in 1 .. n - 1 /\ i - 2 \in 0 .. n - 1 /\ i - 1 \in 1 .. n /\ (i - 1) - 1 = i - 2
        BY <3>4, <2>1
      <4>2. f[i - 1] = H[<<f[i - 2], i - 1>>]
        <5> HIDE DEF H, n
        <5> QED
          BY <3>1, <3>2, <4>1
      <4>3. f[i - 2] \in Seq(T) /\ (i - 1) + 1 = i
        <5> HIDE DEF H, n
        <5> QED
          BY <2>4, <4>1
      <4>4. H[<<f[i - 2], i - 1>>] = f[i - 2] \o s[i]
        BY <4>1, <4>3
      <4>5. g[i - 1] = f[i - 2]
        BY <4>1
      <4> QED
        BY <4>2, <4>4, <4>5, <3>4
    <3> QED
      BY <3>3, <3>4
  <2>6. g = [i \in 1 .. n |-> IF i = 1 THEN s[i] ELSE g[i - 1] \o s[i]]
    BY <2>5
  <2> HIDE DEF g
  <2>7. flatten = [i \in 1 .. n |-> IF i = 1 THEN s[i] ELSE flatten[i - 1] \o s[i]]
    <3> HIDE DEF H
    <3> QED
      BY <2>6
  <2>8. FlattenSeq(s) = flatten[n]
    BY <1>2 DEF FlattenSeq
  <2> HIDE DEF flatten, H, n
  <2> DEFINE Good == {i \in 0 .. n - 1 : /\ flatten[i + 1] \in Seq(T)
                        /\ \A x : x \in Range(flatten[i + 1])
                                    <=> \E j \in 1 .. (i + 1) : x \in Range(s[j])}
  <2>9. flatten[1] = s[1] /\ \A i \in 1 .. n - 1 : flatten[i + 1] = flatten[i] \o s[i + 1]
    <3>1. 1 \in 1 .. n /\ \A i \in 1 .. n - 1 : i + 1 \in 1 .. n /\ i + 1 # 1 /\ (i + 1) - 1 = i
      BY <2>1, <1>2
    <3> QED
      BY <2>7, <3>1
  <2>10. 0 \in Good
    <3>1. \A x : x \in Range(s[1]) <=> \E j \in 1 .. 1 : x \in Range(s[j])
      OBVIOUS
    <3>2. 0 \in 0 .. n - 1 /\ 0 + 1 = 1
      BY <2>1
    <3> QED
      BY <3>1, <3>2, <2>9, <2>3
  <2>11. ASSUME NEW i \in 1 .. n - 1, i - 1 \in Good PROVE i \in Good
    <3>1. (i - 1) + 1 = i /\ i + 1 \in 1 .. n
      BY <2>1
    <3>2. /\ flatten[i] \in Seq(T)
          /\ \A x : x \in Range(flatten[i]) <=> \E j \in 1 .. i : x \in Range(s[j])
      BY <2>11, <3>1
    <3>3. s[i + 1] \in Seq(T)
      BY <2>1, <3>1
    <3>4. /\ flatten[i + 1] \in Seq(T)
          /\ Range(flatten[i + 1]) = Range(flatten[i]) \cup Range(s[i + 1])
      <4>1. \A a, b \in Seq(T) : a \o b \in Seq(T) /\ Range(a \o b) = Range(a) \cup Range(b)
        BY RangeOfConcat
      <4>2. flatten[i + 1] = flatten[i] \o s[i + 1]
        BY <2>9
      <4> QED
        BY <3>2, <3>3, <4>1, <4>2
    <3>5. \A j : j \in 1 .. (i + 1) <=> j \in 1 .. i \/ j = i + 1
      BY <2>1
    <3>6. \A x : x \in Range(flatten[i + 1]) <=> \E j \in 1 .. (i + 1) : x \in Range(s[j])
      BY <3>2, <3>4, <3>5
    <3>7. i \in 0 .. n - 1
      BY <2>1
    <3> QED
      BY <3>4, <3>6, <3>7
  <2>12. \A i \in 0 .. n - 1 : i \in Good
    <3> HIDE DEF Good
    <3> QED
      BY <2>1, <2>10, <2>11, Induct
  <2>13. n - 1 \in Good /\ (n - 1) + 1 = n
    <3> HIDE DEF Good
    <3> QED
      BY <2>12, <2>1
  <2>14. DOMAIN s = 1 .. n
    BY DEF n
  <2>15. \A x : x \in Range(flatten[n]) <=> \E j \in 1 .. n : x \in Range(s[j])
    BY <2>13
  <2> QED
    BY <2>8, <2>13, <2>14, <2>15
<1> QED
  BY <1>1, <1>2

-----------------------------------------------------------------------------
\* Edges of a node, and work on path sets.

AllEdges == Edges \cup NopEdges
Pairs == Models \X Models

\* The traversal order has all nodes.
LEMMA OrderOfNodes == Order \in Seq(Nodes) /\ Range(Order) = Nodes
BY SolverAssumption DEF Nodes

\* Every edge, a buffered one too, joins two nodes.
LEMMA EdgesJoinNodes == \A e \in AllEdges : e[1] \in Nodes /\ e[2] \in Nodes /\ e = <<e[1], e[2]>>
BY SolverAssumption DEF AllEdges

\* The edges into a node, and those out of it, each once in a sequence.
LEMMA OperandEdgesAre ==
  ASSUME NEW edges, edges \subseteq AllEdges, NEW n
  PROVE  /\ OperandEdges(edges, n) \in Seq(edges)
         /\ Range(OperandEdges(edges, n)) = {e \in edges : e[2] = n}
<1> DEFINE S == {p \in Nodes : <<p, n>> \in edges}
           ps == Only(Order, S)
<1>1. ps \in Seq(Nodes) /\ Range(ps) = S
  BY OnlyIs, OrderOfNodes
<1>2. OperandEdges(edges, n) = [i \in DOMAIN ps |-> <<ps[i], n>>]
  BY DEF OperandEdges
<1> HIDE DEF ps
<1>3. \A i \in DOMAIN ps : <<ps[i], n>> \in edges
  BY <1>1 DEF Range
<1>4. OperandEdges(edges, n) \in Seq(edges)
  BY <1>1, <1>2, <1>3
<1>5. ASSUME NEW e \in edges, e[2] = n PROVE e \in Range(OperandEdges(edges, n))
  <2>1. e[1] \in S /\ e = <<e[1], n>>
    BY <1>5, EdgesJoinNodes
  <2>2. PICK i \in DOMAIN ps : ps[i] = e[1]
    BY <2>1, <1>1 DEF Range
  <2> QED
    BY <2>1, <2>2, <1>2 DEF Range
<1>6. ASSUME NEW e \in Range(OperandEdges(edges, n)) PROVE e \in edges /\ e[2] = n
  BY <1>2, <1>3 DEF Range
<1> QED
  BY <1>4, <1>5, <1>6

\* The edges out of a node (get_user_path_sets_pts), each once in a sequence.
LEMMA UserEdgesAre ==
  ASSUME NEW edges, edges \subseteq AllEdges, NEW n
  PROVE  /\ UserEdges(edges, n) \in Seq(edges)
         /\ Range(UserEdges(edges, n)) = {e \in edges : e[1] = n}
<1> DEFINE S == {c \in Nodes : <<n, c>> \in edges}
           cs == Only(Order, S)
<1>1. cs \in Seq(Nodes) /\ Range(cs) = S
  BY OnlyIs, OrderOfNodes
<1>2. UserEdges(edges, n) = [i \in DOMAIN cs |-> <<n, cs[i]>>]
  BY DEF UserEdges
<1> HIDE DEF cs
<1>3. \A i \in DOMAIN cs : <<n, cs[i]>> \in edges
  BY <1>1 DEF Range
<1>4. UserEdges(edges, n) \in Seq(edges)
  BY <1>1, <1>2, <1>3
<1>5. ASSUME NEW e \in edges, e[1] = n PROVE e \in Range(UserEdges(edges, n))
  <2>1. e[2] \in S /\ e = <<n, e[2]>>
    BY <1>5, EdgesJoinNodes
  <2>2. PICK i \in DOMAIN cs : cs[i] = e[2]
    BY <2>1, <1>1 DEF Range
  <2> QED
    BY <2>1, <2>2, <1>2 DEF Range
<1>6. ASSUME NEW e \in Range(UserEdges(edges, n)) PROVE e \in edges /\ e[1] = n
  BY <1>2, <1>3 DEF Range
<1> QED
  BY <1>4, <1>5, <1>6

\* The edges at a node.
LEMMA EdgesOfAre ==
  ASSUME NEW edges, edges \subseteq AllEdges, NEW n
  PROVE  /\ EdgesOf(edges, n) \in Seq(edges)
         /\ Range(EdgesOf(edges, n)) = {e \in edges : n \in {e[1], e[2]}}
<1>1. EdgesOf(edges, n) = OperandEdges(edges, n) \o UserEdges(edges, n)
  BY DEF EdgesOf
<1> QED
  BY <1>1, OperandEdgesAre, UserEdgesAre, RangeOfConcat

\* Work on path sets: those of the edges in D.
Works(D) == [bs : [Nodes -> SUBSET Models], ps : [D -> SUBSET Pairs], changed : SUBSET D,
             path_changed : BOOLEAN, stop : {"none", "no paths", "cost"}]

QueueWorks(D) == [bs : [Nodes -> SUBSET Models], ps : [D -> SUBSET Pairs], queue : Seq(Nodes)]

\* What the path sets and the bitsets are after the path set of e became keep.
Kept(w, v, e, keep) ==
    /\ v.ps = [w.ps EXCEPT ![e] = keep]
    /\ v.bs = [n \in Nodes |-> {m \in w.bs[n] : /\ n = e[1] => m \in Producers(keep)
                                                /\ n = e[2] => m \in Consumers(keep)}]

\* Keep, on the work of update_solver, is what Kept says and nothing else.
LEMMA KeepIs ==
  ASSUME NEW D, D \subseteq AllEdges, NEW w \in Works(D), NEW e \in D, NEW keep \in SUBSET Pairs
  PROVE  /\ Keep(w, e, keep) \in Works(D) /\ Kept(w, Keep(w, e, keep), e, keep)
         /\ Keep(w, e, keep).changed = w.changed /\ Keep(w, e, keep).path_changed = w.path_changed
         /\ Keep(w, e, keep).stop = w.stop
<1>1. e[1] \in Nodes /\ e[2] \in Nodes
  BY EdgesJoinNodes
<1> DEFINE P == Producers(keep)
           C == Consumers(keep)
           v == Keep(w, e, keep)
<1> DEFINE b == [w.bs EXCEPT ![e[1]] = @ \cap P]
           c == [b EXCEPT ![e[2]] = @ \cap C]
<1>2. v = [w EXCEPT !.ps[e] = keep, !.bs = c]
  BY DEF Keep
<1>3. w.bs \in [Nodes -> SUBSET Models] /\ w.ps \in [D -> SUBSET Pairs]
  BY DEF Works
<1> HIDE DEF P, C
<1>4. b \in [Nodes -> SUBSET Models]
      /\ \A n \in Nodes : b[n] = {m \in w.bs[n] : n = e[1] => m \in P}
  BY <1>1, <1>3
<1> HIDE DEF b
<1>5. c \in [Nodes -> SUBSET Models]
      /\ \A n \in Nodes : c[n] = {m \in b[n] : n = e[2] => m \in C}
  BY <1>1, <1>4
<1>6. c = [n \in Nodes |-> {m \in w.bs[n] : (n = e[1] => m \in P) /\ (n = e[2] => m \in C)}]
  <2> HIDE DEF c
  <2>1. c = [n \in Nodes |-> c[n]]
    BY <1>5
  <2>2. \A n \in Nodes : c[n] = {m \in w.bs[n] : (n = e[1] => m \in P) /\ (n = e[2] => m \in C)}
    BY <1>4, <1>5
  <2> QED
    BY <2>1, <2>2
<1> HIDE DEF c, v
<1>7. v.ps = [w.ps EXCEPT ![e] = keep] /\ v.bs = c /\ v.changed = w.changed
      /\ v.path_changed = w.path_changed /\ v.stop = w.stop
  BY <1>2 DEF Works
<1>70. v.ps \in [D -> SUBSET Pairs]
  BY <1>7, <1>3
<1>8. v = [bs |-> v.bs, ps |-> v.ps, changed |-> v.changed, path_changed |-> v.path_changed,
           stop |-> v.stop]
  BY <1>2 DEF Works
<1>9. v \in Works(D)
  BY <1>5, <1>7, <1>70, <1>8 DEF Works
<1> QED
  BY <1>6, <1>7, <1>9 DEF Kept, P, C, v

\* Keep, on the work of NodePathsProcessor.
LEMMA KeepOfQueueIs ==
  ASSUME NEW D, D \subseteq AllEdges, NEW w \in QueueWorks(D), NEW e \in D,
         NEW keep \in SUBSET Pairs
  PROVE  /\ Keep(w, e, keep) \in QueueWorks(D) /\ Kept(w, Keep(w, e, keep), e, keep)
         /\ Keep(w, e, keep).queue = w.queue
<1>1. e[1] \in Nodes /\ e[2] \in Nodes
  BY EdgesJoinNodes
<1> DEFINE P == Producers(keep)
           C == Consumers(keep)
           v == Keep(w, e, keep)
<1> DEFINE b == [w.bs EXCEPT ![e[1]] = @ \cap P]
           c == [b EXCEPT ![e[2]] = @ \cap C]
<1>2. v = [w EXCEPT !.ps[e] = keep, !.bs = c]
  BY DEF Keep
<1>3. w.bs \in [Nodes -> SUBSET Models] /\ w.ps \in [D -> SUBSET Pairs]
  BY DEF QueueWorks
<1> HIDE DEF P, C
<1>4. b \in [Nodes -> SUBSET Models]
      /\ \A n \in Nodes : b[n] = {m \in w.bs[n] : n = e[1] => m \in P}
  BY <1>1, <1>3
<1> HIDE DEF b
<1>5. c \in [Nodes -> SUBSET Models]
      /\ \A n \in Nodes : c[n] = {m \in b[n] : n = e[2] => m \in C}
  BY <1>1, <1>4
<1>6. c = [n \in Nodes |-> {m \in w.bs[n] : (n = e[1] => m \in P) /\ (n = e[2] => m \in C)}]
  <2> HIDE DEF c
  <2>1. c = [n \in Nodes |-> c[n]]
    BY <1>5
  <2>2. \A n \in Nodes : c[n] = {m \in w.bs[n] : (n = e[1] => m \in P) /\ (n = e[2] => m \in C)}
    BY <1>4, <1>5
  <2> QED
    BY <2>1, <2>2
<1> HIDE DEF c, v
<1>7. v.ps = [w.ps EXCEPT ![e] = keep] /\ v.bs = c /\ v.queue = w.queue
  BY <1>2 DEF QueueWorks
<1>70. v.ps \in [D -> SUBSET Pairs]
  BY <1>7, <1>3
<1>8. v = [bs |-> v.bs, ps |-> v.ps, queue |-> v.queue]
  BY <1>2 DEF QueueWorks
<1>9. v \in QueueWorks(D)
  BY <1>5, <1>7, <1>70, <1>8 DEF QueueWorks
<1> QED
  BY <1>6, <1>7, <1>9 DEF Kept, P, C, v

-----------------------------------------------------------------------------
\* PathSet::update and apply_cumulative_costs, one edge at a time and as loops.

\* The paths whose ends are still possible are pairs of models.
LEMMA ValidOfWork ==
  ASSUME NEW D, NEW w \in Works(D), NEW e \in D
  PROVE  Valid(w, e) \in SUBSET Pairs
BY DEF Valid, Works

\* The same on the work of NodePathsProcessor.
LEMMA ValidOfQueueWork ==
  ASSUME NEW D, NEW w \in QueueWorks(D), NEW e \in D
  PROVE  Valid(w, e) \in SUBSET Pairs
BY DEF Valid, QueueWorks

\* One step of the work, at edge e: what is kept of its paths is valid, and if an end loses a
\* model the edge has changed, or the costs have.
Prunes(w, v, e) ==
    \/ v = w
    \/ \E keep \in SUBSET Valid(w, e) :
          /\ Kept(w, v, e, keep)
          /\ w.stop = "none" /\ (v.stop = "none" => keep # {})
          /\ w.changed \subseteq v.changed /\ v.changed \subseteq w.changed \cup {e}
          /\ w.path_changed => v.path_changed
          /\ Shrinks(w, e, keep) => e \in v.changed \/ v.path_changed

\* PathSet::update keeps the valid paths, unless the work has stopped.
LEMMA UpdateIs ==
  ASSUME NEW D, D \subseteq AllEdges, NEW w \in Works(D), NEW e \in D
  PROVE  /\ update(w, e) \in Works(D) /\ Prunes(w, update(w, e), e)
         /\ w.stop # "none" => update(w, e) = w
         /\ w.stop = "none" =>
               /\ Kept(w, update(w, e), e, Valid(w, e))
               /\ Shrinks(w, e, Valid(w, e)) => e \in update(w, e).changed
               /\ update(w, e).stop = "none" => Valid(w, e) # {}
<1> DEFINE keep == Valid(w, e)
           k == Keep(w, e, keep)
           sh == Shrinks(w, e, keep)
           v == [k EXCEPT !.changed = IF sh THEN @ \cup {e} ELSE @,
                          !.stop = IF keep = {} THEN "no paths" ELSE "none"]
<1>1. update(w, e) = IF w.stop # "none" THEN w ELSE v
  BY DEF update
<1>2. keep \in SUBSET Pairs
  BY ValidOfWork
<1> HIDE DEF keep
<1>3. k \in Works(D) /\ Kept(w, k, e, keep) /\ k.changed = w.changed
      /\ k.path_changed = w.path_changed /\ k.stop = w.stop
  BY <1>2, KeepIs
<1> HIDE DEF k, sh
<1>4. v \in Works(D)
  BY <1>3 DEF Works
<1>5. v.ps = k.ps /\ v.bs = k.bs /\ v.changed = (IF sh THEN w.changed \cup {e} ELSE w.changed)
      /\ v.path_changed = w.path_changed /\ v.stop = (IF keep = {} THEN "no paths" ELSE "none")
  BY <1>3 DEF Works
<1> HIDE DEF v
<1>6. Kept(w, v, e, keep)
  BY <1>3, <1>5 DEF Kept
<1>7. CASE w.stop # "none"
  BY <1>1, <1>7 DEF Prunes
<1>8. CASE w.stop = "none"
  <2>1. update(w, e) = v
    BY <1>1, <1>8
  <2>2. Prunes(w, v, e)
    BY <1>5, <1>6, <1>8 DEF Prunes, sh, keep
  <2> QED
    BY <2>1, <2>2, <1>4, <1>5, <1>6, <1>8 DEF sh, keep
<1> QED
  BY <1>7, <1>8

\* One path set in apply_cumulative_costs is pruned, or left as it is.
LEMMA CumulativeIs ==
  ASSUME NEW D, D \subseteq AllEdges, NEW w \in Works(D), NEW e \in D, NEW es, NEW side
  PROVE  CumulativeEdge(w, es, e, side) \in Works(D)
         /\ Prunes(w, CumulativeEdge(w, es, e, side), e)
<1> DEFINE first == CHOOSE q \in w.ps[e] : \A r \in w.ps[e] : Above(Cost[e], q, r)
           rest == Valid(w, e) \ {first}
           keep == {q \in rest : \E r \in rest :
                       Affordable(w, es, e, side, r) /\ Above(Cost[e], r, q)}
           same == w.stop # "none" \/ (w.ps[e] # {} /\ Affordable(w, es, e, side, first))
           k == Keep(w, e, keep)
           sh == Shrinks(w, e, keep)
           v == [k EXCEPT !.path_changed = @ \/ sh, !.stop = IF keep = {} THEN "cost" ELSE "none"]
<1>1. CumulativeEdge(w, es, e, side) = IF same THEN w ELSE v
  BY DEF CumulativeEdge
<1> HIDE DEF first
<1>2. keep \in SUBSET Valid(w, e)
  OBVIOUS
<1> HIDE DEF keep, rest
<1>3. keep \in SUBSET Pairs
  BY <1>2, ValidOfWork
<1>4. k \in Works(D) /\ Kept(w, k, e, keep) /\ k.changed = w.changed
      /\ k.path_changed = w.path_changed /\ k.stop = w.stop
  BY <1>3, KeepIs
<1>5. sh \in BOOLEAN
  BY DEF Shrinks
<1>6. same => w.stop # "none" \/ w.ps[e] # {}
  OBVIOUS
<1>7. ~same => w.stop = "none"
  OBVIOUS
<1> HIDE DEF k, sh, same
<1>8. v \in Works(D)
  BY <1>4, <1>5 DEF Works
<1>9. v.ps = k.ps /\ v.bs = k.bs /\ v.changed = w.changed
      /\ (v.path_changed <=> w.path_changed \/ sh) /\ v.stop = (IF keep = {} THEN "cost" ELSE "none")
  BY <1>4, <1>5 DEF Works
<1> HIDE DEF v
<1>10. Kept(w, v, e, keep)
  BY <1>4, <1>9 DEF Kept
<1>11. CASE same
  BY <1>1, <1>11 DEF Prunes
<1>12. CASE ~same
  <2>1. CumulativeEdge(w, es, e, side) = v
    BY <1>1, <1>12
  <2>2. Prunes(w, v, e)
    BY <1>2, <1>7, <1>9, <1>10, <1>12 DEF Prunes, sh
  <2> QED
    BY <2>1, <2>2, <1>8
<1> QED
  BY <1>11, <1>12

\* The four loops over edges.
AllUpdated(w, es) == EachEdge(update, w, es)
AllRefreshed(w, es) == EachEdge(refresh, w, es)
AllQueued(w, es) == EachEdge(update_node_processor, w, es)

\* The rounds of the loop of update_solver that calls PathSet::update.
LEMMA EachUpdate ==
  ASSUME NEW D, D \subseteq AllEdges, NEW w \in Works(D), NEW es \in Seq(D)
  PROVE  \E f \in [0 .. Len(es) -> Works(D)] :
            /\ f[0] = w /\ f[Len(es)] = AllUpdated(w, es)
            /\ \A i \in 1 .. Len(es) : f[i] = update(f[i - 1], es[i])
<1> DEFINE n == Len(es)
           T == Works(D)
           H == [p \in T \X (1 .. n) |-> update(p[1], es[p[2]])]
<1>1. n \in Nat /\ \A i \in 1 .. n : es[i] \in D
  OBVIOUS
<1>2. \A u \in T, e \in D : update(u, e) \in T
  BY UpdateIs DEF T
<1> HIDE DEF T
<1>3. H \in [T \X (1 .. n) -> T]
  <2> HIDE DEF n
  <2> QED
    BY <1>1, <1>2
<1>4. PICK f : LoopOf(n, w, H, f) /\ f \in [0 .. n -> T]
  <2>1. w \in T
    BY DEF T
  <2> HIDE DEF H, n
  <2> QED
    BY <1>1, <1>3, <2>1, LoopExists
<1> DEFINE R(g, i) == CHOOSE x \in {update(u, e) : u \in {g[i - 1]}, e \in {es[i]}} : TRUE
           Is(g) == g = [i \in 0 .. Len(es) |-> IF i = 0 THEN w ELSE R(g, i)]
           after == CHOOSE g : Is(g)
<1>5. \A g, i : R(g, i) = update(g[i - 1], es[i])
  OBVIOUS
<1>6. \A i \in 0 .. n : i # 0 => H[<<f[i - 1], i>>] = R(f, i)
  <2> SUFFICES ASSUME NEW i \in 1 .. n PROVE H[<<f[i - 1], i>>] = R(f, i)
    <3> HIDE DEF H, n, R
    <3> QED
      BY <1>1
  <2>1. f[i - 1] \in T
    <3> HIDE DEF H, n, R
    <3> QED
      BY <1>4, <1>1
  <2>2. H[<<f[i - 1], i>>] = update(f[i - 1], es[i])
    <3> HIDE DEF n, R
    <3> QED
      BY <2>1
  <2> HIDE DEF H, R
  <2> QED
    BY <2>2, <1>5
<1>7. f = [i \in 0 .. n |-> IF i = 0 THEN w ELSE R(f, i)]
  <2>1. f = [i \in 0 .. n |-> IF i = 0 THEN w ELSE H[<<f[i - 1], i>>]]
    BY <1>4 DEF LoopOf
  <2> HIDE DEF H, n, R
  <2> QED
    BY <2>1, <1>6
<1>70. Is(f)
  <2> HIDE DEF H, R
  <2> QED
    BY <1>7
<1>8. after = [i \in 0 .. n |-> IF i = 0 THEN w ELSE R(after, i)]
  <2>1. Is(after)
    <3> HIDE DEF H, R, Is
    <3> QED
      BY <1>70
  <2> HIDE DEF H, R, after
  <2> QED
    BY <2>1
<1>9. AllUpdated(w, es) = after[n]
  BY DEF EachEdge, AllUpdated
<1> HIDE DEF after, H, n, R
<1>10. after[0] = w /\ \A i \in 1 .. n : after[i] = R(after, i)
  BY <1>1, <1>8
<1>11. \A i \in 1 .. n : after[i] = update(after[i - 1], es[i])
  BY <1>10, <1>5
<1>12. \A i \in 0 .. n : after[i] \in T
  <2> DEFINE Good == {i \in 0 .. n : after[i] \in T}
  <2>1. 0 \in Good
    BY <1>1, <1>10 DEF T
  <2>2. ASSUME NEW i \in 1 .. n, i - 1 \in Good PROVE i \in Good
    <3>1. after[i - 1] \in T /\ es[i] \in D
      BY <2>2, <1>1
    <3>2. after[i] \in T
      BY <3>1, <1>11, <1>2
    <3> QED
      BY <3>2, <1>1
  <2>3. \A i \in 0 .. n : i \in Good
    <3> HIDE DEF Good
    <3> QED
      BY <2>1, <2>2, <1>1, Induct
  <2> QED
    BY <2>3
<1>13. after \in [0 .. n -> T]
  BY <1>8, <1>12
<1> QED
  BY <1>9, <1>10, <1>11, <1>13 DEF n, T

CumulativeRounds(D, w, es, side, f) ==
    /\ f \in [0 .. Len(es) -> Works(D)]
    /\ f[0] = w /\ f[Len(es)] = apply_cumulative_costs(w, es, side)
    /\ \A i \in 1 .. Len(es) : f[i] = CumulativeEdge(f[i - 1], es, es[i], side)

\* The rounds of the loop of apply_cumulative_costs.
LEMMA EachCumulative ==
  ASSUME NEW D, D \subseteq AllEdges, NEW w \in Works(D), NEW es \in Seq(D), NEW side
  PROVE  \E f : CumulativeRounds(D, w, es, side, f)
<1> DEFINE n == Len(es)
           T == Works(D)
           H == [p \in T \X (1 .. n) |-> CumulativeEdge(p[1], es, es[p[2]], side)]
<1>1. n \in Nat /\ \A i \in 1 .. n : es[i] \in D
  OBVIOUS
<1>2. \A u \in T, e \in D : CumulativeEdge(u, es, e, side) \in T
  BY CumulativeIs DEF T
<1> HIDE DEF T
<1>3. H \in [T \X (1 .. n) -> T]
  <2> HIDE DEF n
  <2> QED
    BY <1>1, <1>2
<1>4. PICK f : LoopOf(n, w, H, f) /\ f \in [0 .. n -> T]
  <2>1. w \in T
    BY DEF T
  <2> HIDE DEF H, n
  <2> QED
    BY <1>1, <1>3, <2>1, LoopExists
<1> DEFINE R(g, i) == CHOOSE x \in {CumulativeEdge(u, es, e, side) : u \in {g[i - 1]}, e \in {es[i]}} : TRUE
           Is(g) == g = [i \in 0 .. Len(es) |-> IF i = 0 THEN w ELSE R(g, i)]
           after == CHOOSE g : Is(g)
<1>5. \A g, i : R(g, i) = CumulativeEdge(g[i - 1], es, es[i], side)
  OBVIOUS
<1>6. \A i \in 0 .. n : i # 0 => H[<<f[i - 1], i>>] = R(f, i)
  <2> SUFFICES ASSUME NEW i \in 1 .. n PROVE H[<<f[i - 1], i>>] = R(f, i)
    <3> HIDE DEF H, n, R
    <3> QED
      BY <1>1
  <2>1. f[i - 1] \in T
    <3> HIDE DEF H, n, R
    <3> QED
      BY <1>4, <1>1
  <2>2. H[<<f[i - 1], i>>] = CumulativeEdge(f[i - 1], es, es[i], side)
    <3> HIDE DEF n, R
    <3> QED
      BY <2>1
  <2> HIDE DEF H, R
  <2> QED
    BY <2>2, <1>5
<1>7. f = [i \in 0 .. n |-> IF i = 0 THEN w ELSE R(f, i)]
  <2>1. f = [i \in 0 .. n |-> IF i = 0 THEN w ELSE H[<<f[i - 1], i>>]]
    BY <1>4 DEF LoopOf
  <2> HIDE DEF H, n, R
  <2> QED
    BY <2>1, <1>6
<1>70. Is(f)
  <2> HIDE DEF H, R
  <2> QED
    BY <1>7
<1>8. after = [i \in 0 .. n |-> IF i = 0 THEN w ELSE R(after, i)]
  <2>1. Is(after)
    <3> HIDE DEF H, R, Is
    <3> QED
      BY <1>70
  <2> HIDE DEF H, R, after
  <2> QED
    BY <2>1
<1>9. apply_cumulative_costs(w, es, side) = after[n]
  BY DEF EachEdge, apply_cumulative_costs
<1> HIDE DEF after, H, n, R
<1>10. after[0] = w /\ \A i \in 1 .. n : after[i] = R(after, i)
  BY <1>1, <1>8
<1>11. \A i \in 1 .. n : after[i] = CumulativeEdge(after[i - 1], es, es[i], side)
  BY <1>10, <1>5
<1>12. \A i \in 0 .. n : after[i] \in T
  <2> DEFINE Good == {i \in 0 .. n : after[i] \in T}
  <2>1. 0 \in Good
    BY <1>1, <1>10 DEF T
  <2>2. ASSUME NEW i \in 1 .. n, i - 1 \in Good PROVE i \in Good
    <3>1. after[i - 1] \in T /\ es[i] \in D
      BY <2>2, <1>1
    <3>2. after[i] \in T
      BY <3>1, <1>11, <1>2
    <3> QED
      BY <3>2, <1>1
  <2>3. \A i \in 0 .. n : i \in Good
    <3> HIDE DEF Good
    <3> QED
      BY <2>1, <2>2, <1>1, Induct
  <2> QED
    BY <2>3
<1>13. after \in [0 .. n -> T]
  BY <1>8, <1>12
<1> QED
  BY <1>9, <1>10, <1>11, <1>13 DEF n, T, CumulativeRounds

\* The rounds of the unchecked updates that start update_solver with expand_root.
LEMMA EachRefresh ==
  ASSUME NEW D, D \subseteq AllEdges, NEW w \in Works(D), NEW es \in Seq(D)
  PROVE  \E f \in [0 .. Len(es) -> Works(D)] :
            /\ f[0] = w /\ f[Len(es)] = AllRefreshed(w, es)
            /\ \A i \in 1 .. Len(es) : f[i] = refresh(f[i - 1], es[i])
<1> DEFINE n == Len(es)
           T == Works(D)
           H == [p \in T \X (1 .. n) |-> refresh(p[1], es[p[2]])]
<1>1. n \in Nat /\ \A i \in 1 .. n : es[i] \in D
  OBVIOUS
<1>2. \A u \in T, e \in D : refresh(u, e) \in T
  BY ValidOfWork, KeepIs DEF T, refresh
<1> HIDE DEF T
<1>3. H \in [T \X (1 .. n) -> T]
  <2> HIDE DEF n
  <2> QED
    BY <1>1, <1>2
<1>4. PICK f : LoopOf(n, w, H, f) /\ f \in [0 .. n -> T]
  <2>1. w \in T
    BY DEF T
  <2> HIDE DEF H, n
  <2> QED
    BY <1>1, <1>3, <2>1, LoopExists
<1> DEFINE R(g, i) == CHOOSE x \in {refresh(u, e) : u \in {g[i - 1]}, e \in {es[i]}} : TRUE
           Is(g) == g = [i \in 0 .. Len(es) |-> IF i = 0 THEN w ELSE R(g, i)]
           after == CHOOSE g : Is(g)
<1>5. \A g, i : R(g, i) = refresh(g[i - 1], es[i])
  OBVIOUS
<1>6. \A i \in 0 .. n : i # 0 => H[<<f[i - 1], i>>] = R(f, i)
  <2> SUFFICES ASSUME NEW i \in 1 .. n PROVE H[<<f[i - 1], i>>] = R(f, i)
    <3> HIDE DEF H, n, R
    <3> QED
      BY <1>1
  <2>1. f[i - 1] \in T
    <3> HIDE DEF H, n, R
    <3> QED
      BY <1>4, <1>1
  <2>2. H[<<f[i - 1], i>>] = refresh(f[i - 1], es[i])
    <3> HIDE DEF n, R
    <3> QED
      BY <2>1
  <2> HIDE DEF H, R
  <2> QED
    BY <2>2, <1>5
<1>7. f = [i \in 0 .. n |-> IF i = 0 THEN w ELSE R(f, i)]
  <2>1. f = [i \in 0 .. n |-> IF i = 0 THEN w ELSE H[<<f[i - 1], i>>]]
    BY <1>4 DEF LoopOf
  <2> HIDE DEF H, n, R
  <2> QED
    BY <2>1, <1>6
<1>70. Is(f)
  <2> HIDE DEF H, R
  <2> QED
    BY <1>7
<1>8. after = [i \in 0 .. n |-> IF i = 0 THEN w ELSE R(after, i)]
  <2>1. Is(after)
    <3> HIDE DEF H, R, Is
    <3> QED
      BY <1>70
  <2> HIDE DEF H, R, after
  <2> QED
    BY <2>1
<1>9. AllRefreshed(w, es) = after[n]
  BY DEF EachEdge, AllRefreshed
<1> HIDE DEF after, H, n, R
<1>10. after[0] = w /\ \A i \in 1 .. n : after[i] = R(after, i)
  BY <1>1, <1>8
<1>11. \A i \in 1 .. n : after[i] = refresh(after[i - 1], es[i])
  BY <1>10, <1>5
<1>12. \A i \in 0 .. n : after[i] \in T
  <2> DEFINE Good == {i \in 0 .. n : after[i] \in T}
  <2>1. 0 \in Good
    BY <1>1, <1>10 DEF T
  <2>2. ASSUME NEW i \in 1 .. n, i - 1 \in Good PROVE i \in Good
    <3>1. after[i - 1] \in T /\ es[i] \in D
      BY <2>2, <1>1
    <3>2. after[i] \in T
      BY <3>1, <1>11, <1>2
    <3> QED
      BY <3>2, <1>1
  <2>3. \A i \in 0 .. n : i \in Good
    <3> HIDE DEF Good
    <3> QED
      BY <2>1, <2>2, <1>1, Induct
  <2> QED
    BY <2>3
<1>13. after \in [0 .. n -> T]
  BY <1>8, <1>12
<1> QED
  BY <1>9, <1>10, <1>11, <1>13 DEF n, T

-----------------------------------------------------------------------------
\* NodePathsProcessor, and the loops that keep a solution on offer.

\* PathSet::update_node_processor keeps the valid paths.
LEMMA QueuedIs ==
  ASSUME NEW D, D \subseteq AllEdges, NEW w \in QueueWorks(D), NEW e \in D
  PROVE  /\ update_node_processor(w, e) \in QueueWorks(D)
         /\ Kept(w, update_node_processor(w, e), e, Valid(w, e))
<1> DEFINE keep == Valid(w, e)
           k == Keep(w, e, keep)
           Added(q, ns) == q \o Only(ns, Nodes \ Range(q))
           c1 == ~(w.bs[e[1]] \subseteq Producers(keep))
           c2 == ~(w.bs[e[2]] \subseteq Consumers(keep))
           New(q) == CASE c1 -> Added(q, <<e[2], e[1]>>)
                       [] ~c1 /\ c2 -> Added(q, <<e[1], e[2]>>)
                       [] OTHER -> q
<1>1. update_node_processor(w, e) = [k EXCEPT !.queue = New(@)]
  BY DEF update_node_processor
<1>2. keep \in SUBSET Pairs
  BY ValidOfQueueWork
<1> HIDE DEF keep
<1>3. k \in QueueWorks(D) /\ Kept(w, k, e, keep) /\ k.queue = w.queue
  BY <1>2, KeepOfQueueIs
<1>4. <<e[2], e[1]>> \in Seq(Nodes) /\ <<e[1], e[2]>> \in Seq(Nodes)
  BY EdgesJoinNodes
<1>5. \A q, ns \in Seq(Nodes) : Added(q, ns) \in Seq(Nodes)
  BY OnlyIs
<1> HIDE DEF Added, k, c1, c2
<1>6. \A q \in Seq(Nodes) : New(q) \in Seq(Nodes)
  BY <1>4, <1>5
<1> HIDE DEF New
<1> DEFINE v == [k EXCEPT !.queue = New(@)]
<1>7. v.ps = k.ps /\ v.bs = k.bs /\ v \in QueueWorks(D)
  BY <1>3, <1>6 DEF QueueWorks
<1> HIDE DEF v
<1>8. Kept(w, v, e, keep)
  BY <1>3, <1>7 DEF Kept
<1> QED
  BY <1>1, <1>7, <1>8 DEF v, keep

\* The rounds of NodePathsProcessor over the edges of a node.
LEMMA EachQueued ==
  ASSUME NEW D, D \subseteq AllEdges, NEW w \in QueueWorks(D), NEW es \in Seq(D)
  PROVE  \E f \in [0 .. Len(es) -> QueueWorks(D)] :
            /\ f[0] = w /\ f[Len(es)] = AllQueued(w, es)
            /\ \A i \in 1 .. Len(es) : f[i] = update_node_processor(f[i - 1], es[i])
<1> DEFINE n == Len(es)
           T == QueueWorks(D)
           H == [p \in T \X (1 .. n) |-> update_node_processor(p[1], es[p[2]])]
<1>1. n \in Nat /\ \A i \in 1 .. n : es[i] \in D
  OBVIOUS
<1>2. \A u \in T, e \in D : update_node_processor(u, e) \in T
  BY QueuedIs DEF T
<1> HIDE DEF T
<1>3. H \in [T \X (1 .. n) -> T]
  <2> HIDE DEF n
  <2> QED
    BY <1>1, <1>2
<1>4. PICK f : LoopOf(n, w, H, f) /\ f \in [0 .. n -> T]
  <2>1. w \in T
    BY DEF T
  <2> HIDE DEF H, n
  <2> QED
    BY <1>1, <1>3, <2>1, LoopExists
<1> DEFINE R(g, i) == CHOOSE x \in {update_node_processor(u, e) : u \in {g[i - 1]}, e \in {es[i]}} : TRUE
           Is(g) == g = [i \in 0 .. Len(es) |-> IF i = 0 THEN w ELSE R(g, i)]
           after == CHOOSE g : Is(g)
<1>5. \A g, i : R(g, i) = update_node_processor(g[i - 1], es[i])
  OBVIOUS
<1>6. \A i \in 0 .. n : i # 0 => H[<<f[i - 1], i>>] = R(f, i)
  <2> SUFFICES ASSUME NEW i \in 1 .. n PROVE H[<<f[i - 1], i>>] = R(f, i)
    <3> HIDE DEF H, n, R
    <3> QED
      BY <1>1
  <2>1. f[i - 1] \in T
    <3> HIDE DEF H, n, R
    <3> QED
      BY <1>4, <1>1
  <2>2. H[<<f[i - 1], i>>] = update_node_processor(f[i - 1], es[i])
    <3> HIDE DEF n, R
    <3> QED
      BY <2>1
  <2> HIDE DEF H, R
  <2> QED
    BY <2>2, <1>5
<1>7. f = [i \in 0 .. n |-> IF i = 0 THEN w ELSE R(f, i)]
  <2>1. f = [i \in 0 .. n |-> IF i = 0 THEN w ELSE H[<<f[i - 1], i>>]]
    BY <1>4 DEF LoopOf
  <2> HIDE DEF H, n, R
  <2> QED
    BY <2>1, <1>6
<1>70. Is(f)
  <2> HIDE DEF H, R
  <2> QED
    BY <1>7
<1>8. after = [i \in 0 .. n |-> IF i = 0 THEN w ELSE R(after, i)]
  <2>1. Is(after)
    <3> HIDE DEF H, R, Is
    <3> QED
      BY <1>70
  <2> HIDE DEF H, R, after
  <2> QED
    BY <2>1
<1>9. AllQueued(w, es) = after[n]
  BY DEF EachEdge, AllQueued
<1> HIDE DEF after, H, n, R
<1>10. after[0] = w /\ \A i \in 1 .. n : after[i] = R(after, i)
  BY <1>1, <1>8
<1>11. \A i \in 1 .. n : after[i] = update_node_processor(after[i - 1], es[i])
  BY <1>10, <1>5
<1>12. \A i \in 0 .. n : after[i] \in T
  <2> DEFINE Good == {i \in 0 .. n : after[i] \in T}
  <2>1. 0 \in Good
    BY <1>1, <1>10 DEF T
  <2>2. ASSUME NEW i \in 1 .. n, i - 1 \in Good PROVE i \in Good
    <3>1. after[i - 1] \in T /\ es[i] \in D
      BY <2>2, <1>1
    <3>2. after[i] \in T
      BY <3>1, <1>11, <1>2
    <3> QED
      BY <3>2, <1>1
  <2>3. \A i \in 0 .. n : i \in Good
    <3> HIDE DEF Good
    <3> QED
      BY <2>1, <2>2, <1>1, Induct
  <2> QED
    BY <2>3
<1>13. after \in [0 .. n -> T]
  BY <1>8, <1>12
<1> QED
  BY <1>9, <1>10, <1>11, <1>13 DEF n, T

\* A choice f of models is on offer to the nodes in V and on the edges in D.
Offers(w, f, V, D) ==
    /\ \A n \in V : f[n] \in w.bs[n]
    /\ \A e \in D : <<f[e[1]], f[e[2]]>> \in w.ps[e]

\* What is kept of an edge keeps f on offer if the pair of f is.
LEMMA KeptOffers ==
  ASSUME NEW D, D \subseteq AllEdges, NEW V, V \subseteq Nodes, NEW f, NEW w, NEW v,
         w.ps \in [D -> SUBSET Pairs],
         NEW e \in D, NEW keep, Kept(w, v, e, keep), <<f[e[1]], f[e[2]]>> \in keep,
         Offers(w, f, V, D)
  PROVE  Offers(v, f, V, D)
<1>1. ASSUME NEW n \in V PROVE f[n] \in v.bs[n]
  <2>1. n \in Nodes /\ f[n] \in w.bs[n]
    BY DEF Offers
  <2>2. n = e[1] => f[n] \in Producers(keep)
    BY DEF Producers
  <2>3. n = e[2] => f[n] \in Consumers(keep)
    BY DEF Consumers
  <2> QED
    BY <2>1, <2>2, <2>3 DEF Kept
<1>2. ASSUME NEW d \in D PROVE <<f[d[1]], f[d[2]]>> \in v.ps[d]
  BY DEF Kept, Offers
<1> QED
  BY <1>1, <1>2 DEF Offers

\* A choice that is on offer has a valid path on every edge.
LEMMA OfferedIsValid ==
  ASSUME NEW D, D \subseteq AllEdges, NEW V, NEW f, NEW w, NEW e \in D,
         e[1] \in V /\ e[2] \in V, Offers(w, f, V, D)
  PROVE  <<f[e[1]], f[e[2]]>> \in Valid(w, e)
BY DEF Offers, Valid

\* PathSet::update takes no choice away that is on offer.
LEMMA UpdateOffers ==
  ASSUME NEW D, D \subseteq AllEdges, NEW V, V \subseteq Nodes, \A e \in D : e[1] \in V /\ e[2] \in V,
         NEW f, NEW w \in Works(D), NEW es \in Seq(D), Offers(w, f, V, D)
  PROVE  Offers(AllUpdated(w, es), f, V, D) /\ AllUpdated(w, es) \in Works(D)
<1>1. PICK g \in [0 .. Len(es) -> Works(D)] :
        /\ g[0] = w /\ g[Len(es)] = AllUpdated(w, es)
        /\ \A i \in 1 .. Len(es) : g[i] = update(g[i - 1], es[i])
  BY EachUpdate
<1> DEFINE Good == {i \in 0 .. Len(es) : Offers(g[i], f, V, D)}
<1>2. Len(es) \in Nat /\ \A i \in 1 .. Len(es) : es[i] \in D
  OBVIOUS
<1>3. 0 \in Good
  BY <1>1, <1>2
<1>4. ASSUME NEW i \in 1 .. Len(es), i - 1 \in Good PROVE i \in Good
  <2> DEFINE u == g[i - 1]
             e == es[i]
  <2>1. u \in Works(D) /\ e \in D /\ Offers(u, f, V, D) /\ g[i] = update(u, e)
    BY <1>1, <1>2, <1>4
  <2> HIDE DEF u, e
  <2>2. CASE u.stop # "none"
    <3>1. update(u, e) = u
      BY <2>1, <2>2, UpdateIs
    <3> QED
      BY <2>1, <3>1
  <2>3. CASE u.stop = "none"
    <3>1. Kept(u, update(u, e), e, Valid(u, e))
      BY <2>1, <2>3, UpdateIs, Zenon
    <3>2. <<f[e[1]], f[e[2]]>> \in Valid(u, e)
      BY <2>1, OfferedIsValid
    <3>3. u.ps \in [D -> SUBSET Pairs]
      BY <2>1 DEF Works
    <3> QED
      BY <2>1, <3>1, <3>2, <3>3, KeptOffers
  <2>4. Offers(g[i], f, V, D)
    BY <2>1, <2>2, <2>3
  <2> QED
    BY <2>4, <1>2
<1>5. \A i \in 0 .. Len(es) : i \in Good
  <2> HIDE DEF Good
  <2> QED
    BY <1>2, <1>3, <1>4, Induct
<1> QED
  BY <1>1, <1>2, <1>5

\* Nor do the unchecked updates that start update_solver.
LEMMA RefreshOffers ==
  ASSUME NEW D, D \subseteq AllEdges, NEW V, V \subseteq Nodes, \A e \in D : e[1] \in V /\ e[2] \in V,
         NEW f, NEW w \in Works(D), NEW es \in Seq(D), Offers(w, f, V, D)
  PROVE  Offers(AllRefreshed(w, es), f, V, D)
<1>1. PICK g \in [0 .. Len(es) -> Works(D)] :
        /\ g[0] = w /\ g[Len(es)] = AllRefreshed(w, es)
        /\ \A i \in 1 .. Len(es) : g[i] = refresh(g[i - 1], es[i])
  BY EachRefresh
<1> DEFINE Good == {i \in 0 .. Len(es) : Offers(g[i], f, V, D)}
<1>2. Len(es) \in Nat /\ \A i \in 1 .. Len(es) : es[i] \in D
  OBVIOUS
<1>3. 0 \in Good
  BY <1>1, <1>2
<1>4. ASSUME NEW i \in 1 .. Len(es), i - 1 \in Good PROVE i \in Good
  <2> DEFINE u == g[i - 1]
             e == es[i]
  <2>1. u \in Works(D) /\ e \in D /\ Offers(u, f, V, D) /\ g[i] = Keep(u, e, Valid(u, e))
    BY <1>1, <1>2, <1>4 DEF refresh
  <2> HIDE DEF u, e
  <2>2. Kept(u, g[i], e, Valid(u, e))
    BY <2>1, KeepIs, ValidOfWork
  <2>3. <<f[e[1]], f[e[2]]>> \in Valid(u, e)
    BY <2>1, OfferedIsValid
  <2>4. u.ps \in [D -> SUBSET Pairs]
    BY <2>1 DEF Works
  <2>5. Offers(g[i], f, V, D)
    BY <2>1, <2>2, <2>3, <2>4, KeptOffers
  <2> QED
    BY <2>5, <1>2
<1>5. \A i \in 0 .. Len(es) : i \in Good
  <2> HIDE DEF Good
  <2> QED
    BY <1>2, <1>3, <1>4, Induct
<1> QED
  BY <1>1, <1>2, <1>5

\* Nor does NodePathsProcessor.
LEMMA QueuedOffers ==
  ASSUME NEW D, D \subseteq AllEdges, NEW V, V \subseteq Nodes, \A e \in D : e[1] \in V /\ e[2] \in V,
         NEW f, NEW w \in QueueWorks(D), NEW es \in Seq(D), Offers(w, f, V, D)
  PROVE  Offers(AllQueued(w, es), f, V, D)
<1>1. PICK g \in [0 .. Len(es) -> QueueWorks(D)] :
        /\ g[0] = w /\ g[Len(es)] = AllQueued(w, es)
        /\ \A i \in 1 .. Len(es) : g[i] = update_node_processor(g[i - 1], es[i])
  BY EachQueued
<1> DEFINE Good == {i \in 0 .. Len(es) : Offers(g[i], f, V, D)}
<1>2. Len(es) \in Nat /\ \A i \in 1 .. Len(es) : es[i] \in D
  OBVIOUS
<1>3. 0 \in Good
  BY <1>1, <1>2
<1>4. ASSUME NEW i \in 1 .. Len(es), i - 1 \in Good PROVE i \in Good
  <2> DEFINE u == g[i - 1]
             e == es[i]
  <2>1. u \in QueueWorks(D) /\ e \in D /\ Offers(u, f, V, D)
        /\ g[i] = update_node_processor(u, e)
    BY <1>1, <1>2, <1>4
  <2> HIDE DEF u, e
  <2>2. Kept(u, g[i], e, Valid(u, e))
    BY <2>1, QueuedIs
  <2>3. <<f[e[1]], f[e[2]]>> \in Valid(u, e)
    BY <2>1, OfferedIsValid
  <2>4. u.ps \in [D -> SUBSET Pairs]
    BY <2>1 DEF QueueWorks
  <2>5. Offers(g[i], f, V, D)
    BY <2>1, <2>2, <2>3, <2>4, KeptOffers
  <2> QED
    BY <2>5, <1>2
<1>5. \A i \in 0 .. Len(es) : i \in Good
  <2> HIDE DEF Good
  <2> QED
    BY <1>2, <1>3, <1>4, Induct
<1> QED
  BY <1>1, <1>2, <1>5

-----------------------------------------------------------------------------
\* The cumulative costs keep what a solution within the limit needs.

\* The end that the costs are added up for: 1 over the users, 2 over the operands.
Sides == {1, 2}

\* The cheapest of some costs is one of them and no dearer than any (min_cost).
LEMMA MinIs ==
  ASSUME NEW S, S \subseteq Nat, NEW x \in S
  PROVE  Min(S) \in S /\ Min(S) <= x
<1>1. \E m \in S : \A k \in S : m <= k
  BY Least
<1>2. \E m \in S : \A k \in S : k >= m
  BY <1>1
<1> QED
  BY <1>1 DEF Min

\* The costs of the pairs that f has on a sequence of edges.
CostsOf(f, es) == [i \in DOMAIN es |-> Cost[es[i]][<<f[es[i][1]], f[es[i][2]]>>]]

\* A pair of a choice that keeps within the limit is affordable while the choice is on offer.
LEMMA OfferedIsAffordable ==
  ASSUME NEW D, D \subseteq AllEdges, NEW V, V \subseteq Nodes, \A e \in D : e[1] \in V /\ e[2] \in V,
         NEW f \in [V -> Models], NEW w \in Works(D), Offers(w, f, V, D),
         NEW side \in Sides, NEW n, NEW es \in Seq(D), \A d \in Range(es) : d[side] = n,
         SumOf(CostsOf(f, es)) <= MaxCost, NEW e \in Range(es)
  PROVE  Affordable(w, es, e, side, <<f[e[1]], f[e[2]]>>)
<1> DEFINE pair(d) == <<f[d[1]], f[d[2]]>>
           q == pair(e)
           Same(d) == {r \in w.ps[d] : r[side] = q[side]}
           costs(d) == {Cost[d][r] : r \in Same(d)}
           cheapest(d) == IF d = e THEN Cost[e][q] ELSE Min(costs(d))
           cheap == [i \in DOMAIN es |-> cheapest(es[i])]
<1>1. \A d \in Range(es) : d \in D /\ d \in AllEdges /\ d[side] = n
  BY DEF Range
<1>2. \A d \in D : pair(d) \in Pairs
  BY DEF Pairs
<1>3. \A d \in D : pair(d)[side] = f[d[side]]
  BY DEF Sides
<1>4. \A d \in Range(es) : pair(d) \in Same(d)
  <2> HIDE DEF pair
  <2>1. \A d \in D : pair(d) \in w.ps[d]
    BY DEF Offers, pair
  <2> QED
    BY <1>1, <1>3, <2>1
<1>5. \A d \in D, r \in Pairs : Cost[d][r] \in Nat
  BY SolverAssumption DEF AllEdges, Pairs
<1>6. \A d \in Range(es) : costs(d) \subseteq Nat /\ Cost[d][pair(d)] \in costs(d)
  <2>1. \A d \in D : w.ps[d] \subseteq Pairs
    BY DEF Works
  <2> HIDE DEF pair, q
  <2> QED
    BY <1>1, <1>4, <1>5, <2>1
<1>7. ASSUME NEW d \in Range(es)
      PROVE  cheapest(d) \in Nat /\ cheapest(d) <= Cost[d][pair(d)] /\ Cost[d][pair(d)] \in Nat
  <2>1. Cost[d][pair(d)] \in Nat
    <3> HIDE DEF pair
    <3> QED
      BY <1>1, <1>2, <1>5
  <2>2. CASE d = e
    <3> HIDE DEF pair, costs
    <3> QED
      BY <2>1, <2>2 DEF q
  <2>3. CASE d # e
    <3>1. costs(d) \subseteq Nat /\ Cost[d][pair(d)] \in costs(d)
      BY <1>6
    <3> HIDE DEF costs, pair, q
    <3>2. Min(costs(d)) \in costs(d) /\ Min(costs(d)) <= Cost[d][pair(d)]
      BY <3>1, MinIs
    <3>3. cheapest(d) = Min(costs(d))
      BY <2>3
    <3> QED
      BY <3>1, <3>2, <3>3, <2>1
  <2> QED
    BY <2>2, <2>3
<1>8. \A i \in DOMAIN es : es[i] \in Range(es)
  BY DEF Range
<1>9. CostsOf(f, es) = [i \in DOMAIN es |-> Cost[es[i]][pair(es[i])]]
  BY DEF CostsOf
<1>10. Len(es) \in Nat /\ DOMAIN es = 1 .. Len(es)
  OBVIOUS
<1> HIDE DEF cheapest, pair, q
<1>11. cheap \in Seq(Nat) /\ CostsOf(f, es) \in Seq(Nat)
  BY <1>7, <1>8, <1>9, <1>10
<1>12. Len(cheap) = Len(es) /\ Len(CostsOf(f, es)) = Len(es)
  BY <1>9, <1>10
<1>13. \A i \in 1 .. Len(es) : cheap[i] <= CostsOf(f, es)[i]
  BY <1>7, <1>8, <1>9, <1>10
<1>14. SumOf(cheap) <= SumOf(CostsOf(f, es)) /\ SumOf(cheap) \in Nat /\ SumOf(CostsOf(f, es)) \in Nat
  <2> HIDE DEF cheap
  <2> QED
    BY <1>11, <1>12, <1>13, SumMonotone
<1>15. SumOf(cheap) <= MaxCost
  <2>1. MaxCost \in Nat
    BY SolverAssumption
  <2> HIDE DEF cheap
  <2> QED
    BY <1>14, <2>1
<1>16. \A d \in Range(es) \ {e} : Same(d) # {}
  BY <1>4
<1> QED
  BY <1>15, <1>16 DEF Affordable, cheap, cheapest, q, pair

\* apply_cumulative_costs keeps the affordable paths of an edge.
LEMMA CumulativeKeeps ==
  ASSUME NEW D, D \subseteq AllEdges, NEW w \in Works(D), NEW e \in D, NEW es, NEW side, w.stop = "none",
         NEW q \in Valid(w, e), Affordable(w, es, e, side, q)
  PROVE  \/ CumulativeEdge(w, es, e, side) = w
         \/ \E keep \in SUBSET Valid(w, e) :
               q \in keep /\ Kept(w, CumulativeEdge(w, es, e, side), e, keep)
<1> DEFINE first == CHOOSE p \in w.ps[e] : \A r \in w.ps[e] : Above(Cost[e], p, r)
           rest == Valid(w, e) \ {first}
           keep == {p \in rest : \E r \in rest :
                       Affordable(w, es, e, side, r) /\ Above(Cost[e], r, p)}
           same == w.stop # "none" \/ (w.ps[e] # {} /\ Affordable(w, es, e, side, first))
           k == Keep(w, e, keep)
           sh == Shrinks(w, e, keep)
           v == [k EXCEPT !.path_changed = @ \/ sh, !.stop = IF keep = {} THEN "cost" ELSE "none"]
<1>1. CumulativeEdge(w, es, e, side) = IF same THEN w ELSE v
  BY DEF CumulativeEdge
<1>2. CASE same
  <2> HIDE DEF same, v
  <2> QED
    BY <1>1, <1>2
<1>3. CASE ~same
  <2>1. w.ps[e] # {}
    BY DEF Valid
  <2>2. q # first
    BY <1>3, <2>1
  <2>3. Above(Cost[e], q, q)
    <3>1. q \in Pairs
      BY ValidOfWork
    <3>2. q[2] \in Nat
      BY <3>1, SolverAssumption DEF Pairs
    <3> QED
      <4>1. q[2] <= q[2] /\ Cost[e][q] = Cost[e][q] /\ q[1] = q[1]
        <5>1. \A m \in Nat : m <= m
          OBVIOUS
        <5> QED
          BY <5>1, <3>2, Zenon
      <4> QED
        BY <4>1, Zenon DEF Above
  <2> HIDE DEF first
  <2>4. q \in rest
    BY <2>2
  <2> HIDE DEF rest
  <2>5. q \in keep
    BY <2>3, <2>4
  <2>6. keep \in SUBSET Valid(w, e)
    BY DEF rest
  <2>7. Kept(w, v, e, keep)
    <3> HIDE DEF keep
    <3>1. k \in Works(D) /\ Kept(w, k, e, keep)
      BY <2>6, KeepIs, ValidOfWork
    <3>2. v.ps = k.ps /\ v.bs = k.bs
      <4> HIDE DEF k, sh
      <4> QED
        BY <3>1 DEF Works
    <3> HIDE DEF v, k
    <3> QED
      BY <3>1, <3>2 DEF Kept
  <2> HIDE DEF keep, v, same
  <2> QED
    BY <1>1, <1>3, <2>5, <2>6, <2>7
<1> QED
  BY <1>2, <1>3

\* So it takes no choice away that keeps within the limit.
LEMMA CumulativeOffers ==
  ASSUME NEW D, D \subseteq AllEdges, NEW V, V \subseteq Nodes, \A e \in D : e[1] \in V /\ e[2] \in V,
         NEW f \in [V -> Models], NEW w \in Works(D), Offers(w, f, V, D),
         NEW side \in Sides, NEW n, NEW es \in Seq(D), \A d \in Range(es) : d[side] = n,
         SumOf(CostsOf(f, es)) <= MaxCost
  PROVE  /\ Offers(apply_cumulative_costs(w, es, side), f, V, D)
         /\ apply_cumulative_costs(w, es, side) \in Works(D)
<1>0. PICK g : CumulativeRounds(D, w, es, side, g)
  BY EachCumulative
<1>1. /\ g \in [0 .. Len(es) -> Works(D)]
      /\ g[0] = w /\ g[Len(es)] = apply_cumulative_costs(w, es, side)
      /\ \A i \in 1 .. Len(es) : g[i] = CumulativeEdge(g[i - 1], es, es[i], side)
  BY <1>0 DEF CumulativeRounds
<1> DEFINE Good == {i \in 0 .. Len(es) : Offers(g[i], f, V, D)}
<1>2. Len(es) \in Nat /\ \A i \in 1 .. Len(es) : es[i] \in D /\ es[i] \in Range(es)
  BY DEF Range
<1>3. 0 \in Good
  BY <1>1, <1>2
<1>4. ASSUME NEW i \in 1 .. Len(es), i - 1 \in Good PROVE i \in Good
  <2> DEFINE u == g[i - 1]
             e == es[i]
             q == <<f[e[1]], f[e[2]]>>
  <2>1. u \in Works(D) /\ e \in D /\ Offers(u, f, V, D) /\ g[i] = CumulativeEdge(u, es, e, side)
        /\ e \in Range(es)
    BY <1>1, <1>2, <1>4
  <2> HIDE DEF u, e
  <2>2. CASE u.stop # "none"
    <3>1. CumulativeEdge(u, es, e, side) = u
      BY <2>2 DEF CumulativeEdge
    <3> QED
      BY <2>1, <3>1
  <2>3. CASE u.stop = "none"
    <3>1. q \in Valid(u, e)
      BY <2>1, OfferedIsValid
    <3>2. Affordable(u, es, e, side, q)
      BY <2>1, OfferedIsAffordable
    <3>3. u.ps \in [D -> SUBSET Pairs]
      BY <2>1 DEF Works
    <3>4. \/ g[i] = u
          \/ \E keep \in SUBSET Valid(u, e) : q \in keep /\ Kept(u, g[i], e, keep)
      <4> HIDE DEF q
      <4>1. \/ CumulativeEdge(u, es, e, side) = u
            \/ \E keep \in SUBSET Valid(u, e) :
                  q \in keep /\ Kept(u, CumulativeEdge(u, es, e, side), e, keep)
        BY <2>1, <2>3, <3>1, <3>2, CumulativeKeeps
      <4> QED
        BY <2>1, <4>1
    <3>5. ASSUME NEW keep, q \in keep, Kept(u, g[i], e, keep) PROVE Offers(g[i], f, V, D)
      BY <2>1, <3>3, <3>5, KeptOffers
    <3>6. CASE g[i] = u
      BY <2>1, <3>6
    <3>7. CASE g[i] # u
      <4> PICK keep \in SUBSET Valid(u, e) : q \in keep /\ Kept(u, g[i], e, keep)
        BY <3>4, <3>7
      <4> QED
        BY <3>5
    <3> QED
      BY <3>6, <3>7
  <2>4. Offers(g[i], f, V, D)
    BY <2>1, <2>2, <2>3
  <2> QED
    BY <2>4, <1>2
<1>5. \A i \in 0 .. Len(es) : i \in Good
  <2> HIDE DEF Good
  <2> QED
    BY <1>2, <1>3, <1>4, Induct
<1> QED
  BY <1>1, <1>2, <1>5

-----------------------------------------------------------------------------
\* The typing invariant.

Whats == {"update", "streaming", "first", "second"}
Phases == {"new", "edges", "update", "idle", "finished", "thrown", "asserted"}
Passes == [retry : Nat, agenda : Seq(AllEdges), consumer : Nodes \cup {0}, queue : Seq(Nodes),
           fast : BOOLEAN]

TypeOK ==
    /\ problem \in Problems /\ strategy \in BOOLEAN
    /\ live \subseteq AllEdges /\ cut_edges \subseteq AllEdges
    /\ DOMAIN selected \subseteq Nodes
    /\ disabled \in [Nodes -> SUBSET Models] /\ bitset \in [Nodes -> SUBSET Models]
    /\ DOMAIN paths \subseteq AllEdges /\ paths \in [DOMAIN paths -> SUBSET Pairs]
    /\ phase \in Phases /\ pass \in Passes
    /\ todo \in Seq(Whats \X Nodes) /\ needs_update \in Seq(Nodes) /\ by_set \in BOOLEAN

\* While the loop over the edges runs, each edge has a path set or is still on the agenda.
AgendaCovers ==
    /\ DOMAIN paths \subseteq live /\ Range(pass.agenda) \subseteq live
    /\ live \subseteq DOMAIN paths \cup Range(pass.agenda)

Shape ==
    /\ phase = "edges" /\ ~pass.fast => AgendaCovers
    /\ phase = "edges" => todo = <<>> /\ needs_update = <<>>
    /\ phase \in {"update", "idle", "finished"} => DOMAIN paths = live /\ ~pass.fast
    /\ phase \in {"idle", "finished"} => todo = <<>> /\ needs_update = <<>>

SoundState == TypeOK /\ Shape

\* The loop of updates leaves work on the same edges.
LEMMA AllUpdatedIsWork ==
  ASSUME NEW D, D \subseteq AllEdges, NEW w \in Works(D), NEW es \in Seq(D)
  PROVE  AllUpdated(w, es) \in Works(D)
BY EachUpdate

\* So do the unchecked updates,
LEMMA AllRefreshedIsWork ==
  ASSUME NEW D, D \subseteq AllEdges, NEW w \in Works(D), NEW es \in Seq(D)
  PROVE  AllRefreshed(w, es) \in Works(D)
BY EachRefresh

\* NodePathsProcessor,
LEMMA AllQueuedIsWork ==
  ASSUME NEW D, D \subseteq AllEdges, NEW w \in QueueWorks(D), NEW es \in Seq(D)
  PROVE  AllQueued(w, es) \in QueueWorks(D)
BY EachQueued

\* and apply_cumulative_costs.
LEMMA CumulativeIsWork ==
  ASSUME NEW D, D \subseteq AllEdges, NEW w \in Works(D), NEW es \in Seq(D), NEW side
  PROVE  apply_cumulative_costs(w, es, side) \in Works(D)
<1>1. PICK g : CumulativeRounds(D, w, es, side, g)
  BY EachCumulative
<1>2. Len(es) \in 0 .. Len(es)
  OBVIOUS
<1> QED
  BY <1>1, <1>2 DEF CumulativeRounds

\* A round of update_solver: update and costs of the operand edges, then of the user edges.
LEMMA RoundIs ==
  ASSUME NEW w, NEW ins, NEW outs
  PROVE  UpdatedAt(w, ins, outs)
           = apply_cumulative_costs(
                AllUpdated(apply_cumulative_costs(AllUpdated(w, ins), ins, 2), outs), outs, 1)
BY Zenon DEF UpdatedAt, AllUpdated

\* A round of update_solver leaves work on the same edges.
LEMMA RoundIsWork ==
  ASSUME NEW D, D \subseteq AllEdges, NEW w \in Works(D), NEW ins \in Seq(D), NEW outs \in Seq(D)
  PROVE  UpdatedAt(w, ins, outs) \in Works(D)
<1> DEFINE a == AllUpdated(w, ins)
           b == apply_cumulative_costs(a, ins, 2)
           c == AllUpdated(b, outs)
<1>1. a \in Works(D)
  BY AllUpdatedIsWork
<1> HIDE DEF a
<1>2. b \in Works(D)
  BY <1>1, CumulativeIsWork
<1> HIDE DEF b
<1>3. c \in Works(D)
  BY <1>2, AllUpdatedIsWork
<1> HIDE DEF c
<1>4. apply_cumulative_costs(c, outs, 1) \in Works(D)
  BY <1>3, CumulativeIsWork
<1> QED
  BY <1>4, RoundIs DEF a, b, c

\* The work that a call starts from.
LEMMA WorkIs ==
  ASSUME NEW D, NEW bs \in [Nodes -> SUBSET Models], NEW ps \in [D -> SUBSET Pairs]
  PROVE  Work(bs, ps) \in Works(D)
BY DEF Work, Works

\* The nodes next to n.
LEMMA NeighboursAre ==
  ASSUME live \subseteq AllEdges, NEW n
  PROVE  /\ operands_and_users(n) \in Seq(Nodes)
         /\ \A e \in live : (e[1] = n => e[2] \in Range(operands_and_users(n)))
                            /\ (e[2] = n => e[1] \in Range(operands_and_users(n)))
<1> DEFINE es == EdgesOf(live, n)
           far(e) == IF e[1] = n THEN e[2] ELSE e[1]
<1>1. es \in Seq(live) /\ Range(es) = {e \in live : n \in {e[1], e[2]}}
  BY EdgesOfAre
<1>2. operands_and_users(n) = [i \in DOMAIN es |-> far(es[i])]
  BY DEF operands_and_users
<1> HIDE DEF es
<1>3. \A e \in live : far(e) \in Nodes
  BY EdgesJoinNodes
<1>4. operands_and_users(n) \in Seq(Nodes)
  BY <1>1, <1>2, <1>3
<1>5. ASSUME NEW e \in live, n \in {e[1], e[2]} PROVE far(e) \in Range(operands_and_users(n))
  <2>1. PICK i \in DOMAIN es : es[i] = e
    BY <1>1, <1>5 DEF Range
  <2> HIDE DEF far
  <2> QED
    BY <2>1, <1>2 DEF Range
<1>6. \A e \in live : e[2] = n /\ e[1] = n => far(e) = e[1]
  OBVIOUS
<1> QED
  BY <1>4, <1>5, <1>6

\* A round puts the far end of an edge back on the stack if the edge changed, or if the costs did.
LEMMA RevisitsAre ==
  ASSUME live \subseteq AllEdges, NEW n, NEW w, NEW ins \in Seq(live), NEW outs \in Seq(live)
  PROVE  /\ Revisits(w, n, ins, outs) \in Seq(Nodes)
         /\ \A e \in Range(ins) \cup Range(outs) :
               (e \in w.changed \/ w.path_changed) =>
                  (IF e[1] = n THEN e[2] ELSE e[1]) \in Range(Revisits(w, n, ins, outs))
<1> DEFINE es == ins \o outs
           far(e) == IF e[1] = n THEN e[2] ELSE e[1]
           near(e) == <<far(e)>> \o Only(operands_and_users(far(e)), Nodes \ {n})
           visit(e) == CASE e \in w.changed -> near(e)
                         [] w.path_changed /\ e \notin w.changed -> <<far(e)>>
                         [] OTHER -> <<>>
           visits == [i \in DOMAIN es |-> visit(es[i])]
<1>1. es \in Seq(live) /\ Range(es) = Range(ins) \cup Range(outs)
  BY RangeOfConcat
<1>2. Revisits(w, n, ins, outs) = FlattenSeq(visits)
  BY DEF Revisits
<1> HIDE DEF es
<1>3. \A e \in live : far(e) \in Nodes
  BY EdgesJoinNodes
<1>4. ASSUME NEW e \in live PROVE near(e) \in Seq(Nodes) /\ far(e) \in Range(near(e))
  <2> DEFINE s == Only(operands_and_users(far(e)), Nodes \ {n})
  <2>1. operands_and_users(far(e)) \in Seq(Nodes)
    <3> HIDE DEF far
    <3> QED
      BY NeighboursAre
  <2>2. s \in Seq(Nodes)
    <3> HIDE DEF far
    <3> QED
      BY <2>1, OnlyIs
  <2> HIDE DEF s
  <2>3. <<far(e)>> \in Seq(Nodes) /\ far(e) \in Range(<<far(e)>>)
    <3> HIDE DEF far
    <3> QED
      BY <1>3 DEF Range
  <2>4. near(e) \in Seq(Nodes) /\ Range(near(e)) = Range(<<far(e)>>) \cup Range(s)
    <3> HIDE DEF far
    <3> QED
      BY <2>2, <2>3, RangeOfConcat DEF s
  <2> QED
    BY <2>3, <2>4
<1> HIDE DEF near, far
<1>5. \A e \in live : visit(e) \in Seq(Nodes)
  BY <1>3, <1>4
<1>6. ASSUME NEW e \in live, e \in w.changed \/ w.path_changed PROVE far(e) \in Range(visit(e))
  <2>1. far(e) \in Range(<<far(e)>>)
    BY DEF Range
  <2> QED
    BY <1>4, <1>6, <2>1
<1> HIDE DEF visit
<1>7. visits \in Seq(Seq(Nodes)) /\ DOMAIN visits = DOMAIN es
  <2>1. Len(es) \in Nat /\ DOMAIN es = 1 .. Len(es) /\ \A i \in 1 .. Len(es) : es[i] \in live
    BY <1>1
  <2>2. \A i \in 1 .. Len(es) : visit(es[i]) \in Seq(Nodes)
    BY <2>1, <1>5
  <2>3. visits = [i \in 1 .. Len(es) |-> visit(es[i])]
    BY <2>1
  <2> HIDE DEF visits
  <2> QED
    BY <2>1, <2>2, <2>3
<1>8. /\ FlattenSeq(visits) \in Seq(Nodes)
      /\ Range(FlattenSeq(visits)) = UNION {Range(visits[i]) : i \in DOMAIN visits}
  <2> HIDE DEF visits
  <2> QED
    BY <1>7, FlattenIs
<1>9. ASSUME NEW e \in Range(es), e \in w.changed \/ w.path_changed
      PROVE  far(e) \in Range(FlattenSeq(visits))
  <2>1. PICK i \in DOMAIN es : es[i] = e
    BY DEF Range
  <2>2. e \in live
    BY <2>1, <1>1
  <2>3. visits[i] = visit(e) /\ far(e) \in Range(visit(e))
    BY <2>1, <2>2, <1>6, <1>9
  <2> HIDE DEF visits
  <2> QED
    BY <2>1, <2>3, <1>7, <1>8
<1> QED
  BY <1>1, <1>2, <1>8, <1>9 DEF far

-----------------------------------------------------------------------------
\* reset() and the expansion from a node.

\* The loop of resolve_step goes over every edge.
LEMMA AgendaAre ==
  ASSUME NEW edges, edges \subseteq AllEdges
  PROVE  LET a == FlattenSeq([i \in DOMAIN Order |-> OperandEdges(edges, Order[i])])
         IN  a \in Seq(edges) /\ Range(a) = edges
<1> DEFINE s == [i \in DOMAIN Order |-> OperandEdges(edges, Order[i])]
           a == FlattenSeq(s)
<1>1. \A n : OperandEdges(edges, n) \in Seq(edges)
             /\ Range(OperandEdges(edges, n)) = {e \in edges : e[2] = n}
  BY OperandEdgesAre
<1>2. DOMAIN Order = 1 .. Len(Order) /\ Len(Order) \in Nat
  BY OrderOfNodes
<1>3. s \in Seq(Seq(edges)) /\ DOMAIN s = DOMAIN Order
  BY <1>1, <1>2
<1> HIDE DEF s
<1>4. a \in Seq(edges) /\ Range(a) = UNION {Range(s[i]) : i \in DOMAIN s}
  BY <1>3, FlattenIs
<1>5. Range(a) \subseteq edges
  BY <1>4 DEF Range
<1>6. ASSUME NEW e \in edges PROVE e \in Range(a)
  <2>1. e[2] \in Range(Order)
    BY EdgesJoinNodes, OrderOfNodes
  <2>2. PICK i \in DOMAIN Order : Order[i] = e[2]
    BY <2>1 DEF Range
  <2>3. s[i] = OperandEdges(edges, e[2])
    BY <2>2 DEF s
  <2>4. e \in Range(s[i])
    BY <2>3, <1>1
  <2> QED
    BY <2>2, <2>4, <1>3, <1>4
<1> QED
  BY <1>4, <1>5, <1>6 DEF s

\* What Resolve leaves: all is reset, and the edges are on the agenda.
LEMMA ResolveIs ==
  ASSUME NEW edges, edges \subseteq AllEdges, NEW off \in [Nodes -> SUBSET Models],
         NEW retry \in Nat, Resolve(edges, off, retry)
  PROVE  /\ phase' = "edges" /\ bitset' = [n \in Nodes |-> Models \ off[n]] /\ paths' = <<>>
         /\ pass' \in Passes /\ ~pass'.fast
         /\ Range(pass'.agenda) = edges
         /\ todo' = <<>> /\ needs_update' = <<>> /\ by_set' = FALSE
<1> DEFINE a == FlattenSeq([i \in DOMAIN Order |-> OperandEdges(edges, Order[i])])
<1>1. a \in Seq(edges) /\ Range(a) = edges
  BY AgendaAre
<1>2. /\ phase' = "edges" /\ bitset' = [n \in Nodes |-> Models \ off[n]] /\ paths' = <<>>
      /\ pass' = [NoPass EXCEPT !.retry = retry, !.agenda = a]
      /\ todo' = <<>> /\ needs_update' = <<>> /\ by_set' = FALSE
  BY DEF Resolve
<1> HIDE DEF a
<1>3. a \in Seq(AllEdges)
  BY <1>1
<1>4. pass' = [retry |-> retry, agenda |-> a, consumer |-> 0, queue |-> <<>>, fast |-> FALSE]
  BY <1>2 DEF NoPass
<1>5. pass' \in Passes /\ ~pass'.fast /\ pass'.agenda = a
  BY <1>3, <1>4 DEF Passes
<1> QED
  BY <1>1, <1>2, <1>5

\* reset() leaves a state of the right shape, whatever the graph was.
LEMMA ResolveSound ==
  ASSUME NEW edges, edges \subseteq AllEdges, NEW off \in [Nodes -> SUBSET Models],
         NEW retry \in Nat, Resolve(edges, off, retry), live' = edges,
         problem' \in Problems, strategy' \in BOOLEAN, cut_edges' \subseteq AllEdges,
         DOMAIN selected' \subseteq Nodes, disabled' \in [Nodes -> SUBSET Models]
  PROVE  SoundState'
<1>1. /\ phase' = "edges" /\ bitset' = [n \in Nodes |-> Models \ off[n]] /\ paths' = <<>>
      /\ pass' \in Passes /\ ~pass'.fast
      /\ Range(pass'.agenda) = edges
      /\ todo' = <<>> /\ needs_update' = <<>> /\ by_set' = FALSE
  BY ResolveIs
<1>2. bitset' \in [Nodes -> SUBSET Models]
  BY <1>1
<1>3. DOMAIN paths' = {} /\ paths' \in [DOMAIN paths' -> SUBSET Pairs]
  BY <1>1
<1>4. TypeOK'
  <2>1. todo' \in Seq(Whats \X Nodes) /\ needs_update' \in Seq(Nodes)
    BY <1>1
  <2>2. phase' \in Phases /\ by_set' \in BOOLEAN
    BY <1>1 DEF Phases
  <2> QED
    BY <1>1, <1>2, <1>3, <2>1, <2>2 DEF TypeOK
<1>5. AgendaCovers'
  BY <1>1, <1>3 DEF AgendaCovers
<1> QED
  BY <1>1, <1>4, <1>5 DEF SoundState, Shape

\* recompute_legal_op_models leaves a set of disabled models for every node.
LEMMA RecomputedIs ==
  ASSUME TypeOK, NEW ns
  PROVE  Recomputed(ns) \in [Nodes -> SUBSET Models]
BY DEF TypeOK, Recomputed

\* update_solver with expand_root: the node and its neighbours are on the stack.
LEMMA ExpandIs ==
  ASSUME SoundState, DOMAIN paths = live, NEW n \in Nodes, NEW bs \in [Nodes -> SUBSET Models],
         Expand(n, bs)
  PROVE  LET w == AllRefreshed(Work(bs, paths), EdgesOf(live, n))
         IN  /\ w \in Works(live) /\ bitset' = w.bs /\ paths' = w.ps
             /\ needs_update' = <<n>> \o operands_and_users(n)
             /\ needs_update' \in Seq(Nodes)
             /\ Range(needs_update') = {n} \cup Range(operands_and_users(n))
<1> DEFINE w == AllRefreshed(Work(bs, paths), EdgesOf(live, n))
<1>1. live \subseteq AllEdges /\ paths \in [live -> SUBSET Pairs]
  BY DEF SoundState, TypeOK
<1>2. Work(bs, paths) \in Works(live) /\ EdgesOf(live, n) \in Seq(live)
  BY <1>1, WorkIs, EdgesOfAre
<1>3. w \in Works(live)
  BY <1>1, <1>2, AllRefreshedIsWork
<1>4. bitset' = w.bs /\ paths' = w.ps /\ needs_update' = <<n>> \o operands_and_users(n)
  BY Zenon DEF Expand, AllRefreshed
<1>5. operands_and_users(n) \in Seq(Nodes)
  BY <1>1, NeighboursAre
<1>6. <<n>> \in Seq(Nodes) /\ Range(<<n>>) = {n}
  BY DEF Range
<1>7. /\ <<n>> \o operands_and_users(n) \in Seq(Nodes)
      /\ Range(<<n>> \o operands_and_users(n)) = {n} \cup Range(operands_and_users(n))
  <2> DEFINE a == <<n>>
             b == operands_and_users(n)
  <2>1. a \in Seq(Nodes) /\ b \in Seq(Nodes) /\ Range(a) = {n}
    BY <1>5, <1>6
  <2> HIDE DEF a, b
  <2>2. a \o b \in Seq(Nodes) /\ Range(a \o b) = {n} \cup Range(b)
    BY <2>1, RangeOfConcat
  <2> QED
    BY <2>2 DEF a, b
<1> HIDE DEF w
<1>8. /\ needs_update' \in Seq(Nodes)
      /\ Range(needs_update') = {n} \cup Range(operands_and_users(n))
  BY <1>4, <1>7
<1> QED
  BY <1>3, <1>4, <1>8 DEF w

\* It leaves a state of the right shape.
LEMMA ExpandSound ==
  ASSUME SoundState, DOMAIN paths = live, NEW n \in Nodes, NEW bs \in [Nodes -> SUBSET Models],
         Expand(n, bs), phase' = "update", UNCHANGED <<problem, live, cut_edges>>,
         strategy' \in BOOLEAN,
         DOMAIN selected' \subseteq Nodes, disabled' \in [Nodes -> SUBSET Models],
         pass' = pass, ~pass.fast, todo' \in Seq(Whats \X Nodes), by_set' \in BOOLEAN
  PROVE  SoundState'
<1>1. PICK w \in Works(live) : bitset' = w.bs /\ paths' = w.ps /\ needs_update' \in Seq(Nodes)
  BY ExpandIs
<1>2. bitset' \in [Nodes -> SUBSET Models] /\ paths' \in [live -> SUBSET Pairs]
  BY <1>1 DEF Works
<1>3. DOMAIN paths' = live'
  BY <1>2
<1>4. phase' \in Phases
  BY DEF Phases
<1>5. TypeOK'
  BY <1>1, <1>2, <1>3, <1>4 DEF SoundState, TypeOK
<1> QED
  BY <1>3, <1>5 DEF SoundState, Shape

\* A sequence is one over any set that has its elements.
LEMMA SeqRestrict ==
  ASSUME NEW T, NEW s \in Seq(T), NEW S, Range(s) \subseteq S
  PROVE  s \in Seq(S)
<1>1. \A i \in 1 .. Len(s) : s[i] \in S
  BY DEF Range
<1> QED
  BY <1>1

\* The ends of a sequence that is not empty.
LEMMA SeqEnds ==
  ASSUME NEW T, NEW s \in Seq(T), s # <<>>
  PROVE  /\ Head(s) \in T /\ Tail(s) \in Seq(T) /\ Range(s) = {Head(s)} \cup Range(Tail(s))
         /\ Last(s) \in T /\ Front(s) \in Seq(T) /\ Range(s) = Range(Front(s)) \cup {Last(s)}
<1> DEFINE n == Len(s)
<1>1. n \in Nat /\ n # 0 /\ \A i \in 1 .. n : s[i] \in T
  OBVIOUS
<1>2. Head(s) = s[1] /\ Tail(s) \in Seq(T) /\ Len(Tail(s)) = n - 1
      /\ \A i \in 1 .. n - 1 : Tail(s)[i] = s[i + 1]
  BY <1>1
<1>3. Last(s) = s[n] /\ Front(s) \in Seq(T) /\ Len(Front(s)) = n - 1
      /\ \A i \in 1 .. n - 1 : Front(s)[i] = s[i]
  <2>1. Front(s) = SubSeq(s, 1, n - 1) /\ Last(s) = s[n]
    BY DEF Last, Front
  <2>2. SubSeq(s, 1, n - 1) = [i \in 1 .. n - 1 |-> s[i]]
    BY <1>1
  <2>3. \A i \in 1 .. n - 1 : s[i] \in T
    BY <1>1
  <2> HIDE DEF n
  <2>4. Front(s) = [i \in 1 .. n - 1 |-> s[i]]
    BY <2>1, <2>2
  <2> QED
    BY <2>1, <2>3, <2>4, <1>1
<1>4. \A t \in Seq(T) : DOMAIN t = 1 .. Len(t)
  OBVIOUS
<1> HIDE DEF n
<1>5. DOMAIN s = 1 .. n /\ DOMAIN Tail(s) = 1 .. n - 1 /\ DOMAIN Front(s) = 1 .. n - 1
  BY <1>2, <1>3, <1>4 DEF n
<1>6. \A x : x \in Range(s) <=> \E i \in 1 .. n : s[i] = x
  BY <1>5 DEF Range
<1>7. \A x : x \in Range(Tail(s)) <=> \E i \in 1 .. n - 1 : s[i + 1] = x
  BY <1>5, <1>2 DEF Range
<1>8. \A x : x \in Range(Front(s)) <=> \E i \in 1 .. n - 1 : s[i] = x
  BY <1>5, <1>3 DEF Range
<1>9. Range(s) = {s[1]} \cup Range(Tail(s))
  <2>1. ASSUME NEW i \in 1 .. n PROVE s[i] \in {s[1]} \cup Range(Tail(s))
    <3>1. CASE i = 1
      BY <3>1
    <3>2. CASE i # 1
      <4>1. i - 1 \in 1 .. n - 1 /\ (i - 1) + 1 = i
        BY <3>2, <1>1
      <4> QED
        BY <4>1, <1>7
    <3> QED
      BY <3>1, <3>2
  <2>2. \A i \in 1 .. n - 1 : i + 1 \in 1 .. n
    BY <1>1
  <2>3. 1 \in 1 .. n
    BY <1>1
  <2> QED
    BY <2>1, <2>2, <2>3, <1>6, <1>7
<1>10. Range(s) = Range(Front(s)) \cup {s[n]}
  <2>1. \A i \in 1 .. n : i = n \/ i \in 1 .. n - 1
    BY <1>1
  <2>2. \A i \in 1 .. n - 1 : i \in 1 .. n
    BY <1>1
  <2>3. n \in 1 .. n
    BY <1>1
  <2> QED
    BY <2>1, <2>2, <2>3, <1>6, <1>8
<1>11. s[1] \in T /\ s[n] \in T
  BY <1>1
<1> QED
  BY <1>2, <1>3, <1>9, <1>10, <1>11

-----------------------------------------------------------------------------
\* Every step keeps the types: construction, self_cut, the loop over the edges.

\* The solver starts in a state of the right shape.
LEMMA InitSound == ASSUME Init PROVE SoundState
<1>1. <<>> \in Seq(Whats \X Nodes) /\ <<>> \in Seq(Nodes) /\ <<>> \in Seq(AllEdges)
  OBVIOUS
<1>2. NoPass \in Passes
  BY <1>1 DEF NoPass, Passes
<1>3. paths = <<>> /\ DOMAIN paths = {} /\ paths \in [DOMAIN paths -> SUBSET Pairs]
      /\ DOMAIN selected = {}
  BY DEF Init
<1>4. TypeOK
  <2>1. phase \in Phases
    BY DEF Init, Phases
  <2>2. live \subseteq AllEdges /\ cut_edges \subseteq AllEdges
    BY DEF Init, AllEdges
  <2>3. disabled \in [Nodes -> SUBSET Models] /\ bitset \in [Nodes -> SUBSET Models]
    BY DEF Init
  <2> QED
    BY <1>1, <1>2, <1>3, <2>1, <2>2, <2>3 DEF Init, TypeOK
<1> QED
  BY <1>4 DEF Init, SoundState, Shape

\* The constructor keeps the shape,
LEMMA ConstructSound == ASSUME SoundState, Construct PROVE SoundState'
<1>1. PICK es \in {{}, problem.switch} :
         live' = live \ es /\ cut_edges' = es /\ Resolve(live \ es, disabled, 1)
  BY DEF Construct
<1>2. live \subseteq AllEdges /\ problem \in Problems
      /\ strategy \in BOOLEAN /\ DOMAIN selected \subseteq Nodes /\ disabled \in [Nodes -> SUBSET Models]
  BY DEF SoundState, TypeOK
<1>3. es \subseteq AllEdges
  BY <1>2, SolverAssumption DEF AllEdges
<1>4. UNCHANGED <<problem, strategy, selected, disabled>>
  BY DEF Construct
<1>5. live \ es \subseteq AllEdges
  BY <1>2
<1> QED
  BY <1>1, <1>2, <1>3, <1>4, <1>5, ResolveSound

\* so does throwing,
LEMMA ThrowSound ==
  ASSUME SoundState, Throw, UNCHANGED <<problem, strategy, selected>> PROVE SoundState'
<1>1. phase' = "thrown"
      /\ UNCHANGED <<live, cut_edges, disabled, bitset, paths, pass, todo, needs_update, by_set>>
  BY DEF Throw
<1>2. phase' \in Phases
  BY <1>1 DEF Phases
<1> QED
  BY <1>1, <1>2 DEF SoundState, TypeOK, Shape

\* and so does self_cut, in each of its modes.
LEMMA SelfCutSound ==
  ASSUME SoundState, phase = "edges", pass.agenda # <<>>, NEW e, self_cut(e), e \in AllEdges,
         UNCHANGED <<problem, strategy, selected>>
  PROVE  SoundState'
<1> DEFINE es == SelfCutEdges(e)
<1>0. /\ problem \in Problems /\ strategy \in BOOLEAN /\ live \subseteq AllEdges
      /\ cut_edges \subseteq AllEdges /\ DOMAIN selected \subseteq Nodes
      /\ bitset \in [Nodes -> SUBSET Models] /\ pass \in Passes
  BY DEF SoundState, TypeOK
<1>1. es \subseteq live
  BY DEF SelfCutEdges
<1> HIDE DEF es
<1>2. CASE \E f \in es : {f[1], f[2]} \subseteq DOMAIN selected
  <2>1. phase' = "asserted"
        /\ UNCHANGED <<live, cut_edges, disabled, bitset, paths, pass, todo, needs_update, by_set>>
    BY <1>2 DEF self_cut, es
  <2>2. phase' \in Phases
    BY <2>1 DEF Phases
  <2> QED
    BY <2>1, <2>2 DEF SoundState, TypeOK, Shape
<1>3. CASE ~ \E f \in es : {f[1], f[2]} \subseteq DOMAIN selected
  <2>1. live' = live \ es /\ cut_edges' = cut_edges \cup es /\ disabled' = Recomputed(Unset(es))
    BY <1>3 DEF self_cut, es
  <2>2. live' \subseteq AllEdges /\ cut_edges' \subseteq AllEdges
    BY <2>1, <1>0, <1>1
  <2>3. disabled' \in [Nodes -> SUBSET Models]
    BY <2>1, RecomputedIs DEF SoundState
  <2>4. CASE problem.self_cut = "fast"
    <3>1. /\ pass' = [pass EXCEPT !.fast = TRUE, !.consumer = e[2],
                                  !.agenda = Only(@, {f \in live : f[2] # e[2]})]
          /\ bitset' = [bitset EXCEPT ![e[2]] = Models]
          /\ UNCHANGED <<paths, phase, todo, needs_update, by_set>>
      BY <1>3, <2>4 DEF self_cut, es
    <3>2. bitset' \in [Nodes -> SUBSET Models]
      BY <3>1, <1>0, EdgesJoinNodes
    <3>3. Only(pass.agenda, {f \in live : f[2] # e[2]}) \in Seq(AllEdges)
      <4>1. pass.agenda \in Seq(AllEdges)
        BY <1>0 DEF Passes
      <4> QED
        BY <4>1, OnlyIs
    <3>4. e[2] \in Nodes
      BY EdgesJoinNodes
    <3>5. pass' \in Passes /\ pass'.fast
      <4> DEFINE a == Only(pass.agenda, {f \in live : f[2] # e[2]})
      <4>1. pass' = [pass EXCEPT !.fast = TRUE, !.consumer = e[2], !.agenda = a]
        BY <3>1
      <4>2. a \in Seq(AllEdges)
        BY <3>3
      <4> HIDE DEF a
      <4> QED
        BY <4>1, <4>2, <3>4, <1>0 DEF Passes
    <3>6. TypeOK'
      BY <3>1, <3>2, <3>5, <2>2, <2>3 DEF SoundState, TypeOK
    <3> QED
      BY <3>1, <3>5, <3>6 DEF SoundState, Shape
  <2>5. CASE problem.self_cut # "fast"
    <3>1. Resolve(live \ es, disabled', pass.retry + 1)
      BY <1>3, <2>5 DEF self_cut, es
    <3>2. pass.retry + 1 \in Nat
      BY <1>0 DEF Passes
    <3>3. live \ es \subseteq AllEdges /\ problem' \in Problems /\ strategy' \in BOOLEAN
          /\ DOMAIN selected' \subseteq Nodes
      BY <1>0
    <3> QED
      BY <3>1, <3>2, <3>3, <2>1, <2>2, <2>3, ResolveSound
  <2> QED
    BY <2>4, <2>5
<1> QED
  BY <1>2, <1>3

\* The path set that ResolveEdge adds.
LEMMA AddPathsIs ==
  ASSUME TypeOK, NEW e \in AllEdges, NEW found \in SUBSET Pairs
  PROVE  LET D == DOMAIN paths \cup {e}
             w == Work(bitset, With(paths, e, found))
         IN  /\ w \in Works(D) /\ D \subseteq AllEdges
             /\ w.bs = bitset /\ w.ps[e] = found
             /\ \A d \in DOMAIN paths \ {e} : w.ps[d] = paths[d]
<1> DEFINE D == DOMAIN paths \cup {e}
           p == With(paths, e, found)
<1>1. DOMAIN paths \subseteq AllEdges /\ paths \in [DOMAIN paths -> SUBSET Pairs]
      /\ bitset \in [Nodes -> SUBSET Models]
  BY DEF TypeOK
<1>2. p = [d \in D |-> IF d = e THEN found ELSE paths[d]]
  BY DEF With
<1>3. p \in [D -> SUBSET Pairs]
  BY <1>1, <1>2
<1>4. Work(bitset, p) \in Works(D)
  BY <1>1, <1>3, WorkIs
<1>5. Work(bitset, p).bs = bitset /\ Work(bitset, p).ps = p
  BY DEF Work
<1> QED
  BY <1>1, <1>2, <1>4, <1>5

\* A step of the loop that finds paths.
FoundEdge(e, found) ==
    LET w == Keep(Work(bitset, With(paths, e, found)), e, found)
        add == ~pass.fast /\ bitset[e[1]] # w.bs[e[1]] /\ e[1] \notin Range(pass.queue)
    IN  /\ bitset' = w.bs /\ paths' = w.ps
        /\ pass' = [pass EXCEPT !.agenda = Tail(@), !.consumer = e[2],
                                !.queue = IF add THEN Append(@, e[1]) ELSE @]
        /\ UNCHANGED <<live, cut_edges, disabled, phase, todo, needs_update, by_set>>

\* One edge in the loop of resolve_step: paths are found, or it is cut, or resolve throws.
LEMMA ResolveEdgeIs ==
  ASSUME ResolveEdge, NEW e, e = Head(pass.agenda), NEW found,
         found = problem.fits[e] \cap (bitset[e[1]] \X bitset[e[2]])
  PROVE  /\ phase = "edges" /\ pass.agenda # <<>>
         /\ UNCHANGED <<problem, strategy, selected>>
         /\ (found # {} /\ FoundEdge(e, found)) \/ self_cut(e) \/ Throw
<1> DEFINE w == Keep(Work(bitset, With(paths, e, found)), e, found)
           add == ~pass.fast /\ bitset[e[1]] # w.bs[e[1]] /\ e[1] \notin Range(pass.queue)
<1>1. /\ phase = "edges" /\ pass.agenda # <<>>
      /\ UNCHANGED <<problem, strategy, selected>>
  BY DEF ResolveEdge
<1>2. CASE found # {}
  <2>1. /\ bitset' = w.bs /\ paths' = w.ps
        /\ pass' = [pass EXCEPT !.agenda = Tail(@), !.consumer = e[2],
                                !.queue = IF add THEN Append(@, e[1]) ELSE @]
        /\ UNCHANGED <<live, cut_edges, disabled, phase, todo, needs_update, by_set>>
    BY <1>2 DEF ResolveEdge
  <2> HIDE DEF w, add
  <2>2. FoundEdge(e, found)
    BY <2>1 DEF FoundEdge, w, add
  <2> QED
    BY <1>1, <1>2, <2>2
<1>3. CASE found = {}
  <2>1. self_cut(e) \/ Throw
    BY <1>3 DEF ResolveEdge
  <2> QED
    BY <1>1, <2>1
<1> QED
  BY <1>2, <1>3

\* A new path set keeps the shape.
LEMMA FoundEdgeSound ==
  ASSUME SoundState, phase = "edges", pass.agenda # <<>>, NEW e, e = Head(pass.agenda),
         NEW found \in SUBSET Pairs, FoundEdge(e, found), UNCHANGED <<problem, strategy, selected>>
  PROVE  SoundState'
<1> DEFINE D == DOMAIN paths \cup {e}
           w0 == Work(bitset, With(paths, e, found))
           w == Keep(w0, e, found)
           q == IF ~pass.fast /\ bitset[e[1]] # w.bs[e[1]] /\ e[1] \notin Range(pass.queue)
                THEN Append(pass.queue, e[1]) ELSE pass.queue
<1>1. /\ TypeOK /\ pass.agenda \in Seq(AllEdges) /\ pass.queue \in Seq(Nodes) /\ pass \in Passes
  BY DEF SoundState, TypeOK, Passes
<1>2. e \in AllEdges /\ Tail(pass.agenda) \in Seq(AllEdges)
      /\ Range(pass.agenda) = {e} \cup Range(Tail(pass.agenda))
  BY <1>1, SeqEnds
<1>3. e[1] \in Nodes /\ e[2] \in Nodes
  BY <1>2, EdgesJoinNodes
<1>4. w0 \in Works(D) /\ D \subseteq AllEdges
  BY <1>1, <1>2, AddPathsIs
<1> HIDE DEF w0
<1>5. w \in Works(D)
  <2>1. e \in D
    OBVIOUS
  <2> HIDE DEF D
  <2> QED
    BY <2>1, <1>4, KeepIs
<1>6. bitset' = w.bs /\ paths' = w.ps
      /\ UNCHANGED <<live, cut_edges, disabled, phase, todo, needs_update, by_set>>
  BY DEF FoundEdge, w0
<1>7. pass' = [pass EXCEPT !.agenda = Tail(@), !.consumer = e[2], !.queue = q]
  <2> DEFINE u == Keep(Work(bitset, With(paths, e, found)), e, found)
  <2>1. pass' = [pass EXCEPT !.agenda = Tail(@), !.consumer = e[2],
                  !.queue = IF ~pass.fast /\ bitset[e[1]] # u.bs[e[1]] /\ e[1] \notin Range(pass.queue)
                            THEN Append(@, e[1]) ELSE @]
    BY DEF FoundEdge
  <2>2. u = w
    BY DEF w0
  <2> HIDE DEF u, w
  <2> QED
    BY <2>1, <2>2, <1>1 DEF Passes
<1> HIDE DEF w
<1>8. q \in Seq(Nodes)
  BY <1>1, <1>3
<1> HIDE DEF q
<1>9. pass' \in Passes /\ pass'.agenda = Tail(pass.agenda) /\ pass'.fast = pass.fast
  <2> DEFINE t == Tail(pass.agenda)
  <2>1. t \in Seq(AllEdges)
    BY <1>2
  <2>2. pass' = [pass EXCEPT !.agenda = t, !.consumer = e[2], !.queue = q]
    BY <1>7
  <2> HIDE DEF t
  <2>3. pass' \in Passes /\ pass'.agenda = t /\ pass'.fast = pass.fast
    BY <2>1, <2>2, <1>1, <1>3, <1>8 DEF Passes
  <2> QED
    BY <2>3 DEF t
<1>10. bitset' \in [Nodes -> SUBSET Models] /\ paths' \in [D -> SUBSET Pairs] /\ DOMAIN paths' = D
  BY <1>5, <1>6 DEF Works
<1>11. TypeOK'
  BY <1>1, <1>4, <1>6, <1>9, <1>10 DEF TypeOK
<1>12. ~pass'.fast => AgendaCovers'
  BY <1>2, <1>6, <1>9, <1>10 DEF SoundState, Shape, AgendaCovers
<1> QED
  BY <1>6, <1>11, <1>12 DEF SoundState, Shape

\* The pairs that an edge allows are pairs of models.
LEMMA FitsArePairs == ASSUME TypeOK, NEW A, NEW x \in Nodes, NEW y \in Nodes
  PROVE A \cap (bitset[x] \X bitset[y]) \in SUBSET Pairs
BY DEF TypeOK, Pairs

\* One edge in the loop of resolve_step keeps the shape.
LEMMA ResolveEdgeSound == ASSUME SoundState, ResolveEdge PROVE SoundState'
<1> DEFINE e == Head(pass.agenda)
           found == problem.fits[e] \cap (bitset[e[1]] \X bitset[e[2]])
<1>1. /\ phase = "edges" /\ pass.agenda # <<>> /\ UNCHANGED <<problem, strategy, selected>>
      /\ (found # {} /\ FoundEdge(e, found)) \/ self_cut(e) \/ Throw
  BY ResolveEdgeIs
<1>2. pass.agenda \in Seq(AllEdges)
  BY DEF SoundState, TypeOK, Passes
<1>3. e \in AllEdges
  BY <1>1, <1>2, SeqEnds
<1>4. e[1] \in Nodes /\ e[2] \in Nodes
  BY <1>3, EdgesJoinNodes
<1>5. found \in SUBSET Pairs
  BY <1>4, FitsArePairs DEF SoundState
<1>6. e = Head(pass.agenda)
  OBVIOUS
<1> HIDE DEF e, found
<1> QED
  BY <1>1, <1>3, <1>5, <1>6, FoundEdgeSound, SelfCutSound, ThrowSound

\* The work of NodePathsProcessor at the last node of its queue.
NodeWork == AllQueued([bs |-> bitset, ps |-> paths, queue |-> Front(pass.queue)],
                      Only(EdgesOf(live, Last(pass.queue)), DOMAIN paths))

\* One node of NodePathsProcessor::process.
LEMMA ProcessNodeIs ==
  ASSUME TypeOK, ProcessNode
  PROVE  /\ NodeWork \in QueueWorks(DOMAIN paths)
         /\ [bs |-> bitset, ps |-> paths, queue |-> Front(pass.queue)] \in QueueWorks(DOMAIN paths)
         /\ Only(EdgesOf(live, Last(pass.queue)), DOMAIN paths) \in Seq(DOMAIN paths)
         /\ bitset' = NodeWork.bs /\ paths' = NodeWork.ps
         /\ pass' \in Passes /\ pass'.agenda = pass.agenda /\ pass'.fast = pass.fast
         /\ ~pass.fast /\ phase = "edges"
         /\ UNCHANGED <<problem, strategy, live, cut_edges, selected, disabled, phase, todo,
                        needs_update, by_set>>
<1> DEFINE D == DOMAIN paths
           q == Front(pass.queue)
           w0 == [bs |-> bitset, ps |-> paths, queue |-> q]
           es == Only(EdgesOf(live, Last(pass.queue)), D)
<1>1. /\ pass \in Passes /\ pass.queue \in Seq(Nodes) /\ live \subseteq AllEdges /\ D \subseteq AllEdges
      /\ bitset \in [Nodes -> SUBSET Models] /\ paths \in [D -> SUBSET Pairs]
  BY DEF TypeOK, Passes
<1>2. pass.queue # <<>> /\ phase = "edges" /\ ~pass.fast
      /\ UNCHANGED <<problem, strategy, live, cut_edges, selected, disabled, phase, todo,
                     needs_update, by_set>>
  BY DEF ProcessNode
<1>3. q \in Seq(Nodes)
  BY <1>1, <1>2, SeqEnds
<1>4. bitset' = NodeWork.bs /\ paths' = NodeWork.ps /\ pass' = [pass EXCEPT !.queue = NodeWork.queue]
  BY Zenon DEF ProcessNode, NodeWork, AllQueued
<1>5. es \in Seq(D)
  <2>1. EdgesOf(live, Last(pass.queue)) \in Seq(live)
    BY <1>1, EdgesOfAre
  <2>2. es \in Seq(live) /\ Range(es) = Range(EdgesOf(live, Last(pass.queue))) \cap D
    BY <2>1, OnlyIs
  <2> HIDE DEF es
  <2> QED
    BY <2>2, SeqRestrict
<1> HIDE DEF q
<1>6. w0 \in QueueWorks(D)
  BY <1>1, <1>3 DEF QueueWorks
<1> HIDE DEF w0, es
<1>7. AllQueued(w0, es) \in QueueWorks(D)
  <2> HIDE DEF D
  <2> QED
    BY <1>1, <1>5, <1>6, AllQueuedIsWork
<1>8. NodeWork = AllQueued(w0, es)
  BY DEF NodeWork, w0, es, q
<1>9. NodeWork.queue \in Seq(Nodes)
  BY <1>7, <1>8 DEF QueueWorks
<1>10. pass' \in Passes /\ pass'.agenda = pass.agenda /\ pass'.fast = pass.fast
  BY <1>1, <1>4, <1>9 DEF Passes
<1> QED
  BY <1>2, <1>4, <1>5, <1>6, <1>7, <1>8, <1>10 DEF w0, es, q

\* It keeps the shape.
LEMMA ProcessNodeSound == ASSUME SoundState, ProcessNode PROVE SoundState'
<1>1. TypeOK
  BY DEF SoundState
<1>2. /\ NodeWork \in QueueWorks(DOMAIN paths)
      /\ bitset' = NodeWork.bs /\ paths' = NodeWork.ps
      /\ pass' \in Passes /\ pass'.agenda = pass.agenda /\ pass'.fast = pass.fast
      /\ ~pass.fast /\ phase = "edges"
      /\ UNCHANGED <<problem, strategy, live, cut_edges, selected, disabled, phase, todo,
                     needs_update, by_set>>
  BY <1>1, ProcessNodeIs
<1>3. bitset' \in [Nodes -> SUBSET Models] /\ paths' \in [DOMAIN paths -> SUBSET Pairs]
      /\ DOMAIN paths' = DOMAIN paths
  BY <1>2 DEF QueueWorks
<1>4. TypeOK'
  BY <1>1, <1>2, <1>3 DEF TypeOK
<1> QED
  BY <1>2, <1>3, <1>4 DEF SoundState, Shape, AgendaCovers

\* A list of nodes with what is to be done about each.
LEMMA OverIs == ASSUME NEW what \in Whats, NEW ns \in Seq(Nodes)
  PROVE  Over(what, ns) \in Seq(Whats \X Nodes)
         /\ Range(Over(what, ns)) = {<<what, n>> : n \in Range(ns)}
<1>1. Over(what, ns) \in Seq(Whats \X Nodes) /\ DOMAIN Over(what, ns) = DOMAIN ns
      /\ \A i \in DOMAIN ns : Over(what, ns)[i] = <<what, ns[i]>>
  BY DEF Over
<1> QED
  BY <1>1 DEF Range

\* The nodes that EdgesDone puts on the list, each to be updated and looked at by the passes.
LEMMA AllNodesAre ==
  LET ns == Only(Order, Visible)
      all == Over("update", ns) \o Over("streaming", ns)
               \o IF strategy THEN Over("first", ns) \o Over("second", ns) ELSE <<>>
      late == Over("first", ns) \o Over("second", ns)
  IN  /\ all \in Seq(Whats \X Nodes) /\ late \in Seq(Whats \X Nodes)
      /\ \A n \in Visible \cap Nodes : <<"update", n>> \in Range(all)
<1> DEFINE ns == Only(Order, Visible)
           T == Whats \X Nodes
           u == Over("update", ns)
           s == Over("streaming", ns)
           a == Over("first", ns)
           b == Over("second", ns)
<1>1. ns \in Seq(Nodes) /\ Range(ns) = Nodes \cap Visible
  BY OnlyIs, OrderOfNodes
<1>2. u \in Seq(T) /\ s \in Seq(T) /\ a \in Seq(T) /\ b \in Seq(T)
      /\ Range(u) = {<<"update", n>> : n \in Nodes \cap Visible}
  <2>1. {"update", "streaming", "first", "second"} \subseteq Whats
    BY DEF Whats
  <2> HIDE DEF ns
  <2> QED
    BY <1>1, <2>1, OverIs
<1> HIDE DEF u, s, a, b, T
<1>3. a \o b \in Seq(T) /\ u \o s \in Seq(T) /\ Range(u \o s) = Range(u) \cup Range(s)
  BY <1>2, RangeOfConcat
<1>4. (IF strategy THEN a \o b ELSE <<>>) \in Seq(T)
  BY <1>3
<1> DEFINE r == IF strategy THEN a \o b ELSE <<>>
           us == u \o s
<1>5. r \in Seq(T) /\ us \in Seq(T) /\ Range(us) = Range(u) \cup Range(s)
  BY <1>3, <1>4
<1> HIDE DEF r, us
<1>6. us \o r \in Seq(T) /\ Range(us \o r) = Range(us) \cup Range(r)
  BY <1>5, RangeOfConcat
<1>7. \A n \in Visible \cap Nodes : <<"update", n>> \in Range(us \o r)
  BY <1>2, <1>5, <1>6
<1> QED
  BY <1>3, <1>6, <1>7 DEF r, us, u, s, a, b, T

\* The end of the loop of resolve_step keeps the shape: then every edge has a path set.
LEMMA EdgesDoneSound == ASSUME SoundState, EdgesDone PROVE SoundState'
<1>1. phase = "edges" /\ pass.agenda = <<>>
      /\ UNCHANGED <<problem, strategy, live, cut_edges, selected, disabled>>
  BY DEF EdgesDone
<1>2. TypeOK
  BY DEF SoundState
<1>3. CASE pass.fast
  <2>1. Resolve(live, disabled, pass.retry + 1)
    BY <1>3 DEF EdgesDone
  <2>2. pass.retry + 1 \in Nat
    BY <1>2 DEF TypeOK, Passes
  <2> QED
    BY <2>1, <2>2, <1>1, <1>2, ResolveSound DEF TypeOK
<1>4. CASE ~pass.fast
  <2>1. phase' = "update" /\ UNCHANGED <<bitset, paths, pass, needs_update, by_set>>
    BY <1>4 DEF EdgesDone
  <2>2. todo' \in Seq(Whats \X Nodes)
    <3> DEFINE ns == Only(Order, Visible)
               all == Over("update", ns) \o Over("streaming", ns)
                        \o IF strategy THEN Over("first", ns) \o Over("second", ns) ELSE <<>>
    <3>1. todo' = all
      BY <1>4 DEF EdgesDone
    <3>2. all \in Seq(Whats \X Nodes)
      BY AllNodesAre
    <3> QED
      BY <3>1, <3>2
  <2>3. DOMAIN paths = live
    <3>1. Range(pass.agenda) = {}
      BY <1>1 DEF Range
    <3> QED
      BY <3>1, <1>1, <1>4 DEF SoundState, Shape, AgendaCovers
  <2>4. phase' \in Phases
    BY <2>1 DEF Phases
  <2>5. TypeOK'
    BY <1>1, <1>2, <2>1, <2>2, <2>4 DEF TypeOK
  <2> QED
    BY <1>1, <1>4, <2>1, <2>3, <2>5 DEF SoundState, Shape
<1> QED
  BY <1>3, <1>4

-----------------------------------------------------------------------------
\* Every step keeps the types: update_solver and the calls of the policy.

\* The next entry of the list.
LEMMA TodoIs ==
  ASSUME SoundState, todo # <<>>
  PROVE  /\ Head(todo) \in Whats \X Nodes /\ Tail(todo) \in Seq(Whats \X Nodes)
         /\ Range(todo) = {Head(todo)} \cup Range(Tail(todo))
<1>1. todo \in Seq(Whats \X Nodes)
  BY DEF SoundState, TypeOK
<1> QED
  BY <1>1, SeqEnds

\* The models that NextRoot discards at the node it takes.
RootDrop ==
    CASE Head(todo)[1] = "update" -> {}
      [] Head(todo)[1] = "streaming" -> invalidate_streaming_into_output(Head(todo)[2])
      [] OTHER -> invalidate_suboptimal_op_models_for_op(Head(todo)[2], Head(todo)[1])

\* What a pass of resolve_step_postprocess discards is on offer until then.
LEMMA RootDropIs == Head(todo)[1] # "update" => RootDrop \subseteq bitset[Head(todo)[2]]
BY DEF RootDrop, invalidate_streaming_into_output, invalidate_suboptimal_op_models_for_op, Discarded

\* The next node to be updated, or to be looked at by a pass, case by case.
LEMMA NextRootIs ==
  ASSUME NextRoot, NEW n, n = Head(todo)[2], NEW drop, drop = RootDrop
  PROVE  /\ phase = "update" /\ needs_update = <<>> /\ todo # <<>> /\ todo' = Tail(todo)
         /\ UNCHANGED <<problem, strategy, live, cut_edges, selected, phase, pass, by_set>>
         /\ \/ /\ Head(todo)[1] = "update" /\ needs_update' = <<n>>
               /\ UNCHANGED <<bitset, paths, disabled>>
            \/ /\ Head(todo)[1] # "update" /\ drop # {}
               /\ disabled' = [disabled EXCEPT ![n] = @ \cup drop]
               /\ Expand(n, [bitset EXCEPT ![n] = @ \ drop])
            \/ /\ Head(todo)[1] # "update" /\ drop = {}
               /\ UNCHANGED <<bitset, paths, disabled, needs_update>>
<1>1. /\ phase = "update" /\ needs_update = <<>> /\ todo # <<>> /\ todo' = Tail(todo)
      /\ UNCHANGED <<problem, strategy, live, cut_edges, selected, phase, pass, by_set>>
  BY DEF NextRoot
<1> DEFINE what == Head(todo)[1]
           d == CASE what = "update" -> {}
                  [] what = "streaming" -> invalidate_streaming_into_output(n)
                  [] OTHER -> invalidate_suboptimal_op_models_for_op(n, what)
<1>2. d = drop
  BY DEF RootDrop
<1>3. CASE what = "update"
  BY <1>1, <1>3 DEF NextRoot
<1>4. CASE what # "update" /\ d # {}
  <2>1. /\ disabled' = [disabled EXCEPT ![n] = @ \cup d]
        /\ Expand(n, [bitset EXCEPT ![n] = @ \ d])
    BY <1>4 DEF NextRoot
  <2> HIDE DEF d
  <2> QED
    BY <1>1, <1>2, <1>4, <2>1
<1>5. CASE what # "update" /\ d = {}
  <2>1. UNCHANGED <<bitset, paths, disabled, needs_update>>
    BY <1>5 DEF NextRoot
  <2> HIDE DEF d
  <2> QED
    BY <1>1, <1>2, <1>5, <2>1
<1> HIDE DEF d, what
<1> QED
  BY <1>3, <1>4, <1>5

\* It keeps the shape.
LEMMA NextRootSound == ASSUME SoundState, NextRoot PROVE SoundState'
<1> DEFINE n == Head(todo)[2]
           drop == RootDrop
<1>1. n = Head(todo)[2] /\ drop = RootDrop
  OBVIOUS
<1>2. todo # <<>>
  BY DEF NextRoot
<1>3. n \in Nodes /\ Tail(todo) \in Seq(Whats \X Nodes)
  BY <1>2, TodoIs
<1>4. Head(todo)[1] # "update" => drop \subseteq bitset[n]
  BY RootDropIs
<1> HIDE DEF n, drop
<1>5. /\ phase = "update" /\ needs_update = <<>> /\ todo # <<>> /\ todo' = Tail(todo)
      /\ UNCHANGED <<problem, strategy, live, cut_edges, selected, phase, pass, by_set>>
      /\ \/ /\ Head(todo)[1] = "update" /\ needs_update' = <<n>>
            /\ UNCHANGED <<bitset, paths, disabled>>
         \/ /\ Head(todo)[1] # "update" /\ drop # {}
            /\ disabled' = [disabled EXCEPT ![n] = @ \cup drop]
            /\ Expand(n, [bitset EXCEPT ![n] = @ \ drop])
         \/ /\ Head(todo)[1] # "update" /\ drop = {}
            /\ UNCHANGED <<bitset, paths, disabled, needs_update>>
  BY <1>1, NextRootIs
<1>6. TypeOK /\ DOMAIN paths = live /\ ~pass.fast
  BY <1>5 DEF SoundState, Shape
<1>7. CASE UNCHANGED <<bitset, paths, disabled>> /\ (needs_update' = <<n>> \/ UNCHANGED needs_update)
  <2>1. needs_update' \in Seq(Nodes)
    <3>1. <<n>> \in Seq(Nodes)
      BY <1>3
    <3>2. needs_update \in Seq(Nodes)
      BY <1>6 DEF TypeOK
    <3> QED
      BY <3>1, <3>2, <1>7
  <2>2. TypeOK'
    BY <1>3, <1>5, <1>6, <1>7, <2>1 DEF TypeOK
  <2> QED
    BY <1>5, <1>6, <1>7, <2>2 DEF SoundState, Shape
<1>8. CASE /\ Head(todo)[1] # "update" /\ drop # {}
           /\ disabled' = [disabled EXCEPT ![n] = @ \cup drop]
           /\ Expand(n, [bitset EXCEPT ![n] = @ \ drop])
  <2> DEFINE bs == [bitset EXCEPT ![n] = @ \ drop]
  <2>1. bs \in [Nodes -> SUBSET Models] /\ disabled' \in [Nodes -> SUBSET Models]
    BY <1>3, <1>4, <1>6, <1>8 DEF TypeOK
  <2>2. Expand(n, bs)
    BY <1>8
  <2> HIDE DEF bs
  <2>3. strategy' \in BOOLEAN /\ DOMAIN selected' \subseteq Nodes /\ by_set' \in BOOLEAN
    BY <1>5, <1>6 DEF TypeOK
  <2> QED
    BY <1>3, <1>5, <1>6, <2>1, <2>2, <2>3, ExpandSound
<1> QED
  BY <1>5, <1>7, <1>8

\* One round at the last node of the stack.
Round == UpdatedAt(Work(bitset, paths), OperandEdges(live, Last(needs_update)),
                   UserEdges(live, Last(needs_update)))

More == Revisits(Round, Last(needs_update), OperandEdges(live, Last(needs_update)),
                 UserEdges(live, Last(needs_update)))

\* One round of update_solver, case by case.
LEMMA UpdateNodeIs ==
  ASSUME UpdateNode
  PROVE  /\ phase = "update" /\ needs_update # <<>> /\ UNCHANGED <<problem, strategy, selected>>
         /\ \/ /\ Round.stop = "none" /\ bitset' = Round.bs /\ paths' = Round.ps
               /\ needs_update' = IF More = <<>> THEN Front(needs_update) ELSE needs_update \o More
               /\ UNCHANGED <<live, cut_edges, disabled, phase, pass, todo, by_set>>
            \/ Resolve(live, disabled, 1) /\ UNCHANGED <<live, cut_edges, disabled>>
            \/ Throw
<1> DEFINE n == Last(needs_update)
           ins == OperandEdges(live, n)
           outs == UserEdges(live, n)
           w == UpdatedAt(Work(bitset, paths), ins, outs)
<1>1. phase = "update" /\ needs_update # <<>> /\ UNCHANGED <<problem, strategy, selected>>
  BY DEF UpdateNode
<1>2. CASE w.stop = "none"
  <2>1. /\ bitset' = w.bs /\ paths' = w.ps
        /\ LET more == Revisits(w, n, ins, outs)
           IN  needs_update' = IF more = <<>> THEN Front(needs_update) ELSE needs_update \o more
        /\ UNCHANGED <<live, cut_edges, disabled, phase, pass, todo, by_set>>
    BY <1>2 DEF UpdateNode
  <2>2. w = Round /\ Revisits(w, n, ins, outs) = More
    BY DEF Round, More
  <2> HIDE DEF w, ins, outs, n
  <2> QED
    BY <1>1, <1>2, <2>1, <2>2
<1>3. CASE w.stop # "none"
  <2>1. \/ Resolve(live, disabled, 1) /\ UNCHANGED <<live, cut_edges, disabled>>
        \/ Throw
    BY <1>3 DEF UpdateNode
  <2> QED
    BY <1>1, <2>1
<1> HIDE DEF w
<1> QED
  BY <1>2, <1>3

\* What the round works on, and what it adds to the stack.
LEMMA RoundTyped ==
  ASSUME SoundState, phase = "update", needs_update # <<>>
  PROVE  /\ Last(needs_update) \in Nodes
         /\ OperandEdges(live, Last(needs_update)) \in Seq(live)
         /\ UserEdges(live, Last(needs_update)) \in Seq(live)
         /\ live \subseteq AllEdges /\ paths \in [live -> SUBSET Pairs]
         /\ Work(bitset, paths) \in Works(live)
         /\ Round \in Works(live)
         /\ More \in Seq(Nodes)
<1>1. TypeOK /\ DOMAIN paths = live
  BY DEF SoundState, Shape
<1>2. live \subseteq AllEdges /\ paths \in [live -> SUBSET Pairs]
      /\ bitset \in [Nodes -> SUBSET Models] /\ needs_update \in Seq(Nodes)
  BY <1>1 DEF TypeOK
<1>3. Last(needs_update) \in Nodes
  BY <1>2, SeqEnds
<1>4. OperandEdges(live, Last(needs_update)) \in Seq(live) /\ UserEdges(live, Last(needs_update)) \in Seq(live)
  BY <1>2, OperandEdgesAre, UserEdgesAre
<1>5. Work(bitset, paths) \in Works(live)
  BY <1>2, WorkIs
<1>6. Round \in Works(live)
  BY <1>2, <1>4, <1>5, RoundIsWork DEF Round
<1>7. More \in Seq(Nodes)
  BY <1>2, <1>4, RevisitsAre DEF More
<1> QED
  BY <1>2, <1>3, <1>4, <1>5, <1>6, <1>7

\* The round keeps the shape.
LEMMA UpdateNodeSound == ASSUME SoundState, UpdateNode PROVE SoundState'
<1>1. phase = "update" /\ needs_update # <<>> /\ UNCHANGED <<problem, strategy, selected>>
  BY UpdateNodeIs
<1>2. TypeOK /\ DOMAIN paths = live /\ ~pass.fast
  BY <1>1 DEF SoundState, Shape
<1>3. CASE /\ Round.stop = "none" /\ bitset' = Round.bs /\ paths' = Round.ps
           /\ needs_update' = IF More = <<>> THEN Front(needs_update) ELSE needs_update \o More
           /\ UNCHANGED <<live, cut_edges, disabled, phase, pass, todo, by_set>>
  <2>1. Round \in Works(live) /\ More \in Seq(Nodes)
    BY <1>1, RoundTyped
  <2>2. bitset' \in [Nodes -> SUBSET Models] /\ paths' \in [live -> SUBSET Pairs]
    BY <2>1, <1>3 DEF Works
  <2>3. needs_update \in Seq(Nodes) /\ Front(needs_update) \in Seq(Nodes)
    BY <1>1, <1>2, SeqEnds DEF TypeOK
  <2>4. needs_update' \in Seq(Nodes)
    BY <2>1, <2>3, <1>3
  <2>5. DOMAIN paths' = live'
    BY <2>2, <1>3
  <2>6. TypeOK'
    BY <1>1, <1>2, <1>3, <2>2, <2>4, <2>5 DEF TypeOK
  <2> QED
    BY <1>1, <1>2, <1>3, <2>5, <2>6 DEF SoundState, Shape
<1>4. CASE Resolve(live, disabled, 1) /\ UNCHANGED <<live, cut_edges, disabled>>
  BY <1>1, <1>2, <1>4, ResolveSound DEF TypeOK
<1>5. CASE Throw
  BY <1>1, <1>5, ThrowSound
<1> QED
  BY <1>3, <1>4, <1>5, UpdateNodeIs

\* The return to the policy keeps the shape.
LEMMA ReturnSound == ASSUME SoundState, Return PROVE SoundState'
<1>1. NoPass \in Passes /\ ~NoPass.fast
  BY DEF NoPass, Passes
<1>2. phase' \in Phases
  BY DEF Return, Phases
<1>3. TypeOK'
  BY <1>1, <1>2 DEF Return, SoundState, TypeOK
<1> QED
  BY <1>1, <1>3 DEF Return, SoundState, Shape

\* So do invalidate_suboptimal_op_models,
LEMMA InvalidateSound == ASSUME SoundState, invalidate_suboptimal_op_models PROVE SoundState'
<1>1. phase = "idle" /\ phase' = "update" /\ strategy' = TRUE
      /\ UNCHANGED <<problem, live, cut_edges, selected, disabled, bitset, paths, pass, needs_update,
                     by_set>>
  BY DEF invalidate_suboptimal_op_models
<1>2. todo' \in Seq(Whats \X Nodes)
  <2> DEFINE ns == Only(Order, Visible)
             late == Over("first", ns) \o Over("second", ns)
  <2>1. todo' = late
    BY DEF invalidate_suboptimal_op_models
  <2>2. late \in Seq(Whats \X Nodes)
    BY AllNodesAre
  <2> QED
    BY <2>1, <2>2
<1>3. phase' \in Phases
  BY <1>1 DEF Phases
<1>4. TypeOK'
  BY <1>1, <1>2, <1>3 DEF SoundState, TypeOK
<1> QED
  BY <1>1, <1>4 DEF SoundState, Shape

\* set(),
LEMMA SetSound == ASSUME SoundState, NEW n \in Nodes, NEW m \in Models, Set(n, m) PROVE SoundState'
<1>1. /\ phase = "idle" /\ m \in bitset[n] /\ selected' = With(selected, n, m)
      /\ disabled' = [disabled EXCEPT ![n] = Models \ {m}]
      /\ Expand(n, [bitset EXCEPT ![n] = {m}])
      /\ phase' = "update" /\ by_set' = TRUE
      /\ UNCHANGED <<problem, strategy, live, cut_edges, pass, todo>>
  BY DEF Set
<1>2. TypeOK /\ DOMAIN paths = live /\ ~pass.fast
  BY <1>1 DEF SoundState, Shape
<1>3. DOMAIN selected' \subseteq Nodes
  BY <1>1, <1>2 DEF With, TypeOK
<1>4. disabled' \in [Nodes -> SUBSET Models] /\ [bitset EXCEPT ![n] = {m}] \in [Nodes -> SUBSET Models]
  BY <1>1, <1>2 DEF TypeOK
<1>5. strategy' \in BOOLEAN /\ todo' \in Seq(Whats \X Nodes)
  BY <1>1, <1>2 DEF TypeOK
<1> QED
  BY <1>1, <1>2, <1>3, <1>4, <1>5, ExpandSound

\* set_filter_grid_size(),
LEMMA FilterSound ==
  ASSUME SoundState, NEW n \in Nodes, NEW m \in Models, set_filter_grid_size(n, m) PROVE SoundState'
<1>1. /\ phase = "idle" /\ m \in bitset[n]
      /\ disabled' = [disabled EXCEPT ![n] = @ \cup (bitset[n] \ {m})]
      /\ Expand(n, [bitset EXCEPT ![n] = {m}])
      /\ phase' = "update"
      /\ UNCHANGED <<problem, strategy, live, cut_edges, selected, pass, todo, by_set>>
  BY DEF set_filter_grid_size
<1>2. TypeOK /\ DOMAIN paths = live /\ ~pass.fast
  BY <1>1 DEF SoundState, Shape
<1>4. disabled' \in [Nodes -> SUBSET Models] /\ [bitset EXCEPT ![n] = {m}] \in [Nodes -> SUBSET Models]
  BY <1>1, <1>2 DEF TypeOK
<1>5. strategy' \in BOOLEAN /\ todo' \in Seq(Whats \X Nodes) /\ by_set' \in BOOLEAN
      /\ DOMAIN selected' \subseteq Nodes
  BY <1>1, <1>2 DEF TypeOK
<1> QED
  BY <1>1, <1>2, <1>4, <1>5, ExpandSound

\* cut(),
LEMMA CutSound == ASSUME SoundState, NEW es \in SUBSET live, Cut(es) PROVE SoundState'
<1>1. /\ live' = live \ es /\ cut_edges' = cut_edges \cup es /\ disabled' = Recomputed(Unset(es))
      /\ Resolve(live \ es, disabled', 1) /\ UNCHANGED <<problem, strategy, selected>>
  BY DEF Cut
<1>2. TypeOK
  BY DEF SoundState
<1>3. disabled' \in [Nodes -> SUBSET Models]
  BY <1>1, <1>2, RecomputedIs
<1>4. live \ es \subseteq AllEdges /\ problem' \in Problems /\ strategy' \in BOOLEAN
      /\ cut_edges' \subseteq AllEdges /\ DOMAIN selected' \subseteq Nodes
  BY <1>1, <1>2 DEF TypeOK
<1> QED
  BY <1>1, <1>3, <1>4, ResolveSound

\* the calls of the policies that cut,
LEMMA CutsSound ==
  ASSUME SoundState, CutEpoch \/ \E n \in Nodes : CutRibbon(n) PROVE SoundState'
<1>1. CASE CutEpoch
  BY <1>1, CutSound DEF CutEpoch
<1>2. CASE \E n \in Nodes : CutRibbon(n)
  BY <1>2, CutSound DEF CutRibbon
<1> QED
  BY <1>1, <1>2

\* buffer(),
LEMMA BufferSound == ASSUME SoundState, NEW e \in Edges, buffer(e) PROVE SoundState'
<1> DEFINE edges == (live \ {e}) \cup {<<e[1], Nop[e]>>, <<Nop[e], e[2]>>}
           ns == Unset({e}) \cup {Nop[e]}
<1>1. /\ live' = edges /\ disabled' = Recomputed(ns) /\ Resolve(edges, disabled', 1)
      /\ UNCHANGED <<problem, strategy, cut_edges, selected>> /\ e \in live \cap DOMAIN Nop
  BY DEF buffer
<1>2. TypeOK
  BY DEF SoundState
<1>3. edges \subseteq AllEdges
  BY <1>1, <1>2 DEF TypeOK, AllEdges, NopEdges
<1> HIDE DEF edges, ns
<1>4. disabled' \in [Nodes -> SUBSET Models]
  BY <1>1, <1>2, RecomputedIs
<1>5. problem' \in Problems /\ strategy' \in BOOLEAN
      /\ cut_edges' \subseteq AllEdges /\ DOMAIN selected' \subseteq Nodes
  BY <1>1, <1>2 DEF TypeOK
<1> QED
  BY <1>1, <1>3, <1>4, <1>5, ResolveSound

\* finish(),
LEMMA FinishSound == ASSUME SoundState, finish PROVE SoundState'
<1>1. phase = "idle" /\ phase' \in {"finished", "asserted"}
      /\ UNCHANGED <<problem, strategy, live, cut_edges, selected, disabled, bitset, paths, pass, todo,
                     needs_update, by_set>>
  BY DEF finish
<1>2. phase' \in Phases
  BY <1>1 DEF Phases
<1> QED
  BY <1>1, <1>2 DEF SoundState, TypeOK, Shape

\* and a step that changes nothing.
LEMMA StutterSound == ASSUME SoundState, UNCHANGED vars PROVE SoundState'
BY DEF SoundState, TypeOK, Shape, AgendaCovers, vars

\* Every step of the solver and of the policy keeps the shape.
LEMMA StepSound == ASSUME SoundState, Next PROVE SoundState'
<1>1. CASE Construct
  BY <1>1, ConstructSound
<1>2. CASE SolverStep
  BY <1>2, ResolveEdgeSound, ProcessNodeSound, EdgesDoneSound, NextRootSound, UpdateNodeSound,
     ReturnSound DEF SolverStep
<1>3. CASE invalidate_suboptimal_op_models
  BY <1>3, InvalidateSound
<1>4. CASE CutEpoch \/ \E n \in Nodes : CutRibbon(n)
  BY <1>4, CutsSound
<1>5. CASE finish
  BY <1>5, FinishSound
<1>6. CASE Done
  BY <1>6, StutterSound DEF Done
<1>7. CASE \E n \in Nodes, m \in Models : Set(n, m) \/ set_filter_grid_size(n, m)
  BY <1>7, SetSound, FilterSound
<1>8. CASE \E e \in Edges : buffer(e)
  BY <1>8, BufferSound
<1> QED
  BY <1>1, <1>2, <1>3, <1>4, <1>5, <1>6, <1>7, <1>8 DEF Next

\* The solver's tables agree: while resolve_step runs every edge in the graph has a path set or is
\* still
\* on the agenda, afterwards every edge has one, and between calls nothing is left to do.
THEOREM TypeCorrect == Spec => []SoundState
<1>1. Init => SoundState
  BY InitSound
<1>2. SoundState /\ [Next]_vars => SoundState'
  BY StepSound, StutterSound
<1> QED
  BY <1>1, <1>2, PTL DEF Spec

-----------------------------------------------------------------------------
\* Nothing that prunes adds a model or a path.

\* Work v has no model and no path that work w has not.
Smaller(w, v, D) ==
    (\A n \in Nodes : v.bs[n] \subseteq w.bs[n]) /\ (\A e \in D : v.ps[e] \subseteq w.ps[e])

\* A loop of steps that add nothing adds nothing.
LEMMA LoopIsSmaller ==
  ASSUME NEW D, NEW N \in Nat, NEW g, \A i \in 1 .. N : Smaller(g[i - 1], g[i], D)
  PROVE  Smaller(g[0], g[N], D)
<1> DEFINE Good == {i \in 0 .. N : Smaller(g[0], g[i], D)}
<1>1. 0 \in Good
  BY DEF Smaller
<1>2. ASSUME NEW i \in 1 .. N, i - 1 \in Good PROVE i \in Good
  <2>1. Smaller(g[0], g[i - 1], D) /\ Smaller(g[i - 1], g[i], D)
    BY <1>2
  <2>2. Smaller(g[0], g[i], D)
    BY <2>1 DEF Smaller
  <2> QED
    BY <2>2
<1>3. \A i \in 0 .. N : i \in Good
  <2> HIDE DEF Good
  <2> QED
    BY <1>1, <1>2, Induct
<1> QED
  BY <1>3

\* Keeping some of the valid paths of an edge adds nothing,
LEMMA KeptIsSmaller ==
  ASSUME NEW D, NEW w, w.ps \in [D -> SUBSET Pairs], NEW v, NEW e \in D,
         NEW keep \in SUBSET Valid(w, e), Kept(w, v, e, keep)
  PROVE  Smaller(w, v, D)
<1>1. keep \subseteq w.ps[e]
  BY DEF Valid
<1>2. ASSUME NEW d \in D PROVE v.ps[d] \subseteq w.ps[d]
  <2>1. v.ps[d] = IF d = e THEN keep ELSE w.ps[d]
    BY DEF Kept
  <2> QED
    BY <1>1, <2>1
<1>3. \A n \in Nodes : v.bs[n] \subseteq w.bs[n]
  BY DEF Kept
<1> QED
  BY <1>2, <1>3 DEF Smaller

\* nor does a step of update_solver,
LEMMA PrunesIsSmaller ==
  ASSUME NEW D, NEW w \in Works(D), NEW v, NEW e \in D, Prunes(w, v, e)
  PROVE  Smaller(w, v, D)
<1>1. CASE v = w
  BY <1>1 DEF Smaller
<1>2. CASE \E keep \in SUBSET Valid(w, e) : Kept(w, v, e, keep)
  <2>1. w.ps \in [D -> SUBSET Pairs]
    BY DEF Works
  <2> QED
    BY <1>2, <2>1, KeptIsSmaller
<1> QED
  BY <1>1, <1>2 DEF Prunes

\* nor the loop of updates,
LEMMA AllUpdatedIsSmaller ==
  ASSUME NEW D, D \subseteq AllEdges, NEW w \in Works(D), NEW es \in Seq(D)
  PROVE  Smaller(w, AllUpdated(w, es), D)
<1>1. PICK g \in [0 .. Len(es) -> Works(D)] :
        /\ g[0] = w /\ g[Len(es)] = AllUpdated(w, es)
        /\ \A i \in 1 .. Len(es) : g[i] = update(g[i - 1], es[i])
  BY EachUpdate
<1>2. ASSUME NEW i \in 1 .. Len(es) PROVE Smaller(g[i - 1], g[i], D)
  <2>1. es[i] \in D /\ i - 1 \in 0 .. Len(es)
    OBVIOUS
  <2>2. g[i - 1] \in Works(D)
    BY <2>1
  <2> QED
    BY <1>1, <2>1, <2>2, UpdateIs, PrunesIsSmaller
<1>3. Len(es) \in Nat
  OBVIOUS
<1> QED
  BY <1>1, <1>2, <1>3, LoopIsSmaller

\* nor apply_cumulative_costs,
LEMMA CumulativeIsSmaller ==
  ASSUME NEW D, D \subseteq AllEdges, NEW w \in Works(D), NEW es \in Seq(D), NEW side
  PROVE  Smaller(w, apply_cumulative_costs(w, es, side), D)
<1>0. PICK g : CumulativeRounds(D, w, es, side, g)
  BY EachCumulative
<1>1. /\ g \in [0 .. Len(es) -> Works(D)]
      /\ g[0] = w /\ g[Len(es)] = apply_cumulative_costs(w, es, side)
      /\ \A i \in 1 .. Len(es) : g[i] = CumulativeEdge(g[i - 1], es, es[i], side)
  BY <1>0 DEF CumulativeRounds
<1>2. ASSUME NEW i \in 1 .. Len(es) PROVE Smaller(g[i - 1], g[i], D)
  <2>1. es[i] \in D /\ i - 1 \in 0 .. Len(es)
    OBVIOUS
  <2>2. g[i - 1] \in Works(D)
    BY <1>1, <2>1
  <2>3. Prunes(g[i - 1], CumulativeEdge(g[i - 1], es, es[i], side), es[i])
    BY <2>1, <2>2, CumulativeIs
  <2>4. Prunes(g[i - 1], g[i], es[i])
    BY <1>1, <2>3, Zenon
  <2> QED
    BY <2>1, <2>2, <2>4, PrunesIsSmaller
<1>3. Len(es) \in Nat
  OBVIOUS
<1> QED
  BY <1>1, <1>2, <1>3, LoopIsSmaller

\* nor the unchecked updates,
LEMMA AllRefreshedIsSmaller ==
  ASSUME NEW D, D \subseteq AllEdges, NEW w \in Works(D), NEW es \in Seq(D)
  PROVE  Smaller(w, AllRefreshed(w, es), D)
<1>1. PICK g \in [0 .. Len(es) -> Works(D)] :
        /\ g[0] = w /\ g[Len(es)] = AllRefreshed(w, es)
        /\ \A i \in 1 .. Len(es) : g[i] = refresh(g[i - 1], es[i])
  BY EachRefresh
<1>2. ASSUME NEW i \in 1 .. Len(es) PROVE Smaller(g[i - 1], g[i], D)
  <2> DEFINE u == g[i - 1]
             e == es[i]
             keep == Valid(u, e)
  <2>1. e \in D /\ i - 1 \in 0 .. Len(es)
    OBVIOUS
  <2>2. u \in Works(D)
    BY <2>1
  <2>3. g[i] = Keep(u, e, keep)
    BY <1>1 DEF refresh
  <2> HIDE DEF u, e
  <2>4. keep \in SUBSET Pairs
    BY <2>1, <2>2, ValidOfWork
  <2>5. Kept(u, Keep(u, e, keep), e, keep)
    BY <2>1, <2>2, <2>4, KeepIs
  <2>6. u.ps \in [D -> SUBSET Pairs] /\ keep \in SUBSET Valid(u, e)
    BY <2>2 DEF Works
  <2> HIDE DEF keep
  <2>7. Smaller(u, Keep(u, e, keep), D)
    BY <2>1, <2>5, <2>6, KeptIsSmaller
  <2> QED
    BY <2>3, <2>7 DEF u
<1>3. Len(es) \in Nat
  OBVIOUS
<1> QED
  BY <1>1, <1>2, <1>3, LoopIsSmaller

\* nor NodePathsProcessor,
LEMMA AllQueuedIsSmaller ==
  ASSUME NEW D, D \subseteq AllEdges, NEW w \in QueueWorks(D), NEW es \in Seq(D)
  PROVE  Smaller(w, AllQueued(w, es), D)
<1>1. PICK g \in [0 .. Len(es) -> QueueWorks(D)] :
        /\ g[0] = w /\ g[Len(es)] = AllQueued(w, es)
        /\ \A i \in 1 .. Len(es) : g[i] = update_node_processor(g[i - 1], es[i])
  BY EachQueued
<1>2. ASSUME NEW i \in 1 .. Len(es) PROVE Smaller(g[i - 1], g[i], D)
  <2> DEFINE u == g[i - 1]
             e == es[i]
             keep == Valid(u, e)
  <2>1. e \in D /\ i - 1 \in 0 .. Len(es)
    OBVIOUS
  <2>2. u \in QueueWorks(D) /\ g[i] = update_node_processor(u, e)
    BY <1>1, <2>1
  <2> HIDE DEF u, e
  <2>5. Kept(u, g[i], e, keep)
    BY <2>1, <2>2, QueuedIs, Zenon
  <2>6. u.ps \in [D -> SUBSET Pairs] /\ keep \in SUBSET Valid(u, e)
    BY <2>2 DEF QueueWorks
  <2> HIDE DEF keep
  <2>7. Smaller(u, g[i], D)
    BY <2>1, <2>5, <2>6, KeptIsSmaller
  <2> QED
    BY <2>7 DEF u
<1>3. Len(es) \in Nat
  OBVIOUS
<1> QED
  BY <1>1, <1>2, <1>3, LoopIsSmaller

\* nor a round of update_solver.
LEMMA RoundIsSmaller ==
  ASSUME NEW D, D \subseteq AllEdges, NEW w \in Works(D), NEW ins \in Seq(D), NEW outs \in Seq(D)
  PROVE  Smaller(w, UpdatedAt(w, ins, outs), D)
<1> DEFINE a == AllUpdated(w, ins)
           b == apply_cumulative_costs(a, ins, 2)
           c == AllUpdated(b, outs)
           d == apply_cumulative_costs(c, outs, 1)
<1>1. a \in Works(D) /\ Smaller(w, a, D)
  BY AllUpdatedIsWork, AllUpdatedIsSmaller
<1> HIDE DEF a
<1>2. b \in Works(D) /\ Smaller(a, b, D)
  BY <1>1, CumulativeIsWork, CumulativeIsSmaller
<1> HIDE DEF b
<1>3. c \in Works(D) /\ Smaller(b, c, D)
  BY <1>2, AllUpdatedIsWork, AllUpdatedIsSmaller
<1> HIDE DEF c
<1>4. Smaller(c, d, D)
  BY <1>3, CumulativeIsSmaller
<1> HIDE DEF d
<1>5. Smaller(w, d, D)
  BY <1>1, <1>2, <1>3, <1>4 DEF Smaller
<1>6. UpdatedAt(w, ins, outs) = d
  BY RoundIs DEF a, b, c, d
<1> QED
  BY <1>5, <1>6

-----------------------------------------------------------------------------
\* Solutions on offer.

VisibleIn(L, C) == Unbuffered \cup UNION {{e[1], e[2]} : e \in L \cup C}

\* Solves(f), as a function of the problem, the edges and what is disabled.
SolvesIn(f, p, L, dis) ==
    /\ \A n \in DOMAIN f : f[n] \notin dis[n]
    /\ \A e \in L : <<f[e[1]], f[e[2]]>> \in p.fits[e]
    /\ \A n \in DOMAIN f : /\ SumOf(CostsOf(f, UserEdges(L, n))) <= MaxCost
                           /\ SumOf(CostsOf(f, OperandEdges(L, n))) <= MaxCost

\* Solves says just that.
LEMMA SolvesIs == ASSUME NEW f PROVE Solves(f) <=> SolvesIn(f, problem, live, disabled)
BY DEF Solves, SolvesIn, CostsOf

\* Visible is a function of the edges and the cut edges.
LEMMA VisibleIs == Visible = VisibleIn(live, cut_edges)
BY DEF Visible, VisibleIn

\* The visible nodes are nodes, and the ends of the edges are among them.
LEMMA VisibleNodes ==
  ASSUME NEW L, L \subseteq AllEdges, NEW C, C \subseteq AllEdges
  PROVE  VisibleIn(L, C) \subseteq Nodes /\ \A e \in L : e[1] \in VisibleIn(L, C) /\ e[2] \in VisibleIn(L, C)
<1>1. \A e \in L \cup C : {e[1], e[2]} \subseteq Nodes
  BY EdgesJoinNodes
<1> QED
  BY <1>1 DEF VisibleIn, Unbuffered

\* Every solution is on offer in the bitsets and in the path sets there are.
OnOffer(p, L, C, dis, bs, ps) ==
    \A f \in [VisibleIn(L, C) -> Models] :
        SolvesIn(f, p, L, dis) => Offers(Work(bs, ps), f, VisibleIn(L, C), DOMAIN ps)

\* No node is offered a model that is disabled.
Available(dis, bs) == \A n \in Nodes : bs[n] \cap dis[n] = {}

Settled(p, L, C, dis, bs, ps) == OnOffer(p, L, C, dis, bs, ps) /\ Available(dis, bs)

Kind == phase \in {"edges", "update", "idle", "finished"} /\ ~pass.fast

SolutionsKept == Kind => Settled(problem, live, cut_edges, disabled, bitset, paths)

\* Being on offer is about the bitsets and the path sets alone.
LEMMA OffersOfWork ==
  ASSUME NEW w, NEW f, NEW V, NEW D
  PROVE  Offers(w, f, V, D) <=> Offers(Work(w.bs, w.ps), f, V, D)
BY DEF Offers, Work

\* With more disabled, and with what became disabled gone from the bitsets, nothing is lost.
LEMMA NarrowedSettles ==
  ASSUME NEW p, NEW L, L \subseteq AllEdges, NEW C, C \subseteq AllEdges, NEW dis, NEW bs, NEW ps,
         NEW dis2, NEW bs2, Settled(p, L, C, dis, bs, ps),
         \A n \in Nodes : /\ dis[n] \subseteq dis2[n] /\ bs[n] \ dis2[n] \subseteq bs2[n]
                          /\ bs2[n] \cap dis2[n] = {}
  PROVE  Settled(p, L, C, dis2, bs2, ps)
<1> DEFINE V == VisibleIn(L, C)
           D == DOMAIN ps
<1>1. V \subseteq Nodes
  BY VisibleNodes
<1> HIDE DEF V, D
<1>2. ASSUME NEW f \in [V -> Models], SolvesIn(f, p, L, dis2) PROVE Offers(Work(bs2, ps), f, V, D)
  <2>1. \A n \in V : f[n] \notin dis2[n] /\ f[n] \notin dis[n]
    BY <1>1, <1>2 DEF SolvesIn
  <2>2. SolvesIn(f, p, L, dis)
    BY <1>2, <2>1 DEF SolvesIn
  <2>3. Offers(Work(bs, ps), f, V, D)
    BY <2>2 DEF Settled, OnOffer, V, D
  <2>4. Work(bs, ps).bs = bs /\ Work(bs, ps).ps = ps /\ Work(bs2, ps).bs = bs2 /\ Work(bs2, ps).ps = ps
    BY DEF Work
  <2> QED
    BY <1>1, <2>1, <2>3, <2>4 DEF Offers
<1> QED
  BY <1>2 DEF Settled, OnOffer, Available, V, D

\* Work that keeps the solutions, and is smaller, leaves all settled.
LEMMA SmallerSettles ==
  ASSUME NEW p, NEW L, NEW C, NEW dis, NEW w, NEW v, NEW D,
         Settled(p, L, C, dis, w.bs, w.ps), DOMAIN w.ps = D, DOMAIN v.ps = D, Smaller(w, v, D),
         \A f \in [VisibleIn(L, C) -> Models] :
            SolvesIn(f, p, L, dis) /\ Offers(w, f, VisibleIn(L, C), D)
               => Offers(v, f, VisibleIn(L, C), D)
  PROVE  Settled(p, L, C, dis, v.bs, v.ps)
<1>1. Available(dis, v.bs)
  BY DEF Settled, Available, Smaller
<1>2. OnOffer(p, L, C, dis, v.bs, v.ps)
  BY OffersOfWork DEF Settled, OnOffer
<1> QED
  BY <1>1, <1>2 DEF Settled

\* A round of update_solver keeps every choice on offer that keeps within the limit.
LEMMA RoundOffers ==
  ASSUME NEW D, D \subseteq AllEdges, NEW V, V \subseteq Nodes, \A e \in D : e[1] \in V /\ e[2] \in V,
         NEW f \in [V -> Models], NEW w \in Works(D), Offers(w, f, V, D), NEW n,
         NEW ins \in Seq(D), \A d \in Range(ins) : d[2] = n, SumOf(CostsOf(f, ins)) <= MaxCost,
         NEW outs \in Seq(D), \A d \in Range(outs) : d[1] = n, SumOf(CostsOf(f, outs)) <= MaxCost
  PROVE  Offers(UpdatedAt(w, ins, outs), f, V, D)
<1> DEFINE a == AllUpdated(w, ins)
           b == apply_cumulative_costs(a, ins, 2)
           c == AllUpdated(b, outs)
           d == apply_cumulative_costs(c, outs, 1)
<1>0. 1 \in Sides /\ 2 \in Sides
  BY DEF Sides
<1>1. a \in Works(D) /\ Offers(a, f, V, D)
  BY UpdateOffers
<1> HIDE DEF a
<1>2. b \in Works(D) /\ Offers(b, f, V, D)
  BY <1>0, <1>1, CumulativeOffers
<1> HIDE DEF b
<1>3. c \in Works(D) /\ Offers(c, f, V, D)
  BY <1>2, UpdateOffers
<1> HIDE DEF c
<1>4. Offers(d, f, V, D)
  BY <1>0, <1>3, CumulativeOffers
<1> HIDE DEF d
<1>6. UpdatedAt(w, ins, outs) = d
  BY RoundIs DEF a, b, c, d
<1> QED
  BY <1>4, <1>6

\* After a reset nothing is lost.
LEMMA ResolveKeeps ==
  ASSUME NEW edges, edges \subseteq AllEdges, NEW off \in [Nodes -> SUBSET Models],
         NEW retry \in Nat, Resolve(edges, off, retry), live' \subseteq AllEdges,
         cut_edges' \subseteq AllEdges, disabled' = off
  PROVE  SolutionsKept'
<1>1. bitset' = [n \in Nodes |-> Models \ off[n]] /\ paths' = <<>>
  BY ResolveIs
<1> DEFINE V == VisibleIn(live', cut_edges')
<1>2. V \subseteq Nodes
  BY VisibleNodes
<1> HIDE DEF V
<1>3. ASSUME NEW f \in [V -> Models], SolvesIn(f, problem', live', off)
      PROVE  Offers(Work(bitset', paths'), f, V, DOMAIN paths')
  <2>1. \A n \in V : f[n] \notin off[n]
    BY <1>3 DEF SolvesIn
  <2>2. \A n \in V : f[n] \in bitset'[n]
    BY <1>1, <1>2, <2>1
  <2>3. DOMAIN paths' = {}
    BY <1>1
  <2>4. Work(bitset', paths').bs = bitset'
    BY DEF Work
  <2> QED
    BY <2>2, <2>3, <2>4 DEF Offers
<1>4. Available(off, bitset')
  BY <1>1 DEF Available
<1> QED
  BY <1>3, <1>4 DEF SolutionsKept, Settled, OnOffer, V

\* Expand keeps what is settled with the bitsets it starts from.
LEMMA ExpandKeeps ==
  ASSUME SoundState, DOMAIN paths = live, NEW n \in Nodes, NEW bs \in [Nodes -> SUBSET Models],
         Expand(n, bs), UNCHANGED <<problem, live, cut_edges>>,
         Settled(problem, live, cut_edges, disabled', bs, paths)
  PROVE  SolutionsKept'
<1> DEFINE w == Work(bs, paths)
           es == EdgesOf(live, n)
           v == AllRefreshed(w, es)
           V == VisibleIn(live, cut_edges)
<1>1. live \subseteq AllEdges /\ cut_edges \subseteq AllEdges /\ paths \in [live -> SUBSET Pairs]
  BY DEF SoundState, TypeOK
<1>2. w \in Works(live) /\ es \in Seq(live) /\ w.bs = bs /\ w.ps = paths
  <2>1. w.bs = bs /\ w.ps = paths
    BY DEF Work
  <2> QED
    BY <1>1, <2>1, WorkIs, EdgesOfAre
<1>3. v \in Works(live) /\ bitset' = v.bs /\ paths' = v.ps
  BY ExpandIs
<1> HIDE DEF w, es
<1>4. Smaller(w, v, live)
  BY <1>1, <1>2, AllRefreshedIsSmaller
<1>5. V \subseteq Nodes /\ \A e \in live : e[1] \in V /\ e[2] \in V
  BY <1>1, VisibleNodes
<1> HIDE DEF V
<1>6. \A f \in [V -> Models] : Offers(w, f, V, live) => Offers(v, f, V, live)
  BY <1>1, <1>2, <1>5, RefreshOffers
<1> HIDE DEF v
<1>7. DOMAIN w.ps = live /\ DOMAIN v.ps = live
  BY <1>2, <1>3 DEF Works
<1>8. Settled(problem, live, cut_edges, disabled', w.bs, w.ps)
  BY <1>2
<1>9. Settled(problem, live, cut_edges, disabled', v.bs, v.ps)
  BY <1>4, <1>6, <1>7, <1>8, SmallerSettles DEF V
<1> QED
  BY <1>3, <1>9 DEF SolutionsKept

Sound == SoundState /\ SolutionsKept

\* At first nothing is claimed.
LEMMA InitKeeps == ASSUME Init PROVE SolutionsKept
BY DEF Init, SolutionsKept, Kind

\* After the constructor every solution is on offer.
LEMMA ConstructKeeps == ASSUME Sound, Construct PROVE SolutionsKept'
<1>1. PICK es \in {{}, problem.switch} :
         live' = live \ es /\ cut_edges' = es /\ Resolve(live \ es, disabled, 1)
  BY DEF Construct
<1>2. live \subseteq AllEdges /\ problem \in Problems /\ disabled \in [Nodes -> SUBSET Models]
  BY DEF Sound, SoundState, TypeOK
<1>3. es \subseteq AllEdges
  BY <1>2, SolverAssumption DEF AllEdges
<1>4. disabled' = disabled
  BY DEF Construct
<1>5. live \ es \subseteq AllEdges
  BY <1>2
<1> QED
  BY <1>1, <1>2, <1>3, <1>4, <1>5, ResolveKeeps

\* After throwing nothing is claimed.
LEMMA ThrowKeeps == ASSUME Throw PROVE SolutionsKept'
BY DEF Throw, SolutionsKept, Kind

\* self_cut starts again with every solution on offer, or marks the pass as fast.
LEMMA SelfCutKeeps ==
  ASSUME Sound, NEW e, self_cut(e) PROVE SolutionsKept'
<1> DEFINE es == SelfCutEdges(e)
<1>0. /\ live \subseteq AllEdges /\ cut_edges \subseteq AllEdges /\ pass \in Passes /\ TypeOK
  BY DEF Sound, SoundState, TypeOK
<1>1. es \subseteq live
  BY DEF SelfCutEdges
<1> HIDE DEF es
<1>2. CASE \E f \in es : {f[1], f[2]} \subseteq DOMAIN selected
  BY <1>2 DEF self_cut, es, SolutionsKept, Kind
<1>3. CASE ~ \E f \in es : {f[1], f[2]} \subseteq DOMAIN selected
  <2>1. live' = live \ es /\ cut_edges' = cut_edges \cup es /\ disabled' = Recomputed(Unset(es))
    BY <1>3 DEF self_cut, es
  <2>2. live' \subseteq AllEdges /\ cut_edges' \subseteq AllEdges
    BY <2>1, <1>0, <1>1
  <2>3. disabled' \in [Nodes -> SUBSET Models]
    BY <2>1, <1>0, RecomputedIs
  <2>4. CASE problem.self_cut = "fast"
    <3> DEFINE a == Only(pass.agenda, {f \in live : f[2] # e[2]})
    <3>1. pass' = [pass EXCEPT !.fast = TRUE, !.consumer = e[2], !.agenda = a]
      BY <1>3, <2>4 DEF self_cut, es
    <3> HIDE DEF a
    <3>2. pass'.fast
      BY <3>1, <1>0 DEF Passes
    <3> QED
      BY <3>2 DEF SolutionsKept, Kind
  <2>5. CASE problem.self_cut # "fast"
    <3>1. Resolve(live \ es, disabled', pass.retry + 1)
      BY <1>3, <2>5 DEF self_cut, es
    <3>2. pass.retry + 1 \in Nat /\ live \ es \subseteq AllEdges
      BY <1>0 DEF Passes
    <3> QED
      BY <3>1, <3>2, <2>2, <2>3, ResolveKeeps
  <2> QED
    BY <2>4, <2>5
<1> QED
  BY <1>2, <1>3

\* A new path set has the pairs of every solution.
LEMMA FoundEdgeKeeps ==
  ASSUME Sound, phase = "edges", pass.agenda # <<>>, NEW e, e = Head(pass.agenda),
         NEW found, found = problem.fits[e] \cap (bitset[e[1]] \X bitset[e[2]]),
         FoundEdge(e, found), UNCHANGED problem
  PROVE  SolutionsKept'
<1> DEFINE D == DOMAIN paths \cup {e}
           w0 == Work(bitset, With(paths, e, found))
           w == Keep(w0, e, found)
           V == VisibleIn(live, cut_edges)
<1>1. /\ TypeOK /\ pass.agenda \in Seq(AllEdges) /\ pass \in Passes
      /\ live \subseteq AllEdges /\ cut_edges \subseteq AllEdges
  BY DEF Sound, SoundState, TypeOK, Passes
<1>2. e \in AllEdges /\ Range(pass.agenda) = {e} \cup Range(Tail(pass.agenda))
  BY <1>1, SeqEnds
<1>3. e[1] \in Nodes /\ e[2] \in Nodes
  BY <1>2, EdgesJoinNodes
<1>4. found \in SUBSET Pairs
  BY <1>1, <1>3, FitsArePairs
<1>5. /\ w0 \in Works(D) /\ D \subseteq AllEdges /\ w0.bs = bitset /\ w0.ps[e] = found
      /\ \A d \in DOMAIN paths \ {e} : w0.ps[d] = paths[d]
  BY ONLY <1>1, <1>2, <1>4, AddPathsIs
<1>6. bitset' = w.bs /\ paths' = w.ps
      /\ UNCHANGED <<live, cut_edges, disabled, phase, todo, needs_update, by_set>>
  BY DEF FoundEdge
<1>7. pass'.fast = pass.fast
  <2> DEFINE q == IF ~pass.fast /\ bitset[e[1]] # w.bs[e[1]] /\ e[1] \notin Range(pass.queue)
                  THEN Append(pass.queue, e[1]) ELSE pass.queue
             t == Tail(pass.agenda)
  <2>1. pass' = [pass EXCEPT !.agenda = t, !.consumer = e[2], !.queue = q]
    BY <1>1 DEF FoundEdge, Passes
  <2> HIDE DEF q, t
  <2> QED
    BY <2>1, <1>1 DEF Passes
<1> SUFFICES ASSUME ~pass.fast PROVE SolutionsKept'
  BY <1>7 DEF SolutionsKept, Kind
<1>8. Settled(problem, live, cut_edges, disabled, bitset, paths) /\ AgendaCovers
  BY DEF Sound, SoundState, Shape, SolutionsKept, Kind
<1>9. e \in live /\ D \subseteq live
  BY <1>2, <1>8 DEF AgendaCovers
<1>10. V \subseteq Nodes /\ \A d \in live : d[1] \in V /\ d[2] \in V
  BY <1>1, VisibleNodes
<1>11. e \in D
  OBVIOUS
<1>12. DOMAIN paths \subseteq D
  OBVIOUS
<1> HIDE DEF w0, V
<1>13. ASSUME NEW f \in [V -> Models], SolvesIn(f, problem, live, disabled)
       PROVE  Offers(w0, f, V, D) /\ <<f[e[1]], f[e[2]]>> \in found
  <2>1. Offers(Work(bitset, paths), f, V, DOMAIN paths)
    BY <1>8, <1>13 DEF Settled, OnOffer, V
  <2>2. Work(bitset, paths).bs = bitset /\ Work(bitset, paths).ps = paths
    BY DEF Work
  <2>3. f[e[1]] \in bitset[e[1]] /\ f[e[2]] \in bitset[e[2]]
    BY <1>9, <1>10, <2>1, <2>2 DEF Offers
  <2>4. <<f[e[1]], f[e[2]]>> \in found
    BY <1>9, <1>13, <2>3 DEF SolvesIn
  <2>5. \A d \in D : <<f[d[1]], f[d[2]]>> \in w0.ps[d]
    BY <1>5, <2>1, <2>2, <2>4 DEF Offers
  <2> QED
    BY <1>5, <2>1, <2>2, <2>4, <2>5 DEF Offers
<1> HIDE DEF D
<1>14. w \in Works(D) /\ Kept(w0, w, e, found)
  BY <1>4, <1>5, <1>11, KeepIs
<1>15. w0.ps \in [D -> SUBSET Pairs]
  BY <1>5 DEF Works
<1> HIDE DEF w
<1>16. \A f \in [V -> Models] : SolvesIn(f, problem, live, disabled) => Offers(w, f, V, D)
  BY <1>4, <1>5, <1>10, <1>11, <1>13, <1>14, <1>15, KeptOffers
<1>17. DOMAIN w.ps = D
  BY <1>14 DEF Works
<1>18. \A f \in [V -> Models] : SolvesIn(f, problem, live, disabled) => Offers(Work(w.bs, w.ps), f, V, D)
  BY <1>16, OffersOfWork
<1>19. Available(disabled, w.bs)
  BY <1>5, <1>8, <1>14 DEF Settled, Available, Kept
<1>20. Settled(problem, live, cut_edges, disabled, w.bs, w.ps)
  BY <1>17, <1>18, <1>19 DEF Settled, OnOffer, V
<1> QED
  BY <1>6, <1>20 DEF SolutionsKept

\* One edge in the loop of resolve_step keeps every solution on offer.
LEMMA ResolveEdgeKeeps == ASSUME Sound, ResolveEdge PROVE SolutionsKept'
<1> DEFINE e == Head(pass.agenda)
           found == problem.fits[e] \cap (bitset[e[1]] \X bitset[e[2]])
<1>1. /\ phase = "edges" /\ pass.agenda # <<>> /\ UNCHANGED <<problem, strategy, selected>>
      /\ (found # {} /\ FoundEdge(e, found)) \/ self_cut(e) \/ Throw
  BY ResolveEdgeIs
<1>2. e = Head(pass.agenda) /\ found = problem.fits[e] \cap (bitset[e[1]] \X bitset[e[2]])
  OBVIOUS
<1> HIDE DEF e, found
<1> QED
  BY <1>1, <1>2, FoundEdgeKeeps, SelfCutKeeps, ThrowKeeps

\* NodePathsProcessor keeps every solution on offer.
LEMMA ProcessNodeKeeps == ASSUME Sound, ProcessNode PROVE SolutionsKept'
<1> DEFINE D == DOMAIN paths
           w == [bs |-> bitset, ps |-> paths, queue |-> Front(pass.queue)]
           es == Only(EdgesOf(live, Last(pass.queue)), DOMAIN paths)
           V == VisibleIn(live, cut_edges)
<1>1. TypeOK /\ live \subseteq AllEdges /\ cut_edges \subseteq AllEdges
  BY DEF Sound, SoundState, TypeOK
<1>2. /\ NodeWork \in QueueWorks(D) /\ w \in QueueWorks(D) /\ es \in Seq(D)
      /\ bitset' = NodeWork.bs /\ paths' = NodeWork.ps
      /\ ~pass.fast /\ phase = "edges"
      /\ UNCHANGED <<problem, live, cut_edges, disabled>>
  BY <1>1, ProcessNodeIs
<1>3. NodeWork = AllQueued(w, es)
  BY DEF NodeWork
<1>4. w.bs = bitset /\ w.ps = paths
  OBVIOUS
<1> HIDE DEF w, es
<1>5. Settled(problem, live, cut_edges, disabled, bitset, paths) /\ AgendaCovers
  BY <1>2 DEF Sound, SoundState, Shape, SolutionsKept, Kind
<1>6. D \subseteq live /\ D \subseteq AllEdges
  BY <1>1, <1>5 DEF AgendaCovers
<1>7. V \subseteq Nodes /\ \A d \in D : d[1] \in V /\ d[2] \in V
  BY <1>1, <1>6, VisibleNodes
<1>8. DOMAIN w.ps = D /\ DOMAIN NodeWork.ps = D
  BY <1>2, <1>4 DEF QueueWorks
<1> HIDE DEF V, D
<1>9. Smaller(w, NodeWork, D)
  BY <1>2, <1>3, <1>6, AllQueuedIsSmaller
<1>10. \A f \in [V -> Models] : Offers(w, f, V, D) => Offers(NodeWork, f, V, D)
  BY <1>2, <1>3, <1>6, <1>7, QueuedOffers
<1>11. Settled(problem, live, cut_edges, disabled, w.bs, w.ps)
  BY <1>4, <1>5
<1>12. Settled(problem, live, cut_edges, disabled, NodeWork.bs, NodeWork.ps)
  BY <1>8, <1>9, <1>10, <1>11, SmallerSettles DEF V
<1> QED
  BY <1>2, <1>12 DEF SolutionsKept

\* So does the end of the loop: the pass after a fast cut starts anew.
LEMMA EdgesDoneKeeps == ASSUME Sound, EdgesDone PROVE SolutionsKept'
<1>1. phase = "edges" /\ UNCHANGED <<problem, live, cut_edges, disabled>>
  BY DEF EdgesDone
<1>2. TypeOK
  BY DEF Sound, SoundState
<1>3. CASE pass.fast
  <2>1. Resolve(live, disabled, pass.retry + 1)
    BY <1>3 DEF EdgesDone
  <2>2. pass.retry + 1 \in Nat
    BY <1>2 DEF TypeOK, Passes
  <2> QED
    BY <2>1, <2>2, <1>1, <1>2, ResolveKeeps DEF TypeOK
<1>4. CASE ~pass.fast
  <2>1. UNCHANGED <<bitset, paths, pass>>
    BY <1>4 DEF EdgesDone
  <2> QED
    BY <1>1, <1>4, <2>1 DEF Sound, SolutionsKept, Kind
<1> QED
  BY <1>3, <1>4

\* A pass that discards models disables them too, so that no solution is lost.
LEMMA NextRootKeeps == ASSUME Sound, NextRoot PROVE SolutionsKept'
<1> DEFINE n == Head(todo)[2]
           drop == RootDrop
<1>1. n = Head(todo)[2] /\ drop = RootDrop /\ SoundState
  BY DEF Sound
<1>2. todo # <<>>
  BY DEF NextRoot
<1>3. n \in Nodes
  BY <1>1, <1>2, TodoIs
<1>4. Head(todo)[1] # "update" => drop \subseteq bitset[n]
  BY RootDropIs
<1> HIDE DEF n, drop
<1>5. /\ phase = "update" /\ needs_update = <<>>
      /\ UNCHANGED <<problem, strategy, live, cut_edges, selected, phase, pass, by_set>>
      /\ \/ UNCHANGED <<bitset, paths, disabled>>
         \/ /\ Head(todo)[1] # "update" /\ drop # {}
            /\ disabled' = [disabled EXCEPT ![n] = @ \cup drop]
            /\ Expand(n, [bitset EXCEPT ![n] = @ \ drop])
  BY <1>1, NextRootIs
<1>6. TypeOK /\ DOMAIN paths = live /\ ~pass.fast
  BY <1>1, <1>5 DEF SoundState, Shape
<1>7. Settled(problem, live, cut_edges, disabled, bitset, paths)
  BY <1>5, <1>6 DEF Sound, SolutionsKept, Kind
<1>8. CASE UNCHANGED <<bitset, paths, disabled>>
  BY <1>5, <1>7, <1>8 DEF SolutionsKept
<1>9. CASE /\ Head(todo)[1] # "update" /\ drop # {}
           /\ disabled' = [disabled EXCEPT ![n] = @ \cup drop]
           /\ Expand(n, [bitset EXCEPT ![n] = @ \ drop])
  <2> DEFINE bs == [bitset EXCEPT ![n] = @ \ drop]
  <2>0. bs = [bitset EXCEPT ![n] = bitset[n] \ drop]
        /\ disabled' = [disabled EXCEPT ![n] = disabled[n] \cup drop]
    BY <1>3, <1>6, <1>9 DEF TypeOK
  <2>1. bs \in [Nodes -> SUBSET Models] /\ Expand(n, bs)
    BY <1>3, <1>6, <1>9 DEF TypeOK
  <2> HIDE DEF bs
  <2>2. bitset \in [Nodes -> SUBSET Models] /\ disabled \in [Nodes -> SUBSET Models]
        /\ live \subseteq AllEdges /\ cut_edges \subseteq AllEdges
    BY <1>6 DEF TypeOK
  <2>3. \A x \in Nodes : bitset[x] \cap disabled[x] = {}
    BY <1>7 DEF Settled, Available
  <2>4. \A x \in Nodes : /\ disabled[x] \subseteq disabled'[x] /\ bitset[x] \ disabled'[x] \subseteq bs[x]
                         /\ bs[x] \cap disabled'[x] = {}
    BY <1>3, <2>0, <2>2, <2>3
  <2>5. Settled(problem, live, cut_edges, disabled', bs, paths)
    BY <1>7, <2>2, <2>4, NarrowedSettles
  <2> QED
    BY <1>1, <1>3, <1>5, <1>6, <2>1, <2>5, ExpandKeeps
<1> QED
  BY <1>5, <1>8, <1>9

\* A round of update_solver keeps every solution on offer.
LEMMA UpdateNodeKeeps == ASSUME Sound, UpdateNode PROVE SolutionsKept'
<1>1. phase = "update" /\ needs_update # <<>> /\ UNCHANGED <<problem, strategy, selected>> /\ SoundState
  BY UpdateNodeIs DEF Sound
<1>2. TypeOK /\ DOMAIN paths = live /\ ~pass.fast
  BY <1>1 DEF SoundState, Shape
<1>3. CASE /\ Round.stop = "none" /\ bitset' = Round.bs /\ paths' = Round.ps
           /\ UNCHANGED <<live, cut_edges, disabled, phase, pass, todo, by_set>>
  <2> DEFINE n == Last(needs_update)
             ins == OperandEdges(live, n)
             outs == UserEdges(live, n)
             w == Work(bitset, paths)
             V == VisibleIn(live, cut_edges)
  <2>1. /\ n \in Nodes /\ ins \in Seq(live) /\ outs \in Seq(live) /\ live \subseteq AllEdges
        /\ w \in Works(live) /\ Round \in Works(live)
    BY <1>1, RoundTyped
  <2>2. (\A d \in Range(ins) : d[2] = n) /\ (\A d \in Range(outs) : d[1] = n)
    BY <2>1, OperandEdgesAre, UserEdgesAre
  <2>3. w.bs = bitset /\ w.ps = paths
    BY DEF Work
  <2>4. Settled(problem, live, cut_edges, disabled, w.bs, w.ps)
    BY <1>1, <1>2, <2>3 DEF Sound, SolutionsKept, Kind
  <2>5. cut_edges \subseteq AllEdges
    BY <1>2 DEF TypeOK
  <2>6. V \subseteq Nodes /\ \A d \in live : d[1] \in V /\ d[2] \in V
    BY <2>1, <2>5, VisibleNodes
  <2>7. Round = UpdatedAt(w, ins, outs)
    BY DEF Round
  <2>8. n \in V \/ (Range(ins) = {} /\ Range(outs) = {})
    <3>1. Range(ins) \subseteq live /\ Range(outs) \subseteq live
      BY <2>1, OperandEdgesAre, UserEdgesAre
    <3> HIDE DEF ins, outs, V, n
    <3> QED
      BY <3>1, <2>2, <2>6
  <2>9. ASSUME NEW f \in [V -> Models], SolvesIn(f, problem, live, disabled)
        PROVE  SumOf(CostsOf(f, ins)) <= MaxCost /\ SumOf(CostsOf(f, outs)) <= MaxCost
    <3>1. CASE n \in V
      <4> HIDE DEF V, n
      <4> QED
        BY <2>9, <3>1 DEF SolvesIn
    <3>2. CASE n \notin V
      <4>1. ins = <<>> /\ outs = <<>>
        <5> HIDE DEF ins, outs, V, n
        <5>1. Len(ins) \in Nat /\ Len(outs) \in Nat /\ DOMAIN ins = 1 .. Len(ins) /\ DOMAIN outs = 1 .. Len(outs)
          BY <2>1
        <5>2. DOMAIN ins = {} /\ DOMAIN outs = {}
          BY <2>8, <3>2 DEF Range
        <5>3. Len(ins) = 0 /\ Len(outs) = 0
          BY <5>1, <5>2
        <5> QED
          BY <2>1, <5>3
      <4>2. SumOf(CostsOf(f, <<>>)) = 0
        <5>1. CostsOf(f, <<>>) = <<>>
          BY DEF CostsOf
        <5>2. <<>> \in Seq(Nat) /\ Len(<<>>) = 0
          OBVIOUS
        <5> QED
          BY <5>1, <5>2, SumIs
      <4>3. 0 <= MaxCost
        BY SolverAssumption
      <4> HIDE DEF ins, outs, V, n
      <4> QED
        BY <4>1, <4>2, <4>3
    <3> QED
      BY <3>1, <3>2
  <2> HIDE DEF n, ins, outs, w, V
  <2>10. Smaller(w, Round, live)
    BY <2>1, <2>7, RoundIsSmaller
  <2>11. \A f \in [V -> Models] : SolvesIn(f, problem, live, disabled) /\ Offers(w, f, V, live)
             => Offers(Round, f, V, live)
    BY <2>1, <2>2, <2>6, <2>7, <2>9, RoundOffers
  <2>12. DOMAIN w.ps = live /\ DOMAIN Round.ps = live
    BY <2>1 DEF Works
  <2>13. Settled(problem, live, cut_edges, disabled, Round.bs, Round.ps)
    BY <2>4, <2>10, <2>11, <2>12, SmallerSettles DEF V
  <2> QED
    BY <1>1, <1>3, <2>13 DEF SolutionsKept
<1>4. CASE Resolve(live, disabled, 1) /\ UNCHANGED <<live, cut_edges, disabled>>
  BY <1>1, <1>2, <1>4, ResolveKeeps DEF TypeOK
<1>5. CASE Throw
  BY <1>5, ThrowKeeps
<1> QED
  BY <1>3, <1>4, <1>5, UpdateNodeIs

\* set() disables the other models of the node: solutions with the chosen one stay on offer.
LEMMA SetKeeps == ASSUME Sound, NEW n \in Nodes, NEW m \in Models, Set(n, m) PROVE SolutionsKept'
<1> DEFINE bs == [bitset EXCEPT ![n] = {m}]
<1>1. /\ phase = "idle" /\ m \in bitset[n]
      /\ disabled' = [disabled EXCEPT ![n] = Models \ {m}]
      /\ Expand(n, bs) /\ UNCHANGED <<problem, live, cut_edges>>
  BY DEF Set
<1>2. SoundState /\ DOMAIN paths = live /\ ~pass.fast
  BY <1>1 DEF Sound, SoundState, Shape
<1>3. Settled(problem, live, cut_edges, disabled, bitset, paths)
  BY <1>1, <1>2 DEF Sound, SolutionsKept, Kind
<1>4. bitset \in [Nodes -> SUBSET Models] /\ disabled \in [Nodes -> SUBSET Models]
      /\ live \subseteq AllEdges /\ cut_edges \subseteq AllEdges
  BY <1>2 DEF SoundState, TypeOK
<1>5. \A x \in Nodes : bitset[x] \cap disabled[x] = {}
  BY <1>3 DEF Settled, Available
<1>6. bs \in [Nodes -> SUBSET Models]
  BY <1>4
<1>7. \A x \in Nodes : /\ disabled[x] \subseteq disabled'[x] /\ bitset[x] \ disabled'[x] \subseteq bs[x]
                       /\ bs[x] \cap disabled'[x] = {}
  <2> SUFFICES ASSUME NEW x \in Nodes
               PROVE  /\ disabled[x] \subseteq disabled'[x] /\ bitset[x] \ disabled'[x] \subseteq bs[x]
                      /\ bs[x] \cap disabled'[x] = {}
    OBVIOUS
  <2>1. CASE x = n
    <3>1. disabled'[x] = Models \ {m} /\ bs[x] = {m}
      BY <1>1, <1>4, <2>1
    <3>2. m \notin disabled[x]
      BY <1>1, <1>5, <2>1
    <3>3. disabled[x] \subseteq Models /\ bitset[x] \subseteq Models
      BY <1>4
    <3> HIDE DEF bs
    <3> QED
      BY <3>1, <3>2, <3>3
  <2>2. CASE x # n
    <3>1. disabled'[x] = disabled[x] /\ bs[x] = bitset[x]
      BY <1>1, <1>4, <2>2
    <3> HIDE DEF bs
    <3> QED
      BY <1>5, <3>1
  <2> QED
    BY <2>1, <2>2
<1> HIDE DEF bs
<1>8. Settled(problem, live, cut_edges, disabled', bs, paths)
  BY <1>3, <1>4, <1>7, NarrowedSettles
<1> QED
  BY <1>1, <1>2, <1>6, <1>8, ExpandKeeps

\* So does set_filter_grid_size().
LEMMA FilterKeeps ==
  ASSUME Sound, NEW n \in Nodes, NEW m \in Models, set_filter_grid_size(n, m) PROVE SolutionsKept'
<1> DEFINE bs == [bitset EXCEPT ![n] = {m}]
<1>1. /\ phase = "idle" /\ m \in bitset[n]
      /\ disabled' = [disabled EXCEPT ![n] = @ \cup (bitset[n] \ {m})]
      /\ Expand(n, bs) /\ UNCHANGED <<problem, live, cut_edges>>
  BY DEF set_filter_grid_size
<1>2. SoundState /\ DOMAIN paths = live /\ ~pass.fast
  BY <1>1 DEF Sound, SoundState, Shape
<1>3. Settled(problem, live, cut_edges, disabled, bitset, paths)
  BY <1>1, <1>2 DEF Sound, SolutionsKept, Kind
<1>4. bitset \in [Nodes -> SUBSET Models] /\ disabled \in [Nodes -> SUBSET Models]
      /\ live \subseteq AllEdges /\ cut_edges \subseteq AllEdges
  BY <1>2 DEF SoundState, TypeOK
<1>5. \A x \in Nodes : bitset[x] \cap disabled[x] = {}
  BY <1>3 DEF Settled, Available
<1>6. bs \in [Nodes -> SUBSET Models]
  BY <1>4
<1>7. \A x \in Nodes : /\ disabled[x] \subseteq disabled'[x] /\ bitset[x] \ disabled'[x] \subseteq bs[x]
                       /\ bs[x] \cap disabled'[x] = {}
  <2> SUFFICES ASSUME NEW x \in Nodes
               PROVE  /\ disabled[x] \subseteq disabled'[x] /\ bitset[x] \ disabled'[x] \subseteq bs[x]
                      /\ bs[x] \cap disabled'[x] = {}
    OBVIOUS
  <2>1. CASE x = n
    <3>1. disabled'[x] = disabled[x] \cup (bitset[x] \ {m}) /\ bs[x] = {m}
      BY <1>1, <1>4, <2>1
    <3>2. m \notin disabled[x] /\ m \in bitset[x]
      BY <1>1, <1>5, <2>1
    <3> HIDE DEF bs
    <3> QED
      BY <3>1, <3>2
  <2>2. CASE x # n
    <3>1. disabled'[x] = disabled[x] /\ bs[x] = bitset[x]
      BY <1>1, <1>4, <2>2
    <3> HIDE DEF bs
    <3> QED
      BY <1>5, <3>1
  <2> QED
    BY <2>1, <2>2
<1> HIDE DEF bs
<1>8. Settled(problem, live, cut_edges, disabled', bs, paths)
  BY <1>3, <1>4, <1>7, NarrowedSettles
<1> QED
  BY <1>1, <1>2, <1>6, <1>8, ExpandKeeps

\* After cut() every solution of the smaller graph is on offer.
LEMMA CutKeeps == ASSUME Sound, NEW es \in SUBSET live, Cut(es) PROVE SolutionsKept'
<1>1. /\ live' = live \ es /\ cut_edges' = cut_edges \cup es /\ disabled' = Recomputed(Unset(es))
      /\ Resolve(live \ es, disabled', 1)
  BY DEF Cut
<1>2. TypeOK
  BY DEF Sound, SoundState
<1>3. disabled' \in [Nodes -> SUBSET Models]
  BY <1>1, <1>2, RecomputedIs
<1>4. live \ es \subseteq AllEdges /\ cut_edges' \subseteq AllEdges /\ live' \subseteq AllEdges
  BY <1>1, <1>2 DEF TypeOK
<1> QED
  BY <1>1, <1>3, <1>4, ResolveKeeps

\* So it is with the calls of the policies that cut.
LEMMA CutsKeep ==
  ASSUME Sound, CutEpoch \/ \E n \in Nodes : CutRibbon(n) PROVE SolutionsKept'
<1>1. CASE CutEpoch
  BY <1>1, CutKeeps DEF CutEpoch
<1>2. CASE \E n \in Nodes : CutRibbon(n)
  BY <1>2, CutKeeps DEF CutRibbon
<1> QED
  BY <1>1, <1>2

\* After buffer() every solution of the graph with the NOP is on offer.
LEMMA BufferKeeps == ASSUME Sound, NEW e \in Edges, buffer(e) PROVE SolutionsKept'
<1> DEFINE edges == (live \ {e}) \cup {<<e[1], Nop[e]>>, <<Nop[e], e[2]>>}
           ns == Unset({e}) \cup {Nop[e]}
<1>1. /\ live' = edges /\ disabled' = Recomputed(ns) /\ Resolve(edges, disabled', 1)
      /\ UNCHANGED <<problem, strategy, cut_edges, selected>> /\ e \in live \cap DOMAIN Nop
  BY DEF buffer
<1>2. TypeOK
  BY DEF Sound, SoundState
<1>3. edges \subseteq AllEdges
  BY <1>1, <1>2 DEF TypeOK, AllEdges, NopEdges
<1> HIDE DEF edges, ns
<1>4. disabled' \in [Nodes -> SUBSET Models]
  BY <1>1, <1>2, RecomputedIs
<1>5. cut_edges' \subseteq AllEdges
  BY <1>1, <1>2 DEF TypeOK
<1> QED
  BY <1>1, <1>3, <1>4, <1>5, ResolveKeeps

\* The steps that leave what is on offer alone.
LEMMA RestKeeps ==
  ASSUME Sound, \/ Return \/ invalidate_suboptimal_op_models \/ finish \/ Done \/ UNCHANGED vars
  PROVE  SolutionsKept'
<1>1. UNCHANGED <<problem, live, cut_edges, disabled, bitset, paths>>
  BY DEF Return, invalidate_suboptimal_op_models, finish, Done, vars
<1>2. Kind' => Kind
  <2>1. CASE Return
    <3>1. phase = "update"
      BY <2>1 DEF Return
    <3> QED
      BY <3>1 DEF Sound, SoundState, Shape, Kind
  <2>2. CASE invalidate_suboptimal_op_models \/ finish \/ Done \/ UNCHANGED vars
    BY <2>2 DEF invalidate_suboptimal_op_models, finish, Done, vars, Kind
  <2> QED
    BY <2>1, <2>2
<1> QED
  BY <1>1, <1>2 DEF Sound, SolutionsKept

\* Every step keeps the solutions on offer.
LEMMA StepKeeps == ASSUME Sound, Next PROVE SolutionsKept'
<1>1. CASE Construct
  BY <1>1, ConstructKeeps
<1>2. CASE SolverStep
  BY <1>2, ResolveEdgeKeeps, ProcessNodeKeeps, EdgesDoneKeeps, NextRootKeeps, UpdateNodeKeeps,
     RestKeeps DEF SolverStep
<1>3. CASE invalidate_suboptimal_op_models \/ finish \/ Done
  BY <1>3, RestKeeps
<1>4. CASE CutEpoch \/ \E n \in Nodes : CutRibbon(n)
  BY <1>4, CutsKeep
<1>7. CASE \E n \in Nodes, m \in Models : Set(n, m) \/ set_filter_grid_size(n, m)
  BY <1>7, SetKeeps, FilterKeeps
<1>8. CASE \E e \in Edges : buffer(e)
  BY <1>8, BufferKeeps
<1> QED
  BY <1>1, <1>2, <1>3, <1>4, <1>7, <1>8 DEF Next

\* The invariant implies that no solution is lost.
LEMMA SoundKeepsAll == ASSUME Sound PROVE NothingLost
<1> SUFFICES ASSUME AtRest, NEW f \in [Visible -> Models], Solves(f)
             PROVE  \A n \in Visible : f[n] \in bitset[n]
  <2>1. \A f \in [Visible -> Models] : DOMAIN f = Visible
    OBVIOUS
  <2> QED
    BY <2>1 DEF NothingLost
<1>1. Kind
  BY DEF AtRest, Kind, Sound, SoundState, Shape
<1>2. SolvesIn(f, problem, live, disabled)
  BY SolvesIs
<1>3. Offers(Work(bitset, paths), f, Visible, DOMAIN paths)
  BY <1>1, <1>2, VisibleIs DEF Sound, SolutionsKept, Settled, OnOffer
<1> QED
  BY <1>3 DEF Offers, Work

\* Pruning is sound on every graph, for every cost and limit: whatever passes, self-cuts, rounds
\* of
\* update_solver and calls led here, each choice of models that the constraints allow is on offer.
THEOREM SolutionsAreKept == Spec => []NothingLost
<1>1. Init => SoundState /\ SolutionsKept
  BY InitSound, InitKeeps
<1>2. Sound /\ [Next]_vars => Sound'
  BY StepSound, StutterSound, StepKeeps, RestKeeps DEF Sound
<1>3. Sound => NothingLost
  BY SoundKeepsAll
<1>4. Init => Sound
  BY <1>1 DEF Sound
<1> QED
  BY <1>2, <1>3, <1>4, PTL DEF Spec

-----------------------------------------------------------------------------
\* What update_solver reports of a round is all that the round changed.

\* Both ends of the edge have exactly the models that its paths have.
ConsistentIn(w, e) ==
    /\ w.ps[e] # {}
    /\ w.bs[e[1]] = Producers(w.ps[e]) /\ w.bs[e[2]] = Consumers(w.ps[e])

Quiet(w, S) == \A e \in S : e \notin w.changed /\ ~w.path_changed

\* From work w to work v only paths of the edges in S were removed.  A node that lost models is
\* at an edge that says so, and where none does, what was consistent still is.
Tracks(w, v, S, D) ==
    /\ \A m \in Nodes : v.bs[m] # w.bs[m] =>
          \E e \in S : m \in {e[1], e[2]} /\ (e \in v.changed \/ v.path_changed)
    /\ \A d \in D \ S : v.ps[d] = w.ps[d]
    /\ w.changed \subseteq v.changed /\ (w.path_changed => v.path_changed)
    /\ v.stop = "none" => w.stop = "none"
    /\ v.stop = "none" /\ Quiet(v, S) => \A d \in D : ConsistentIn(w, d) => ConsistentIn(v, d)

\* A step that does nothing reports what it did.
LEMMA TracksSelf == ASSUME NEW w, NEW S, NEW D PROVE Tracks(w, w, S, D)
BY DEF Tracks

\* Two steps that report what they did report it together.
LEMMA TracksOn ==
  ASSUME NEW a, NEW b, NEW c, NEW S, NEW D, Tracks(a, b, S, D), Tracks(b, c, S, D)
  PROVE  Tracks(a, c, S, D)
<1>1. ASSUME NEW m \in Nodes, c.bs[m] # a.bs[m]
      PROVE  \E e \in S : m \in {e[1], e[2]} /\ (e \in c.changed \/ c.path_changed)
  <2>1. c.bs[m] # b.bs[m] \/ b.bs[m] # a.bs[m]
    BY <1>1
  <2> QED
    BY <2>1 DEF Tracks
<1>2. Quiet(c, S) => Quiet(b, S)
  BY DEF Tracks, Quiet
<1> QED
  BY <1>1, <1>2 DEF Tracks

\* Where nothing is reported no node lost a model.
LEMMA QuietIsSame ==
  ASSUME NEW w, NEW v, NEW S, NEW D, Tracks(w, v, S, D), Quiet(v, S)
  PROVE  \A m \in Nodes : v.bs[m] = w.bs[m]
BY DEF Tracks, Quiet

\* What is kept without shrinking an end is consistent.
LEMMA KeptIsConsistent ==
  ASSUME NEW D, D \subseteq AllEdges, NEW w \in Works(D), NEW v, NEW e \in D,
         NEW keep \in SUBSET Valid(w, e), Kept(w, v, e, keep), keep # {}, ~Shrinks(w, e, keep)
  PROVE  ConsistentIn(v, e) /\ \A m \in Nodes : v.bs[m] = w.bs[m]
<1>1. e[1] \in Nodes /\ e[2] \in Nodes
  BY EdgesJoinNodes
<1>2. w.bs[e[1]] \subseteq Producers(keep) /\ w.bs[e[2]] \subseteq Consumers(keep)
  BY DEF Shrinks
<1>3. Producers(keep) \subseteq w.bs[e[1]] /\ Consumers(keep) \subseteq w.bs[e[2]]
  BY DEF Producers, Consumers, Valid
<1>4. v.ps[e] = keep
  <2>1. w.ps \in [D -> SUBSET Pairs]
    BY DEF Works
  <2> QED
    BY <2>1 DEF Kept
<1>5. \A m \in Nodes : v.bs[m] = w.bs[m]
  BY <1>2 DEF Kept
<1> QED
  BY <1>1, <1>2, <1>3, <1>4, <1>5 DEF ConsistentIn

\* A step of update_solver at one edge reports what it did,
LEMMA PrunesTracks ==
  ASSUME NEW D, D \subseteq AllEdges, NEW w \in Works(D), NEW v, NEW S, NEW e \in S, e \in D,
         Prunes(w, v, e)
  PROVE  Tracks(w, v, S, D)
<1>1. CASE v = w
  BY <1>1, TracksSelf
<1>2. CASE v # w
  <2>1. PICK keep \in SUBSET Valid(w, e) :
          /\ Kept(w, v, e, keep)
          /\ w.stop = "none" /\ (v.stop = "none" => keep # {})
          /\ w.changed \subseteq v.changed /\ v.changed \subseteq w.changed \cup {e}
          /\ w.path_changed => v.path_changed
          /\ Shrinks(w, e, keep) => e \in v.changed \/ v.path_changed
    BY <1>2 DEF Prunes
  <2>2. w.ps \in [D -> SUBSET Pairs]
    BY DEF Works
  <2>3. \A d \in D \ {e} : v.ps[d] = w.ps[d]
    BY <2>1, <2>2 DEF Kept
  <2>4. ASSUME NEW m \in Nodes, v.bs[m] # w.bs[m]
        PROVE  m \in {e[1], e[2]} /\ (e \in v.changed \/ v.path_changed)
    <3>1. v.bs[m] = {x \in w.bs[m] : /\ m = e[1] => x \in Producers(keep)
                                     /\ m = e[2] => x \in Consumers(keep)}
      BY <2>1 DEF Kept
    <3>2. m \in {e[1], e[2]}
      BY <2>4, <3>1
    <3>3. Shrinks(w, e, keep)
      BY <2>4, <3>1 DEF Shrinks
    <3> QED
      BY <2>1, <3>2, <3>3
  <2>5. ASSUME v.stop = "none", Quiet(v, S), NEW d \in D, ConsistentIn(w, d)
        PROVE  ConsistentIn(v, d)
    <3>1. keep # {} /\ ~Shrinks(w, e, keep)
      BY <2>1, <2>5 DEF Quiet
    <3>2. ConsistentIn(v, e) /\ \A m \in Nodes : v.bs[m] = w.bs[m]
      BY <2>1, <3>1, KeptIsConsistent
    <3>3. CASE d # e
      <4>1. v.ps[d] = w.ps[d] /\ d[1] \in Nodes /\ d[2] \in Nodes
        BY <2>3, <3>3, EdgesJoinNodes
      <4> QED
        BY <2>5, <3>2, <4>1 DEF ConsistentIn
    <3> QED
      BY <3>2, <3>3
  <2> QED
    BY <2>1, <2>3, <2>4, <2>5 DEF Tracks
<1> QED
  BY <1>1, <1>2

\* so does apply_cumulative_costs,
LEMMA CumulativeTracks ==
  ASSUME NEW D, D \subseteq AllEdges, NEW w \in Works(D), NEW es \in Seq(D), NEW side,
         NEW S, Range(es) \subseteq S
  PROVE  Tracks(w, apply_cumulative_costs(w, es, side), S, D)
<1>0. PICK g : CumulativeRounds(D, w, es, side, g)
  BY EachCumulative
<1>1. /\ g \in [0 .. Len(es) -> Works(D)]
      /\ g[0] = w /\ g[Len(es)] = apply_cumulative_costs(w, es, side)
      /\ \A i \in 1 .. Len(es) : g[i] = CumulativeEdge(g[i - 1], es, es[i], side)
  BY <1>0 DEF CumulativeRounds
<1> DEFINE Good == {i \in 0 .. Len(es) : Tracks(w, g[i], S, D)}
<1>2. 0 \in Good
  BY <1>1, TracksSelf
<1>3. ASSUME NEW i \in 1 .. Len(es), i - 1 \in Good PROVE i \in Good
  <2>1. es[i] \in D /\ es[i] \in S /\ i - 1 \in 0 .. Len(es)
    BY DEF Range
  <2>2. g[i - 1] \in Works(D)
    BY <1>1, <2>1
  <2>3. Prunes(g[i - 1], CumulativeEdge(g[i - 1], es, es[i], side), es[i])
    BY <2>1, <2>2, CumulativeIs
  <2>4. Prunes(g[i - 1], g[i], es[i])
    BY <1>1, <2>3, Zenon
  <2>5. Tracks(g[i - 1], g[i], S, D)
    BY <2>1, <2>2, <2>4, PrunesTracks
  <2>6. Tracks(w, g[i - 1], S, D)
    BY <1>3
  <2>7. Tracks(w, g[i], S, D)
    BY <2>5, <2>6, TracksOn
  <2> QED
    BY <2>7
<1>4. Len(es) \in Nat
  OBVIOUS
<1>5. \A i \in 0 .. Len(es) : i \in Good
  <2> HIDE DEF Good
  <2> QED
    BY <1>2, <1>3, <1>4, Induct
<1> QED
  BY <1>1, <1>4, <1>5

\* An update that reports nothing has found the edge consistent.
LEMMA UpdateIsConsistent ==
  ASSUME NEW D, D \subseteq AllEdges, NEW w \in Works(D), NEW e \in D, NEW S, e \in S,
         update(w, e).stop = "none", Quiet(update(w, e), S)
  PROVE  ConsistentIn(update(w, e), e)
<1>1. w.stop = "none"
  BY UpdateIs
<1>2. /\ Kept(w, update(w, e), e, Valid(w, e)) /\ Valid(w, e) # {}
      /\ Shrinks(w, e, Valid(w, e)) => e \in update(w, e).changed
  BY <1>1, UpdateIs, Zenon
<1>3. ~Shrinks(w, e, Valid(w, e))
  BY <1>2 DEF Quiet
<1>4. Valid(w, e) \in SUBSET Valid(w, e)
  OBVIOUS
<1> QED
  BY <1>2, <1>3, <1>4, KeptIsConsistent

\* and so does the loop of updates, which leaves its edges consistent if it reports nothing.
LEMMA UpdateTracks ==
  ASSUME NEW D, D \subseteq AllEdges, NEW w \in Works(D), NEW es \in Seq(D),
         NEW S, Range(es) \subseteq S
  PROVE  /\ Tracks(w, AllUpdated(w, es), S, D)
         /\ AllUpdated(w, es).stop = "none" /\ Quiet(AllUpdated(w, es), S)
               => \A e \in Range(es) : ConsistentIn(AllUpdated(w, es), e)
<1>1. PICK g \in [0 .. Len(es) -> Works(D)] :
        /\ g[0] = w /\ g[Len(es)] = AllUpdated(w, es)
        /\ \A i \in 1 .. Len(es) : g[i] = update(g[i - 1], es[i])
  BY EachUpdate
<1> DEFINE Fine(i) == g[i].stop = "none" /\ Quiet(g[i], S)
           Good == {i \in 0 .. Len(es) : /\ Tracks(w, g[i], S, D)
                                         /\ Fine(i) => \A j \in 1 .. i : ConsistentIn(g[i], es[j])}
<1>4. Len(es) \in Nat /\ DOMAIN es = 1 .. Len(es)
  OBVIOUS
<1>2. 0 \in Good
  <2>1. 0 \in 0 .. Len(es) /\ Tracks(w, g[0], S, D)
    BY <1>1, TracksSelf
  <2> QED
    BY <2>1
<1>3. ASSUME NEW i \in 1 .. Len(es), i - 1 \in Good PROVE i \in Good
  <2> DEFINE u == g[i - 1]
             v == g[i]
  <2>1. es[i] \in D /\ es[i] \in S /\ i - 1 \in 0 .. Len(es)
    BY DEF Range
  <2>2. u \in Works(D) /\ v = update(u, es[i])
    BY <1>1, <2>1
  <2>3. Tracks(w, u, S, D) /\ (Fine(i - 1) => \A j \in 1 .. i - 1 : ConsistentIn(u, es[j]))
    BY <1>3
  <2>3a. Fine(i - 1) <=> u.stop = "none" /\ Quiet(u, S)
    OBVIOUS
  <2>3b. Fine(i) <=> v.stop = "none" /\ Quiet(v, S)
    OBVIOUS
  <2> HIDE DEF u, v
  <2>4. Prunes(u, v, es[i])
    BY <2>1, <2>2, UpdateIs
  <2>5. Tracks(u, v, S, D)
    BY <2>1, <2>2, <2>4, PrunesTracks
  <2>6. Tracks(w, v, S, D)
    BY <2>3, <2>5, TracksOn
  <2>7. ASSUME v.stop = "none", Quiet(v, S), NEW j \in 1 .. i PROVE ConsistentIn(v, es[j])
    <3>1. CASE j = i
      BY <2>1, <2>2, <2>7, <3>1, UpdateIsConsistent
    <3>2. CASE j # i
      <4>1. u.stop = "none" /\ Quiet(u, S)
        BY <2>5, <2>7 DEF Tracks, Quiet
      <4>2. j \in 1 .. i - 1 /\ es[j] \in D
        BY <3>2
      <4>3. ConsistentIn(u, es[j])
        BY <2>3, <2>3a, <4>1, <4>2
      <4> QED
        BY <2>5, <2>7, <4>2, <4>3 DEF Tracks
    <3> QED
      BY <3>1, <3>2
  <2> QED
    BY <2>3b, <2>6, <2>7 DEF v
<1>5. \A i \in 0 .. Len(es) : i \in Good
  <2> HIDE DEF Good
  <2> QED
    BY <1>2, <1>3, <1>4, Induct
<1>6. Len(es) \in Good
  BY <1>4, <1>5
<1> QED
  BY <1>1, <1>4, <1>6 DEF Range

\* A round: what it changed it reports, and if it reports nothing all its edges are consistent.
LEMMA RoundTracks ==
  ASSUME NEW D, D \subseteq AllEdges, NEW w \in Works(D), NEW ins \in Seq(D), NEW outs \in Seq(D),
         NEW S, S = Range(ins) \cup Range(outs), NEW v, v = UpdatedAt(w, ins, outs)
  PROVE  /\ Tracks(w, v, S, D)
         /\ v.stop = "none" /\ Quiet(v, S) => \A e \in S : ConsistentIn(v, e)
<1> DEFINE a == AllUpdated(w, ins)
           b == apply_cumulative_costs(a, ins, 2)
           c == AllUpdated(b, outs)
           d == apply_cumulative_costs(c, outs, 1)
<1>0. Range(ins) \subseteq S /\ Range(outs) \subseteq S /\ Range(ins) \subseteq D /\ Range(outs) \subseteq D
  BY DEF Range
<1>1. a \in Works(D) /\ Tracks(w, a, S, D)
      /\ (a.stop = "none" /\ Quiet(a, S) => \A e \in Range(ins) : ConsistentIn(a, e))
  BY <1>0, AllUpdatedIsWork, UpdateTracks
<1> HIDE DEF a
<1>2. b \in Works(D) /\ Tracks(a, b, S, D)
  BY <1>0, <1>1, CumulativeIsWork, CumulativeTracks
<1> HIDE DEF b
<1>3. c \in Works(D) /\ Tracks(b, c, S, D)
      /\ (c.stop = "none" /\ Quiet(c, S) => \A e \in Range(outs) : ConsistentIn(c, e))
  BY <1>0, <1>2, AllUpdatedIsWork, UpdateTracks
<1> HIDE DEF c
<1>4. Tracks(c, d, S, D)
  BY <1>0, <1>3, CumulativeTracks
<1> HIDE DEF d
<1>5. v = d
  BY RoundIs DEF a, b, c, d
<1>6. Tracks(b, d, S, D) /\ Tracks(a, d, S, D) /\ Tracks(w, d, S, D)
  <2>1. Tracks(b, d, S, D)
    BY <1>3, <1>4, TracksOn
  <2>2. Tracks(a, d, S, D)
    BY <1>2, <2>1, TracksOn
  <2> QED
    BY <1>1, <2>1, <2>2, TracksOn
<1>7. ASSUME d.stop = "none", Quiet(d, S), NEW e \in S PROVE ConsistentIn(d, e)
  <2>1. CASE e \in Range(ins)
    <3>1. a.stop = "none" /\ Quiet(a, S)
      BY <1>6, <1>7 DEF Tracks, Quiet
    <3>2. ConsistentIn(a, e) /\ e \in D
      BY <1>0, <1>1, <2>1, <3>1
    <3> QED
      BY <1>6, <1>7, <3>2 DEF Tracks
  <2>2. CASE e \in Range(outs)
    <3>1. c.stop = "none" /\ Quiet(c, S)
      BY <1>4, <1>7 DEF Tracks, Quiet
    <3>2. ConsistentIn(c, e) /\ e \in D
      BY <1>0, <1>3, <2>2, <3>1
    <3> QED
      BY <1>4, <1>7, <3>2 DEF Tracks
  <2> QED
    BY <2>1, <2>2
<1> QED
  BY <1>5, <1>6, <1>7

\* refresh of the edges in S leaves the other nodes and the other edges as they are.
LEMMA RefreshTouches ==
  ASSUME NEW D, D \subseteq AllEdges, NEW w \in Works(D), NEW es \in Seq(D),
         NEW v, v = AllRefreshed(w, es)
  PROVE  /\ \A d \in D \ Range(es) : v.ps[d] = w.ps[d]
         /\ \A m \in Nodes : (\A e \in Range(es) : m \notin {e[1], e[2]}) => v.bs[m] = w.bs[m]
<1>1. PICK g \in [0 .. Len(es) -> Works(D)] :
        /\ g[0] = w /\ g[Len(es)] = AllRefreshed(w, es)
        /\ \A i \in 1 .. Len(es) : g[i] = refresh(g[i - 1], es[i])
  BY EachRefresh
<1> DEFINE Same(x) == /\ \A d \in D \ Range(es) : x.ps[d] = w.ps[d]
                      /\ \A m \in Nodes : (\A e \in Range(es) : m \notin {e[1], e[2]}) => x.bs[m] = w.bs[m]
           Good == {i \in 0 .. Len(es) : Same(g[i])}
<1>2. 0 \in Good
  BY <1>1
<1>3. ASSUME NEW i \in 1 .. Len(es), i - 1 \in Good PROVE i \in Good
  <2> DEFINE u == g[i - 1]
             e == es[i]
             keep == Valid(u, e)
  <2>1. e \in D /\ i - 1 \in 0 .. Len(es) /\ e \in Range(es)
    BY DEF Range
  <2>2. u \in Works(D) /\ Same(u)
    BY <2>1, <1>3
  <2>3. g[i] = Keep(u, e, keep)
    BY <1>1 DEF refresh
  <2> HIDE DEF u, e
  <2>4. keep \in SUBSET Pairs
    BY <2>1, <2>2, ValidOfWork
  <2> HIDE DEF keep
  <2>5. Kept(u, g[i], e, keep)
    BY <2>1, <2>2, <2>3, <2>4, KeepIs
  <2>6. u.ps \in [D -> SUBSET Pairs]
    BY <2>2 DEF Works
  <2>7. Same(g[i])
    <3>1. \A d \in D \ Range(es) : g[i].ps[d] = u.ps[d]
      BY <2>1, <2>5, <2>6 DEF Kept
    <3>2. \A m \in Nodes : (\A x \in Range(es) : m \notin {x[1], x[2]}) => g[i].bs[m] = u.bs[m]
      BY <2>1, <2>5 DEF Kept
    <3> QED
      BY <2>2, <3>1, <3>2
  <2> HIDE DEF Same
  <2> QED
    BY <2>7
<1>4. Len(es) \in Nat
  OBVIOUS
<1>5. \A i \in 0 .. Len(es) : i \in Good
  <2> HIDE DEF Good
  <2> QED
    BY <1>2, <1>3, <1>4, Induct
<1> QED
  BY <1>1, <1>4, <1>5

-----------------------------------------------------------------------------
\* Between calls the offers are reconciled.

PathsFit == \A e \in DOMAIN paths : paths[e] \subseteq problem.fits[e]

\* An end of the edge is still to be updated.
Pending(e) ==
    \E x \in {e[1], e[2]} : x \in Range(needs_update) \/ <<"update", x>> \in Range(todo)

Consistent(e) == ConsistentIn(Work(bitset, paths), e)

Checked == phase \in {"update", "idle", "finished"} => \A e \in live : Consistent(e) \/ Pending(e)

\* Smaller work keeps the paths within what the edges allow.
LEMMA SmallerFits ==
  ASSUME PathsFit, UNCHANGED problem, NEW w, w.ps = paths, NEW v, paths' = v.ps,
         DOMAIN v.ps = DOMAIN paths, Smaller(w, v, DOMAIN paths)
  PROVE  PathsFit'
BY DEF PathsFit, Smaller

\* After reset() there are no paths.
LEMMA ResolveFits ==
  ASSUME NEW edges, NEW off, NEW retry, Resolve(edges, off, retry)
  PROVE  PathsFit' /\ Checked'
<1>1. paths' = <<>> /\ phase' = "edges"
  BY DEF Resolve
<1> QED
  BY <1>1 DEF PathsFit, Checked

\* Nor are there at first.
LEMMA InitFits == ASSUME Init PROVE PathsFit /\ Checked
BY DEF Init, PathsFit, Checked

\* Throwing leaves the paths alone.
LEMMA ThrowFits == ASSUME PathsFit, Throw, UNCHANGED problem PROVE PathsFit' /\ Checked'
BY DEF Throw, PathsFit, Checked

\* self_cut leaves them alone or starts again.
LEMMA SelfCutFits ==
  ASSUME PathsFit, phase = "edges", NEW e, self_cut(e), UNCHANGED problem PROVE PathsFit' /\ Checked'
<1>1. \/ \E edges, off, retry : Resolve(edges, off, retry)
      \/ UNCHANGED paths /\ phase' \in {"edges", "asserted"}
  BY DEF self_cut
<1>2. CASE UNCHANGED paths /\ phase' \in {"edges", "asserted"}
  BY <1>2 DEF PathsFit, Checked
<1> QED
  BY <1>1, <1>2, ResolveFits

\* A new path set has pairs that the edge allows.
LEMMA FoundEdgeFits ==
  ASSUME TypeOK, PathsFit, phase = "edges", NEW e \in AllEdges,
         NEW found \in SUBSET Pairs, found \subseteq problem.fits[e],
         FoundEdge(e, found), UNCHANGED problem
  PROVE  PathsFit' /\ Checked'
<1> DEFINE D == DOMAIN paths \cup {e}
           w0 == Work(bitset, With(paths, e, found))
           w == Keep(w0, e, found)
<1>1. /\ w0 \in Works(D) /\ D \subseteq AllEdges
      /\ \A d \in DOMAIN paths \ {e} : w0.ps[d] = paths[d]
  BY AddPathsIs
<1>2. paths' = w.ps /\ phase' = "edges"
  BY DEF FoundEdge
<1>3. e \in D
  OBVIOUS
<1>4. \A d \in D : d # e => d \in DOMAIN paths
  OBVIOUS
<1> HIDE DEF w0, D
<1>5. w \in Works(D) /\ Kept(w0, w, e, found)
  BY <1>1, <1>3, KeepIs
<1>6. w0.ps \in [D -> SUBSET Pairs]
  BY <1>1 DEF Works
<1> HIDE DEF w
<1>7. DOMAIN w.ps = D /\ \A d \in D : w.ps[d] = IF d = e THEN found ELSE w0.ps[d]
  BY <1>5, <1>6 DEF Kept
<1>8. \A d \in D : w.ps[d] \subseteq problem.fits[d]
  BY <1>1, <1>4, <1>7 DEF PathsFit
<1> QED
  BY <1>2, <1>7, <1>8 DEF PathsFit, Checked

\* One edge in the loop of resolve_step keeps that so.
LEMMA ResolveEdgeFits == ASSUME SoundState, PathsFit, ResolveEdge PROVE PathsFit' /\ Checked'
<1> DEFINE e == Head(pass.agenda)
           found == problem.fits[e] \cap (bitset[e[1]] \X bitset[e[2]])
<1>1. /\ phase = "edges" /\ pass.agenda # <<>> /\ UNCHANGED <<problem, strategy, selected>>
      /\ (found # {} /\ FoundEdge(e, found)) \/ self_cut(e) \/ Throw
  BY ResolveEdgeIs
<1>2. pass.agenda \in Seq(AllEdges) /\ TypeOK
  BY DEF SoundState, TypeOK, Passes
<1>3. e \in AllEdges
  BY <1>1, <1>2, SeqEnds
<1>4. e[1] \in Nodes /\ e[2] \in Nodes
  BY <1>3, EdgesJoinNodes
<1>5. found \in SUBSET Pairs /\ found \subseteq problem.fits[e]
  BY <1>2, <1>4, FitsArePairs
<1> HIDE DEF e, found
<1> QED
  BY <1>1, <1>2, <1>3, <1>5, FoundEdgeFits, SelfCutFits, ThrowFits

\* So does NodePathsProcessor.
LEMMA ProcessNodeFits == ASSUME SoundState, PathsFit, ProcessNode PROVE PathsFit' /\ Checked'
<1> DEFINE D == DOMAIN paths
           w == [bs |-> bitset, ps |-> paths, queue |-> Front(pass.queue)]
           es == Only(EdgesOf(live, Last(pass.queue)), DOMAIN paths)
<1>1. TypeOK
  BY DEF SoundState
<1>2. /\ NodeWork \in QueueWorks(D) /\ w \in QueueWorks(D) /\ es \in Seq(D)
      /\ bitset' = NodeWork.bs /\ paths' = NodeWork.ps
      /\ phase = "edges" /\ UNCHANGED <<problem, phase>>
  BY <1>1, ProcessNodeIs
<1>3. NodeWork = AllQueued(w, es) /\ w.ps = paths
  BY DEF NodeWork
<1>4. DOMAIN paths \subseteq AllEdges
  BY <1>1 DEF TypeOK
<1>5. DOMAIN NodeWork.ps = D
  BY <1>2 DEF QueueWorks
<1> HIDE DEF w, es
<1>6. Smaller(w, NodeWork, D)
  BY <1>2, <1>3, <1>4, AllQueuedIsSmaller
<1>7. PathsFit'
  BY <1>2, <1>3, <1>5, <1>6, SmallerFits
<1> QED
  BY <1>2, <1>7 DEF Checked

\* When the loop ends every node is on the list of those to update.
LEMMA EdgesDoneFits == ASSUME SoundState, PathsFit, EdgesDone PROVE PathsFit' /\ Checked'
<1>1. UNCHANGED <<problem, live, cut_edges, strategy>>
  BY DEF EdgesDone
<1>2. CASE pass.fast
  <2>1. Resolve(live, disabled, pass.retry + 1)
    BY <1>2 DEF EdgesDone
  <2> QED
    BY <2>1, ResolveFits
<1>3. CASE ~pass.fast
  <2> DEFINE ns == Only(Order, Visible)
             all == Over("update", ns) \o Over("streaming", ns)
                      \o IF strategy THEN Over("first", ns) \o Over("second", ns) ELSE <<>>
  <2>1. UNCHANGED paths /\ todo' = all
    BY <1>3 DEF EdgesDone
  <2>2. \A n \in Visible \cap Nodes : <<"update", n>> \in Range(all)
    BY AllNodesAre
  <2> HIDE DEF all
  <2>3. live \subseteq AllEdges
    BY DEF SoundState, TypeOK
  <2>4. \A e \in live : e[1] \in Visible \cap Nodes
    BY <2>3, EdgesJoinNodes DEF Visible
  <2>5. \A e \in live : Pending(e)'
    BY <2>1, <2>2, <2>4 DEF Pending
  <2> QED
    BY <1>1, <2>1, <2>5 DEF PathsFit, Checked
<1> QED
  BY <1>2, <1>3

\* Expanding from a node leaves every edge consistent or with an end on the stack.
LEMMA ExpandFits ==
  ASSUME SoundState, PathsFit, DOMAIN paths = live, NEW n \in Nodes,
         NEW bs \in [Nodes -> SUBSET Models], \A m \in Nodes \ {n} : bs[m] = bitset[m],
         Expand(n, bs), UNCHANGED <<problem, live>>, needs_update = <<>>,
         \A e \in live : Consistent(e) \/ \E x \in {e[1], e[2]} : <<"update", x>> \in Range(todo')
  PROVE  PathsFit' /\ Checked'
<1> DEFINE w == Work(bs, paths)
           es == EdgesOf(live, n)
           v == AllRefreshed(w, es)
           around == {n} \cup Range(operands_and_users(n))
<1>1. live \subseteq AllEdges /\ paths \in [live -> SUBSET Pairs]
  BY DEF SoundState, TypeOK
<1>2. w \in Works(live) /\ es \in Seq(live) /\ w.bs = bs /\ w.ps = paths
      /\ Range(es) = {e \in live : n \in {e[1], e[2]}}
  <2>1. w.bs = bs /\ w.ps = paths
    BY DEF Work
  <2> QED
    BY <1>1, <2>1, WorkIs, EdgesOfAre
<1>3. v \in Works(live) /\ bitset' = v.bs /\ paths' = v.ps /\ Range(needs_update') = around
  BY ExpandIs
<1>4. \A e \in live : (e[1] = n => e[2] \in around) /\ (e[2] = n => e[1] \in around)
  BY <1>1, NeighboursAre
<1>4a. n \in around
  OBVIOUS
<1> HIDE DEF w, es, around
<1>5. Smaller(w, v, live)
  BY <1>1, <1>2, AllRefreshedIsSmaller
<1>6. /\ \A d \in live \ Range(es) : v.ps[d] = w.ps[d]
      /\ \A m \in Nodes : (\A e \in Range(es) : m \notin {e[1], e[2]}) => v.bs[m] = w.bs[m]
  BY <1>1, <1>2, RefreshTouches
<1> HIDE DEF v
<1>7. DOMAIN v.ps = live
  BY <1>3 DEF Works
<1>8. PathsFit'
  BY <1>2, <1>3, <1>5, <1>7, SmallerFits
<1>9. ASSUME NEW e \in live, e[1] \notin around, e[2] \notin around, Consistent(e)
      PROVE  Consistent(e)'
  <2>1. e[1] \in Nodes /\ e[2] \in Nodes
    BY <1>1, EdgesJoinNodes
  <2>2. e \notin Range(es)
    BY <1>2, <1>4a, <1>9
  <2>3. \A d \in Range(es) : e[1] \notin {d[1], d[2]} /\ e[2] \notin {d[1], d[2]}
    BY <1>2, <1>4, <1>4a, <1>9
  <2>4. v.ps[e] = paths[e] /\ v.bs[e[1]] = bitset[e[1]] /\ v.bs[e[2]] = bitset[e[2]]
    BY <1>2, <1>4a, <1>6, <1>9, <2>1, <2>2, <2>3
  <2> QED
    BY <1>3, <1>9, <2>4 DEF Consistent, ConsistentIn, Work
<1>10. ASSUME NEW e \in live PROVE Consistent(e)' \/ Pending(e)'
  <2>1. CASE e[1] \in around \/ e[2] \in around
    BY <1>3, <2>1 DEF Pending
  <2>2. CASE \E x \in {e[1], e[2]} : <<"update", x>> \in Range(todo')
    BY <2>2 DEF Pending
  <2> QED
    BY <1>9, <2>1, <2>2
<1> QED
  BY <1>8, <1>10 DEF Checked

\* Between calls nothing is pending, and every edge is consistent.
LEMMA AtRestConsistent ==
  ASSUME SoundState, Checked, phase \in {"idle", "finished"} PROVE \A e \in live : Consistent(e)
<1>1. Range(todo) = {} /\ Range(needs_update) = {}
  BY DEF SoundState, Shape, Range
<1> QED
  BY <1>1 DEF Checked, Pending

\* The node taken off the list goes on the stack; a pass that discards models updates around the
\* node.
LEMMA NextRootFits == ASSUME SoundState, PathsFit, Checked, NextRoot PROVE PathsFit' /\ Checked'
<1> DEFINE n == Head(todo)[2]
           drop == RootDrop
<1>1. n = Head(todo)[2] /\ drop = RootDrop
  OBVIOUS
<1>2. todo # <<>>
  BY DEF NextRoot
<1>3. n \in Nodes /\ Range(todo) = {Head(todo)} \cup Range(Tail(todo)) /\ Head(todo) = <<Head(todo)[1], n>>
  BY <1>2, TodoIs
<1> HIDE DEF n, drop
<1>5. /\ phase = "update" /\ needs_update = <<>> /\ todo # <<>> /\ todo' = Tail(todo)
      /\ UNCHANGED <<problem, strategy, live, cut_edges, selected, phase, pass, by_set>>
      /\ \/ /\ Head(todo)[1] = "update" /\ needs_update' = <<n>>
            /\ UNCHANGED <<bitset, paths, disabled>>
         \/ /\ Head(todo)[1] # "update" /\ drop # {}
            /\ disabled' = [disabled EXCEPT ![n] = @ \cup drop]
            /\ Expand(n, [bitset EXCEPT ![n] = @ \ drop])
         \/ /\ Head(todo)[1] # "update" /\ drop = {}
            /\ UNCHANGED <<bitset, paths, disabled, needs_update>>
  BY <1>1, NextRootIs
<1>6. TypeOK /\ DOMAIN paths = live
  BY <1>5 DEF SoundState, Shape
<1>7. Range(needs_update) = {}
  BY <1>5 DEF Range
<1>8. \A e \in live : Consistent(e) \/ \E x \in {e[1], e[2]} : <<"update", x>> \in Range(todo)
  BY <1>5, <1>7 DEF Checked, Pending
<1>9. \A x : <<"update", x>> \in Range(todo) => <<"update", x>> \in Range(todo')
                                                \/ (Head(todo)[1] = "update" /\ x = n)
  BY <1>3, <1>5
<1>10. CASE Head(todo)[1] = "update" /\ needs_update' = <<n>> /\ UNCHANGED <<bitset, paths>>
  <2>1. Range(needs_update') = {n}
    BY <1>10 DEF Range
  <2>2. \A e \in live : Consistent(e)' \/ Pending(e)'
    BY <1>8, <1>9, <1>10, <2>1 DEF Consistent, Pending
  <2> QED
    BY <1>5, <1>10, <2>2 DEF Checked, PathsFit
<1>11. CASE Head(todo)[1] # "update" /\ UNCHANGED <<bitset, paths, needs_update>>
  <2>2. \A e \in live : Consistent(e)' \/ Pending(e)'
    BY <1>8, <1>9, <1>11 DEF Consistent, Pending
  <2> QED
    BY <1>5, <1>11, <2>2 DEF Checked, PathsFit
<1>12. CASE Head(todo)[1] # "update" /\ Expand(n, [bitset EXCEPT ![n] = @ \ drop])
  <2> DEFINE bs == [bitset EXCEPT ![n] = @ \ drop]
  <2>1. bs \in [Nodes -> SUBSET Models] /\ Expand(n, bs) /\ \A m \in Nodes \ {n} : bs[m] = bitset[m]
    BY <1>3, <1>6, <1>12 DEF TypeOK
  <2> HIDE DEF bs
  <2>2. \A e \in live : Consistent(e) \/ \E x \in {e[1], e[2]} : <<"update", x>> \in Range(todo')
    BY <1>8, <1>9, <1>12
  <2> QED
    BY <1>3, <1>5, <1>6, <2>1, <2>2, ExpandFits
<1> QED
  BY <1>5, <1>10, <1>11, <1>12

\* set() and set_filter_grid_size() update around the node they are for.
LEMMA CallFits ==
  ASSUME SoundState, PathsFit, Checked, NEW n \in Nodes, NEW m \in Models,
         Set(n, m) \/ set_filter_grid_size(n, m)
  PROVE  PathsFit' /\ Checked'
<1> DEFINE bs == [bitset EXCEPT ![n] = {m}]
<1>1. phase = "idle" /\ Expand(n, bs) /\ UNCHANGED <<problem, live, todo>>
  BY DEF Set, set_filter_grid_size
<1>2. TypeOK /\ DOMAIN paths = live /\ needs_update = <<>>
  BY <1>1 DEF SoundState, Shape
<1>3. bs \in [Nodes -> SUBSET Models] /\ \A x \in Nodes \ {n} : bs[x] = bitset[x]
  BY <1>2 DEF TypeOK
<1>4. \A e \in live : Consistent(e)
  BY <1>1, AtRestConsistent
<1> HIDE DEF bs
<1> QED
  BY <1>1, <1>2, <1>3, <1>4, ExpandFits

\* A round of update_solver takes its node off the stack only if that leaves no edge in doubt.
LEMMA UpdateNodeFits == ASSUME SoundState, PathsFit, Checked, UpdateNode PROVE PathsFit' /\ Checked'
<1>1. phase = "update" /\ needs_update # <<>> /\ UNCHANGED problem
  BY UpdateNodeIs
<1>2. TypeOK /\ DOMAIN paths = live
  BY <1>1 DEF SoundState, Shape
<1>3. CASE /\ Round.stop = "none" /\ bitset' = Round.bs /\ paths' = Round.ps
           /\ needs_update' = IF More = <<>> THEN Front(needs_update) ELSE needs_update \o More
           /\ UNCHANGED <<live, cut_edges, disabled, phase, pass, todo, by_set>>
  <2> DEFINE n == Last(needs_update)
             ins == OperandEdges(live, n)
             outs == UserEdges(live, n)
             S == Range(ins) \cup Range(outs)
             w == Work(bitset, paths)
             far(e) == IF e[1] = n THEN e[2] ELSE e[1]
  <2>1. /\ n \in Nodes /\ ins \in Seq(live) /\ outs \in Seq(live) /\ live \subseteq AllEdges
        /\ w \in Works(live) /\ Round \in Works(live) /\ More \in Seq(Nodes)
    BY <1>1, RoundTyped
  <2>2. S = {e \in live : n \in {e[1], e[2]}}
    BY <2>1, OperandEdgesAre, UserEdgesAre
  <2>3. w.bs = bitset /\ w.ps = paths /\ w.changed = {} /\ w.path_changed = FALSE
    BY DEF Work
  <2>4. Round = UpdatedAt(w, ins, outs) /\ More = Revisits(Round, n, ins, outs)
    BY DEF Round, More
  <2>5. needs_update \in Seq(Nodes)
    BY <1>2 DEF TypeOK
  <2>6. Front(needs_update) \in Seq(Nodes) /\ Range(needs_update) = Range(Front(needs_update)) \cup {n}
    BY <1>1, <2>5, SeqEnds
  <2> HIDE DEF n
  <2>7. \A e \in S : e \in Round.changed \/ Round.path_changed => far(e) \in Range(More)
    <3> HIDE DEF w, ins, outs
    <3> QED
      BY <2>1, <2>4, RevisitsAre
  <2>8. S = Range(ins) \cup Range(outs)
    OBVIOUS
  <2> HIDE DEF ins, outs, w, S
  <2>9. /\ Tracks(w, Round, S, live)
        /\ Quiet(Round, S) => \A e \in S : ConsistentIn(Round, e)
    BY <1>3, <2>1, <2>4, <2>8, RoundTracks
  <2>10. Smaller(w, Round, live)
    BY <2>1, <2>4, RoundIsSmaller
  <2>11. DOMAIN Round.ps = live
    BY <2>1 DEF Works
  <2>12. PathsFit'
    BY <1>1, <1>2, <1>3, <2>3, <2>10, <2>11, SmallerFits
  <2>13. \A e \in live : Consistent(e)' <=> ConsistentIn(Round, e)
    BY <1>3 DEF Consistent, ConsistentIn, Work
  <2>14. \A e \in live : Consistent(e) <=> ConsistentIn(w, e)
    BY DEF Consistent, w
  <2>15. CASE More = <<>>
    <3>1. Range(More) = {}
      BY <2>15 DEF Range
    <3>2. Quiet(Round, S)
      BY <2>7, <3>1 DEF Quiet
    <3>3. \A e \in live : ConsistentIn(w, e) => ConsistentIn(Round, e)
      BY <1>3, <2>9, <3>2 DEF Tracks
    <3>4. \A e \in S : ConsistentIn(Round, e)
      BY <2>9, <3>2
    <3>5. ASSUME NEW e \in live, e \notin S PROVE Consistent(e)' \/ Pending(e)'
      <4>1. Consistent(e) \/ Pending(e)
        BY <1>1 DEF Checked
      <4>2. n \notin {e[1], e[2]}
        BY <2>2, <3>5
      <4>3. Pending(e) => Pending(e)'
        BY <1>3, <2>6, <2>15, <4>2 DEF Pending
      <4> QED
        BY <2>13, <2>14, <3>3, <4>1, <4>3
    <3>6. \A e \in live : Consistent(e)' \/ Pending(e)'
      BY <2>13, <3>4, <3>5
    <3> QED
      BY <1>3, <2>12, <3>6 DEF Checked
  <2>16. CASE More # <<>>
    <3>1. Range(needs_update') = Range(needs_update) \cup Range(More)
      BY <1>3, <2>1, <2>5, <2>16, RangeOfConcat
    <3>2. \A e \in S : Pending(e)'
      BY <2>2, <2>6, <3>1 DEF Pending
    <3>3. ASSUME NEW e \in live, e \notin S PROVE Consistent(e)' \/ Pending(e)'
      <4>1. Consistent(e) \/ Pending(e)
        BY <1>1 DEF Checked
      <4>2. Pending(e) => Pending(e)'
        BY <1>3, <3>1 DEF Pending
      <4>3. CASE Consistent(e) /\ \E m \in {e[1], e[2]} : Round.bs[m] # w.bs[m]
        <5>1. PICK m \in {e[1], e[2]} : Round.bs[m] # w.bs[m]
          BY <4>3
        <5>2. m \in Nodes
          BY <2>1, EdgesJoinNodes
        <5>3. PICK d \in S : m \in {d[1], d[2]} /\ (d \in Round.changed \/ Round.path_changed)
          BY <2>9, <5>1, <5>2 DEF Tracks
        <5>4. m # n /\ n \in {d[1], d[2]}
          BY <2>2, <3>3
        <5>5. far(d) = m
          BY <5>3, <5>4
        <5>6. m \in Range(needs_update')
          BY <2>7, <3>1, <5>3, <5>5
        <5> QED
          BY <5>6 DEF Pending
      <4>4. CASE Consistent(e) /\ \A m \in {e[1], e[2]} : Round.bs[m] = w.bs[m]
        <5>1. Round.ps[e] = w.ps[e]
          BY <2>9, <3>3 DEF Tracks
        <5>2. ConsistentIn(Round, e)
          BY <2>14, <4>4, <5>1 DEF ConsistentIn
        <5> QED
          BY <2>13, <5>2
      <4> QED
        BY <4>1, <4>2, <4>3, <4>4
    <3>4. \A e \in live : Consistent(e)' \/ Pending(e)'
      BY <3>2, <3>3
    <3> QED
      BY <1>3, <2>12, <3>4 DEF Checked
  <2> QED
    BY <2>15, <2>16
<1>4. CASE Resolve(live, disabled, 1)
  BY <1>4, ResolveFits
<1>5. CASE Throw
  BY <1>1, <1>5, ThrowFits
<1> QED
  BY <1>3, <1>4, <1>5, UpdateNodeIs

\* The other steps leave the path sets alone.
LEMMA RestFits ==
  ASSUME SoundState, PathsFit, Checked,
         \/ Return \/ invalidate_suboptimal_op_models \/ finish \/ Done \/ UNCHANGED vars
  PROVE  PathsFit' /\ Checked'
<1>1. UNCHANGED <<problem, live, bitset, paths>>
  BY DEF Return, invalidate_suboptimal_op_models, finish, Done, vars
<1>2. PathsFit'
  BY <1>1 DEF PathsFit
<1>3. CASE Done \/ UNCHANGED vars
  <2>1. UNCHANGED <<live, bitset, paths, phase, todo, needs_update>>
    BY <1>3 DEF Done, vars
  <2>2. \A e \in live : (Consistent(e) <=> Consistent(e)') /\ (Pending(e) <=> Pending(e)')
    BY <2>1 DEF Consistent, Pending
  <2> QED
    BY <1>2, <2>1, <2>2 DEF Checked
<1>4. CASE Return
  <2>1. phase = "update" /\ needs_update = <<>> /\ todo = <<>>
    BY <1>4 DEF Return
  <2>2. Range(todo) = {} /\ Range(needs_update) = {}
    BY <2>1 DEF Range
  <2>3. \A e \in live : Consistent(e)
    BY <2>1, <2>2 DEF Checked, Pending
  <2> QED
    BY <1>1, <1>2, <2>3 DEF Checked, Consistent
<1>5. CASE invalidate_suboptimal_op_models \/ finish
  <2>1. phase = "idle"
    BY <1>5 DEF invalidate_suboptimal_op_models, finish
  <2>2. \A e \in live : Consistent(e)
    BY <2>1, AtRestConsistent
  <2> QED
    BY <1>1, <1>2, <2>2 DEF Checked, Consistent
<1> QED
  BY <1>3, <1>4, <1>5

\* Every step keeps the edges consistent or in doubt.
LEMMA StepFits == ASSUME SoundState, PathsFit, Checked, Next PROVE PathsFit' /\ Checked'
<1>1. CASE Construct
  BY <1>1, ResolveFits DEF Construct
<1>2. CASE SolverStep
  BY <1>2, ResolveEdgeFits, ProcessNodeFits, EdgesDoneFits, NextRootFits, UpdateNodeFits,
     RestFits DEF SolverStep
<1>3. CASE invalidate_suboptimal_op_models \/ finish \/ Done
  BY <1>3, RestFits
<1>4. CASE CutEpoch \/ \E n \in Nodes : CutRibbon(n)
  BY <1>4, ResolveFits DEF CutEpoch, CutRibbon, Cut
<1>7. CASE \E n \in Nodes, m \in Models : Set(n, m) \/ set_filter_grid_size(n, m)
  BY <1>7, CallFits
<1>8. CASE \E e \in Edges : buffer(e)
  BY <1>8, ResolveFits DEF buffer
<1> QED
  BY <1>1, <1>2, <1>3, <1>4, <1>7, <1>8 DEF Next

\* With nothing in doubt what is on offer is reconciled.
LEMMA CheckedReconciles == ASSUME SoundState, PathsFit, Checked PROVE Reconciled
<1> SUFFICES ASSUME AtRest, NEW e \in live
             PROVE  /\ paths[e] # {} /\ paths[e] \subseteq problem.fits[e]
                    /\ bitset[e[1]] = Producers(paths[e]) /\ bitset[e[2]] = Consumers(paths[e])
  BY DEF Reconciled
<1>1. Consistent(e)
  BY AtRestConsistent DEF AtRest
<1>2. DOMAIN paths = live
  BY DEF AtRest, SoundState, Shape
<1> QED
  BY <1>1, <1>2 DEF Consistent, ConsistentIn, Work, PathsFit

\* The work list of update_solver forgets nothing: between calls every model on offer has a
\* partner on
\* offer across each edge, on every graph.
THEOREM OffersAreReconciled == Spec => []Reconciled
<1> DEFINE IInv == SoundState /\ PathsFit /\ Checked
<1>1. Init => IInv
  BY InitSound, InitFits
<1>2. IInv /\ [Next]_vars => IInv'
  BY StepSound, StutterSound, StepFits, RestFits
<1>3. IInv => Reconciled
  BY CheckedReconciles
<1> QED
  BY <1>1, <1>2, <1>3, PTL DEF Spec

-----------------------------------------------------------------------------
\* Between selected nodes one path is left, and its costs are the ones checked.

\* A pair of models for an edge.
PairOf(f, e) == <<f[e[1]], f[e[2]]>>

\* The work has no models but those of f at the ends of these edges.
Narrow(w, f, S) == \A e \in S : w.bs[e[1]] \subseteq {f[e[1]]} /\ w.bs[e[2]] \subseteq {f[e[2]]}

\* Pruning keeps bitsets narrow.
LEMMA SmallerIsNarrow ==
  ASSUME NEW w, NEW v, NEW D, D \subseteq AllEdges, NEW f, NEW S, S \subseteq D,
         Narrow(w, f, S), Smaller(w, v, D)
  PROVE  Narrow(v, f, S)
<1>1. \A e \in S : e[1] \in Nodes /\ e[2] \in Nodes
  BY EdgesJoinNodes
<1> QED
  BY <1>1 DEF Narrow, Smaller

\* Between narrow bitsets one path at most is valid.
LEMMA NarrowIsValid ==
  ASSUME NEW D, NEW w \in Works(D), NEW f, NEW S, NEW e \in S, e \in D, Narrow(w, f, S)
  PROVE  Valid(w, e) \subseteq {PairOf(f, e)}
<1>1. \A q \in Valid(w, e) : q[1] = f[e[1]] /\ q[2] = f[e[2]] /\ q \in w.ps[e]
  BY DEF Valid, Narrow
<1>2. w.ps[e] \subseteq Pairs
  BY DEF Works
<1>3. \A q \in Pairs : q = <<q[1], q[2]>>
  BY DEF Pairs
<1> QED
  BY <1>1, <1>2, <1>3 DEF PairOf

\* Between narrow bitsets update leaves one path.
LEMMA UpdateNarrows ==
  ASSUME NEW D, D \subseteq AllEdges, NEW w \in Works(D), NEW es \in Seq(D), NEW f,
         Narrow(w, f, Range(es)), AllUpdated(w, es).stop = "none"
  PROVE  \A e \in Range(es) : AllUpdated(w, es).ps[e] = {PairOf(f, e)}
<1>1. PICK g \in [0 .. Len(es) -> Works(D)] :
        /\ g[0] = w /\ g[Len(es)] = AllUpdated(w, es)
        /\ \A i \in 1 .. Len(es) : g[i] = update(g[i - 1], es[i])
  BY EachUpdate
<1> DEFINE Good == {i \in 0 .. Len(es) :
                      /\ Narrow(g[i], f, Range(es))
                      /\ g[i].stop = "none" => \A j \in 1 .. i : g[i].ps[es[j]] = {PairOf(f, es[j])}}
<1>4. Len(es) \in Nat /\ DOMAIN es = 1 .. Len(es) /\ Range(es) \subseteq D
  BY DEF Range
<1>2. 0 \in Good
  BY <1>1
<1>3. ASSUME NEW i \in 1 .. Len(es), i - 1 \in Good PROVE i \in Good
  <2> DEFINE u == g[i - 1]
             v == g[i]
             e == es[i]
  <2>1. e \in D /\ e \in Range(es) /\ i - 1 \in 0 .. Len(es)
    BY DEF Range
  <2>2. u \in Works(D) /\ v = update(u, e)
    BY <1>1, <2>1
  <2>3. Narrow(u, f, Range(es))
        /\ (u.stop = "none" => \A j \in 1 .. i - 1 : u.ps[es[j]] = {PairOf(f, es[j])})
    BY <1>3
  <2>3a. \A j \in 1 .. i : es[j] \in D
    OBVIOUS
  <2> HIDE DEF u, v
  <2>4. Prunes(u, v, e)
    BY <2>1, <2>2, UpdateIs
  <2>5. Smaller(u, v, D)
    BY <2>1, <2>2, <2>4, PrunesIsSmaller
  <2>6. Narrow(v, f, Range(es))
    BY <1>4, <2>3, <2>5, SmallerIsNarrow
  <2>7. ASSUME v.stop = "none", NEW j \in 1 .. i PROVE v.ps[es[j]] = {PairOf(f, es[j])}
    <3>1. u.stop = "none"
      BY <2>1, <2>2, <2>7, UpdateIs
    <3>2. Kept(u, v, e, Valid(u, e)) /\ Valid(u, e) # {}
      <4> HIDE DEF e
      <4>1. /\ Kept(u, update(u, e), e, Valid(u, e))
            /\ update(u, e).stop = "none" => Valid(u, e) # {}
        BY <2>1, <2>2, <3>1, UpdateIs, Zenon
      <4> QED
        BY <2>2, <2>7, <4>1
    <3>3. Valid(u, e) = {PairOf(f, e)}
      BY <2>1, <2>2, <2>3, <3>2, NarrowIsValid
    <3>4. v.ps = [u.ps EXCEPT ![e] = {PairOf(f, e)}]
      BY <3>2, <3>3 DEF Kept
    <3>5. u.ps \in [D -> SUBSET Pairs]
      BY <2>2 DEF Works
    <3>6. CASE es[j] = e
      <4> HIDE DEF e
      <4> QED
        BY <2>1, <3>4, <3>5, <3>6
    <3>7. CASE es[j] # e
      <4>1. j \in 1 .. i - 1
        BY <3>7
      <4> HIDE DEF e
      <4> QED
        BY <2>3, <2>3a, <3>1, <3>4, <3>5, <3>7, <4>1
    <3> QED
      BY <3>6, <3>7
  <2> QED
    BY <2>6, <2>7 DEF v
<1>5. \A i \in 0 .. Len(es) : i \in Good
  <2> HIDE DEF Good
  <2> QED
    BY <1>2, <1>3, <1>4, Induct
<1>6. Len(es) \in Good
  <2>1. Len(es) \in 0 .. Len(es)
    BY <1>4
  <2> HIDE DEF Good
  <2> QED
    BY <1>5, <2>1
<1> QED
  BY <1>1, <1>4, <1>6 DEF Range

\* Once stopped, a loop stays stopped.
LEMMA StoppedStays ==
  ASSUME NEW D, D \subseteq AllEdges, NEW w \in Works(D), NEW es \in Seq(D), NEW side, NEW g,
         CumulativeRounds(D, w, es, side, g), g[Len(es)].stop = "none"
  PROVE  \A i \in 0 .. Len(es) : g[i].stop = "none"
<1>1. /\ g \in [0 .. Len(es) -> Works(D)]
      /\ \A i \in 1 .. Len(es) : g[i] = CumulativeEdge(g[i - 1], es, es[i], side)
  BY DEF CumulativeRounds
<1>2. Len(es) \in Nat
  OBVIOUS
<1>3. ASSUME NEW i \in 1 .. Len(es), g[i].stop = "none" PROVE g[i - 1].stop = "none"
  <2>1. es[i] \in D /\ i - 1 \in 0 .. Len(es)
    OBVIOUS
  <2>2. g[i - 1] \in Works(D)
    BY <1>1, <2>1
  <2>3. Prunes(g[i - 1], CumulativeEdge(g[i - 1], es, es[i], side), es[i])
    BY <2>1, <2>2, CumulativeIs
  <2>4. Prunes(g[i - 1], g[i], es[i])
    BY <1>1, <2>3, Zenon
  <2> QED
    BY <1>3, <2>4 DEF Prunes
<1> DEFINE n == Len(es)
           Good == {i \in 0 .. n : g[n - i].stop = "none"}
<1>4. 0 \in Good
  BY <1>2
<1>5. ASSUME NEW i \in 1 .. n, i - 1 \in Good PROVE i \in Good
  <2>1. n - (i - 1) \in 1 .. n /\ n - (i - 1) - 1 = n - i
    BY <1>2
  <2>2. g[n - (i - 1)].stop = "none"
    BY <1>5
  <2>3. g[n - (i - 1) - 1].stop = "none"
    BY <1>3, <2>1, <2>2
  <2> QED
    BY <2>1, <2>3
<1>6. \A i \in 0 .. n : i \in Good
  <2> HIDE DEF Good
  <2> QED
    BY <1>2, <1>4, <1>5, Induct
<1> SUFFICES ASSUME NEW i \in 0 .. n PROVE g[i].stop = "none"
  OBVIOUS
<1>7. n - i \in 0 .. n /\ n - (n - i) = i
  BY <1>2
<1> QED
  BY <1>6, <1>7

\* Where every edge has one path left, the costs are checked for just those paths.
LEMMA OnePathCost ==
  ASSUME NEW D, D \subseteq AllEdges, NEW w \in Works(D), NEW es \in Seq(D), NEW f,
         \A e \in Range(es) : w.ps[e] = {PairOf(f, e)} /\ PairOf(f, e) \in Pairs,
         NEW side \in Sides, NEW n, \A e \in Range(es) : e[side] = n,
         NEW e \in Range(es), Affordable(w, es, e, side, PairOf(f, e))
  PROVE  SumOf(CostsOf(f, es)) <= MaxCost
<1> DEFINE q == PairOf(f, e)
           Same(d) == {r \in w.ps[d] : r[side] = q[side]}
           costs(d) == {Cost[d][r] : r \in Same(d)}
           cheapest(d) == IF d = e THEN Cost[e][q] ELSE Min(costs(d))
           cheap == [i \in DOMAIN es |-> cheapest(es[i])]
<1>1. /\ \A d \in Range(es) \ {e} : Same(d) # {}
      /\ SumOf(cheap) <= MaxCost
  BY DEF Affordable
<1>2. Range(es) \subseteq D
  BY DEF Range
<1>3. ASSUME NEW d \in Range(es) PROVE cheapest(d) = Cost[d][PairOf(f, d)]
  <2>1. CASE d = e
    BY <2>1
  <2>2. CASE d # e
    <3>1. Same(d) = {PairOf(f, d)}
      BY <1>1, <2>2
    <3>2. costs(d) = {Cost[d][PairOf(f, d)]}
      BY <3>1
    <3>3. Cost[d][PairOf(f, d)] \in Nat
      BY <1>2, SolverAssumption DEF AllEdges, Pairs
    <3>4. Min(costs(d)) \in costs(d)
      <4> DEFINE x == Cost[d][PairOf(f, d)]
      <4>1. costs(d) = {x} /\ x \in Nat
        BY <3>2, <3>3
      <4> HIDE DEF costs, x
      <4> QED
        BY <4>1, MinIs
    <3> HIDE DEF costs
    <3> QED
      BY <2>2, <3>2, <3>4
  <2> QED
    BY <2>1, <2>2
<1> HIDE DEF cheapest
<1>4. \A i \in DOMAIN es : es[i] \in Range(es)
  BY DEF Range
<1>5. cheap = CostsOf(f, es)
  BY <1>3, <1>4 DEF CostsOf, PairOf
<1> QED
  BY <1>1, <1>5

\* A node without such edges costs nothing.
LEMMA EmptyCost ==
  ASSUME NEW f, NEW es, es = <<>>
  PROVE  SumOf(CostsOf(f, es)) <= MaxCost
<1>1. CostsOf(f, es) = <<>>
  BY DEF CostsOf
<1>2. <<>> \in Seq(Nat) /\ Len(<<>>) = 0
  OBVIOUS
<1>3. SumOf(<<>>) = 0
  BY <1>2, SumIs
<1> QED
  BY <1>1, <1>3, SolverAssumption

\* A loop over the costs that does not stop has found the one path of its first edge affordable.
LEMMA OnePathIsAffordable ==
  ASSUME NEW D, D \subseteq AllEdges, NEW w \in Works(D), NEW es, NEW side, NEW e \in D, NEW p,
         w.ps[e] = {p}, w.stop = "none", CumulativeEdge(w, es, e, side).stop = "none"
  PROVE  Affordable(w, es, e, side, p)
<1> DEFINE first == CHOOSE q \in w.ps[e] : \A r \in w.ps[e] : Above(Cost[e], q, r)
           rest == Valid(w, e) \ {first}
           keep == {q \in rest : \E r \in rest :
                       Affordable(w, es, e, side, r) /\ Above(Cost[e], r, q)}
           same == w.stop # "none" \/ (w.ps[e] # {} /\ Affordable(w, es, e, side, first))
           k == Keep(w, e, keep)
           sh == Shrinks(w, e, keep)
           v == [k EXCEPT !.path_changed = @ \/ sh, !.stop = IF keep = {} THEN "cost" ELSE "none"]
<1>1. CumulativeEdge(w, es, e, side) = IF same THEN w ELSE v
  BY DEF CumulativeEdge
<1>2. first = p
  <2>1. p \in Pairs
    BY DEF Works
  <2>2. p[1] \in Nat /\ p[2] \in Nat
    BY <2>1, SolverAssumption DEF Pairs
  <2>3. Above(Cost[e], p, p)
    BY <2>2 DEF Above
  <2> QED
    BY <2>3
<1>3. keep = {} /\ keep \in SUBSET Pairs
  <2>1. Valid(w, e) \subseteq {p}
    BY DEF Valid
  <2> QED
    BY <1>2, <2>1
<1>4. (w.stop # "none" \/ (w.ps[e] # {} /\ Affordable(w, es, e, side, first))) <=> same
  OBVIOUS
<1> HIDE DEF keep, same, sh, first
<1>5. k \in Works(D)
  BY <1>3, KeepIs
<1> HIDE DEF k
<1>6. v.stop = "cost"
  BY <1>3, <1>5 DEF Works
<1> HIDE DEF v
<1>7. same
  BY <1>1, <1>6
<1> QED
  BY <1>2, <1>4, <1>7

OnePath(w, f, es) == \A e \in Range(es) : w.ps[e] = {PairOf(f, e)}

\* The edges of the sequence meet at n.
AllAt(es, side, n) == \A e \in Range(es) : e[side] = n

\* apply_cumulative_costs over edges with one path each has checked their sum.
LEMMA CumulativeChecks ==
  ASSUME NEW D, D \subseteq AllEdges, NEW w \in Works(D), NEW es \in Seq(D), NEW f,
         OnePath(w, f, es), NEW side \in Sides, NEW n, AllAt(es, side, n),
         apply_cumulative_costs(w, es, side).stop = "none"
  PROVE  SumOf(CostsOf(f, es)) <= MaxCost
<1>0. /\ \A e \in Range(es) : w.ps[e] = {PairOf(f, e)}
      /\ \A e \in Range(es) : e[side] = n
  BY DEF OnePath, AllAt
<1>1. CASE es = <<>>
  BY <1>1, EmptyCost
<1>2. CASE es # <<>>
  <2> DEFINE e == es[1]
             p == PairOf(f, e)
  <2>1. 1 \in 1 .. Len(es) /\ 1 - 1 = 0 /\ 0 \in 0 .. Len(es) /\ 1 \in 0 .. Len(es) /\ e \in D
        /\ e \in Range(es)
    BY <1>2 DEF Range
  <2>2. PICK g : CumulativeRounds(D, w, es, side, g)
    BY EachCumulative
  <2>3. /\ g[0] = w /\ g[Len(es)] = apply_cumulative_costs(w, es, side)
        /\ \A i \in 1 .. Len(es) : g[i] = CumulativeEdge(g[i - 1], es, es[i], side)
    BY <2>2 DEF CumulativeRounds
  <2>4. \A i \in 0 .. Len(es) : g[i].stop = "none"
    BY <2>2, <2>3, StoppedStays
  <2>5. g[1] = CumulativeEdge(w, es, e, side)
    BY <2>1, <2>3
  <2>6. w.stop = "none" /\ CumulativeEdge(w, es, e, side).stop = "none"
    BY <2>1, <2>3, <2>4, <2>5
  <2>7. w.ps[e] = {p}
    BY <1>0, <2>1
  <2> HIDE DEF e, p
  <2>8. Affordable(w, es, e, side, p)
    BY <2>1, <2>6, <2>7, OnePathIsAffordable
  <2>9. \A d \in Range(es) : w.ps[d] = {PairOf(f, d)} /\ PairOf(f, d) \in Pairs
    <3>1. Range(es) \subseteq D
      BY DEF Range
    <3> QED
      BY <1>0, <3>1 DEF Works
  <2> QED
    BY <1>0, <2>1, <2>8, <2>9, OnePathCost DEF p
<1> QED
  BY <1>1, <1>2

\* A round between narrow bitsets that does not stop has checked the costs of that choice.
LEMMA RoundChecks ==
  ASSUME NEW D, D \subseteq AllEdges, NEW w \in Works(D), NEW f, NEW n,
         NEW ins \in Seq(D), \A d \in Range(ins) : d[2] = n, Narrow(w, f, Range(ins)),
         NEW outs \in Seq(D), \A d \in Range(outs) : d[1] = n, Narrow(w, f, Range(outs)),
         UpdatedAt(w, ins, outs).stop = "none"
  PROVE  SumOf(CostsOf(f, ins)) <= MaxCost /\ SumOf(CostsOf(f, outs)) <= MaxCost
<1> DEFINE S == Range(ins) \cup Range(outs)
           a == AllUpdated(w, ins)
           b == apply_cumulative_costs(a, ins, 2)
           c == AllUpdated(b, outs)
           d == apply_cumulative_costs(c, outs, 1)
<1>0. 1 \in Sides /\ 2 \in Sides
  BY DEF Sides
<1>0a. Range(ins) \subseteq D /\ Range(outs) \subseteq D /\ Range(ins) \subseteq S /\ Range(outs) \subseteq S
  BY DEF Range
<1> HIDE DEF S
<1>1. a \in Works(D) /\ Smaller(w, a, D)
  BY AllUpdatedIsWork, AllUpdatedIsSmaller
<1>1a. a = AllUpdated(w, ins)
  OBVIOUS
<1> HIDE DEF a
<1>2. b \in Works(D) /\ Smaller(a, b, D) /\ Tracks(a, b, S, D)
  BY <1>0a, <1>1, CumulativeIsWork, CumulativeIsSmaller, CumulativeTracks
<1>2a. b = apply_cumulative_costs(a, ins, 2)
  OBVIOUS
<1> HIDE DEF b
<1>3. c \in Works(D) /\ Tracks(b, c, S, D)
  BY <1>0a, <1>2, AllUpdatedIsWork, UpdateTracks
<1>3a. c = AllUpdated(b, outs)
  OBVIOUS
<1> HIDE DEF c
<1>4. Tracks(c, d, S, D)
  BY <1>0a, <1>3, CumulativeTracks
<1>4a. d = apply_cumulative_costs(c, outs, 1)
  OBVIOUS
<1> HIDE DEF d
<1>5. d = UpdatedAt(w, ins, outs)
  BY RoundIs DEF a, b, c, d
<1>6. a.stop = "none" /\ b.stop = "none" /\ c.stop = "none" /\ d.stop = "none"
  BY <1>2, <1>3, <1>4, <1>5 DEF Tracks
<1>7. SumOf(CostsOf(f, ins)) <= MaxCost
  <2>1. OnePath(a, f, ins)
    BY <1>1a, <1>6, UpdateNarrows DEF OnePath
  <2>2. apply_cumulative_costs(a, ins, 2).stop = "none"
    BY <1>2a, <1>6
  <2>3. PICK side \in Sides : side = 2
    BY <1>0
  <2>4. apply_cumulative_costs(a, ins, side).stop = "none" /\ AllAt(ins, side, n)
    BY <2>2, <2>3 DEF AllAt
  <2> QED
    BY <1>1, <2>1, <2>4, CumulativeChecks
<1>8. SumOf(CostsOf(f, outs)) <= MaxCost
  <2>1. Narrow(b, f, Range(outs))
    BY <1>0a, <1>1, <1>2, SmallerIsNarrow
  <2>2. OnePath(c, f, outs)
    BY <1>2, <1>3a, <1>6, <2>1, UpdateNarrows DEF OnePath
  <2>3. apply_cumulative_costs(c, outs, 1).stop = "none"
    BY <1>4a, <1>6
  <2>4. PICK side \in Sides : side = 1
    BY <1>0
  <2>5. apply_cumulative_costs(c, outs, side).stop = "none" /\ AllAt(outs, side, n)
    BY <2>3, <2>4 DEF AllAt
  <2> QED
    BY <1>3, <2>2, <2>5, CumulativeChecks
<1> QED
  BY <1>7, <1>8

-----------------------------------------------------------------------------
\* Selected nodes have all models but one disabled.

\* The NOP of an edge is not in the graph while the edge is.
Fresh == \A e \in live \cap DOMAIN Nop : \A d \in live \cup cut_edges : Nop[e] \notin {d[1], d[2]}

Picked ==
    /\ phase = "new" => DOMAIN selected = {}
    /\ phase = "finished" => DOMAIN selected = Visible
    /\ DOMAIN selected \subseteq Visible
    /\ \A n \in DOMAIN selected : selected[n] \in Models /\ disabled[n] = Models \ {selected[n]}
    /\ Fresh

\* What leaves the selection, its disabled models and the set of edges alone keeps the claim.
LEMMA SameEdgesPicked ==
  ASSUME SoundState, Picked, UNCHANGED selected, live' \subseteq live,
         live' \cup cut_edges' = live \cup cut_edges,
         \A n \in DOMAIN selected : disabled'[n] = disabled[n],
         phase' \notin {"new", "finished"} \/ UNCHANGED phase
  PROVE  Picked'
<1>1. Visible' = Visible
  BY DEF Visible
<1>2. Fresh'
  BY DEF Picked, Fresh
<1> QED
  BY <1>1, <1>2 DEF Picked

\* Nothing is selected at first.
LEMMA InitPicked == ASSUME Init PROVE Picked
<1>1. DOMAIN selected = {} /\ phase = "new" /\ live = Edges /\ cut_edges = {}
  BY DEF Init
<1>2. Fresh
  <2>1. ASSUME NEW e \in DOMAIN Nop, NEW d \in Edges PROVE Nop[e] \notin {d[1], d[2]}
    <3>1. Nop[e] \in Range(Nop) /\ {d[1], d[2]} \subseteq UNION {{x[1], x[2]} : x \in Edges}
      BY DEF Range
    <3> QED
      BY <3>1, SolverAssumption
  <2> QED
    BY <1>1, <2>1 DEF Fresh
<1> QED
  BY <1>1, <1>2 DEF Picked

\* The NOP for an edge is at none of the original edges.
LEMMA NopIsNew ==
  ASSUME NEW e \in DOMAIN Nop, NEW d \in Edges PROVE Nop[e] \notin {d[1], d[2]}
<1>1. Nop[e] \in Range(Nop) /\ {d[1], d[2]} \subseteq UNION {{x[1], x[2]} : x \in Edges}
  BY DEF Range
<1> QED
  BY <1>1, SolverAssumption

\* Nor after the constructor.
LEMMA ConstructPicked == ASSUME SoundState, Picked, Construct PROVE Picked'
<1>1. PICK es \in {{}, problem.switch} :
         live' = live \ es /\ cut_edges' = es /\ Resolve(live \ es, disabled, 1)
  BY DEF Construct
<1>2. es \subseteq Edges
  BY SolverAssumption DEF SoundState, TypeOK
<1>3. DOMAIN selected' = {} /\ phase' = "edges"
  BY <1>1 DEF Construct, Picked, Resolve
<1>4. Fresh'
  BY <1>1, <1>2, NopIsNew DEF Picked, Fresh
<1> QED
  BY <1>3, <1>4 DEF Picked

\* Only nodes that are not set are recomputed.
LEMMA UnsetIs == ASSUME NEW es, NEW n \in DOMAIN selected PROVE n \notin Unset(es)
<1> DEFINE A == UNION {{e[1], e[2]} : e \in es}
<1>1. Unset(es) = A \ DOMAIN selected
  BY DEF Unset
<1> HIDE DEF A
<1> QED
  BY <1>1

\* Recomputing models leaves the selected nodes alone.
LEMMA RecomputedKeeps ==
  ASSUME SoundState, NEW es PROVE \A n \in DOMAIN selected : Recomputed(Unset(es))[n] = disabled[n]
<1> SUFFICES ASSUME NEW n \in DOMAIN selected PROVE Recomputed(Unset(es))[n] = disabled[n]
  OBVIOUS
<1>1. n \in Nodes
  BY DEF SoundState, TypeOK
<1>2. n \notin Unset(es)
  BY UnsetIs
<1> QED
  BY <1>1, <1>2 DEF Recomputed

\* self_cut recomputes nodes that are not set.
LEMMA SelfCutPicked ==
  ASSUME SoundState, Picked, phase = "edges", NEW e, self_cut(e), UNCHANGED selected PROVE Picked'
<1> DEFINE es == SelfCutEdges(e)
<1>1. es \subseteq live
  BY DEF SelfCutEdges
<1>2. \/ UNCHANGED <<live, cut_edges, disabled>>
      \/ live' = live \ es /\ cut_edges' = cut_edges \cup es /\ disabled' = Recomputed(Unset(es))
  BY DEF self_cut
<1>3. phase' \in {"edges", "asserted"}
  BY DEF self_cut, Resolve
<1> HIDE DEF es
<1>4. \A n \in DOMAIN selected : disabled'[n] = disabled[n]
  BY <1>2, RecomputedKeeps
<1> QED
  BY <1>1, <1>2, <1>3, <1>4, SameEdgesPicked

\* So does cut().
LEMMA CutPicked ==
  ASSUME SoundState, Picked, NEW es \in SUBSET live, Cut(es) PROVE Picked'
<1>1. /\ live' = live \ es /\ cut_edges' = cut_edges \cup es /\ disabled' = Recomputed(Unset(es))
      /\ phase' = "edges" /\ UNCHANGED selected
  BY DEF Cut, Resolve
<1>2. \A n \in DOMAIN selected : disabled'[n] = disabled[n]
  BY <1>1, RecomputedKeeps
<1> QED
  BY <1>1, <1>2, SameEdgesPicked

\* buffer() adds a node that was not in the graph, and recomputes it.
LEMMA BufferPicked == ASSUME SoundState, Picked, NEW e \in Edges, buffer(e) PROVE Picked'
<1> DEFINE edges == (live \ {e}) \cup {<<e[1], Nop[e]>>, <<Nop[e], e[2]>>}
           ns == Unset({e}) \cup {Nop[e]}
<1>1. /\ live' = edges /\ disabled' = Recomputed(ns) /\ Resolve(edges, disabled', 1)
      /\ UNCHANGED <<problem, strategy, cut_edges, selected>> /\ e \in live /\ e \in DOMAIN Nop
  BY DEF buffer
<1>2. phase' = "edges"
  BY <1>1 DEF Resolve
<1>3. Nop[e] \notin Visible
  <2>1. Nop[e] \notin Unbuffered
    BY <1>1 DEF Unbuffered, Range
  <2>2. \A d \in live \cup cut_edges : Nop[e] \notin {d[1], d[2]}
    BY <1>1 DEF Picked, Fresh
  <2> QED
    BY <2>1, <2>2 DEF Visible
<1>4. \A n \in DOMAIN selected : disabled'[n] = disabled[n]
  <2>1. \A n \in DOMAIN selected : n \in Nodes /\ n # Nop[e]
    BY <1>3 DEF Picked, SoundState, TypeOK
  <2> QED
    <3> SUFFICES ASSUME NEW n \in DOMAIN selected PROVE disabled'[n] = disabled[n]
      OBVIOUS
    <3>1. n \in Nodes /\ n \notin ns
      BY <2>1, UnsetIs
    <3> HIDE DEF ns
    <3> QED
      BY <1>1, <3>1 DEF Recomputed
<1>5. Visible \subseteq Visible'
  <2>1. \A d \in live \cup cut_edges : d[1] \in Visible' /\ d[2] \in Visible'
    <3> SUFFICES ASSUME NEW d \in live \cup cut_edges PROVE d[1] \in Visible' /\ d[2] \in Visible'
      OBVIOUS
    <3>0. \A x \in live' \cup cut_edges' : x[1] \in Visible' /\ x[2] \in Visible'
      BY DEF Visible
    <3>1. CASE d = e
      <4>1. <<e[1], Nop[e]>> \in live' /\ <<Nop[e], e[2]>> \in live'
        BY <1>1
      <4> QED
        BY <3>0, <3>1, <4>1
    <3>2. CASE d # e
      <4>1. d \in live' \cup cut_edges'
        BY <1>1, <3>2
      <4> QED
        BY <3>0, <4>1
    <3> QED
      BY <3>1, <3>2
  <2> QED
    BY <2>1 DEF Visible
<1>6. Fresh'
  <2> SUFFICES ASSUME NEW x \in live' \cap DOMAIN Nop, NEW d \in live' \cup cut_edges'
               PROVE  Nop[x] \notin {d[1], d[2]}
    BY DEF Fresh
  <2>1. x \in Edges
    BY SolverAssumption
  <2>2. x \in live /\ x # e
    <3>1. x[1] # Nop[e] /\ x[2] # Nop[e]
      BY <1>1, <2>1, NopIsNew
    <3> QED
      BY <1>1, <3>1
  <2>3. CASE d \in live \cup cut_edges
    BY <2>2, <2>3 DEF Picked, Fresh
  <2>4. CASE d \in {<<e[1], Nop[e]>>, <<Nop[e], e[2]>>}
    <3>1. Nop[x] # Nop[e]
      BY <1>1, <2>2, SolverAssumption
    <3>2. Nop[x] \notin {e[1], e[2]}
      BY NopIsNew
    <3> QED
      BY <2>4, <3>1, <3>2
  <2> QED
    BY <1>1, <2>3, <2>4
<1> QED
  BY <1>1, <1>2, <1>4, <1>5, <1>6 DEF Picked

\* set() disables every other model of its node.
LEMMA SetPicked ==
  ASSUME SoundState, Picked, NEW n \in Nodes, NEW m \in Models, Set(n, m) PROVE Picked'
<1>1. /\ phase' = "update" /\ n \in Visible \ DOMAIN selected
      /\ selected' = With(selected, n, m) /\ disabled' = [disabled EXCEPT ![n] = Models \ {m}]
      /\ UNCHANGED <<live, cut_edges>>
  BY DEF Set
<1>2. Visible' = Visible
  BY <1>1 DEF Visible
<1>3. /\ DOMAIN selected' = DOMAIN selected \cup {n} /\ selected'[n] = m
      /\ \A x \in DOMAIN selected : selected'[x] = selected[x]
  BY <1>1 DEF With
<1>4. disabled'[n] = Models \ {m} /\ \A x \in Nodes \ {n} : disabled'[x] = disabled[x]
  BY <1>1 DEF SoundState, TypeOK
<1>5. \A x \in DOMAIN selected : x \in Nodes \ {n}
  BY <1>1 DEF SoundState, TypeOK
<1>6. Fresh'
  BY <1>1 DEF Picked, Fresh
<1> QED
  BY <1>1, <1>2, <1>3, <1>4, <1>5, <1>6 DEF Picked

\* set_filter_grid_size() is for a node that is not set.
LEMMA FilterPicked ==
  ASSUME SoundState, Picked, NEW n \in Nodes, NEW m \in Models, set_filter_grid_size(n, m)
  PROVE  Picked'
<1>1. /\ phase' = "update" /\ n \notin DOMAIN selected
      /\ disabled' = [disabled EXCEPT ![n] = @ \cup (bitset[n] \ {m})]
      /\ UNCHANGED <<live, cut_edges, selected>>
  BY DEF set_filter_grid_size
<1>2. \A x \in DOMAIN selected : disabled'[x] = disabled[x]
  BY <1>1 DEF SoundState, TypeOK
<1> QED
  BY <1>1, <1>2, SameEdgesPicked

\* The passes discard no models of a selected node.
LEMMA RootDropSpares == Head(todo)[2] \in DOMAIN selected => RootDrop = {}
BY DEF RootDrop, invalidate_streaming_into_output, invalidate_suboptimal_op_models_for_op, Discarded

\* So they leave its disabled models alone.
LEMMA NextRootPicked == ASSUME SoundState, Picked, NextRoot PROVE Picked'
<1> DEFINE n == Head(todo)[2]
           drop == RootDrop
<1>1. /\ UNCHANGED <<live, cut_edges, selected, phase>>
      /\ UNCHANGED disabled \/ (drop # {} /\ disabled' = [disabled EXCEPT ![n] = @ \cup drop])
  BY NextRootIs
<1>2. n \in DOMAIN selected => drop = {}
  BY RootDropSpares
<1> HIDE DEF n, drop
<1>3. \A x \in DOMAIN selected : disabled'[x] = disabled[x]
  BY <1>1, <1>2 DEF SoundState, TypeOK
<1> QED
  BY <1>1, <1>3, SameEdgesPicked

\* One edge in the loop of resolve_step leaves them alone.
LEMMA ResolveEdgePicked == ASSUME SoundState, Picked, ResolveEdge PROVE Picked'
<1> DEFINE e == Head(pass.agenda)
           found == problem.fits[e] \cap (bitset[e[1]] \X bitset[e[2]])
<1>1. /\ phase = "edges" /\ UNCHANGED <<problem, strategy, selected>>
      /\ (found # {} /\ FoundEdge(e, found)) \/ self_cut(e) \/ Throw
  BY ResolveEdgeIs
<1> HIDE DEF e, found
<1>2. CASE FoundEdge(e, found) \/ Throw
  <2>1. UNCHANGED <<live, cut_edges, disabled>> /\ phase' \in {"edges", "thrown"}
    BY <1>1, <1>2 DEF FoundEdge, Throw
  <2> QED
    BY <1>1, <2>1, SameEdgesPicked
<1> QED
  BY <1>1, <1>2, SelfCutPicked

\* So do the other steps of the solver.
LEMMA RestPicked ==
  ASSUME SoundState, Picked,
         \/ ProcessNode \/ EdgesDone \/ UpdateNode \/ Return \/ invalidate_suboptimal_op_models
         \/ Done \/ UNCHANGED vars
  PROVE  Picked'
<1>1. CASE ProcessNode \/ Done \/ UNCHANGED vars
  <2>1. UNCHANGED <<live, cut_edges, disabled, selected, phase>>
    BY <1>1 DEF ProcessNode, Done, vars
  <2> QED
    BY <2>1, SameEdgesPicked
<1>2. CASE EdgesDone \/ Return \/ invalidate_suboptimal_op_models
  <2>1. UNCHANGED <<live, cut_edges, disabled, selected>> /\ phase' \in {"edges", "update", "idle"}
    BY <1>2 DEF EdgesDone, Resolve, Return, invalidate_suboptimal_op_models
  <2> QED
    BY <2>1, SameEdgesPicked
<1>3. CASE UpdateNode
  <2>1. UNCHANGED <<live, cut_edges, disabled, selected>> /\ phase' \in {"edges", "update", "thrown"}
    BY <1>3, UpdateNodeIs DEF Resolve, Throw
  <2> QED
    BY <2>1, SameEdgesPicked
<1> QED
  BY <1>1, <1>2, <1>3

\* finish() is for a graph with every node selected.
LEMMA FinishPicked == ASSUME SoundState, Picked, finish PROVE Picked'
<1>1. /\ UNCHANGED <<live, cut_edges, disabled, selected>> /\ DOMAIN selected = Visible
      /\ phase' # "new"
  BY DEF finish
<1>2. Visible' = Visible
  BY <1>1 DEF Visible
<1> QED
  BY <1>1, <1>2 DEF Picked, Fresh

\* Every step keeps the selected nodes at one model.
LEMMA StepPicked == ASSUME SoundState, Picked, Next PROVE Picked'
<1>1. CASE Construct
  BY <1>1, ConstructPicked
<1>2. CASE SolverStep
  BY <1>2, ResolveEdgePicked, NextRootPicked, RestPicked DEF SolverStep
<1>3. CASE invalidate_suboptimal_op_models \/ finish \/ Done
  BY <1>3, RestPicked, FinishPicked
<1>4. CASE CutEpoch \/ \E n \in Nodes : CutRibbon(n)
  BY <1>4, CutPicked DEF CutEpoch, CutRibbon
<1>7. CASE \E n \in Nodes, m \in Models : Set(n, m) \/ set_filter_grid_size(n, m)
  BY <1>7, SetPicked, FilterPicked
<1>8. CASE \E e \in Edges : buffer(e)
  BY <1>8, BufferPicked
<1> QED
  BY <1>1, <1>2, <1>3, <1>4, <1>7, <1>8 DEF Next

\* The assertion of finish() cannot fail: a selected node has every other model disabled.
LEMMA FinishIsSafe == ASSUME SoundState, Picked PROVE FinishPasses
<1>1. ASSUME NEW n \in DOMAIN selected PROVE Cardinality(Models \ disabled[n]) = 1
  <2>1. Models \ disabled[n] = {selected[n]}
    BY DEF Picked
  <2> QED
    BY <2>1, FS_Singleton
<1> QED
  BY <1>1 DEF FinishPasses

\* finish(): its assertion that one legal model is left per selected node never fails.
THEOREM FinishHolds == Spec => [][finish => phase' = "finished"]_vars
<1>1. Init => SoundState /\ Picked
  BY InitSound, InitPicked
<1>2. SoundState /\ Picked /\ [Next]_vars => SoundState' /\ Picked'
  BY StepSound, StutterSound, StepPicked, RestPicked
<1>3. SoundState /\ Picked => (finish => phase' = "finished")
  BY FinishIsSafe DEF finish, FinishPasses, AtRest
<1> QED
  BY <1>1, <1>2, <1>3, PTL DEF Spec

-----------------------------------------------------------------------------
\* Nodes that cuts left without edges.

\* A node without edges in the graph.
Alone(n, L) == \A e \in L : n \notin {e[1], e[2]}

\* Nothing prunes a node that has no edges.
Lonely == Kind => \A n \in Nodes : Alone(n, live) => bitset[n] = Models \ disabled[n]

\* NodePathsProcessor prunes the ends of edges alone.
LEMMA QueuedTouches ==
  ASSUME NEW D, D \subseteq AllEdges, NEW w \in QueueWorks(D), NEW es \in Seq(D), NEW n \in Nodes,
         Alone(n, D)
  PROVE  AllQueued(w, es).bs[n] = w.bs[n]
<1>1. PICK g \in [0 .. Len(es) -> QueueWorks(D)] :
        /\ g[0] = w /\ g[Len(es)] = AllQueued(w, es)
        /\ \A i \in 1 .. Len(es) : g[i] = update_node_processor(g[i - 1], es[i])
  BY EachQueued
<1> DEFINE Good == {i \in 0 .. Len(es) : g[i].bs[n] = w.bs[n]}
<1>2. 0 \in Good
  BY <1>1
<1>3. ASSUME NEW i \in 1 .. Len(es), i - 1 \in Good PROVE i \in Good
  <2> DEFINE u == g[i - 1]
             e == es[i]
  <2>1. e \in D /\ i - 1 \in 0 .. Len(es)
    OBVIOUS
  <2>2. u \in QueueWorks(D) /\ g[i] = update_node_processor(u, e) /\ u.bs[n] = w.bs[n]
    BY <1>1, <1>3, <2>1
  <2> HIDE DEF u, e
  <2>3. Kept(u, g[i], e, Valid(u, e))
    BY <2>1, <2>2, QueuedIs, Zenon
  <2>4. n # e[1] /\ n # e[2]
    BY <2>1 DEF Alone
  <2>5. g[i].bs[n] = u.bs[n]
    BY <2>3, <2>4 DEF Kept
  <2> QED
    BY <2>2, <2>5
<1>4. Len(es) \in Nat
  OBVIOUS
<1>5. \A i \in 0 .. Len(es) : i \in Good
  <2> HIDE DEF Good
  <2> QED
    BY <1>2, <1>3, <1>4, Induct
<1> QED
  BY <1>1, <1>4, <1>5

\* After reset() a node has every model that is not disabled.
LEMMA ResolveLonely ==
  ASSUME NEW edges, edges \subseteq AllEdges, NEW off \in [Nodes -> SUBSET Models],
         NEW retry \in Nat, Resolve(edges, off, retry), disabled' = off
  PROVE  Lonely'
BY ResolveIs DEF Lonely

\* After throwing nothing is claimed.
LEMMA ThrowLonely == ASSUME Throw PROVE Lonely'
BY DEF Throw, Lonely, Kind

\* self_cut starts again, or marks the pass as fast.
LEMMA SelfCutLonely == ASSUME SoundState, NEW e, self_cut(e) PROVE Lonely'
<1> DEFINE es == SelfCutEdges(e)
<1>0. /\ live \subseteq AllEdges /\ pass \in Passes /\ TypeOK
  BY DEF SoundState, TypeOK
<1>1. es \subseteq live
  BY DEF SelfCutEdges
<1> HIDE DEF es
<1>2. CASE \E f \in es : {f[1], f[2]} \subseteq DOMAIN selected
  BY <1>2 DEF self_cut, es, Lonely, Kind
<1>3. CASE ~ \E f \in es : {f[1], f[2]} \subseteq DOMAIN selected
  <2>1. disabled' = Recomputed(Unset(es))
    BY <1>3 DEF self_cut, es
  <2>3. disabled' \in [Nodes -> SUBSET Models]
    BY <2>1, <1>0, RecomputedIs
  <2>4. CASE problem.self_cut = "fast"
    <3> DEFINE a == Only(pass.agenda, {f \in live : f[2] # e[2]})
    <3>1. pass' = [pass EXCEPT !.fast = TRUE, !.consumer = e[2], !.agenda = a]
      BY <1>3, <2>4 DEF self_cut, es
    <3> HIDE DEF a
    <3>2. pass'.fast
      BY <3>1, <1>0 DEF Passes
    <3> QED
      BY <3>2 DEF Lonely, Kind
  <2>5. CASE problem.self_cut # "fast"
    <3>1. Resolve(live \ es, disabled', pass.retry + 1)
      BY <1>3, <2>5 DEF self_cut, es
    <3>2. pass.retry + 1 \in Nat /\ live \ es \subseteq AllEdges
      BY <1>0 DEF Passes
    <3> QED
      BY <3>1, <3>2, <2>3, ResolveLonely
  <2> QED
    BY <2>4, <2>5
<1> QED
  BY <1>2, <1>3

\* A new path set prunes the ends of its edge.
LEMMA FoundEdgeLonely ==
  ASSUME SoundState, Lonely, phase = "edges", pass.agenda # <<>>, NEW e, e = Head(pass.agenda),
         NEW found \in SUBSET Pairs, FoundEdge(e, found)
  PROVE  Lonely'
<1> DEFINE D == DOMAIN paths \cup {e}
           w0 == Work(bitset, With(paths, e, found))
           w == Keep(w0, e, found)
<1>1. TypeOK /\ pass.agenda \in Seq(AllEdges) /\ pass \in Passes /\ live \subseteq AllEdges
  BY DEF SoundState, TypeOK, Passes
<1>2. e \in AllEdges /\ Range(pass.agenda) = {e} \cup Range(Tail(pass.agenda))
  BY <1>1, SeqEnds
<1>5. w0 \in Works(D) /\ D \subseteq AllEdges /\ w0.bs = bitset
  BY <1>1, <1>2, AddPathsIs
<1>6. bitset' = w.bs /\ UNCHANGED <<live, disabled, phase>>
  BY DEF FoundEdge
<1>7. pass'.fast = pass.fast
  <2> DEFINE q == IF ~pass.fast /\ bitset[e[1]] # w.bs[e[1]] /\ e[1] \notin Range(pass.queue)
                  THEN Append(pass.queue, e[1]) ELSE pass.queue
             t == Tail(pass.agenda)
  <2>1. pass' = [pass EXCEPT !.agenda = t, !.consumer = e[2], !.queue = q]
    BY <1>1 DEF FoundEdge, Passes
  <2> HIDE DEF q, t
  <2> QED
    BY <2>1, <1>1 DEF Passes
<1> SUFFICES ASSUME ~pass.fast PROVE Lonely'
  BY <1>7 DEF Lonely, Kind
<1>8. AgendaCovers /\ \A n \in Nodes : Alone(n, live) => bitset[n] = Models \ disabled[n]
  BY DEF SoundState, Shape, Lonely, Kind
<1>9. e \in live
  BY <1>2, <1>8 DEF AgendaCovers
<1>11. e \in D
  OBVIOUS
<1> HIDE DEF w0, D
<1>14. Kept(w0, w, e, found)
  BY <1>5, <1>11, KeepIs
<1> HIDE DEF w
<1>15. ASSUME NEW n \in Nodes, Alone(n, live) PROVE w.bs[n] = bitset[n]
  <2>1. n # e[1] /\ n # e[2]
    BY <1>9, <1>15 DEF Alone
  <2> QED
    BY <1>5, <1>14, <2>1 DEF Kept
<1> QED
  BY <1>6, <1>8, <1>15 DEF Lonely

\* One edge in the loop of resolve_step leaves the nodes without edges alone.
LEMMA ResolveEdgeLonely == ASSUME SoundState, Lonely, ResolveEdge PROVE Lonely'
<1> DEFINE e == Head(pass.agenda)
           found == problem.fits[e] \cap (bitset[e[1]] \X bitset[e[2]])
<1>1. /\ phase = "edges" /\ pass.agenda # <<>>
      /\ (found # {} /\ FoundEdge(e, found)) \/ self_cut(e) \/ Throw
  BY ResolveEdgeIs
<1>2. pass.agenda \in Seq(AllEdges) /\ TypeOK
  BY DEF SoundState, TypeOK, Passes
<1>3. e \in AllEdges /\ e = Head(pass.agenda)
  BY <1>1, <1>2, SeqEnds
<1>4. e[1] \in Nodes /\ e[2] \in Nodes
  BY <1>3, EdgesJoinNodes
<1>5. found \in SUBSET Pairs
  BY <1>2, <1>4, FitsArePairs
<1> HIDE DEF e, found
<1> QED
  BY <1>1, <1>3, <1>5, FoundEdgeLonely, SelfCutLonely, ThrowLonely

\* So does NodePathsProcessor.
LEMMA ProcessNodeLonely == ASSUME SoundState, Lonely, ProcessNode PROVE Lonely'
<1> DEFINE D == DOMAIN paths
           w == [bs |-> bitset, ps |-> paths, queue |-> Front(pass.queue)]
           es == Only(EdgesOf(live, Last(pass.queue)), DOMAIN paths)
<1>1. TypeOK /\ live \subseteq AllEdges
  BY DEF SoundState, TypeOK
<1>2. /\ w \in QueueWorks(D) /\ es \in Seq(D) /\ bitset' = NodeWork.bs
      /\ ~pass.fast /\ phase = "edges" /\ UNCHANGED <<live, disabled>>
  BY <1>1, ProcessNodeIs
<1>3. NodeWork = AllQueued(w, es) /\ w.bs = bitset
  BY DEF NodeWork
<1> HIDE DEF w, es
<1>5. AgendaCovers /\ \A n \in Nodes : Alone(n, live) => bitset[n] = Models \ disabled[n]
  BY <1>2 DEF SoundState, Shape, Lonely, Kind
<1>6. D \subseteq live /\ D \subseteq AllEdges
  BY <1>1, <1>5 DEF AgendaCovers
<1> HIDE DEF D
<1>7. ASSUME NEW n \in Nodes, Alone(n, live) PROVE NodeWork.bs[n] = bitset[n]
  <2>1. Alone(n, D)
    BY <1>6, <1>7 DEF Alone
  <2> QED
    BY <1>2, <1>3, <1>6, <2>1, QueuedTouches
<1> QED
  BY <1>2, <1>5, <1>7 DEF Lonely

\* An update around a node prunes that node and its neighbours.
LEMMA ExpandLonely ==
  ASSUME SoundState, DOMAIN paths = live, NEW n \in Nodes, NEW bs \in [Nodes -> SUBSET Models],
         Expand(n, bs), UNCHANGED live,
         \A x \in Nodes : Alone(x, live) => bs[x] = Models \ disabled'[x]
  PROVE  Lonely'
<1> DEFINE w == Work(bs, paths)
           es == EdgesOf(live, n)
           v == AllRefreshed(w, es)
<1>1. live \subseteq AllEdges /\ paths \in [live -> SUBSET Pairs]
  BY DEF SoundState, TypeOK
<1>2. w \in Works(live) /\ es \in Seq(live) /\ w.bs = bs
  <2>1. w.bs = bs
    BY DEF Work
  <2> QED
    BY <1>1, <2>1, WorkIs, EdgesOfAre
<1>3. bitset' = v.bs
  BY ExpandIs
<1> HIDE DEF w, es
<1>6. \A m \in Nodes : (\A e \in Range(es) : m \notin {e[1], e[2]}) => v.bs[m] = w.bs[m]
  BY <1>1, <1>2, RefreshTouches
<1>7. Range(es) \subseteq live
  BY <1>2 DEF Range
<1> HIDE DEF v
<1>8. \A x \in Nodes : Alone(x, live) => v.bs[x] = bs[x]
  BY <1>2, <1>6, <1>7 DEF Alone
<1> QED
  BY <1>3, <1>8 DEF Lonely

\* set() and set_filter_grid_size() leave a node without edges the models they do not disable.
LEMMA CallLonely ==
  ASSUME SoundState, Lonely, NEW n \in Nodes, NEW m \in Models,
         Set(n, m) \/ set_filter_grid_size(n, m)
  PROVE  Lonely'
<1> DEFINE bs == [bitset EXCEPT ![n] = {m}]
<1>1. /\ phase = "idle" /\ Expand(n, bs) /\ UNCHANGED live /\ m \in bitset[n]
      /\ \/ disabled' = [disabled EXCEPT ![n] = Models \ {m}]
         \/ disabled' = [disabled EXCEPT ![n] = @ \cup (bitset[n] \ {m})]
  BY DEF Set, set_filter_grid_size
<1>2. TypeOK /\ DOMAIN paths = live /\ ~pass.fast
  BY <1>1 DEF SoundState, Shape
<1>3. bs \in [Nodes -> SUBSET Models] /\ bs[n] = {m} /\ \A x \in Nodes \ {n} : bs[x] = bitset[x]
  BY <1>2 DEF TypeOK
<1>4. \A x \in Nodes : Alone(x, live) => bitset[x] = Models \ disabled[x]
  BY <1>1, <1>2 DEF Lonely, Kind
<1> HIDE DEF bs
<1>5. /\ \A x \in Nodes \ {n} : disabled'[x] = disabled[x]
      /\ disabled'[n] = Models \ {m} \/ disabled'[n] = disabled[n] \cup (bitset[n] \ {m})
      /\ bitset[n] \subseteq Models /\ disabled[n] \subseteq Models
  BY <1>1, <1>2 DEF TypeOK
<1>6. Alone(n, live) => bs[n] = Models \ disabled'[n]
  BY <1>1, <1>3, <1>4, <1>5
<1>7. \A x \in Nodes : Alone(x, live) => bs[x] = Models \ disabled'[x]
  BY <1>3, <1>4, <1>5, <1>6
<1> QED
  BY <1>1, <1>2, <1>3, <1>7, ExpandLonely

\* So do the passes that discard models.
LEMMA NextRootLonely == ASSUME SoundState, Lonely, NextRoot PROVE Lonely'
<1> DEFINE n == Head(todo)[2]
           drop == RootDrop
<1>1. n = Head(todo)[2] /\ drop = RootDrop
  OBVIOUS
<1>2. todo # <<>>
  BY DEF NextRoot
<1>3. n \in Nodes
  BY <1>2, TodoIs
<1>3a. Head(todo)[1] # "update" => drop \subseteq bitset[n]
  BY RootDropIs
<1> HIDE DEF n, drop
<1>5. /\ phase = "update" /\ UNCHANGED <<live, phase, pass>>
      /\ \/ UNCHANGED <<bitset, disabled>>
         \/ /\ Head(todo)[1] # "update"
            /\ disabled' = [disabled EXCEPT ![n] = @ \cup drop]
            /\ Expand(n, [bitset EXCEPT ![n] = @ \ drop])
  BY <1>1, NextRootIs
<1>6. TypeOK /\ DOMAIN paths = live /\ ~pass.fast
  BY <1>5 DEF SoundState, Shape
<1>7. \A x \in Nodes : Alone(x, live) => bitset[x] = Models \ disabled[x]
  BY <1>5, <1>6 DEF Lonely, Kind
<1>8. CASE UNCHANGED <<bitset, disabled>>
  BY <1>5, <1>7, <1>8 DEF Lonely
<1>9. CASE /\ Head(todo)[1] # "update"
           /\ disabled' = [disabled EXCEPT ![n] = @ \cup drop]
           /\ Expand(n, [bitset EXCEPT ![n] = @ \ drop])
  <2> DEFINE bs == [bitset EXCEPT ![n] = @ \ drop]
  <2>1. /\ bs \in [Nodes -> SUBSET Models] /\ bs[n] = bitset[n] \ drop
        /\ \A x \in Nodes \ {n} : bs[x] = bitset[x] /\ disabled'[x] = disabled[x]
        /\ disabled'[n] = disabled[n] \cup drop
    BY <1>3, <1>6, <1>9 DEF TypeOK
  <2>2. Expand(n, bs)
    BY <1>9
  <2> HIDE DEF bs
  <2>3. \A x \in Nodes : Alone(x, live) => bs[x] = Models \ disabled'[x]
    BY <1>3, <1>7, <2>1
  <2> QED
    BY <1>3, <1>5, <1>6, <2>1, <2>2, <2>3, ExpandLonely
<1> QED
  BY <1>5, <1>8, <1>9

\* A round of update_solver leaves the nodes without edges alone.
LEMMA UpdateNodeLonely == ASSUME SoundState, Lonely, UpdateNode PROVE Lonely'
<1>1. phase = "update" /\ needs_update # <<>>
  BY UpdateNodeIs
<1>2. TypeOK /\ DOMAIN paths = live /\ ~pass.fast
  BY <1>1 DEF SoundState, Shape
<1>3. CASE Round.stop = "none" /\ bitset' = Round.bs /\ UNCHANGED <<live, disabled>>
  <2> DEFINE n == Last(needs_update)
             ins == OperandEdges(live, n)
             outs == UserEdges(live, n)
             S == Range(ins) \cup Range(outs)
             w == Work(bitset, paths)
  <2>1. /\ ins \in Seq(live) /\ outs \in Seq(live) /\ live \subseteq AllEdges /\ w \in Works(live)
    BY <1>1, RoundTyped
  <2>2. S \subseteq live /\ w.bs = bitset /\ Round = UpdatedAt(w, ins, outs)
    BY <2>1 DEF Work, Round, Range
  <2>3. S = Range(ins) \cup Range(outs)
    OBVIOUS
  <2> HIDE DEF ins, outs, S, w
  <2>4. Tracks(w, Round, S, live)
    BY <2>1, <2>2, <2>3, RoundTracks
  <2>5. \A x \in Nodes : Alone(x, live) => Round.bs[x] = bitset[x]
    BY <2>2, <2>4 DEF Tracks, Alone
  <2>6. \A x \in Nodes : Alone(x, live) => bitset[x] = Models \ disabled[x]
    BY <1>1, <1>2 DEF Lonely, Kind
  <2> QED
    BY <1>3, <2>5, <2>6 DEF Lonely
<1>4. CASE Resolve(live, disabled, 1) /\ UNCHANGED disabled
  BY <1>2, <1>4, ResolveLonely DEF TypeOK
<1>5. CASE Throw
  BY <1>5, ThrowLonely
<1> QED
  BY <1>3, <1>4, <1>5, UpdateNodeIs

\* At first nothing is claimed.
LEMMA InitLonely == ASSUME Init PROVE Lonely
BY DEF Init, Lonely, Kind

\* After the constructor no node without edges is pruned.
LEMMA ConstructLonely == ASSUME SoundState, Construct PROVE Lonely'
<1>1. PICK es \in {{}, problem.switch} :
         live' = live \ es /\ cut_edges' = es /\ Resolve(live \ es, disabled, 1)
  BY DEF Construct
<1>2. live \subseteq AllEdges /\ disabled \in [Nodes -> SUBSET Models]
  BY DEF SoundState, TypeOK
<1>3. disabled' = disabled /\ live \ es \subseteq AllEdges /\ 1 \in Nat
  BY <1>2 DEF Construct
<1> QED
  BY <1>1, <1>2, <1>3, ResolveLonely

\* The end of the loop of resolve_step prunes nothing.
LEMMA EdgesDoneLonely == ASSUME SoundState, Lonely, EdgesDone PROVE Lonely'
<1>1. /\ live \subseteq AllEdges /\ disabled \in [Nodes -> SUBSET Models] /\ pass.retry + 1 \in Nat
      /\ UNCHANGED <<live, disabled>> /\ phase = "edges"
  BY DEF SoundState, TypeOK, EdgesDone, Passes
<1>2. CASE pass.fast
  <2>1. Resolve(live, disabled, pass.retry + 1)
    BY <1>2 DEF EdgesDone
  <2> QED
    BY <1>1, <2>1, ResolveLonely
<1>3. CASE ~pass.fast
  <2>1. UNCHANGED bitset
    BY <1>3 DEF EdgesDone
  <2>2. \A n \in Nodes : Alone(n, live) => bitset[n] = Models \ disabled[n]
    BY <1>1, <1>3 DEF Lonely, Kind
  <2> QED
    BY <1>1, <2>1, <2>2 DEF Lonely
<1> QED
  BY <1>2, <1>3

\* After cut() nothing is pruned yet.
LEMMA CutLonely == ASSUME SoundState, NEW es \in SUBSET live, Cut(es) PROVE Lonely'
<1>1. disabled' = Recomputed(Unset(es)) /\ Resolve(live \ es, disabled', 1)
  BY DEF Cut
<1>2. TypeOK /\ live \ es \subseteq AllEdges
  BY DEF SoundState, TypeOK
<1>3. disabled' \in [Nodes -> SUBSET Models]
  BY <1>1, <1>2, RecomputedIs
<1> QED
  BY <1>1, <1>2, <1>3, ResolveLonely

\* Nor after buffer().
LEMMA BufferLonely == ASSUME SoundState, NEW e \in Edges, buffer(e) PROVE Lonely'
<1> DEFINE edges == (live \ {e}) \cup {<<e[1], Nop[e]>>, <<Nop[e], e[2]>>}
           ns == Unset({e}) \cup {Nop[e]}
<1>1. disabled' = Recomputed(ns) /\ Resolve(edges, disabled', 1) /\ e \in DOMAIN Nop
  BY DEF buffer
<1>2. TypeOK /\ live \subseteq AllEdges
  BY DEF SoundState, TypeOK
<1>3. edges \subseteq AllEdges
  BY <1>1, <1>2 DEF AllEdges, NopEdges
<1> HIDE DEF edges, ns
<1>4. disabled' \in [Nodes -> SUBSET Models]
  BY <1>1, <1>2, RecomputedIs
<1> QED
  BY <1>1, <1>3, <1>4, ResolveLonely

\* The other steps leave the bitsets alone.
LEMMA RestLonely ==
  ASSUME SoundState, Lonely,
         \/ Return \/ invalidate_suboptimal_op_models \/ finish \/ Done \/ UNCHANGED vars
  PROVE  Lonely'
<1>1. UNCHANGED <<live, disabled, bitset>>
  BY DEF Return, invalidate_suboptimal_op_models, finish, Done, vars
<1>2. Kind' => Kind
  <2>1. CASE Return
    <3>1. phase = "update"
      BY <2>1 DEF Return
    <3> QED
      BY <3>1 DEF SoundState, Shape, Kind
  <2>2. CASE invalidate_suboptimal_op_models \/ finish \/ Done \/ UNCHANGED vars
    BY <2>2 DEF invalidate_suboptimal_op_models, finish, Done, vars, Kind
  <2> QED
    BY <2>1, <2>2
<1> QED
  BY <1>1, <1>2 DEF Lonely

\* No step prunes a node that has no edges.
LEMMA StepLonely == ASSUME SoundState, Lonely, Next PROVE Lonely'
<1>1. CASE Construct
  BY <1>1, ConstructLonely
<1>2. CASE SolverStep
  BY <1>2, ResolveEdgeLonely, ProcessNodeLonely, EdgesDoneLonely, NextRootLonely,
     UpdateNodeLonely, RestLonely DEF SolverStep
<1>3. CASE invalidate_suboptimal_op_models \/ finish \/ Done
  BY <1>3, RestLonely
<1>4. CASE CutEpoch \/ \E n \in Nodes : CutRibbon(n)
  BY <1>4, CutLonely DEF CutEpoch, CutRibbon
<1>7. CASE \E n \in Nodes, m \in Models : Set(n, m) \/ set_filter_grid_size(n, m)
  BY <1>7, CallLonely
<1>8. CASE \E e \in Edges : buffer(e)
  BY <1>8, BufferLonely
<1> QED
  BY <1>1, <1>2, <1>3, <1>4, <1>7, <1>8 DEF Next

\* Every operation leaves the selected nodes with the one model that was selected for them.
LEMMA SelectionIsKept ==
  ASSUME SoundState, SolutionsKept, Checked, Picked, Lonely PROVE SelectionKept
<1> SUFFICES ASSUME AtRest, NEW n \in DOMAIN selected PROVE bitset[n] = {selected[n]}
  BY DEF SelectionKept
<1>1. Kind /\ n \in Nodes /\ TypeOK
  BY DEF AtRest, Kind, SoundState, Shape, TypeOK
<1>2. bitset[n] \cap disabled[n] = {} /\ bitset[n] \subseteq Models
  BY <1>1 DEF SolutionsKept, Settled, Available, TypeOK
<1>3. selected[n] \in Models /\ disabled[n] = Models \ {selected[n]}
  BY DEF Picked
<1>4. bitset[n] # {}
  <2>1. CASE Alone(n, live)
    BY <1>1, <1>3, <2>1 DEF Lonely
  <2>2. CASE ~Alone(n, live)
    <3>1. PICK e \in live : n \in {e[1], e[2]}
      BY <2>2 DEF Alone
    <3>2. Consistent(e)
      BY AtRestConsistent DEF AtRest
    <3> QED
      BY <3>1, <3>2 DEF Consistent, ConsistentIn, Work, Producers, Consumers
  <2> QED
    BY <2>1, <2>2
<1> QED
  BY <1>2, <1>3, <1>4

-----------------------------------------------------------------------------
\* The costs of selected nodes have been checked.

\* The costs of the choice f at node n keep within the limit.
CostOK(f, L, n) ==
    SumOf(CostsOf(f, UserEdges(L, n))) <= MaxCost /\ SumOf(CostsOf(f, OperandEdges(L, n))) <= MaxCost

\* The node and all its neighbours are selected.
WholeIn(S, L, n) == n \in S /\ \A e \in L : n \in {e[1], e[2]} => e[1] \in S /\ e[2] \in S

NodePending(n) == n \in Range(needs_update) \/ <<"update", n>> \in Range(todo)

\* Where a node and its neighbours are selected, their costs have been checked or will be.
CostChecked ==
    phase \in {"update", "idle", "finished"} =>
        \A n \in Nodes : WholeIn(DOMAIN selected, live, n) => CostOK(selected, live, n) \/ NodePending(n)

\* Between calls the costs of all such nodes have been checked.
LEMMA AtRestCost ==
  ASSUME SoundState, CostChecked, phase \in {"idle", "finished"}
  PROVE  \A n \in Nodes : WholeIn(DOMAIN selected, live, n) => CostOK(selected, live, n)
<1>1. Range(todo) = {} /\ Range(needs_update) = {}
  BY DEF SoundState, Shape, Range
<1> QED
  BY <1>1 DEF CostChecked, NodePending

\* reset() starts again.
LEMMA ResolveCost ==
  ASSUME NEW edges, NEW off, NEW retry, Resolve(edges, off, retry) PROVE CostChecked'
BY DEF Resolve, CostChecked

\* After throwing nothing is claimed.
LEMMA ThrowCost == ASSUME Throw PROVE CostChecked'
BY DEF Throw, CostChecked

\* Nor at first.
LEMMA InitCost == ASSUME Init PROVE CostChecked
BY DEF Init, CostChecked

\* self_cut is in the loop over the edges, before costs are looked at.
LEMMA SelfCutCost == ASSUME phase = "edges", NEW e, self_cut(e) PROVE CostChecked'
<1>1. \/ \E edges, off, retry : Resolve(edges, off, retry)
      \/ phase' \in {"edges", "asserted"}
  BY DEF self_cut
<1> QED
  BY <1>1, ResolveCost DEF CostChecked

\* So is every other edge of that loop.
LEMMA ResolveEdgeCost == ASSUME SoundState, ResolveEdge PROVE CostChecked'
<1> DEFINE e == Head(pass.agenda)
           found == problem.fits[e] \cap (bitset[e[1]] \X bitset[e[2]])
<1>1. /\ phase = "edges"
      /\ (found # {} /\ FoundEdge(e, found)) \/ self_cut(e) \/ Throw
  BY ResolveEdgeIs
<1> HIDE DEF e, found
<1>2. CASE FoundEdge(e, found)
  BY <1>1, <1>2 DEF FoundEdge, CostChecked
<1> QED
  BY <1>1, <1>2, SelfCutCost, ThrowCost

\* When the loop ends every node is on the list of those to update.
LEMMA EdgesDoneCost == ASSUME SoundState, Picked, EdgesDone PROVE CostChecked'
<1>1. UNCHANGED <<live, cut_edges, selected>>
  BY DEF EdgesDone
<1>2. CASE pass.fast
  <2>1. Resolve(live, disabled, pass.retry + 1)
    BY <1>2 DEF EdgesDone
  <2> QED
    BY <2>1, ResolveCost
<1>3. CASE ~pass.fast
  <2> DEFINE ns == Only(Order, Visible)
             all == Over("update", ns) \o Over("streaming", ns)
                      \o IF strategy THEN Over("first", ns) \o Over("second", ns) ELSE <<>>
  <2>1. todo' = all
    BY <1>3 DEF EdgesDone
  <2>2. \A n \in Visible \cap Nodes : <<"update", n>> \in Range(all)
    BY AllNodesAre
  <2> HIDE DEF all
  <2>3. \A n \in DOMAIN selected : NodePending(n)'
    BY <2>1, <2>2 DEF NodePending, Picked, SoundState, TypeOK
  <2> QED
    BY <1>1, <2>3 DEF CostChecked, WholeIn
<1> QED
  BY <1>2, <1>3

\* The node taken off the list goes on the stack.
LEMMA NextRootCost == ASSUME SoundState, CostChecked, NextRoot PROVE CostChecked'
<1> DEFINE n == Head(todo)[2]
           drop == RootDrop
<1>1. n = Head(todo)[2] /\ drop = RootDrop /\ todo # <<>>
  BY DEF NextRoot
<1>3. n \in Nodes /\ Range(todo) = {Head(todo)} \cup Range(Tail(todo)) /\ Head(todo) = <<Head(todo)[1], n>>
  BY <1>1, TodoIs
<1> HIDE DEF n, drop
<1>5. /\ phase = "update" /\ needs_update = <<>> /\ todo' = Tail(todo)
      /\ UNCHANGED <<live, selected, phase>>
      /\ Head(todo)[1] = "update" => needs_update' = <<n>>
  BY <1>1, NextRootIs
<1>7. Range(needs_update) = {}
  BY <1>5 DEF Range
<1>8. Head(todo)[1] = "update" => Range(needs_update') = {n}
  BY <1>5 DEF Range
<1>9. \A x : NodePending(x) => NodePending(x)'
  BY <1>3, <1>5, <1>7, <1>8 DEF NodePending
<1> QED
  BY <1>5, <1>9 DEF CostChecked

\* What is on offer at selected nodes is what is selected.
LEMMA SelectedNarrow ==
  ASSUME SoundState, SolutionsKept, Picked, Kind, NEW n \in DOMAIN selected
  PROVE  bitset[n] \subseteq {selected[n]}
<1>1. n \in Nodes /\ TypeOK
  BY DEF SoundState, TypeOK
<1>2. bitset[n] \cap disabled[n] = {} /\ bitset[n] \subseteq Models
  BY <1>1 DEF SolutionsKept, Settled, Available, TypeOK
<1>3. disabled[n] = Models \ {selected[n]}
  BY DEF Picked
<1> QED
  BY <1>2, <1>3

\* The round at a node checks its costs, or stops.
LEMMA UpdateNodeCost ==
  ASSUME SoundState, SolutionsKept, Picked, CostChecked, UpdateNode PROVE CostChecked'
<1>1. phase = "update" /\ needs_update # <<>> /\ UNCHANGED selected
  BY UpdateNodeIs
<1>2. TypeOK /\ Kind
  BY <1>1 DEF SoundState, Shape, Kind
<1>3. CASE /\ Round.stop = "none" /\ bitset' = Round.bs /\ paths' = Round.ps
           /\ needs_update' = IF More = <<>> THEN Front(needs_update) ELSE needs_update \o More
           /\ UNCHANGED <<live, cut_edges, disabled, phase, pass, todo, by_set>>
  <2> DEFINE n == Last(needs_update)
             ins == OperandEdges(live, n)
             outs == UserEdges(live, n)
             w == Work(bitset, paths)
  <2>1. /\ n \in Nodes /\ ins \in Seq(live) /\ outs \in Seq(live) /\ live \subseteq AllEdges
        /\ w \in Works(live) /\ More \in Seq(Nodes)
    BY <1>1, RoundTyped
  <2>2. Range(ins) = {e \in live : e[2] = n} /\ Range(outs) = {e \in live : e[1] = n}
    BY <2>1, OperandEdgesAre, UserEdgesAre
  <2>3. w.bs = bitset /\ Round = UpdatedAt(w, ins, outs)
    BY DEF Work, Round
  <2>4. needs_update \in Seq(Nodes)
    BY <1>2 DEF TypeOK
  <2>5. Front(needs_update) \in Seq(Nodes) /\ Range(needs_update) = Range(Front(needs_update)) \cup {n}
    BY <1>1, <2>4, SeqEnds
  <2>6. \A x \in Nodes \ {n} : NodePending(x) => NodePending(x)'
    <3>1. CASE More = <<>>
      BY <1>3, <2>5, <3>1 DEF NodePending
    <3>2. CASE More # <<>>
      <4>1. Range(needs_update') = Range(needs_update) \cup Range(More)
        BY <1>3, <2>1, <2>4, <3>2, RangeOfConcat
      <4> QED
        BY <1>3, <4>1 DEF NodePending
    <3> QED
      BY <3>1, <3>2
  <2>7. n = Last(needs_update) /\ ins = OperandEdges(live, n) /\ outs = UserEdges(live, n)
    OBVIOUS
  <2> HIDE DEF n, ins, outs, w
  <2>8. ASSUME WholeIn(DOMAIN selected, live, n) PROVE CostOK(selected, live, n)
    <3>1. \A e \in live : n \in {e[1], e[2]} =>
            bitset[e[1]] \subseteq {selected[e[1]]} /\ bitset[e[2]] \subseteq {selected[e[2]]}
      BY <1>2, <2>8, SelectedNarrow DEF WholeIn
    <3>2. Narrow(w, selected, Range(ins)) /\ Narrow(w, selected, Range(outs))
      BY <2>2, <2>3, <3>1 DEF Narrow
    <3>3. (\A d \in Range(ins) : d[2] = n) /\ (\A d \in Range(outs) : d[1] = n)
      BY <2>2
    <3>4. UpdatedAt(w, ins, outs).stop = "none"
      BY <1>3, <2>3
    <3>5. SumOf(CostsOf(selected, ins)) <= MaxCost /\ SumOf(CostsOf(selected, outs)) <= MaxCost
      BY <2>1, <3>2, <3>3, <3>4, RoundChecks
    <3> QED
      BY <2>7, <3>5 DEF CostOK
  <2> QED
    BY <1>1, <1>3, <2>6, <2>8 DEF CostChecked
<1>4. CASE Resolve(live, disabled, 1)
  BY <1>4, ResolveCost
<1>5. CASE Throw
  BY <1>5, ThrowCost
<1> QED
  BY <1>3, <1>4, <1>5, UpdateNodeIs

\* The costs of a choice depend on the ends of the edges alone.
LEMMA SameCosts ==
  ASSUME NEW f, NEW g, NEW es, \A e \in Range(es) : f[e[1]] = g[e[1]] /\ f[e[2]] = g[e[2]]
  PROVE  CostsOf(f, es) = CostsOf(g, es)
<1>1. \A i \in DOMAIN es : es[i] \in Range(es)
  BY DEF Range
<1> QED
  BY <1>1 DEF CostsOf

\* set() changes the costs at the node and at its neighbours, and has them updated.
LEMMA SetCost ==
  ASSUME SoundState, CostChecked, NEW n \in Nodes, NEW m \in Models, Set(n, m) PROVE CostChecked'
<1> DEFINE bs == [bitset EXCEPT ![n] = {m}]
           S == DOMAIN selected
           around == {n} \cup Range(operands_and_users(n))
<1>1. phase = "idle" /\ Expand(n, bs) /\ UNCHANGED live /\ selected' = With(selected, n, m)
  BY DEF Set
<1>2. TypeOK /\ DOMAIN paths = live /\ live \subseteq AllEdges
  BY <1>1 DEF SoundState, Shape, TypeOK
<1>3. bs \in [Nodes -> SUBSET Models]
  BY <1>2 DEF TypeOK
<1> HIDE DEF bs
<1>4. Range(needs_update') = around
  BY <1>1, <1>2, <1>3, ExpandIs
<1>5. \A e \in live : (e[1] = n => e[2] \in around) /\ (e[2] = n => e[1] \in around)
  BY <1>2, NeighboursAre
<1>6. n \in around
  OBVIOUS
<1> HIDE DEF around
<1>7. DOMAIN selected' = S \cup {n} /\ \A x \in S : x # n => selected'[x] = selected[x]
  BY <1>1 DEF With
<1>8. ASSUME NEW x \in Nodes, x \notin around, WholeIn(DOMAIN selected', live, x)
      PROVE  CostOK(selected', live, x)
  <2>1. \A e \in live : x \in {e[1], e[2]} => e[1] # n /\ e[2] # n
    BY <1>5, <1>6, <1>8
  <2>2. WholeIn(S, live, x)
    BY <1>6, <1>7, <1>8, <2>1 DEF WholeIn
  <2>3. CostOK(selected, live, x)
    BY <1>1, <2>2, AtRestCost
  <2>4. \A e \in live : x \in {e[1], e[2]} =>
           selected'[e[1]] = selected[e[1]] /\ selected'[e[2]] = selected[e[2]]
    BY <1>7, <2>1, <2>2 DEF WholeIn
  <2>5. /\ Range(OperandEdges(live, x)) = {e \in live : e[2] = x}
        /\ Range(UserEdges(live, x)) = {e \in live : e[1] = x}
    BY <1>2, OperandEdgesAre, UserEdgesAre
  <2>6. CostsOf(selected', OperandEdges(live, x)) = CostsOf(selected, OperandEdges(live, x))
    BY <2>4, <2>5, SameCosts
  <2>7. CostsOf(selected', UserEdges(live, x)) = CostsOf(selected, UserEdges(live, x))
    BY <2>4, <2>5, SameCosts
  <2> QED
    BY <2>3, <2>6, <2>7 DEF CostOK
<1>9. \A x \in around : NodePending(x)'
  BY <1>4 DEF NodePending
<1> QED
  BY <1>1, <1>8, <1>9 DEF CostChecked

\* The other steps change neither the selection nor the graph.
LEMMA RestCost ==
  ASSUME SoundState, CostChecked,
         \/ ProcessNode \/ Return \/ invalidate_suboptimal_op_models \/ finish \/ Done
         \/ UNCHANGED vars
         \/ \E n \in Nodes, m \in Models : set_filter_grid_size(n, m)
  PROVE  CostChecked'
<1>1. CASE ProcessNode
  BY <1>1 DEF ProcessNode, CostChecked
<1>2. CASE Return
  <2>1. phase = "update" /\ needs_update = <<>> /\ todo = <<>> /\ UNCHANGED <<live, selected>>
    BY <1>2 DEF Return
  <2>2. Range(needs_update) = {} /\ Range(todo) = {}
    BY <2>1 DEF Range
  <2> QED
    BY <2>1, <2>2 DEF CostChecked, NodePending
<1>3. CASE \/ invalidate_suboptimal_op_models \/ finish
           \/ \E n \in Nodes, m \in Models : set_filter_grid_size(n, m)
  <2>1. phase = "idle" /\ UNCHANGED <<live, selected>>
    BY <1>3 DEF invalidate_suboptimal_op_models, finish, set_filter_grid_size
  <2>2. \A n \in Nodes : WholeIn(DOMAIN selected, live, n) => CostOK(selected, live, n)
    BY <2>1, AtRestCost
  <2> QED
    BY <2>1, <2>2 DEF CostChecked
<1>4. CASE Done \/ UNCHANGED vars
  <2>1. UNCHANGED <<live, selected, needs_update, todo, phase>>
    BY <1>4 DEF Done, vars
  <2> QED
    BY <2>1 DEF CostChecked, NodePending
<1> QED
  BY <1>1, <1>2, <1>3, <1>4

\* Every step keeps the costs of selected nodes checked or on the list.
LEMMA StepCost ==
  ASSUME SoundState, SolutionsKept, Picked, CostChecked, Next PROVE CostChecked'
<1>1. CASE Construct \/ CutEpoch \/ (\E n \in Nodes : CutRibbon(n)) \/ \E e \in Edges : buffer(e)
  <2>1. \E edges, off, retry : Resolve(edges, off, retry)
    BY <1>1 DEF Construct, CutEpoch, CutRibbon, Cut, buffer
  <2> QED
    BY <2>1, ResolveCost
<1>2. CASE SolverStep
  BY <1>2, ResolveEdgeCost, EdgesDoneCost, NextRootCost, UpdateNodeCost, RestCost DEF SolverStep
<1>3. CASE invalidate_suboptimal_op_models \/ finish \/ Done
  BY <1>3, RestCost
<1>4. CASE \E n \in Nodes, m \in Models : Set(n, m) \/ set_filter_grid_size(n, m)
  BY <1>4, SetCost, RestCost
<1> QED
  BY <1>1, <1>2, <1>3, <1>4 DEF Next

\* What finish hands over solves the problem.
LEMMA WhatIsFinishedSolves ==
  ASSUME SoundState, SolutionsKept, PathsFit, Checked, Picked, CostChecked PROVE FinishedSolves
<1> SUFFICES ASSUME phase = "finished" PROVE Solves(selected)
  BY DEF FinishedSolves
<1>1. Kind /\ TypeOK /\ live \subseteq AllEdges /\ DOMAIN paths = live /\ DOMAIN selected = Visible
  BY DEF Kind, SoundState, Shape, TypeOK, Picked
<1>2. \A n \in DOMAIN selected : selected[n] \notin disabled[n] /\ n \in Nodes
  BY <1>1 DEF Picked, TypeOK
<1>3. \A e \in live : e[1] \in DOMAIN selected /\ e[2] \in DOMAIN selected
  BY <1>1 DEF Visible
<1>4. ASSUME NEW e \in live PROVE <<selected[e[1]], selected[e[2]]>> \in problem.fits[e]
  <2>1. Consistent(e)
    BY AtRestConsistent
  <2>2. paths[e] # {} /\ bitset[e[1]] = Producers(paths[e]) /\ bitset[e[2]] = Consumers(paths[e])
    BY <2>1 DEF Consistent, ConsistentIn, Work
  <2>3. PICK q \in paths[e] : TRUE
    BY <2>2
  <2>4. q[1] \in bitset[e[1]] /\ q[2] \in bitset[e[2]]
    BY <2>2, <2>3 DEF Producers, Consumers
  <2>5. q[1] = selected[e[1]] /\ q[2] = selected[e[2]]
    BY <1>1, <1>3, <2>4, SelectedNarrow
  <2>6. q \in Pairs /\ q \in problem.fits[e]
    BY <1>1, <2>3 DEF TypeOK, PathsFit
  <2>7. q = <<q[1], q[2]>>
    BY <2>6 DEF Pairs
  <2> QED
    BY <2>5, <2>6, <2>7
<1>5. ASSUME NEW n \in DOMAIN selected PROVE CostOK(selected, live, n)
  <2>1. WholeIn(DOMAIN selected, live, n)
    BY <1>3 DEF WholeIn
  <2> QED
    BY <1>2, <2>1, AtRestCost
<1>6. SolvesIn(selected, problem, live, disabled)
  BY <1>2, <1>4, <1>5 DEF SolvesIn, CostOK
<1> QED
  BY <1>6, SolvesIs

\* What set() selects stays selected through every cut, buffering and pass, and what finish()
\* hands over
\* is allowed on every edge and within the limit at every node, on every graph and for every cost.
THEOREM SolutionIsLegal == Spec => []SolutionLegal
<1> DEFINE IInv == Sound /\ PathsFit /\ Checked /\ Picked /\ Lonely /\ CostChecked
<1>1. Init => IInv
  BY InitSound, InitKeeps, InitFits, InitPicked, InitLonely, InitCost DEF Sound
<1>2. IInv /\ [Next]_vars => IInv'
  <2> SUFFICES ASSUME IInv, [Next]_vars PROVE IInv'
    OBVIOUS
  <2>1. SoundState' /\ SolutionsKept'
    BY StepSound, StutterSound, StepKeeps, RestKeeps DEF Sound
  <2>2. PathsFit' /\ Checked'
    BY StepFits, RestFits DEF Sound
  <2>3. Picked' /\ Lonely' /\ CostChecked'
    BY StepPicked, RestPicked, StepLonely, RestLonely, StepCost, RestCost DEF Sound
  <2> QED
    BY <2>1, <2>2, <2>3 DEF Sound
<1>3. IInv => SolutionLegal
  BY SelectionIsKept, FinishIsSafe, WhatIsFinishedSolves DEF Sound, SolutionLegal
<1> QED
  BY <1>1, <1>2, <1>3, PTL DEF Spec

=============================================================================
