------------------------ MODULE InteractivePlacerProofs ------------------------
(***************************************************************************)
(* What holds of every interactive placement, for every graph, every       *)
(* number and grid of chips, every override and every order of calls.      *)
(***************************************************************************)
EXTENDS InteractivePlacer, DeviceGridTheorems

-----------------------------------------------------------------------------
(***************************************************************************)
(* The epochs of one temporal epoch.                                       *)
(***************************************************************************)
\* The epochs from f on are temporal epoch t: it runs every chip of S once.
Whole(e, f, t, S) ==
    /\ \A j \in f .. f + Len(S) - 1 : e[j].temporal = t /\ e[j].spatial = j - f
    /\ {e[j].chip : j \in f .. f + Len(S) - 1} = Range(S)

\* The epochs before b are whole temporal epochs, all of them before t.
PastWhole(e, b, t, S) ==
    /\ \A i \in 0 .. b - 1 :
          /\ e[i].spatial \in 0 .. Len(S) - 1 /\ i - e[i].spatial \in 0 .. b - Len(S)
          /\ e[i].temporal \in Nat /\ e[i].temporal < t
          /\ Whole(e, i - e[i].spatial, e[i].temporal, S)
    /\ \A i, j \in 0 .. b - 1 :
          e[i].temporal = e[j].temporal => i - e[i].spatial = j - e[j].spatial

\* The epochs from f up to k are of temporal epoch t, one chip of S each, and the
\* chips of rem are the others; epochs that were opened and taken back are not
\* beyond the end of the temporal epoch.
Spread(e, f, k, t, rem, S) ==
    /\ f \in Nat /\ k \in Nat /\ f <= k
    /\ k - f + Len(rem) = Len(S)
    /\ \A i \in f .. k - 1 : /\ e[i].temporal = t /\ e[i].spatial = i - f
                             /\ e[i].chip \in Range(S)
    /\ \A i, j \in f .. k - 1 : e[i].chip = e[j].chip => i = j
    /\ Range(rem) = Range(S) \ {e[i].chip : i \in f .. k - 1}
    /\ 0 .. k - 1 \subseteq DOMAIN e /\ DOMAIN e \subseteq 0 .. f + Len(S) - 1
    /\ PastWhole(e, f, t, S)

\* What PastWhole says of the epochs before b does not depend on the others.
LEMMA PastFrame ==
  ASSUME NEW e, NEW e2, NEW b \in Nat, NEW t \in Nat, NEW S, Len(S) \in Nat, PastWhole(e, b, t, S),
         \A i \in 0 .. b - 1 : e2[i] = e[i]
  PROVE  PastWhole(e2, b, t, S)
<1> DEFINE I == 0 .. b - 1
<1>1. ASSUME NEW i \in I
      PROVE  /\ e2[i].spatial \in 0 .. Len(S) - 1 /\ i - e2[i].spatial \in 0 .. b - Len(S)
             /\ e2[i].temporal \in Nat /\ e2[i].temporal < t
             /\ Whole(e2, i - e2[i].spatial, e2[i].temporal, S)
  <2> DEFINE f == i - e[i].spatial
             u == e[i].temporal
             J == f .. f + Len(S) - 1
  <2>1. /\ e[i].spatial \in 0 .. Len(S) - 1 /\ f \in 0 .. b - Len(S)
        /\ u \in Nat /\ u < t /\ Whole(e, f, u, S) /\ e2[i] = e[i]
    BY <1>1 DEF PastWhole
  <2>2. J \subseteq I
    <3>1. f \in 0 .. b - Len(S)
      BY <2>1
    <3> HIDE DEF f
    <3> QED
      BY <3>1
  <2>3. \A j \in J : e2[j] = e[j]
    BY <2>2
  <2>4. \A j \in J : e2[j].temporal = u /\ e2[j].spatial = j - f
    BY <2>1, <2>3 DEF Whole
  <2>5. {e2[j].chip : j \in J} = Range(S)
    <3>1. {e[j].chip : j \in J} = Range(S)
      BY <2>1 DEF Whole
    <3> HIDE DEF J
    <3> QED
      BY <2>3, <3>1
  <2>6. Whole(e2, f, u, S)
    BY <2>4, <2>5 DEF Whole
  <2> QED
    BY <2>1, <2>6
<1>2. \A i, j \in I : e2[i].temporal = e2[j].temporal => i - e2[i].spatial = j - e2[j].spatial
  BY DEF PastWhole
<1> QED
  BY <1>1, <1>2 DEF PastWhole

\* A temporal epoch that is whole is added to the ones before it.
LEMMA PastGrows ==
  ASSUME NEW e, NEW b \in Nat, NEW t \in Nat, NEW S, Len(S) \in Nat, PastWhole(e, b, t, S),
         Whole(e, b, t, S)
  PROVE  PastWhole(e, b + Len(S), t + 1, S)
<1> DEFINE n == Len(S)
           I == 0 .. b + n - 1
<1>1. ASSUME NEW i \in I
      PROVE  \/ /\ i \in 0 .. b - 1
                /\ e[i].spatial \in 0 .. n - 1 /\ i - e[i].spatial \in 0 .. b - n
                /\ e[i].temporal \in Nat /\ e[i].temporal < t
                /\ Whole(e, i - e[i].spatial, e[i].temporal, S)
             \/ /\ i \in b .. b + n - 1 /\ e[i].temporal = t /\ e[i].spatial = i - b
                /\ i - e[i].spatial = b
  <2>1. CASE i < b
    BY <2>1, <1>1 DEF PastWhole
  <2>2. CASE b <= i
    <3>1. i \in b .. b + n - 1
      BY <2>2, <1>1
    <3>2. e[i].temporal = t /\ e[i].spatial = i - b
      BY <3>1 DEF Whole
    <3> QED
      BY <3>1, <3>2
  <2> QED
    BY <2>1, <2>2
<1>2. ASSUME NEW i \in I
      PROVE  /\ e[i].spatial \in 0 .. n - 1 /\ i - e[i].spatial \in 0 .. (b + n) - n
             /\ e[i].temporal \in Nat /\ e[i].temporal < t + 1
             /\ Whole(e, i - e[i].spatial, e[i].temporal, S)
  <2>1. CASE i \in 0 .. b - 1
    <3>1. /\ e[i].spatial \in 0 .. n - 1 /\ i - e[i].spatial \in 0 .. b - n
          /\ e[i].temporal \in Nat /\ e[i].temporal < t
          /\ Whole(e, i - e[i].spatial, e[i].temporal, S)
      BY <1>1, <2>1
    <3> QED
      BY SMTT(30), <3>1
  <2>2. CASE ~(i \in 0 .. b - 1)
    <3>1. /\ i \in b .. b + n - 1 /\ e[i].temporal = t /\ e[i].spatial = i - b
          /\ i - e[i].spatial = b
      BY <1>1, <2>2
    <3>2. Whole(e, i - e[i].spatial, e[i].temporal, S)
      BY <3>1
    <3> QED
      BY <3>1, <3>2
  <2> QED
    BY <2>1, <2>2
<1>3. ASSUME NEW i \in I, NEW j \in I, e[i].temporal = e[j].temporal
      PROVE  i - e[i].spatial = j - e[j].spatial
  <2>1. CASE i \in 0 .. b - 1 /\ j \in 0 .. b - 1
    BY <2>1, <1>3 DEF PastWhole
  <2>2. CASE ~(i \in 0 .. b - 1) /\ ~(j \in 0 .. b - 1)
    BY <2>2, <1>1
  <2>3. CASE i \in 0 .. b - 1 /\ ~(j \in 0 .. b - 1)
    <3>1. e[i].temporal \in Nat /\ e[i].temporal < t
      BY <2>3 DEF PastWhole
    <3>2. e[j].temporal = t
      BY <1>1, <2>3
    <3> QED
      BY <3>1, <3>2, <1>3
  <2>4. CASE ~(i \in 0 .. b - 1) /\ j \in 0 .. b - 1
    <3>1. e[j].temporal \in Nat /\ e[j].temporal < t
      BY <2>4 DEF PastWhole
    <3>2. e[i].temporal = t
      BY <1>1, <2>4
    <3> QED
      BY <3>1, <3>2, <1>3
  <2> QED
    BY <2>1, <2>2, <2>3, <2>4
<1> HIDE DEF n
<1>4. PastWhole(e, b + n, t + 1, S)
  BY <1>2, <1>3 DEF PastWhole, n
<1> QED
  BY <1>4 DEF n

\* A temporal epoch that was opened and taken back to its start.
LEMMA SpreadStart ==
  ASSUME NEW e, NEW f \in Nat, NEW t \in Nat, NEW S \in Seq(Nat), NEW rem \in Seq(Nat),
         PastWhole(e, f, t, S), Len(rem) = Len(S), Range(rem) = Range(S),
         0 .. f - 1 \subseteq DOMAIN e, DOMAIN e \subseteq 0 .. f + Len(S) - 1
  PROVE  Spread(e, f, f, t, rem, S)
<1>1. f .. f - 1 = {}
  OBVIOUS
<1>2. {e[i].chip : i \in f .. f - 1} = {}
  BY <1>1
<1> QED
  BY <1>1, <1>2 DEF Spread

\* The next chip of a temporal epoch gets its epoch.
LEMMA SpreadNext ==
  ASSUME NEW e, NEW e2, NEW f, NEW k, NEW t \in Nat, NEW S \in Seq(Nat),
         NEW rem \in Seq(Nat), NEW left \in Seq(Nat), NEW chip \in Range(rem),
         Spread(e, f, k, t, rem, S),
         Range(left) = Range(rem) \ {chip}, Len(left) + 1 = Len(rem),
         DOMAIN e2 = DOMAIN e \cup {k}, \A i \in DOMAIN e : i # k => e2[i] = e[i],
         e2[k].chip = chip, e2[k].temporal = t, e2[k].spatial = k - f
  PROVE  Spread(e2, f, k + 1, t, left, S)
<1>1. /\ f \in Nat /\ k \in Nat /\ f <= k /\ k - f + Len(rem) = Len(S)
      /\ Range(rem) = Range(S) \ {e[i].chip : i \in f .. k - 1}
      /\ 0 .. k - 1 \subseteq DOMAIN e /\ DOMAIN e \subseteq 0 .. f + Len(S) - 1
      /\ PastWhole(e, f, t, S)
  BY DEF Spread
<1>2. \A i \in f .. k - 1 : e[i].temporal = t /\ e[i].spatial = i - f /\ e[i].chip \in Range(S)
  BY DEF Spread
<1>3. \A i, j \in f .. k - 1 : e[i].chip = e[j].chip => i = j
  BY DEF Spread
<1>4. \A i \in 0 .. k - 1 : e2[i] = e[i]
  BY <1>1
<1>5. f .. (k + 1) - 1 = (f .. k - 1) \cup {k}
  BY <1>1
<1>6. \A i \in f .. k - 1 : i \in 0 .. k - 1 /\ e2[i] = e[i]
  BY <1>1, <1>4
<1>7. chip \in Range(S) /\ \A i \in f .. k - 1 : e[i].chip # chip
  BY <1>1
<1>8. \A i \in f .. (k + 1) - 1 : /\ e2[i].temporal = t /\ e2[i].spatial = i - f
                                  /\ e2[i].chip \in Range(S)
  BY <1>2, <1>5, <1>6, <1>7
<1>9. \A i, j \in f .. (k + 1) - 1 : e2[i].chip = e2[j].chip => i = j
  BY <1>3, <1>5, <1>6, <1>7
<1>10. {e2[i].chip : i \in f .. (k + 1) - 1} = {e[i].chip : i \in f .. k - 1} \cup {chip}
  <2> DEFINE I == f .. k - 1
  <2>1. \A i \in I : e2[i] = e[i]
    BY <1>6
  <2>2. f .. (k + 1) - 1 = I \cup {k}
    BY <1>5
  <2> HIDE DEF I
  <2>3. {e2[i].chip : i \in I \cup {k}} = {e[i].chip : i \in I} \cup {chip}
    BY <2>1
  <2> QED
    BY <2>2, <2>3 DEF I
<1>11. Range(left) = Range(S) \ {e2[i].chip : i \in f .. (k + 1) - 1}
  BY <1>1, <1>10
<1>12. Len(left) \in Nat /\ Len(rem) \in Nat /\ Len(S) \in Nat
  OBVIOUS
<1>13. 0 .. (k + 1) - 1 \subseteq DOMAIN e2 /\ DOMAIN e2 \subseteq 0 .. f + Len(S) - 1
  <2>1. k \in 0 .. f + Len(S) - 1
    BY <1>1, <1>12
  <2>2. 0 .. (k + 1) - 1 = (0 .. k - 1) \cup {k}
    BY <1>1
  <2> QED
    BY <1>1, <2>1, <2>2
<1>14. PastWhole(e2, f, t, S)
  <2>1. f \in Nat /\ f <= k /\ k \in Nat /\ PastWhole(e, f, t, S)
    BY <1>1
  <2>3. \A i \in 0 .. f - 1 : i \in 0 .. k - 1
    BY <2>1
  <2>2. \A i \in 0 .. f - 1 : e2[i] = e[i]
    BY <1>4, <2>3
  <2> QED
    BY <1>12, <2>1, <2>2, PastFrame
<1>15. (k + 1) - f + Len(left) = Len(S) /\ f <= k + 1 /\ k + 1 \in Nat
  <2>1. f \in Nat /\ k \in Nat /\ f <= k /\ k - f + Len(rem) = Len(S)
    BY <1>1
  <2> HIDE <1>1
  <2> QED
    BY SMTT(30), <1>12, <2>1
<1> QED
  BY <1>1, <1>8, <1>9, <1>11, <1>13, <1>14, <1>15 DEF Spread

\* The last chip of a temporal epoch goes back to the chips that are left.
LEMMA SpreadBack ==
  ASSUME NEW e, NEW f, NEW k \in Nat, NEW t \in Nat, NEW S \in Seq(Nat), NEW rem \in Seq(Nat),
         NEW back \in Seq(Nat), Spread(e, f, k + 1, t, rem, S), f <= k,
         Len(back) = Len(rem) + 1, Range(back) = Range(rem) \cup {e[k].chip}
  PROVE  Spread(e, f, k, t, back, S)
<1>1. /\ f \in Nat /\ (k + 1) - f + Len(rem) = Len(S)
      /\ Range(rem) = Range(S) \ {e[i].chip : i \in f .. (k + 1) - 1}
      /\ 0 .. (k + 1) - 1 \subseteq DOMAIN e /\ DOMAIN e \subseteq 0 .. f + Len(S) - 1
      /\ PastWhole(e, f, t, S)
  BY DEF Spread
<1>2. \A i \in f .. (k + 1) - 1 : e[i].temporal = t /\ e[i].spatial = i - f /\ e[i].chip \in Range(S)
  BY DEF Spread
<1>3. \A i, j \in f .. (k + 1) - 1 : e[i].chip = e[j].chip => i = j
  BY DEF Spread
<1>0. f \in Nat
  BY <1>1
<1>4. f .. (k + 1) - 1 = (f .. k - 1) \cup {k} /\ k \notin f .. k - 1
  BY <1>0
<1>5. e[k].chip \in Range(S) /\ \A i \in f .. k - 1 : e[i].chip # e[k].chip
  BY <1>2, <1>3, <1>4
<1>6. Range(back) = Range(S) \ {e[i].chip : i \in f .. k - 1}
  <2> DEFINE I == f .. k - 1
  <2>1. f .. (k + 1) - 1 = I \cup {k} /\ \A i \in I : e[i].chip # e[k].chip
    BY <1>4, <1>5
  <2> HIDE DEF I
  <2>2. {e[i].chip : i \in I \cup {k}} = {e[i].chip : i \in I} \cup {e[k].chip}
    OBVIOUS
  <2>3. e[k].chip \notin {e[i].chip : i \in I}
    BY <2>1
  <2>4. Range(back) = Range(S) \ {e[i].chip : i \in I}
    BY <1>1, <1>5, <2>1, <2>2, <2>3
  <2> QED
    BY <2>4 DEF I
<1>7. 0 .. k - 1 \subseteq 0 .. (k + 1) - 1
  OBVIOUS
<1>8. Len(rem) \in Nat /\ Len(S) \in Nat
  OBVIOUS
<1>9. k - f + Len(back) = Len(S)
  BY <1>1, <1>8
<1> QED
  BY <1>1, <1>2, <1>3, <1>4, <1>6, <1>7, <1>9 DEF Spread

\* A temporal epoch whose other chips get an epoch each is whole.
LEMMA SpreadFilled ==
  ASSUME NEW e, NEW e2, NEW f, NEW k, NEW t \in Nat, NEW S \in Seq(Nat), NEW rem \in Seq(Nat),
         Spread(e, f, k, t, rem, S),
         \A i \in 0 .. k - 1 : e2[i] = e[i],
         \A i \in k .. k + Len(rem) - 1 : /\ e2[i].chip = rem[(i - k) + 1] /\ e2[i].temporal = t
                                          /\ e2[i].spatial = i - f
  PROVE  /\ k + Len(rem) = f + Len(S)
         /\ PastWhole(e2, f + Len(S), t + 1, S)
<1>1. /\ f \in Nat /\ k \in Nat /\ f <= k /\ k - f + Len(rem) = Len(S)
      /\ Range(rem) = Range(S) \ {e[i].chip : i \in f .. k - 1}
      /\ PastWhole(e, f, t, S)
  BY DEF Spread
<1>2. \A i \in f .. k - 1 : e[i].temporal = t /\ e[i].spatial = i - f /\ e[i].chip \in Range(S)
  BY DEF Spread
<1>3. Len(rem) \in Nat /\ Len(S) \in Nat /\ DOMAIN rem = 1 .. Len(rem)
  OBVIOUS
<1> DEFINE I == f .. k - 1
           J == k .. k + Len(rem) - 1
<1>4. f .. f + Len(S) - 1 = I \cup J
  BY <1>1, <1>3
<1>5. \A i \in I : e2[i] = e[i]
  BY <1>1
<1>6. {e2[i].chip : i \in J} = Range(rem)
  <2>1. \A i \in J : (i - k) + 1 \in DOMAIN rem /\ e2[i].chip = rem[(i - k) + 1]
    BY <1>1, <1>3
  <2>2. \A x \in DOMAIN rem : (x + k) - 1 \in J /\ e2[(x + k) - 1].chip = rem[x]
    <3> SUFFICES ASSUME NEW x \in DOMAIN rem
                 PROVE  (x + k) - 1 \in J /\ e2[(x + k) - 1].chip = rem[x]
      OBVIOUS
    <3>1. (x + k) - 1 \in J /\ (((x + k) - 1) - k) + 1 = x
      BY <1>1, <1>3
    <3> QED
      BY <3>1
  <2> HIDE DEF J
  <2>3. {e2[i].chip : i \in J} \subseteq Range(rem)
    BY <2>1 DEF Range
  <2>4. Range(rem) \subseteq {e2[i].chip : i \in J}
    BY <2>2 DEF Range
  <2> QED
    BY <2>3, <2>4
<1>7. {e2[i].chip : i \in I \cup J} = Range(S)
  <2>1. {e[i].chip : i \in I} \subseteq Range(S) /\ Range(rem) = Range(S) \ {e[i].chip : i \in I}
    BY <1>1, <1>2
  <2> HIDE DEF I, J
  <2>2. {e2[i].chip : i \in I} = {e[i].chip : i \in I}
    BY <1>5
  <2>3. {e2[i].chip : i \in I \cup J} = {e2[i].chip : i \in I} \cup {e2[i].chip : i \in J}
    OBVIOUS
  <2> QED
    BY <1>6, <2>1, <2>2, <2>3
<1>8. \A j \in I \cup J : e2[j].temporal = t /\ e2[j].spatial = j - f
  <2>1. \A j \in I : e2[j].temporal = t /\ e2[j].spatial = j - f
    BY <1>2, <1>5
  <2>2. \A j \in J : e2[j].temporal = t /\ e2[j].spatial = j - f
    OBVIOUS
  <2> QED
    BY <2>1, <2>2
<1>9. Whole(e2, f, t, S)
  BY <1>4, <1>7, <1>8 DEF Whole
<1>10. PastWhole(e2, f, t, S)
  <2>1. \A i \in 0 .. f - 1 : e2[i] = e[i]
    BY <1>1
  <2> QED
    BY <1>1, <1>3, <2>1, PastFrame
<1> QED
  BY <1>1, <1>3, <1>9, <1>10, PastGrows

\* Temporal epoch u runs every chip of S once, with spatial epochs counted from 0.
RunsAll(e, u, S) ==
    LET mine == {i \in DOMAIN e : e[i].temporal = u}
    IN  /\ Cardinality(mine) = Len(S)
        /\ {e[i].chip : i \in mine} = Range(S)
        /\ {e[i].spatial : i \in mine} = 0 .. Len(S) - 1

\* Every temporal epoch of a solution that consists of whole ones is complete.
LEMMA PastComplete ==
  ASSUME NEW e, NEW b \in Nat, NEW t, NEW S \in Seq(Nat), PastWhole(e, b, t, S),
         DOMAIN e = 0 .. b - 1, NEW u \in {e[i].temporal : i \in DOMAIN e}
  PROVE  RunsAll(e, u, S)
<1> DEFINE mine == {i \in DOMAIN e : e[i].temporal = u}
           n == Len(S)
<1>1. n \in Nat
  OBVIOUS
<1>2. PICK i \in 0 .. b - 1 : u = e[i].temporal
  OBVIOUS
<1> DEFINE f == i - e[i].spatial
           J == f .. f + n - 1
<1>3. /\ e[i].spatial \in 0 .. n - 1 /\ f \in 0 .. b - n /\ Whole(e, f, u, S)
  BY <1>2 DEF PastWhole
<1>4. \A j \in J : e[j].temporal = u /\ e[j].spatial = j - f
  BY <1>3 DEF Whole
<1>5. J \subseteq 0 .. b - 1
  BY <1>1, <1>3
<1>6. mine = J
  <2>1. J \subseteq mine
    BY <1>4, <1>5
  <2>2. ASSUME NEW j \in mine PROVE j \in J
    <3>1. j \in 0 .. b - 1 /\ e[j].temporal = u
      OBVIOUS
    <3>2. j - e[j].spatial = f
      BY <1>2, <3>1 DEF PastWhole
    <3>3. e[j].spatial \in 0 .. n - 1
      BY <3>1 DEF PastWhole
    <3> QED
      BY <1>1, <1>3, <3>1, <3>2, <3>3
  <2> QED
    BY <2>1, <2>2
<1>7. {e[j].chip : j \in J} = Range(S)
  BY <1>3 DEF Whole
<1>8. Cardinality(J) = n
  <2>1. f \in Int /\ f + n - 1 \in Int
    BY <1>1, <1>3
  <2>2. Cardinality(J) = IF f > f + n - 1 THEN 0 ELSE (f + n - 1) - f + 1
    BY <2>1, FS_Interval
  <2>3. f \in Int /\ (~(f > f + n - 1) \/ n = 0)
    BY <1>1, <2>1
  <2>4. n # 0
    BY <1>3
  <2> QED
    BY <1>1, <2>1, <2>2, <2>3, <2>4
<1>9. {e[j].spatial : j \in J} = 0 .. n - 1
  <2>0. f \in Int
    BY <1>3
  <2>1. \A j \in J : j - f \in 0 .. n - 1
    BY <1>1, <2>0
  <2>2. \A x \in 0 .. n - 1 : f + x \in J /\ (f + x) - f = x
    <3> HIDE DEF f, n
    <3> QED
      BY <1>1, <2>0
  <2>3. {e[j].spatial : j \in J} \subseteq 0 .. n - 1
    BY <1>4, <2>1
  <2>4. 0 .. n - 1 \subseteq {e[j].spatial : j \in J}
    <3> SUFFICES ASSUME NEW x \in 0 .. n - 1 PROVE x \in {e[j].spatial : j \in J}
      OBVIOUS
    <3>1. f + x \in J /\ e[f + x].spatial = x
      BY <1>4, <2>2
    <3> QED
      BY <3>1
  <2> QED
    BY <2>3, <2>4
<1> QED
  BY <1>6, <1>7, <1>8, <1>9 DEF RunsAll

-----------------------------------------------------------------------------
(***************************************************************************)
(* The pool of chips.                                                      *)
(***************************************************************************)
\* A sequence without repetitions, but for its head.
LEMMA TailOf ==
  ASSUME NEW X, NEW s \in Seq(X), s # <<>>, IsInjective(s)
  PROVE  /\ s[1] \in Range(s) /\ Tail(s) \in Seq(X) /\ IsInjective(Tail(s))
         /\ Range(Tail(s)) = Range(s) \ {s[1]}
         /\ Len(Tail(s)) + 1 = Len(s)
<1> DEFINE u == Tail(s)
           n == Len(s)
<1>1. /\ n \in Nat /\ n > 0 /\ DOMAIN s = 1 .. n
      /\ u \in Seq(X) /\ Len(u) + 1 = n /\ DOMAIN u = 1 .. n - 1
      /\ \A i \in 1 .. n - 1 : u[i] = s[i + 1]
  OBVIOUS
<1> HIDE DEF u, n
<1>2. \A i \in DOMAIN u : i + 1 \in DOMAIN s /\ u[i] = s[i + 1] /\ i + 1 # 1
  BY <1>1
<1>3. \A k \in DOMAIN s : k = 1 \/ (k - 1 \in DOMAIN u /\ u[k - 1] = s[k])
  <2> SUFFICES ASSUME NEW k \in DOMAIN s, k # 1 PROVE k - 1 \in DOMAIN u /\ u[k - 1] = s[k]
    OBVIOUS
  <2>1. k - 1 \in 1 .. n - 1 /\ (k - 1) + 1 = k
    BY <1>1
  <2> QED
    BY <1>1, <2>1
<1>4. 1 \in DOMAIN s
  BY <1>1
<1>5. IsInjective(u)
  <2> SUFFICES ASSUME NEW i \in DOMAIN u, NEW j \in DOMAIN u, u[i] = u[j] PROVE i = j
    BY DEF IsInjective
  <2>1. i + 1 = j + 1
    BY <1>2 DEF IsInjective
  <2> QED
    BY <1>1, <2>1
<1>6. \A i \in DOMAIN u : u[i] # s[1]
  BY <1>2, <1>4 DEF IsInjective
<1>7. Range(u) = Range(s) \ {s[1]}
  <2>1. Range(u) \subseteq Range(s) \ {s[1]}
    BY <1>2, <1>6 DEF Range
  <2>2. Range(s) \ {s[1]} \subseteq Range(u)
    BY <1>3 DEF Range
  <2> QED
    BY <2>1, <2>2
<1> QED
  BY <1>1, <1>4, <1>5, <1>7 DEF u, n, Range

\* One chip is asked for, or none: it is found if it is left.
LEMMA FilterOne ==
  ASSUME NEW s \in Seq(Int), Len(s) <= 1, NEW R
  PROVE  /\ Filter(s, R) \in Seq(Int)
         /\ Range(Filter(s, R)) = Range(s) \cap R
         /\ Len(Filter(s, R)) = IF Range(s) \cap R = {} THEN 0 ELSE 1
<1> DEFINE f == Filter(s, R)
<1>1. Len(s) \in Nat /\ DOMAIN s = 1 .. Len(s)
  OBVIOUS
<1>2. \A i, j \in DOMAIN s : i = j
  BY <1>1
<1>3. IsInjective(s)
  BY <1>2 DEF IsInjective
<1>4. f \in Seq(Int) /\ Range(f) = Range(s) \cap R /\ IsInjective(f)
  BY <1>3, FilterRange
<1> HIDE DEF f
<1>5. Len(f) \in Nat /\ DOMAIN f = 1 .. Len(f)
  BY <1>4
<1>6. \A x, y \in Range(s) : x = y
  BY <1>2 DEF Range
<1>7. Range(f) = {} => Len(f) = 0
  <2> SUFFICES ASSUME Range(f) = {}, Len(f) # 0 PROVE FALSE
    BY <1>5
  <2>1. 1 \in DOMAIN f
    BY <1>5
  <2> QED
    BY <2>1 DEF Range
<1>8. Range(f) # {} => Len(f) = 1
  <2> SUFFICES ASSUME NEW x \in Range(f), Len(f) # 1 PROVE FALSE
    OBVIOUS
  <2>1. Len(f) # 0
    BY <1>5 DEF Range
  <2>2. 1 \in DOMAIN f /\ 2 \in DOMAIN f
    BY <1>5, <2>1
  <2>3. f[1] = f[2]
    BY <1>4, <1>6, <2>2 DEF Range
  <2> QED
    BY <1>4, <2>2, <2>3 DEF IsInjective
<1> QED
  BY <1>4, <1>7, <1>8 DEF f

\* next_chip_id takes one chip from the pool, the requested one if it is left.
LEMMA NextChipId ==
  ASSUME NEW rem \in Seq(Nat), rem # <<>>, IsInjective(rem), NEW req \in Seq(Int), Len(req) <= 1
  PROVE  LET pick == next_chip_id(rem, req)
         IN  /\ pick.chip \in Range(rem)
             /\ pick.left \in Seq(Nat) /\ IsInjective(pick.left)
             /\ Range(pick.left) = Range(rem) \ {pick.chip}
             /\ Len(pick.left) + 1 = Len(rem)
             /\ \A c \in Range(req) : c \in Range(rem) => pick.chip = c
<1> DEFINE pick == next_chip_id(rem, req)
           w == Filter(req, Range(rem))
           left == Filter(rem, Range(rem) \ {w[1]})
<1>1. pick = IF w # <<>> THEN [chip |-> w[1], left |-> left]
             ELSE [chip |-> rem[1], left |-> Tail(rem)]
  BY DEF next_chip_id
<1>2. /\ w \in Seq(Int) /\ Range(w) = Range(req) \cap Range(rem)
      /\ Len(w) = IF Range(req) \cap Range(rem) = {} THEN 0 ELSE 1
  BY FilterOne
<1>3. left \in Seq(Nat) /\ IsInjective(left) /\ Range(left) = Range(rem) \cap (Range(rem) \ {w[1]})
  BY FilterRange
<1> HIDE DEF pick, w, left
<1>4. CASE w # <<>>
  <2>1. Len(w) = 1 /\ DOMAIN w = 1 .. 1
    BY <1>2, <1>4
  <2>2. w[1] \in Range(w) /\ \A c \in Range(w) : c = w[1]
    BY <2>1 DEF Range
  <2>3. pick.chip = w[1] /\ pick.left = left
    BY <1>1, <1>4
  <2>4. Range(left) = Range(rem) \ {w[1]} /\ w[1] \in Range(rem)
    BY <1>2, <1>3, <2>2
  <2>5. Len(left) + 1 = Len(rem)
    <3>1. IsFiniteSet(Range(rem)) /\ Cardinality(Range(rem)) = Len(rem)
      BY LengthOfInjective
    <3>2. IsFiniteSet(Range(left)) /\ Cardinality(Range(left)) = Len(left)
      BY <1>3, LengthOfInjective
    <3>3. Cardinality(Range(rem) \ {w[1]}) = Cardinality(Range(rem)) - 1
      BY <2>4, <3>1, FS_RemoveElement
    <3>4. Len(left) \in Nat /\ Len(rem) \in Nat
      BY <1>3
    <3> QED
      BY <2>4, <3>1, <3>2, <3>3, <3>4
  <2>6. \A c \in Range(req) : c \in Range(rem) => pick.chip = c
    BY <1>2, <2>2, <2>3
  <2> QED
    BY <1>3, <2>3, <2>4, <2>5, <2>6 DEF pick
<1>5. CASE w = <<>>
  <2>1. pick.chip = rem[1] /\ pick.left = Tail(rem)
    BY <1>1, <1>5
  <2>2. Range(req) \cap Range(rem) = {}
    BY <1>2, <1>5
  <2>3. /\ rem[1] \in Range(rem) /\ Tail(rem) \in Seq(Nat) /\ IsInjective(Tail(rem))
        /\ Range(Tail(rem)) = Range(rem) \ {rem[1]} /\ Len(Tail(rem)) + 1 = Len(rem)
    BY TailOf
  <2> QED
    BY <2>1, <2>2, <2>3 DEF pick
<1> QED
  BY <1>4, <1>5

\* A record with the position that an epoch starts from.
At(e, k, rem) == [epoch |-> e, index |-> k, remaining |-> rem]

\* The epoch at k gets a chip of the pool, and the other epochs stay.
Opened(e, k, rem, temporal, spatial, req) ==
    /\ current_epoch_index' = k
    /\ current_temporal_epoch_id' = temporal /\ current_spatial_epoch_id' = spatial
    /\ current_chip_id' \in Range(rem)
    /\ remaining_chip_ids' \in Seq(Nat) /\ IsInjective(remaining_chip_ids')
    /\ Range(remaining_chip_ids') = Range(rem) \ {current_chip_id'}
    /\ Len(remaining_chip_ids') + 1 = Len(rem)
    /\ DOMAIN epoch' = DOMAIN e \cup {k}
    /\ \A i \in DOMAIN e : i # k => epoch'[i] = e[i]
    /\ epoch'[k] = [chip |-> epoch'[k].chip, temporal |-> epoch'[k].temporal,
                    spatial |-> epoch'[k].spatial, ops |-> epoch'[k].ops, grid |-> epoch'[k].grid]
    /\ epoch'[k].chip = current_chip_id' /\ epoch'[k].temporal = temporal
    /\ epoch'[k].spatial = spatial /\ epoch'[k].ops = <<>>
    /\ epoch'[k].grid = GridOf(current_chip_id)'
    /\ \A c \in Range(req) : c \in Range(rem) => current_chip_id' = c

\* This is what init_epoch does.
LEMMA OpenedEpoch ==
  ASSUME NEW e, NEW k, NEW rem \in Seq(Nat), rem # <<>>, IsInjective(rem),
         NEW temporal, NEW spatial, NEW req \in Seq(Int), Len(req) <= 1,
         init_epoch(At(e, k, rem), temporal, spatial, req), config' = config
  PROVE  Opened(e, k, rem, temporal, spatial, req)
<1> DEFINE pick == next_chip_id(rem, req)
           info == [chip |-> pick.chip, temporal |-> temporal, spatial |-> spatial,
                    ops |-> <<>>, grid |-> GridOf(pick.chip)]
<1>1. At(e, k, rem).epoch = e /\ At(e, k, rem).index = k /\ At(e, k, rem).remaining = rem
  BY DEF At
<1>2. /\ current_chip_id' = pick.chip /\ remaining_chip_ids' = pick.left
      /\ current_epoch_index' = k /\ current_temporal_epoch_id' = temporal
      /\ current_spatial_epoch_id' = spatial
      /\ epoch' = [i \in DOMAIN e \cup {k} |-> IF i = k THEN info ELSE e[i]]
  BY <1>1 DEF init_epoch
<1>3. /\ pick.chip \in Range(rem)
      /\ pick.left \in Seq(Nat) /\ IsInjective(pick.left)
      /\ Range(pick.left) = Range(rem) \ {pick.chip}
      /\ Len(pick.left) + 1 = Len(rem)
      /\ \A c \in Range(req) : c \in Range(rem) => pick.chip = c
  BY NextChipId
<1> HIDE DEF pick
<1>4. epoch'[k] = info
  BY <1>2
<1>5. GridOf(current_chip_id)' = GridOf(pick.chip)
  BY <1>2 DEF GridOf, IsMmio
<1>6. epoch'[k].chip = current_chip_id' /\ epoch'[k].temporal = temporal
         /\ epoch'[k].spatial = spatial /\ epoch'[k].ops = <<>>
         /\ epoch'[k].grid = GridOf(current_chip_id)'
  BY <1>2, <1>4, <1>5
<1> QED
  BY <1>2, <1>3, <1>4, <1>6 DEF Opened

\* The chips of the pool get an empty epoch each, from k on.
InsertedFrom(ins, e, k, rem, spatial, temporal) ==
    LET J == k .. k + Len(rem) - 1
    IN  /\ ins = At(ins.epoch, k + Len(rem), <<>>)
        /\ DOMAIN ins.epoch = DOMAIN e \cup J
        /\ \A i \in DOMAIN e : i \notin J => ins.epoch[i] = e[i]
        /\ \A i \in J : ins.epoch[i] =
              [chip |-> rem[i - k + 1], temporal |-> temporal, spatial |-> spatial + i - k,
               ops |-> <<>>,
               grid |-> IF i \in DOMAIN e THEN e[i].grid ELSE create_empty_device_grid(0, 0)]

\* insert_empty_graphs is what InsertedFrom says.
LEMMA Inserted ==
  ASSUME NEW e, NEW k \in Nat, NEW rem \in Seq(Nat), NEW spatial \in Nat, NEW temporal
  PROVE  InsertedFrom(insert_empty_graphs(At(e, k, rem), spatial, temporal), e, k, rem,
                      spatial, temporal)
BY DEF insert_empty_graphs, At, InsertedFrom

-----------------------------------------------------------------------------
(***************************************************************************)
(* The invariant of the epochs.                                            *)
(***************************************************************************)
Shapes == Pos \X Pos
Places == [chip : Nat, epoch : Nat, start : Nat \X Nat, shape : Shapes, transpose : BOOLEAN]
Grids == [rows : Nat, cols : Nat, used : SUBSET (Nat \X Nat)]
EpochRecords == [chip : Nat, temporal : Nat, spatial : Nat, ops : Seq(Op \X Places), grid : Grids]
Calls == [ops : Seq(Op), shapes : Seq(Shapes), transpose : BOOLEAN, chip_break : BOOLEAN]
Assigns == [epoch : Nat, chip_index : Nat, count : Nat]

\* A pipelined placement is on chip 0 until the solution is committed.
OpenChips == IF config.pipelined THEN {0} ELSE Range(config.chips)
Chips == IF valid \in {"open", "aborted"} THEN OpenChips ELSE Range(config.chips)

\* The chips: each is listed once, and the chips that are left too.
ChipTypes ==
    /\ sorted_chip_ids \in Seq(Nat) /\ IsInjective(sorted_chip_ids)
    /\ Range(sorted_chip_ids) = Chips
    /\ remaining_chip_ids \in Seq(Nat) /\ IsInjective(remaining_chip_ids)
    /\ current_chip_id \in Chips

EpochTypes ==
    /\ current_epoch_index \in Nat /\ current_temporal_epoch_id \in Nat
    /\ current_spatial_epoch_id \in Nat
    /\ \A i \in DOMAIN epoch : epoch[i] \in EpochRecords

NameTypes ==
    /\ placed_ops \in Seq(Op)
    /\ DOMAIN name_to_op_placement \subseteq Op
    /\ \A o \in DOMAIN name_to_op_placement : name_to_op_placement[o] \in Places

CallTypes ==
    /\ num_epochs \in Nat /\ assign \in Assigns
    /\ call \in Calls /\ replay \in Seq(Op \X Places)

TypeInv ==
    /\ config \in Configs
    /\ valid \in {"open", "assigning", "committed", "aborted"}
    /\ ChipTypes /\ EpochTypes /\ NameTypes /\ CallTypes

\* The first epoch of the temporal epoch that is being placed.
Base == current_epoch_index - current_spatial_epoch_id

\* While it is being placed, a temporal epoch has its epochs on distinct chips.
OpenEpochs ==
    valid = "open" =>
        /\ Spread(epoch, Base, current_epoch_index + 1, current_temporal_epoch_id,
                  remaining_chip_ids, sorted_chip_ids)
        /\ epoch[current_epoch_index].chip = current_chip_id
        /\ assign.epoch = 0

\* A committed solution consists of whole temporal epochs.
Committed ==
    valid = "committed" /\ ~config.pipelined =>
        /\ DOMAIN epoch = 0 .. current_epoch_index - 1
        /\ PastWhole(epoch, current_epoch_index, current_temporal_epoch_id + 1, sorted_chip_ids)

\* Of a pipelined solution, the epoch t is temporal epoch t when it has its chip,
\* together with the empty epochs from f on that were added for it.
AssignedFrom(e, t, f, S) ==
    /\ e[t].temporal = t /\ e[t].spatial = 0 /\ e[t].chip \in Range(S)
    /\ \A i \in f .. f + Len(S) - 2 : e[i].temporal = t /\ e[i].spatial = 1 + i - f
    /\ {e[i].chip : i \in f .. f + Len(S) - 2} = Range(S) \ {e[t].chip}

AssignedUpTo(e, t, m, b, S) ==
    /\ \A i \in m .. b - 1 : e[i].temporal \in 0 .. t - 1
    /\ \A u \in 0 .. t - 1 :
          \E f \in m .. b : /\ AssignedFrom(e, u, f, S)
                            /\ f + Len(S) - 1 <= b
                            /\ \A i \in m .. b - 1 : e[i].temporal = u => i \in f .. f + Len(S) - 2

Assigned ==
  /\ valid = "assigning" => config.pipelined
  /\ valid \in {"assigning", "committed"} /\ config.pipelined =>
        /\ assign.epoch \in 0 .. num_epochs
        /\ current_temporal_epoch_id = assign.epoch /\ num_epochs <= current_epoch_index
        /\ remaining_chip_ids = sorted_chip_ids
        /\ DOMAIN epoch = 0 .. current_epoch_index - 1
        /\ AssignedUpTo(epoch, assign.epoch, num_epochs, current_epoch_index, sorted_chip_ids)
        /\ valid = "committed" => assign.epoch = num_epochs

\* What is to be placed is not placed yet, and what was placed is: so the last
\* op is placed in the current epoch.
CallOk ==
    /\ call.ops # <<>> /\ Len(call.ops) <= 2 /\ IsInjective(call.ops)
    /\ Len(call.shapes) = Len(call.ops)
    /\ Len(call.ops) = 2 => call.shapes[1][1] = call.shapes[2][1]
    /\ Range(call.ops) \cap DOMAIN name_to_op_placement = {}

\* The call that places a placement again.
CallOf(o, p) ==
    [ops |-> <<o>>, shapes |-> <<IF p.transpose THEN Transposed(p.shape) ELSE p.shape>>,
     transpose |-> FALSE, chip_break |-> FALSE]

ToPlace ==
    /\ valid # "open" => call = NoCall
    /\ call = NoCall => replay = <<>>
    /\ call # NoCall => CallOk
    /\ \A k \in DOMAIN replay : replay[k][1] \notin DOMAIN name_to_op_placement
    /\ \A k, l \in DOMAIN replay : replay[k][1] = replay[l][1] => k = l
    /\ replay # <<>> => call = CallOf(replay[1][1], replay[1][2])

HasPlaced ==
    valid = "open" =>
        /\ Range(placed_ops) \subseteq DOMAIN name_to_op_placement
        /\ IsInjective(placed_ops)
        /\ AllPlaced => epoch[current_epoch_index].ops # <<>>

EpochsInv == TypeInv /\ OpenEpochs /\ Committed /\ Assigned /\ ToPlace /\ HasPlaced

\* An output that is kept on the host is asked for on one chip: the pool gets the
\* current chip back once for every chip that is asked for.
OneRequested == config.output_queues_on_host => Len(config.mmio) <= 1

-----------------------------------------------------------------------------
(***************************************************************************)
(* Placements and cores.                                                   *)
(***************************************************************************)
CoresOf(e, k) == Cores(e.ops[k][2].start, e.ops[k][2].shape)

\* The ops of epoch i are recorded by name with the same placement, on cores of
\* the grid that no other op has.
Listed(i) ==
    \A k \in DOMAIN epoch[i].ops :
        /\ epoch[i].ops[k][1] \in DOMAIN name_to_op_placement
        /\ epoch[i].ops[k][2] = name_to_op_placement[epoch[i].ops[k][1]]
        /\ epoch[i].ops[k][2].epoch = i
        /\ InGrid(epoch[i].grid, epoch[i].ops[k][2].start, epoch[i].ops[k][2].shape)
Apart(i) ==
    \A k, l \in DOMAIN epoch[i].ops : k # l => CoresOf(epoch[i], k) \cap CoresOf(epoch[i], l) = {}
Used(e) == UNION {CoresOf(e, k) : k \in DOMAIN e.ops}

EpochSound(i) == Listed(i) /\ Apart(i) /\ (epoch[i].ops # <<>> => epoch[i].grid.used = Used(epoch[i]))

\* A placement by name is listed in the epoch it names, on that epoch's chip.
NameSound(o) ==
    LET p == name_to_op_placement[o]
    IN  p.epoch \in Epochs /\ epoch[p.epoch].chip = p.chip /\ o \in EpochOps(p.epoch)

Agree ==
    valid # "aborted" =>
        /\ \A o \in DOMAIN name_to_op_placement : NameSound(o)
        /\ \A i \in Epochs : EpochSound(i)

\* The ops of the temporal epoch are those placed from its first epoch on.
OpenAgree ==
    valid = "open" =>
        /\ epoch[current_epoch_index].grid.used = Used(epoch[current_epoch_index])
        /\ \A o \in DOMAIN name_to_op_placement :
              o \in Range(placed_ops) <=> name_to_op_placement[o].epoch >= Base

-----------------------------------------------------------------------------
(***************************************************************************)
(* The replay of rewind_to.                                                *)
(***************************************************************************)
\* An output that is kept on the host, the chips an interactive placement is spread
\* over, and the grid an epoch starts with, of configuration c.
OnHost(c, o) == c.output_queues_on_host /\ o \in c.output
PoolOf(c) == IF c.pipelined THEN {0} ELSE Range(c.chips)
EmptyGrid(c, chip) ==
    IF c.nebula /\ chip \in Range(c.mmio)
    THEN create_empty_device_grid(c.harvested_rows, c.cols)
    ELSE create_empty_device_grid(c.rows, c.cols)

\* What can_place_op_onto_chip says of an op on a chip whatever was placed before.
MayRun(c, o, chip) ==
    /\ OnHost(c, o) => chip \in Range(c.mmio)
    /\ c.nebula /\ chip \in Range(c.mmio) /\ PoolOf(c) # {chip} => OnHost(c, o)

\* An output on a Nebula chip is placed first in a pipelined placement.
ComesFirst(c, o) == c.nebula /\ c.pipelined /\ OnHost(c, o)

\* Where the first op of a block may run, the second may.
Alike(c, op1, op2) ==
    /\ \A chip \in PoolOf(c) : MayRun(c, op1, chip) => MayRun(c, op2, chip)
    /\ ~ComesFirst(c, op2)

\* This is so of any two ops that can be placed as a block.
PairsAlike ==
    \A op1, op2 \in Op :
        LET s1 == config.shape[op1]
            s2 == config.shape[op2]
        IN  op1 # op2 /\ s1[1] = s2[1] /\ can_fit_on_single_epoch(<<s1[1], s1[2] + s2[2]>>)
              => Alike(config, op1, op2)

Placeable(c, o, p) == MayRun(c, o, p.chip) /\ InGrid(EmptyGrid(c, p.chip), p.start, p.shape)

\* The ops of the temporal epoch are in the order of their epochs, where they may run.
OpsInOrder ==
    /\ \A k, l \in DOMAIN placed_ops :
          k < l => name_to_op_placement[placed_ops[k]].epoch
                     <= name_to_op_placement[placed_ops[l]].epoch
    /\ \A k \in DOMAIN placed_ops :
          /\ Placeable(config, placed_ops[k], name_to_op_placement[placed_ops[k]])
          /\ ComesFirst(config, placed_ops[k]) => k = 1

GridsFit ==
    \A i \in Base .. current_epoch_index :
        /\ epoch[i].grid.rows = EmptyGrid(config, epoch[i].chip).rows
        /\ epoch[i].grid.cols = EmptyGrid(config, epoch[i].chip).cols

CallAlike == \A k \in DOMAIN call.ops : k # 1 => Alike(config, call.ops[1], call.ops[k])

InOrder ==
    valid = "open" => /\ GridsFit /\ OpsInOrder /\ CallAlike
                      /\ config.pipelined => visited_ops = {}

\* What is to be placed again goes to the current chip, in the order of its epochs,
\* or to a chip that is left, on cores that are free there.
FitsAgain(o, p, first) ==
    /\ p.chip \in {current_chip_id} \cup Range(remaining_chip_ids)
    /\ placed_ops = <<>> \/ first.chip = current_chip_id \/ p.chip # current_chip_id
    /\ p.chip = current_chip_id
         => Cores(p.start, p.shape) \cap epoch[current_epoch_index].grid.used = {}
    /\ Placeable(config, o, p)

\* Two placements that are to be made again, the first one before the second.
PairAgain(p, q) ==
    /\ p.epoch <= q.epoch
    /\ p.epoch = q.epoch <=> p.chip = q.chip
    /\ p.epoch = q.epoch => Cores(p.start, p.shape) \cap Cores(q.start, q.shape) = {}

Again ==
    /\ valid # "aborted"
    /\ \A k \in DOMAIN replay :
          /\ FitsAgain(replay[k][1], replay[k][2], replay[1][2])
          /\ ComesFirst(config, replay[k][1]) => k = 1 /\ placed_ops = <<>>
    /\ \A k, l \in DOMAIN replay : k < l => PairAgain(replay[k][2], replay[l][2])

PlacementInv == Agree /\ OpenAgree /\ (PairsAlike => InOrder /\ Again)

-----------------------------------------------------------------------------
(***************************************************************************)
(* Types of the configuration.                                             *)
(***************************************************************************)
\* The types of what a configuration holds.
LEMMA ConfigFacts ==
  ASSUME config \in Configs
  PROVE  /\ config.chips \in Seq(Nat) /\ config.chips # <<>> /\ IsInjective(config.chips)
         /\ config.galaxy \in Seq(Nat) /\ IsInjective(config.galaxy) /\ config.mmio \in Seq(Nat)
         /\ config.rows \in Nat /\ config.cols \in Nat /\ config.harvested_rows \in Nat
         /\ config.pipelined \in BOOLEAN /\ config.auto_transpose \in BOOLEAN
         /\ \A o \in Op : config.shape[o] \in Shapes
         /\ \A o \in Op : /\ Override(o).start \in {NoCoord} \cup (Nat \X Nat)
                          /\ Override(o).transpose \in BOOLEAN /\ Override(o).chip \in Int
<1>1. ConfigOk(config)
  BY ConfigsAssumption
<1>2. \A o \in Op : config.shape[o] \in Shapes
  BY <1>1 DEF ConfigOk, Shapes, Pos
<1>3. \A o \in Op : /\ Override(o).start \in {NoCoord} \cup (Nat \X Nat)
                    /\ Override(o).transpose \in BOOLEAN /\ Override(o).chip \in Int
  <2>1. /\ NoOverride.start \in {NoCoord} \cup (Nat \X Nat)
        /\ NoOverride.transpose \in BOOLEAN /\ NoOverride.chip \in Int
    BY DEF NoOverride, NoChip
  <2>2. \A o \in DOMAIN config.override :
          /\ config.override[o].start \in {NoCoord} \cup (Nat \X Nat)
          /\ config.override[o].transpose \in BOOLEAN /\ config.override[o].chip \in Int
    BY <1>1 DEF ConfigOk
  <2> QED
    BY <2>1, <2>2 DEF Override
<1> QED
  BY <1>1, <1>2, <1>3 DEF ConfigOk

\* A new epoch has an unused grid.
LEMMA GridTypes ==
  ASSUME config \in Configs
  PROVE  /\ \A chip : GridOf(chip) \in Grids /\ GridOf(chip).used = {}
         /\ create_empty_device_grid(0, 0) \in Grids
<1>1. config.rows \in Nat /\ config.cols \in Nat /\ config.harvested_rows \in Nat
  BY ConfigFacts
<1>2. \A n, m \in Nat : create_empty_device_grid(n, m) \in Grids /\ create_empty_device_grid(n, m).used = {}
  BY DEF create_empty_device_grid, Grids
<1> QED
  BY <1>1, <1>2 DEF GridOf

-----------------------------------------------------------------------------
(***************************************************************************)
(* Where the ops of a call are placed.                                     *)
(***************************************************************************)
\* The ops of the call are placed side by side on the block that was found, which
\* is free on the grid of the epoch.
BlockRight(r, p) ==
    /\ r.start \in Nat \X Nat /\ r.shape \in Shapes
    /\ Cores(r.start, r.shape) \cap epoch[current_epoch_index].grid.used = {}
    /\ DOMAIN p = DOMAIN call.ops
    /\ \A i \in DOMAIN call.ops :
          /\ p[i] \in Places /\ p[i].chip = current_chip_id /\ p[i].epoch = current_epoch_index
          /\ InGrid(epoch[current_epoch_index].grid, p[i].start, p[i].shape)
          /\ Cores(p[i].start, p[i].shape) \subseteq Cores(r.start, r.shape)
          /\ Cores(p[i].start, p[i].shape) \subseteq Nat \X Nat
    /\ \A i, j \in DOMAIN call.ops :
          i # j => Cores(p[i].start, p[i].shape) \cap Cores(p[j].start, p[j].shape) = {}

\* A block within a block has its cores there.
LEMMA CoresWithin ==
  ASSUME NEW s \in Nat \X Nat, NEW h \in Shapes, NEW t \in Nat \X Nat, NEW k \in Shapes,
         s[1] <= t[1], s[2] <= t[2], t[1] + k[1] <= s[1] + h[1], t[2] + k[2] <= s[2] + h[2]
  PROVE  Cores(t, k) \subseteq Cores(s, h) /\ Cores(t, k) \subseteq Nat \X Nat
<1>1. /\ s[1] \in Nat /\ s[2] \in Nat /\ t[1] \in Nat /\ t[2] \in Nat
      /\ h[1] \in Nat /\ h[2] \in Nat /\ k[1] \in Nat /\ k[2] \in Nat
  BY DEF Shapes, Pos
<1>2. t[1] .. t[1] + k[1] - 1 \subseteq s[1] .. s[1] + h[1] - 1
  BY <1>1
<1>3. t[2] .. t[2] + k[2] - 1 \subseteq s[2] .. s[2] + h[2] - 1
  BY <1>1
<1>4. t[1] .. t[1] + k[1] - 1 \subseteq Nat /\ t[2] .. t[2] + k[2] - 1 \subseteq Nat
  BY <1>1
<1> QED
  BY <1>2, <1>3, <1>4 DEF Cores

\* A block within a block of the grid is in the grid.
LEMMA InGridWithin ==
  ASSUME NEW g, g.rows \in Nat, g.cols \in Nat,
         NEW s \in Nat \X Nat, NEW h \in Shapes, NEW t \in Nat \X Nat, NEW k \in Shapes,
         InGrid(g, s, h), t[1] + k[1] <= s[1] + h[1], t[2] + k[2] <= s[2] + h[2]
  PROVE  InGrid(g, t, k)
<1>1. /\ s[1] + h[1] \in Nat /\ s[2] + h[2] \in Nat /\ t[1] + k[1] \in Nat /\ t[2] + k[2] \in Nat
  BY DEF Shapes, Pos
<1> QED
  BY <1>1 DEF InGrid

\* Blocks below or beside each other share no core.
LEMMA CoresApart ==
  ASSUME NEW s \in Nat \X Nat, NEW h \in Shapes, NEW t \in Nat \X Nat, NEW k \in Shapes,
         s[1] + h[1] <= t[1] \/ s[2] + h[2] <= t[2]
  PROVE  Cores(s, h) \cap Cores(t, k) = {} /\ Cores(t, k) \cap Cores(s, h) = {}
<1>1. /\ s[1] \in Nat /\ s[2] \in Nat /\ t[1] \in Nat /\ t[2] \in Nat
      /\ h[1] \in Nat /\ h[2] \in Nat /\ k[1] \in Nat /\ k[2] \in Nat
  BY DEF Shapes, Pos
<1>2. CASE s[1] + h[1] <= t[1]
  <2>1. (s[1] .. s[1] + h[1] - 1) \cap (t[1] .. t[1] + k[1] - 1) = {}
    BY <1>1, <1>2
  <2> QED
    BY <2>1 DEF Cores
<1>3. CASE s[2] + h[2] <= t[2]
  <2>1. (s[2] .. s[2] + h[2] - 1) \cap (t[2] .. t[2] + k[2] - 1) = {}
    BY <1>1, <1>3
  <2> QED
    BY <2>1 DEF Cores
<1> QED
  BY <1>2, <1>3

\* What the proofs need of a call in progress.
LEMMA CallShape ==
  ASSUME call \in Calls, CallOk
  PROVE  /\ call.ops \in Seq(Op) /\ call.shapes \in Seq(Shapes)
         /\ \/ /\ DOMAIN call.ops = {1} /\ Len(call.shapes) = 1 /\ Len(call.ops) = 1
               /\ call.shapes[1] \in Shapes /\ BlockShape = call.shapes[1]
            \/ /\ DOMAIN call.ops = {1, 2} /\ Len(call.shapes) = 2 /\ Len(call.ops) = 2
               /\ call.shapes[1] \in Shapes /\ call.shapes[2] \in Shapes
               /\ call.shapes[1][1] = call.shapes[2][1]
               /\ BlockShape = <<call.shapes[1][1], call.shapes[1][2] + call.shapes[2][2]>>
         /\ BlockShape \in Shapes
<1>1. /\ call.ops \in Seq(Op) /\ call.shapes \in Seq(Shapes) /\ call.ops # <<>> /\ Len(call.ops) <= 2
      /\ Len(call.shapes) = Len(call.ops)
      /\ Len(call.ops) = 2 => call.shapes[1][1] = call.shapes[2][1]
  BY DEF Calls, CallOk
<1> DEFINE ops == call.ops
           shapes == call.shapes
<1> HIDE DEF ops, shapes
<1>2. /\ ops \in Seq(Op) /\ shapes \in Seq(Shapes) /\ ops # <<>> /\ Len(ops) <= 2
      /\ Len(shapes) = Len(ops) /\ (Len(ops) = 2 => shapes[1][1] = shapes[2][1])
  BY <1>1 DEF ops, shapes
<1>3. Len(ops) \in {1, 2} /\ DOMAIN ops = 1 .. Len(ops) /\ DOMAIN shapes = 1 .. Len(ops)
  BY <1>2
<1>4. \A i \in DOMAIN shapes : shapes[i] \in Shapes
  BY <1>2
<1>5. \A s \in Shapes : s = <<s[1], s[2] + 0>> /\ s[1] \in Pos /\ s[2] \in Pos
  BY DEF Shapes, Pos
<1>6. \A x, y \in Pos : x + y \in Pos
  BY DEF Pos
<1>7. BlockShape = <<shapes[1][1], shapes[1][2] + IF Len(shapes) = 2 THEN shapes[2][2] ELSE 0>>
  BY DEF BlockShape, shapes
<1>8. CASE Len(ops) = 1
  <2>1. DOMAIN ops = {1} /\ Len(shapes) = 1 /\ shapes[1] \in Shapes
    BY <1>2, <1>3, <1>4, <1>8
  <2>2. BlockShape = shapes[1]
    BY <1>5, <1>7, <2>1
  <2> QED
    BY <1>1, <1>8, <2>1, <2>2 DEF ops, shapes
<1>9. CASE Len(ops) = 2
  <2>1. /\ DOMAIN ops = {1, 2} /\ Len(shapes) = 2 /\ shapes[1] \in Shapes /\ shapes[2] \in Shapes
    BY <1>2, <1>3, <1>4, <1>9
  <2>2. BlockShape = <<shapes[1][1], shapes[1][2] + shapes[2][2]>>
    BY <1>7, <2>1
  <2>3. BlockShape \in Shapes
    BY <1>5, <1>6, <2>1, <2>2 DEF Shapes
  <2> QED
    BY <1>1, <1>9, <2>1, <2>2, <2>3 DEF ops, shapes
<1> QED
  BY <1>3, <1>8, <1>9

\* The override of a call, from the user or from the replay.
LEMMA OverrideTypes ==
  ASSUME config \in Configs, call \in Calls, CallOk, replay \in Seq(Op \X Places)
  PROVE  /\ CallOverride.start \in {NoCoord} \cup (Nat \X Nat)
         /\ CallOverride.transpose \in BOOLEAN /\ CallOverride.chip \in Int
<1>1. call.ops[1] \in Op
  BY CallShape
<1>2. CASE replay = <<>>
  BY <1>1, <1>2, ConfigFacts DEF CallOverride
<1>3. CASE replay # <<>>
  <2>1. replay[1] \in Op \X Places
    BY <1>3
  <2>2. replay[1][2] \in Places
    BY <2>1
  <2>3. /\ replay[1][2].start \in Nat \X Nat /\ replay[1][2].transpose \in BOOLEAN
        /\ replay[1][2].chip \in Nat
    BY <2>2 DEF Places
  <2> QED
    BY <1>3, <2>3 DEF CallOverride
<1> QED
  BY <1>2, <1>3

\* The two ops of a block lie side by side on it, whichever way it is turned.
LEMMA SideBySide ==
  ASSUME NEW s \in Nat \X Nat, NEW s1 \in Shapes, NEW s2 \in Shapes, s1[1] = s2[1],
         NEW turned \in BOOLEAN, NEW b, b = <<s1[1], s1[2] + s2[2]>>,
         NEW h, h = IF turned THEN Transposed(b) ELSE b,
         NEW x1, x1 = IF turned THEN Transposed(s1) ELSE s1,
         NEW x2, x2 = IF turned THEN Transposed(s2) ELSE s2,
         NEW t, t = <<s[1] + h[1] - x2[1], s[2] + h[2] - x2[2]>>
  PROVE  /\ h \in Shapes /\ x1 \in Shapes /\ x2 \in Shapes /\ t \in Nat \X Nat
         /\ x1[1] <= h[1] /\ x1[2] <= h[2]
         /\ s[1] <= t[1] /\ s[2] <= t[2] /\ t[1] + x2[1] = s[1] + h[1] /\ t[2] + x2[2] = s[2] + h[2]
         /\ s[1] + x1[1] <= t[1] \/ s[2] + x1[2] <= t[2]
<1>1. /\ s[1] \in Nat /\ s[2] \in Nat /\ s1[1] \in Pos /\ s1[2] \in Pos /\ s2[1] \in Pos /\ s2[2] \in Pos
  BY DEF Shapes
<1> DEFINE n == s1[1]
           m1 == s1[2]
           m2 == s2[2]
<1>2. n \in Nat \ {0} /\ m1 \in Nat \ {0} /\ m2 \in Nat \ {0} /\ s2[1] = n
  BY <1>1 DEF Pos
<1>3. CASE turned
  <2>1. h = <<m1 + m2, n>> /\ x1 = <<m1, n>> /\ x2 = <<m2, n>>
    BY <1>2, <1>3 DEF Transposed
  <2> HIDE DEF n, m1, m2
  <2>2. t = <<s[1] + (m1 + m2) - m2, s[2] + n - n>>
    BY <2>1
  <2>3. t[1] = s[1] + m1 /\ t[2] = s[2]
    BY <1>1, <1>2, <2>2
  <2>4. h[1] = m1 + m2 /\ h[2] = n /\ x1[1] = m1 /\ x1[2] = n /\ x2[1] = m2 /\ x2[2] = n
    BY <2>1
  <2>5. h \in Shapes /\ x1 \in Shapes /\ x2 \in Shapes
    BY <1>2, <2>1 DEF Shapes, Pos
  <2>6. t \in Nat \X Nat
    BY <1>1, <1>2, <2>2
  <2> QED
    BY <1>1, <1>2, <2>3, <2>4, <2>5, <2>6
<1>4. CASE ~turned
  <2>1. h = <<n, m1 + m2>> /\ x1 = s1 /\ x2 = s2 /\ x1[1] = n /\ x1[2] = m1 /\ x2[1] = n /\ x2[2] = m2
    BY <1>2, <1>4
  <2> HIDE DEF n, m1, m2
  <2>2. t = <<s[1] + n - n, s[2] + (m1 + m2) - m2>>
    BY <2>1
  <2>3. t[1] = s[1] /\ t[2] = s[2] + m1
    BY <1>1, <1>2, <2>2
  <2>4. h[1] = n /\ h[2] = m1 + m2
    BY <2>1
  <2>5. h \in Shapes /\ x1 \in Shapes /\ x2 \in Shapes
    BY <1>2, <2>1 DEF Shapes, Pos
  <2>6. t \in Nat \X Nat
    BY <1>1, <1>2, <2>2
  <2> QED
    BY <1>1, <1>2, <2>1, <2>3, <2>4, <2>5, <2>6
<1> QED
  BY <1>3, <1>4

\* What place_one_op finds is a free block, and its ops lie apart on it.
LEMMA TryPlaceRight ==
  ASSUME config \in Configs, call \in Calls, CallOk, replay \in Seq(Op \X Places),
         epoch[current_epoch_index].grid \in Grids, TryPlace.res = "placed"
  PROVE  /\ can_place_op_onto_chip(call.ops[1], current_chip_id, call.chip_break, CallOverride)
         /\ TryPlace.start \in Nat \X Nat /\ TryPlace.transposed \in BOOLEAN
         /\ TryPlace.shape = IF TryPlace.transposed THEN Transposed(BlockShape) ELSE BlockShape
         /\ InGrid(epoch[current_epoch_index].grid, TryPlace.start, TryPlace.shape)
         /\ Cores(TryPlace.start, TryPlace.shape) \cap epoch[current_epoch_index].grid.used = {}
<1> DEFINE g == epoch[current_epoch_index].grid
           can == can_place_op_onto_chip(call.ops[1], current_chip_id, call.chip_break, CallOverride)
           found == place_one_op(call.ops[1], BlockShape, g, CallOverride, call.transpose)
           r == get_placed_coordinate(call.ops[1], BlockShape, g, CallOverride, call.transpose, <<>>)
<1>1. TryPlace = IF can THEN found ELSE Failed("no_room")
  BY DEF TryPlace
<1>2. Failed("no_room").res # "placed"
  BY DEF Failed
<1>3. found = IF r.res = "placed" THEN r ELSE Failed("no_room")
  BY DEF place_one_op
<1>4. BlockShape \in Pos \X Pos
  BY CallShape DEF Shapes
<1>5. CallOverride.start \in {NoCoord} \cup (Nat \X Nat) /\ CallOverride.transpose \in BOOLEAN
  BY OverrideTypes
<1>6. g.rows \in Nat /\ g.cols \in Nat /\ g = [rows |-> g.rows, cols |-> g.cols, used |-> g.used]
  BY DEF Grids
<1> HIDE DEF g, found, can
<1>7. can /\ TryPlace = r /\ r.res = "placed"
  BY <1>1, <1>2, <1>3
<1>8. PlacedRight(r, BlockShape, g, CallOverride)
  BY <1>5, <1>6, <1>7, CoordinateRight
<1>9. r.shape = IF r.transposed THEN Transposed(BlockShape) ELSE BlockShape
  BY <1>4, <1>5, <1>7, CoordinateShape
<1> HIDE DEF r
<1>10. /\ r.start \in Nat \X Nat /\ r.transposed \in BOOLEAN
       /\ InGrid(g, r.start, r.shape) /\ Cores(r.start, r.shape) \cap g.used = {}
  BY <1>8 DEF PlacedRight
<1> QED
  BY <1>7, <1>9, <1>10 DEF g, can

\* The ops of a block that was found get cores of their own in it.
LEMMA BlockPlaced ==
  ASSUME config \in Configs, call \in Calls, CallOk, replay \in Seq(Op \X Places),
         current_chip_id \in Nat, current_epoch_index \in Nat,
         epoch[current_epoch_index].grid \in Grids, TryPlace.res = "placed"
  PROVE  BlockRight(TryPlace, OpPlacements(TryPlace))
<1> DEFINE r == TryPlace
           p == OpPlacements(r)
           g == epoch[current_epoch_index].grid
           x(i) == IF r.transposed THEN Transposed(call.shapes[i]) ELSE call.shapes[i]
           at(i) == IF i = 1 THEN r.start
                    ELSE <<r.start[1] + r.shape[1] - x(i)[1], r.start[2] + r.shape[2] - x(i)[2]>>
<1>1. /\ r.start \in Nat \X Nat /\ r.transposed \in BOOLEAN
      /\ r.shape = IF r.transposed THEN Transposed(BlockShape) ELSE BlockShape
      /\ InGrid(g, r.start, r.shape) /\ Cores(r.start, r.shape) \cap g.used = {}
  BY TryPlaceRight
<1>2. p = [i \in DOMAIN call.ops |->
            [chip |-> current_chip_id, epoch |-> current_epoch_index, start |-> at(i),
             shape |-> x(i), transpose |-> r.transposed]]
  BY DEF OpPlacements
<1>3. g.rows \in Nat /\ g.cols \in Nat
  BY DEF Grids
<1> HIDE DEF r, p, g
<1>4. /\ r.shape \in Shapes
      /\ \A i \in DOMAIN call.ops :
            /\ at(i) \in Nat \X Nat /\ x(i) \in Shapes
            /\ r.start[1] <= at(i)[1] /\ r.start[2] <= at(i)[2]
            /\ at(i)[1] + x(i)[1] <= r.start[1] + r.shape[1]
            /\ at(i)[2] + x(i)[2] <= r.start[2] + r.shape[2]
      /\ \A i, j \in DOMAIN call.ops : i # j =>
            Cores(at(i), x(i)) \cap Cores(at(j), x(j)) = {}
  <2>1. CASE /\ DOMAIN call.ops = {1} /\ call.shapes[1] \in Shapes /\ BlockShape = call.shapes[1]
    <3>1. x(1) = r.shape /\ at(1) = r.start
      BY <1>1, <2>1
    <3>2. r.shape \in Shapes
      BY <1>1, <2>1 DEF Shapes, Pos, Transposed
    <3>3. r.start[1] \in Nat /\ r.start[2] \in Nat /\ r.shape[1] \in Nat /\ r.shape[2] \in Nat
      BY <1>1, <3>2 DEF Shapes, Pos
    <3> HIDE DEF x, at
    <3> QED
      BY SMTT(30), <1>1, <2>1, <3>1, <3>2, <3>3
  <2>2. CASE /\ DOMAIN call.ops = {1, 2} /\ call.shapes[1] \in Shapes /\ call.shapes[2] \in Shapes
             /\ call.shapes[1][1] = call.shapes[2][1]
             /\ BlockShape = <<call.shapes[1][1], call.shapes[1][2] + call.shapes[2][2]>>
    <3>1. /\ at(1) = r.start
          /\ at(2) = <<r.start[1] + r.shape[1] - x(2)[1], r.start[2] + r.shape[2] - x(2)[2]>>
      OBVIOUS
    <3> DEFINE x1 == x(1)
               x2 == x(2)
               t == at(2)
    <3>2. /\ x1 = IF r.transposed THEN Transposed(call.shapes[1]) ELSE call.shapes[1]
          /\ x2 = IF r.transposed THEN Transposed(call.shapes[2]) ELSE call.shapes[2]
          /\ t = <<r.start[1] + r.shape[1] - x2[1], r.start[2] + r.shape[2] - x2[2]>>
      OBVIOUS
    <3>3. x1 = x(1) /\ x2 = x(2) /\ t = at(2)
      OBVIOUS
    <3> HIDE DEF x1, x2, t, x, at
    <3>4. /\ r.shape \in Shapes /\ x1 \in Shapes /\ x2 \in Shapes /\ t \in Nat \X Nat
          /\ x1[1] <= r.shape[1] /\ x1[2] <= r.shape[2]
          /\ r.start[1] <= t[1] /\ r.start[2] <= t[2]
          /\ t[1] + x2[1] = r.start[1] + r.shape[1] /\ t[2] + x2[2] = r.start[2] + r.shape[2]
          /\ r.start[1] + x1[1] <= t[1] \/ r.start[2] + x1[2] <= t[2]
      <4> DEFINE s1 == call.shapes[1]
                 s2 == call.shapes[2]
                 b == BlockShape
                 s == r.start
                 h == r.shape
                 u == r.transposed
      <4>1. /\ s \in Nat \X Nat /\ s1 \in Shapes /\ s2 \in Shapes /\ s1[1] = s2[1] /\ u \in BOOLEAN
            /\ b = <<s1[1], s1[2] + s2[2]>> /\ h = IF u THEN Transposed(b) ELSE b
            /\ x1 = IF u THEN Transposed(s1) ELSE s1
            /\ x2 = IF u THEN Transposed(s2) ELSE s2
            /\ t = <<s[1] + h[1] - x2[1], s[2] + h[2] - x2[2]>>
        BY <1>1, <2>2, <3>2
      <4> HIDE DEF s1, s2, b, s, h, u
      <4>2. /\ h \in Shapes /\ x1 \in Shapes /\ x2 \in Shapes /\ t \in Nat \X Nat
            /\ x1[1] <= h[1] /\ x1[2] <= h[2]
            /\ s[1] <= t[1] /\ s[2] <= t[2]
            /\ t[1] + x2[1] = s[1] + h[1] /\ t[2] + x2[2] = s[2] + h[2]
            /\ s[1] + x1[1] <= t[1] \/ s[2] + x1[2] <= t[2]
        BY SMTT(30), <4>1, SideBySide
      <4> QED
        BY <4>2 DEF s, h
    <3>5. Cores(r.start, x1) \cap Cores(t, x2) = {} /\ Cores(t, x2) \cap Cores(r.start, x1) = {}
      BY <1>1, <3>4, CoresApart
    <3>6. /\ r.start[1] \in Nat /\ r.start[2] \in Nat /\ x1[1] \in Nat /\ x1[2] \in Nat
          /\ r.shape[1] \in Nat /\ r.shape[2] \in Nat /\ t[1] \in Nat /\ t[2] \in Nat
          /\ x2[1] \in Nat /\ x2[2] \in Nat
      BY <1>1, <3>4 DEF Shapes, Pos
    <3>7. \A i \in {1, 2} :
            /\ at(i) \in Nat \X Nat /\ x(i) \in Shapes
            /\ r.start[1] <= at(i)[1] /\ r.start[2] <= at(i)[2]
            /\ at(i)[1] + x(i)[1] <= r.start[1] + r.shape[1]
            /\ at(i)[2] + x(i)[2] <= r.start[2] + r.shape[2]
      <4>1. /\ at(1) \in Nat \X Nat /\ x(1) \in Shapes
            /\ r.start[1] <= at(1)[1] /\ r.start[2] <= at(1)[2]
            /\ at(1)[1] + x(1)[1] <= r.start[1] + r.shape[1]
            /\ at(1)[2] + x(1)[2] <= r.start[2] + r.shape[2]
        <5>1. at(1) = r.start /\ x(1) = x1
          BY <3>1, <3>3
        <5>2. /\ r.start \in Nat \X Nat /\ x1 \in Shapes /\ x1[1] <= r.shape[1] /\ x1[2] <= r.shape[2]
          BY <1>1, <3>4
        <5>3. /\ r.start[1] <= r.start[1] /\ r.start[2] <= r.start[2]
              /\ r.start[1] + x1[1] <= r.start[1] + r.shape[1]
              /\ r.start[2] + x1[2] <= r.start[2] + r.shape[2]
          BY SMTT(30), <3>6, <5>2
        <5> QED
          BY <5>1, <5>2, <5>3
      <4>2. /\ at(2) \in Nat \X Nat /\ x(2) \in Shapes
            /\ r.start[1] <= at(2)[1] /\ r.start[2] <= at(2)[2]
            /\ at(2)[1] + x(2)[1] <= r.start[1] + r.shape[1]
            /\ at(2)[2] + x(2)[2] <= r.start[2] + r.shape[2]
        BY SMTT(30), <1>1, <3>3, <3>4, <3>6
      <4> QED
        BY <4>1, <4>2
    <3>8. \A i, j \in {1, 2} : i # j => Cores(at(i), x(i)) \cap Cores(at(j), x(j)) = {}
      BY <3>1, <3>3, <3>5
    <3> QED
      BY <2>2, <3>4, <3>7, <3>8
  <2> QED
    BY <2>1, <2>2, CallShape
<1> HIDE DEF x, at
<1>5. ASSUME NEW i \in DOMAIN call.ops
      PROVE  /\ p[i] \in Places /\ p[i].chip = current_chip_id /\ p[i].epoch = current_epoch_index
             /\ InGrid(g, p[i].start, p[i].shape)
             /\ Cores(p[i].start, p[i].shape) \subseteq Cores(r.start, r.shape)
             /\ Cores(p[i].start, p[i].shape) \subseteq Nat \X Nat
  <2>1. /\ p[i].chip = current_chip_id /\ p[i].epoch = current_epoch_index /\ p[i].start = at(i)
        /\ p[i].shape = x(i) /\ p[i].transpose = r.transposed
    BY <1>2
  <2>2. p[i] \in Places
    BY <1>1, <1>2, <1>4 DEF Places
  <2>3. /\ at(i) \in Nat \X Nat /\ x(i) \in Shapes /\ r.shape \in Shapes
        /\ r.start[1] <= at(i)[1] /\ r.start[2] <= at(i)[2]
        /\ at(i)[1] + x(i)[1] <= r.start[1] + r.shape[1]
        /\ at(i)[2] + x(i)[2] <= r.start[2] + r.shape[2]
    BY <1>4
  <2>4. Cores(at(i), x(i)) \subseteq Cores(r.start, r.shape) /\ Cores(at(i), x(i)) \subseteq Nat \X Nat
    BY <1>1, <2>3, CoresWithin
  <2>5. InGrid(g, at(i), x(i))
    BY <1>1, <1>3, <2>3, InGridWithin
  <2> QED
    BY <2>1, <2>2, <2>4, <2>5
<1>6. DOMAIN p = DOMAIN call.ops
  BY <1>2
<1>7. \A i, j \in DOMAIN call.ops : i # j => Cores(p[i].start, p[i].shape) \cap Cores(p[j].start, p[j].shape) = {}
  BY <1>2, <1>4
<1> QED
  BY <1>1, <1>4, <1>5, <1>6, <1>7 DEF BlockRight, r, p, g

-----------------------------------------------------------------------------
(***************************************************************************)
(* The steps of the epochs.                                                *)
(***************************************************************************)
\* The placer stays open, for the same chips.
StaysOpen ==
    /\ config \in Configs /\ config' = config /\ valid = "open" /\ valid' = "open"
    /\ ChipTypes /\ sorted_chip_ids' = sorted_chip_ids /\ assign' = assign /\ assign.epoch = 0

\* An epoch that is opened leaves its temporal epoch on distinct chips.
LEMMA Opens ==
  ASSUME StaysOpen, NEW e, NEW f, NEW k, NEW rem \in Seq(Nat), IsInjective(rem), rem # <<>>,
         NEW t \in Nat, NEW spatial \in Nat, spatial = k - f, NEW req \in Seq(Int), Len(req) <= 1,
         init_epoch(At(e, k, rem), t, spatial, req),
         Spread(e, f, k, t, rem, sorted_chip_ids), \A i \in DOMAIN e : e[i] \in EpochRecords
  PROVE  ChipTypes' /\ EpochTypes' /\ OpenEpochs' /\ Base' = f /\ current_epoch_index' = k
<1> DEFINE S == sorted_chip_ids
           chip == current_chip_id'
           left == remaining_chip_ids'
           e2 == epoch'
<1>1. /\ S \in Seq(Nat) /\ IsInjective(S) /\ Range(S) = Chips /\ Chips' = Chips
      /\ config \in Configs /\ valid' = "open"
  BY DEF StaysOpen, ChipTypes, Chips, OpenChips
<1>2. /\ current_epoch_index' = k /\ current_temporal_epoch_id' = t /\ current_spatial_epoch_id' = spatial
      /\ chip \in Range(rem) /\ left \in Seq(Nat) /\ IsInjective(left)
      /\ Range(left) = Range(rem) \ {chip} /\ Len(left) + 1 = Len(rem)
      /\ DOMAIN e2 = DOMAIN e \cup {k} /\ \A i \in DOMAIN e : i # k => e2[i] = e[i]
      /\ e2[k] = [chip |-> chip, temporal |-> t, spatial |-> spatial,
                  ops |-> <<>>, grid |-> GridOf(current_chip_id)']
  <2>1. Opened(e, k, rem, t, spatial, req)
    BY OpenedEpoch DEF StaysOpen
  <2> QED
    BY <2>1 DEF Opened
<1>3. f \in Nat /\ k \in Nat /\ Range(rem) \subseteq Range(S)
  BY DEF Spread
<1>4. GridOf(current_chip_id)' \in Grids
  BY <1>1, GridTypes DEF StaysOpen, GridOf, IsMmio
<1>5. chip \in Range(S) /\ chip \in Nat
  <2>1. Range(rem) \subseteq Nat
    BY DEF Range
  <2> QED
    BY <1>2, <1>3, <2>1
<1> HIDE DEF S, chip, left, e2
<1>6. e2[k].chip = chip /\ e2[k].temporal = t /\ e2[k].spatial = k - f /\ e2[k] \in EpochRecords
  <2>1. <<>> \in Seq(Op \X Places)
    OBVIOUS
  <2>2. e2[k] \in EpochRecords
    BY <1>2, <1>4, <1>5, <2>1 DEF EpochRecords
  <2> QED
    BY <1>2, <2>2
<1>7. Spread(e2, f, k + 1, t, left, S)
  <2>1. Spread(e, f, k, t, rem, S)
    BY DEF S
  <2> QED
    BY <1>1, <1>2, <1>6, <2>1, SpreadNext
<1>8. k - spatial = f
  BY <1>3
<1>9. ChipTypes'
  BY <1>1, <1>2, <1>5 DEF ChipTypes, StaysOpen, S, chip, left
<1>10. EpochTypes'
  BY <1>2, <1>3, <1>6 DEF EpochTypes, e2
<1>11. Base' = f
  BY <1>2, <1>8 DEF Base
<1>12. OpenEpochs'
  <2>1. sorted_chip_ids' = S /\ assign'.epoch = 0
    BY DEF StaysOpen, S
  <2> QED
    BY <1>2, <1>6, <1>7, <1>11, <2>1 DEF OpenEpochs, e2, chip, left
<1> QED
  BY <1>2, <1>9, <1>10, <1>11, <1>12

\* The chips that are asked for.
LEMMA Requested ==
  ASSUME TypeInv, OneRequested, CallOk, valid = "open"
  PROVE  /\ requested_chip_ids(call.ops[1], CallOverride) \in Seq(Int)
         /\ Len(requested_chip_ids(call.ops[1], CallOverride)) <= 1
<1>1. CallOverride.chip \in Int
  BY OverrideTypes DEF TypeInv, CallTypes
<1>2. config.mmio \in Seq(Int) /\ Len(config.mmio) \in Nat
  BY ConfigFacts DEF TypeInv
<1>3. IsOutput(call.ops[1]) => Len(config.mmio) <= 1
  BY DEF OneRequested, IsOutput
<1>4. <<CallOverride.chip>> \in Seq(Int) /\ Len(<<CallOverride.chip>>) = 1
  BY <1>1
<1>5. <<>> \in Seq(Int) /\ Len(<<>>) = 0
  OBVIOUS
<1> QED
  BY <1>2, <1>3, <1>4, <1>5 DEF requested_chip_ids

\* The current chip goes back to the pool at most once.
LEMMA PutsBack ==
  ASSUME NEW req \in Seq(Int), Len(req) <= 1
  PROVE  /\ PutBack(req) \in {0, 1} /\ (PutBack(req) = 1 => placed_ops = <<>>)
         /\ PutBack(req) = IF placed_ops = <<>> /\ Range(req) \cap Range(remaining_chip_ids) # {}
                           THEN 1 ELSE 0
<1>1. Len(Filter(req, Range(remaining_chip_ids)))
        = IF Range(req) \cap Range(remaining_chip_ids) = {} THEN 0 ELSE 1
  BY FilterOne
<1> QED
  BY <1>1 DEF PutBack

\* What holds while the placer is open.
LEMMA OpenFacts ==
  ASSUME TypeInv, OpenEpochs, valid = "open"
  PROVE  /\ sorted_chip_ids \in Seq(Nat) /\ IsInjective(sorted_chip_ids) /\ sorted_chip_ids # <<>>
         /\ Len(sorted_chip_ids) \in Nat /\ Range(sorted_chip_ids) = OpenChips /\ OpenChips \subseteq Nat
         /\ remaining_chip_ids \in Seq(Nat) /\ IsInjective(remaining_chip_ids)
         /\ Len(remaining_chip_ids) \in Nat
         /\ current_chip_id \in OpenChips
         /\ current_epoch_index \in Nat /\ current_temporal_epoch_id \in Nat
         /\ current_spatial_epoch_id \in Nat
         /\ Base \in 0 .. current_epoch_index /\ current_epoch_index - Base = current_spatial_epoch_id
         /\ Spread(epoch, Base, current_epoch_index + 1, current_temporal_epoch_id,
                   remaining_chip_ids, sorted_chip_ids)
         /\ (current_epoch_index + 1) - Base + Len(remaining_chip_ids) = Len(sorted_chip_ids)
         /\ epoch[current_epoch_index].chip = current_chip_id
         /\ 0 .. current_epoch_index \subseteq DOMAIN epoch
         /\ DOMAIN epoch \subseteq 0 .. Base + Len(sorted_chip_ids) - 1
         /\ \A i \in DOMAIN epoch : epoch[i] \in EpochRecords
         /\ epoch[current_epoch_index].spatial = current_spatial_epoch_id
         /\ current_chip_id \notin Range(remaining_chip_ids)
         /\ Range(remaining_chip_ids) \subseteq OpenChips
<1>1. /\ sorted_chip_ids \in Seq(Nat) /\ IsInjective(sorted_chip_ids)
      /\ Range(sorted_chip_ids) = OpenChips /\ current_chip_id \in OpenChips
      /\ remaining_chip_ids \in Seq(Nat) /\ IsInjective(remaining_chip_ids)
  BY DEF TypeInv, ChipTypes, Chips
<1>2. /\ current_epoch_index \in Nat /\ current_temporal_epoch_id \in Nat
      /\ current_spatial_epoch_id \in Nat /\ \A i \in DOMAIN epoch : epoch[i] \in EpochRecords
  BY DEF TypeInv, EpochTypes
<1>3. /\ Spread(epoch, Base, current_epoch_index + 1, current_temporal_epoch_id,
                remaining_chip_ids, sorted_chip_ids)
      /\ epoch[current_epoch_index].chip = current_chip_id
  BY DEF OpenEpochs
<1>4. /\ Base \in Nat /\ Base <= current_epoch_index
  <2>1. Base \in Nat
    BY <1>3 DEF Spread
  <2> QED
    BY <1>2, <2>1 DEF Base
<1>5. current_epoch_index - Base = current_spatial_epoch_id
  BY <1>2 DEF Base
<1> DEFINE k == current_epoch_index
<1>6. /\ (k + 1) - Base + Len(remaining_chip_ids) = Len(sorted_chip_ids)
      /\ 0 .. (k + 1) - 1 \subseteq DOMAIN epoch
      /\ DOMAIN epoch \subseteq 0 .. Base + Len(sorted_chip_ids) - 1
      /\ Range(remaining_chip_ids) = Range(sorted_chip_ids) \ {epoch[i].chip : i \in Base .. (k + 1) - 1}
  BY <1>3 DEF Spread
<1>7. (k + 1) - 1 = k /\ k \in Base .. k
  BY <1>2, <1>4
<1>8. epoch[k].spatial = k - Base
  <2>1. \A i \in Base .. (k + 1) - 1 : epoch[i].spatial = i - Base
    BY <1>3 DEF Spread
  <2> QED
    BY <1>7, <2>1
<1>9. current_chip_id \notin Range(remaining_chip_ids)
  <2>1. current_chip_id \in {epoch[i].chip : i \in Base .. k}
    BY <1>3, <1>7
  <2> QED
    BY <1>6, <1>7, <2>1
<1>10. sorted_chip_ids # <<>> /\ OpenChips \subseteq Nat
  BY <1>1 DEF Range
<1>11. Len(sorted_chip_ids) \in Nat /\ Len(remaining_chip_ids) \in Nat
  BY <1>1
<1>12. Range(remaining_chip_ids) \subseteq OpenChips /\ 0 .. k \subseteq DOMAIN epoch
  BY <1>1, <1>6, <1>7
<1> QED
  BY SMTT(30), <1>1, <1>2, <1>3, <1>4, <1>5, <1>6, <1>8, <1>9, <1>10, <1>11, <1>12

\* The chips of a temporal epoch that starts.
Pool(temporal) ==
    IF config.snake /\ temporal % 2 = 1 THEN Reverse(sorted_chip_ids) ELSE sorted_chip_ids

\* A temporal epoch starts with every chip, whatever the direction.
LEMMA PoolFacts ==
  ASSUME sorted_chip_ids \in Seq(Nat), IsInjective(sorted_chip_ids), sorted_chip_ids # <<>>, NEW t
  PROVE  /\ Pool(t) \in Seq(Nat) /\ IsInjective(Pool(t)) /\ Pool(t) # <<>>
         /\ Range(Pool(t)) = Range(sorted_chip_ids) /\ Len(Pool(t)) = Len(sorted_chip_ids)
<1> DEFINE S == sorted_chip_ids
           r == Reverse(S)
<1>1. r \in Seq(Nat) /\ IsInjective(r) /\ Range(r) = Range(S)
  BY Reversed
<1>2. Pool(t) = r \/ Pool(t) = S
  BY DEF Pool
<1> HIDE DEF r
<1>3. Len(r) = Len(S)
  <2>1. Cardinality(Range(r)) = Len(r) /\ Cardinality(Range(S)) = Len(S)
    BY <1>1, LengthOfInjective
  <2> QED
    BY <1>1, <2>1
<1>4. Len(S) # 0
  OBVIOUS
<1>5. r # <<>>
  BY <1>3, <1>4
<1> QED
  BY <1>1, <1>2, <1>3, <1>5

\* The temporal epoch from f to k, with an empty epoch for each chip that is left.
FilledEpochs(e2, e, f, k, t, S) ==
    /\ DOMAIN e2 = 0 .. f + Len(S) - 1
    /\ PastWhole(e2, f + Len(S), t + 1, S)
    /\ \A i \in 0 .. k : e2[i] = e[i]
    /\ \A i \in DOMAIN e2 : e2[i] \in EpochRecords /\ (i > k => e2[i].ops = <<>>)

\* After the empty graphs a temporal epoch runs every chip.
LEMMA FilledAll ==
  ASSUME config \in Configs, NEW S \in Seq(Nat), NEW rem \in Seq(Nat), NEW e, NEW f \in Nat,
         NEW k \in Nat, NEW t \in Nat, NEW s \in Nat, s = (k + 1) - f, f <= k,
         Spread(e, f, k + 1, t, rem, S), \A i \in DOMAIN e : e[i] \in EpochRecords,
         NEW ins, InsertedFrom(ins, e, k + 1, rem, s, t)
  PROVE  ins = At(ins.epoch, f + Len(S), <<>>) /\ FilledEpochs(ins.epoch, e, f, k, t, S)
<1> DEFINE e2 == ins.epoch
           J == k + 1 .. (k + 1) + Len(rem) - 1
<1>1. /\ (k + 1) - f + Len(rem) = Len(S) /\ Len(rem) \in Nat /\ Len(S) \in Nat
      /\ 0 .. (k + 1) - 1 \subseteq DOMAIN e /\ DOMAIN e \subseteq 0 .. f + Len(S) - 1
  BY SMTT(30) DEF Spread
<1>2. /\ ins = At(e2, (k + 1) + Len(rem), <<>>)
      /\ DOMAIN e2 = DOMAIN e \cup J
      /\ \A i \in DOMAIN e : i \notin J => e2[i] = e[i]
      /\ \A i \in J : e2[i] = [chip |-> rem[i - (k + 1) + 1], temporal |-> t,
                               spatial |-> s + i - (k + 1), ops |-> <<>>,
                               grid |-> IF i \in DOMAIN e THEN e[i].grid
                                        ELSE create_empty_device_grid(0, 0)]
  BY DEF InsertedFrom
<1> HIDE DEF e2
<1>3. (k + 1) + Len(rem) = f + Len(S) /\ J = k + 1 .. f + Len(S) - 1 /\ (k + 1) - 1 = k
  BY <1>1
<1>9. 0 .. f + Len(S) - 1 = (0 .. k) \cup J
  BY SMTT(30), <1>1, <1>3
<1>4. DOMAIN e2 = 0 .. f + Len(S) - 1
  BY <1>1, <1>2, <1>3, <1>9
<1>5. \A i \in 0 .. k : e2[i] = e[i]
  <2>1. \A i \in 0 .. k : i \in DOMAIN e /\ i \notin J
    BY <1>1, <1>3
  <2> QED
    BY <1>2, <2>1
<1>10. \A i \in J : s + i - (k + 1) = i - f /\ i \in Nat /\ i - f \in Nat
  BY <1>1
<1>6. \A i \in J : /\ e2[i].chip = rem[(i - (k + 1)) + 1] /\ e2[i].temporal = t
                   /\ e2[i].spatial = i - f /\ e2[i].ops = <<>>
  <2> SUFFICES ASSUME NEW i \in J
               PROVE  /\ e2[i].chip = rem[(i - (k + 1)) + 1] /\ e2[i].temporal = t
                      /\ e2[i].spatial = i - f /\ e2[i].ops = <<>>
    OBVIOUS
  <2> DEFINE g == IF i \in DOMAIN e THEN e[i].grid ELSE create_empty_device_grid(0, 0)
  <2>1. e2[i] = [chip |-> rem[(i - (k + 1)) + 1], temporal |-> t, spatial |-> i - f,
                 ops |-> <<>>, grid |-> g]
    BY <1>2, <1>10
  <2> HIDE DEF g, J
  <2> QED
    BY <2>1
<1>7. PastWhole(e2, f + Len(S), t + 1, S)
  <2>1. \A i \in 0 .. (k + 1) - 1 : e2[i] = e[i]
    BY <1>3, <1>5
  <2> QED
    BY ZenonT(30), <1>6, <2>1, SpreadFilled
<1>8. \A i \in DOMAIN e2 : e2[i] \in EpochRecords /\ (i > k => e2[i].ops = <<>>)
  <2>1. ASSUME NEW i \in 0 .. k PROVE e2[i] \in EpochRecords /\ ~(i > k)
    <3>1. i \in DOMAIN e /\ e2[i] = e[i]
      BY <1>1, <1>3, <1>5, <2>1
    <3>2. ~(i > k)
      BY <2>1
    <3> QED
      BY <3>1, <3>2
  <2>2. ASSUME NEW i \in J PROVE e2[i] \in EpochRecords /\ e2[i].ops = <<>>
    <3>1. (i - (k + 1)) + 1 \in 1 .. Len(rem) /\ DOMAIN rem = 1 .. Len(rem)
      BY <1>1, <2>2
    <3>2. rem[(i - (k + 1)) + 1] \in Nat
      BY <3>1
    <3> DEFINE g == IF i \in DOMAIN e THEN e[i].grid ELSE create_empty_device_grid(0, 0)
    <3>3. g \in Grids
      BY GridTypes DEF EpochRecords
    <3>4. e2[i] = [chip |-> rem[i - (k + 1) + 1], temporal |-> t, spatial |-> i - f,
                   ops |-> <<>>, grid |-> g]
      BY <1>2, <1>10, <2>2
    <3>6. <<>> \in Seq(Op \X Places)
      OBVIOUS
    <3> HIDE DEF g
    <3>7. e2[i] \in EpochRecords
      BY <1>10, <3>2, <3>3, <3>4, <3>6 DEF EpochRecords
    <3> QED
      BY <1>6, <2>2, <3>7
  <2> QED
    BY <1>4, <1>9, <2>1, <2>2
<1> QED
  BY <1>2, <1>3, <1>4, <1>5, <1>7, <1>8 DEF FilledEpochs, e2

\* insert_empty_graphs completes the temporal epoch that is being placed.
Completed ==
    insert_empty_graphs(At(epoch, current_epoch_index + 1, remaining_chip_ids),
                        current_spatial_epoch_id + 1, current_temporal_epoch_id)

\* So it is when a temporal epoch is broken off or committed.
LEMMA FilledUp ==
  ASSUME TypeInv, OpenEpochs, valid = "open"
  PROVE  /\ Completed = At(Completed.epoch, Base + Len(sorted_chip_ids), <<>>)
         /\ FilledEpochs(Completed.epoch, epoch, Base, current_epoch_index,
                         current_temporal_epoch_id, sorted_chip_ids)
<1> DEFINE k == current_epoch_index
           s == current_spatial_epoch_id + 1
           b == Base
           ins == Completed
<1>1. /\ sorted_chip_ids \in Seq(Nat) /\ remaining_chip_ids \in Seq(Nat)
      /\ k \in Nat /\ k + 1 \in Nat /\ current_temporal_epoch_id \in Nat /\ s \in Nat
      /\ b \in Nat /\ b <= k /\ s = (k + 1) - b
      /\ Spread(epoch, b, k + 1, current_temporal_epoch_id, remaining_chip_ids, sorted_chip_ids)
      /\ \A i \in DOMAIN epoch : epoch[i] \in EpochRecords
  <2>1. /\ sorted_chip_ids \in Seq(Nat) /\ remaining_chip_ids \in Seq(Nat)
        /\ k \in Nat /\ current_temporal_epoch_id \in Nat /\ current_spatial_epoch_id \in Nat
        /\ b \in 0 .. k /\ k - b = current_spatial_epoch_id
        /\ Spread(epoch, b, k + 1, current_temporal_epoch_id, remaining_chip_ids, sorted_chip_ids)
        /\ \A i \in DOMAIN epoch : epoch[i] \in EpochRecords
    BY OpenFacts
  <2> HIDE DEF k, b
  <2>2. k + 1 \in Nat /\ s \in Nat /\ b \in Nat /\ b <= k /\ s = (k + 1) - b
    BY <2>1
  <2> QED
    BY <2>1, <2>2
<1>2. InsertedFrom(ins, epoch, k + 1, remaining_chip_ids, s, current_temporal_epoch_id)
  BY <1>1, Inserted DEF Completed
<1>3. config \in Configs
  BY DEF TypeInv
<1> HIDE DEF k, s, b, ins
<1>4. /\ ins = At(ins.epoch, b + Len(sorted_chip_ids), <<>>)
      /\ FilledEpochs(ins.epoch, epoch, b, k, current_temporal_epoch_id, sorted_chip_ids)
  BY <1>1, <1>2, <1>3, FilledAll
<1> QED
  BY <1>4 DEF k, b, ins

\* A step that places nothing and opens no epoch leaves the epochs as they are.
LEMMA EpochsFrame ==
  ASSUME TypeInv, OpenEpochs, Committed, Assigned, HasPlaced,
         UNCHANGED <<config, valid, placing, num_epochs, assign>>
  PROVE  /\ OpenEpochs' /\ Committed' /\ Assigned' /\ HasPlaced'
         /\ ChipTypes' /\ EpochTypes' /\ NameTypes'
         /\ config' \in Configs /\ valid' \in {"open", "assigning", "committed", "aborted"}
         /\ num_epochs' \in Nat /\ assign' \in Assigns
<1>1. /\ config' = config /\ valid' = valid /\ sorted_chip_ids' = sorted_chip_ids
      /\ remaining_chip_ids' = remaining_chip_ids /\ current_chip_id' = current_chip_id
      /\ current_epoch_index' = current_epoch_index
      /\ current_temporal_epoch_id' = current_temporal_epoch_id
      /\ current_spatial_epoch_id' = current_spatial_epoch_id
      /\ placed_ops' = placed_ops /\ visited_ops' = visited_ops
      /\ name_to_op_placement' = name_to_op_placement /\ epoch' = epoch
      /\ num_epochs' = num_epochs /\ assign' = assign
  BY DEF placing
<1>2. Base' = Base /\ Chips' = Chips /\ AllPlaced' = AllPlaced
  BY <1>1 DEF Base, Chips, OpenChips, AllPlaced
<1>3. OpenEpochs'
  BY <1>1, <1>2 DEF OpenEpochs
<1>4. Committed'
  BY <1>1 DEF Committed
<1>5. Assigned'
  BY <1>1 DEF Assigned
<1>6. HasPlaced'
  BY <1>1, <1>2 DEF HasPlaced
<1>7. ChipTypes' /\ EpochTypes' /\ NameTypes'
  BY <1>1, <1>2 DEF ChipTypes, EpochTypes, NameTypes, TypeInv
<1> QED
  BY <1>1, <1>3, <1>4, <1>5, <1>6, <1>7 DEF TypeInv, CallTypes

\* No call is a call without ops.
LEMMA NoCallTypes ==
  NoCall \in Calls /\ NoCall.ops = <<>>
<1>1. <<>> \in Seq(Op) /\ <<>> \in Seq(Shapes)
  OBVIOUS
<1> QED
  BY <1>1 DEF NoCall, Calls

\* The call of a policy that places one op.
LEMMA StepPlaceOp ==
  ASSUME EpochsInv, NEW op \in Op, NEW chip_break \in BOOLEAN, PlaceOp(op, chip_break)
  PROVE  EpochsInv'
<1>1. /\ valid = "open" /\ replay = <<>> /\ op \notin DOMAIN name_to_op_placement
      /\ call' = [ops |-> <<op>>, shapes |-> <<config.shape[op]>>,
                  transpose |-> config.auto_transpose, chip_break |-> chip_break]
      /\ UNCHANGED <<config, valid, placing, num_epochs, assign>> /\ replay' = replay
  BY DEF PlaceOp, Idle
<1>2. config \in Configs /\ TypeInv /\ OpenEpochs /\ Committed /\ Assigned /\ HasPlaced
  BY DEF EpochsInv, TypeInv
<1>3. config.shape[op] \in Shapes /\ config.auto_transpose \in BOOLEAN
  BY <1>2, ConfigFacts
<1>4. <<op>> \in Seq(Op) /\ <<config.shape[op]>> \in Seq(Shapes)
  BY <1>3
<1>5. call' \in Calls
  BY <1>1, <1>3, <1>4 DEF Calls
<1>6. name_to_op_placement' = name_to_op_placement /\ valid' = valid
  BY <1>1 DEF placing
<1>7. CallOk'
  <2>1. call'.ops = <<op>> /\ call'.shapes = <<config.shape[op]>>
    BY <1>1
  <2>2. IsInjective(<<op>>) /\ Range(<<op>>) = {op}
    BY DEF IsInjective, Range
  <2> QED
    BY <1>1, <1>6, <2>1, <2>2 DEF CallOk
<1>8. ToPlace'
  BY <1>1, <1>6, <1>7 DEF ToPlace
<1>9. TypeInv'
  BY <1>1, <1>2, <1>5, EpochsFrame DEF TypeInv, CallTypes
<1> QED
  BY <1>1, <1>2, <1>8, <1>9, EpochsFrame DEF EpochsInv

\* The call of a policy that places two ops as one block.
LEMMA StepPlaceTwo ==
  ASSUME EpochsInv, NEW op1 \in Op, NEW op2 \in Op, NEW chip_break \in BOOLEAN,
         PlaceTwoOpsRowwise(op1, op2, chip_break)
  PROVE  EpochsInv'
<1> DEFINE s1 == config.shape[op1]
           s2 == config.shape[op2]
<1>1. /\ valid = "open" /\ replay = <<>> /\ op1 # op2
      /\ {op1, op2} \cap DOMAIN name_to_op_placement = {} /\ s1[1] = s2[1]
      /\ call' = [ops |-> <<op1, op2>>, shapes |-> <<s1, s2>>,
                  transpose |-> config.auto_transpose, chip_break |-> chip_break]
      /\ UNCHANGED <<config, valid, placing, num_epochs, assign>> /\ replay' = replay
  BY DEF PlaceTwoOpsRowwise, Idle
<1>2. config \in Configs /\ TypeInv /\ OpenEpochs /\ Committed /\ Assigned /\ HasPlaced
  BY DEF EpochsInv, TypeInv
<1>3. s1 \in Shapes /\ s2 \in Shapes /\ config.auto_transpose \in BOOLEAN
  BY <1>2, ConfigFacts
<1> HIDE DEF s1, s2
<1>4. <<op1, op2>> \in Seq(Op) /\ <<s1, s2>> \in Seq(Shapes)
  BY <1>3
<1>5. call' \in Calls
  BY <1>1, <1>3, <1>4 DEF Calls
<1>6. name_to_op_placement' = name_to_op_placement /\ valid' = valid
  BY <1>1 DEF placing
<1>7. CallOk'
  <2>1. call'.ops = <<op1, op2>> /\ call'.shapes = <<s1, s2>>
    BY <1>1
  <2>2. IsInjective(<<op1, op2>>) /\ Range(<<op1, op2>>) = {op1, op2}
    BY <1>1 DEF IsInjective, Range
  <2> QED
    BY <1>1, <1>6, <2>1, <2>2 DEF CallOk
<1>8. ToPlace'
  BY <1>1, <1>6, <1>7 DEF ToPlace
<1>9. TypeInv'
  BY <1>1, <1>2, <1>5, EpochsFrame DEF TypeInv, CallTypes
<1> QED
  BY <1>1, <1>2, <1>8, <1>9, EpochsFrame DEF EpochsInv

\* No chip is left for the op of the call.
LEMMA StepNotPlaced ==
  ASSUME EpochsInv, valid = "open", NEW r, NotPlaced(r)
  PROVE  EpochsInv'
<1>1. /\ valid' \in {"open", "aborted"} /\ call' = NoCall /\ replay' = <<>>
      /\ UNCHANGED <<config, placing, num_epochs, assign>>
  BY DEF NotPlaced
<1>2. /\ config \in Configs /\ TypeInv /\ OpenEpochs /\ Committed /\ Assigned /\ HasPlaced
      /\ ChipTypes /\ EpochTypes /\ NameTypes /\ CallTypes
  BY DEF EpochsInv, TypeInv
<1>3. <<>> \in Seq(Op \X Places)
  OBVIOUS
<1>4. ToPlace'
  BY <1>1 DEF ToPlace
<1>5. CASE valid' = "open"
  <2>1. UNCHANGED <<config, valid, placing, num_epochs, assign>>
    BY <1>1, <1>5
  <2>2. TypeInv'
    BY <1>1, <1>2, <1>3, <2>1, EpochsFrame, NoCallTypes DEF TypeInv, CallTypes
  <2> QED
    BY <1>2, <1>4, <2>1, <2>2, EpochsFrame DEF EpochsInv
<1>6. CASE valid' = "aborted"
  <2>1. OpenEpochs' /\ Committed' /\ Assigned' /\ HasPlaced'
    BY <1>6 DEF OpenEpochs, Committed, Assigned, HasPlaced
  <2>2. Chips' = Chips
    BY <1>1, <1>6 DEF Chips, OpenChips
  <2>3. ChipTypes' /\ EpochTypes' /\ NameTypes'
    BY <1>1, <1>2, <2>2 DEF ChipTypes, EpochTypes, NameTypes, placing
  <2>4. TypeInv'
    BY <1>1, <1>2, <1>3, <2>3, NoCallTypes DEF TypeInv, CallTypes
  <2> QED
    BY <1>4, <2>1, <2>4 DEF EpochsInv
<1> QED
  BY <1>1, <1>5, <1>6

\* The chips that the call in progress asks for, how often the current chip goes
\* back to the pool, and the pool that the next chip is taken from.
Req == requested_chip_ids(call.ops[1], CallOverride)
Backs == PutBack(Req)
NextPool == [i \in 1 .. Backs |-> current_chip_id] \o remaining_chip_ids

\* An epoch is opened on a chip of this pool, at the current one's place when the
\* current chip goes back.
NextOpens ==
    /\ Backs \in {0, 1}
    /\ Backs = IF placed_ops = <<>> /\ Range(Req) \cap Range(remaining_chip_ids) # {} THEN 1 ELSE 0
    /\ Req \in Seq(Int) /\ Len(Req) <= 1
    /\ NextPool \in Seq(Nat) /\ NextPool # <<>> /\ IsInjective(NextPool)
    /\ Range(NextPool) = Range(remaining_chip_ids) \cup (IF Backs = 1 THEN {current_chip_id} ELSE {})
    /\ Opened(epoch, current_epoch_index + 1 - Backs, NextPool, current_temporal_epoch_id,
              current_spatial_epoch_id + 1 - Backs, Req)
    /\ Base' = Base /\ current_epoch_index' = current_epoch_index + 1 - Backs
    /\ StaysOpen /\ ChipTypes' /\ EpochTypes' /\ OpenEpochs'

\* This is what the loop of place_one_op does when it goes on with another chip.
LEMMA NextChipOpens ==
  ASSUME EpochsInv, OneRequested, valid = "open", call # NoCall, NEW r, NextChip(r)
  PROVE  NextOpens
<1> DEFINE k == current_epoch_index
           t == current_temporal_epoch_id
           rem == remaining_chip_ids
           req == Req
           n == Backs
           back == [i \in 1 .. n |-> current_chip_id]
           pool == NextPool
           b == Base
<1>1. /\ TypeInv /\ OpenEpochs /\ CallOk /\ CallTypes /\ ChipTypes /\ HasPlaced /\ ToPlace
      /\ config \in Configs /\ NameTypes
  BY DEF EpochsInv, TypeInv, ToPlace
<1>2. /\ rem # <<>>
      /\ init_epoch(Position(k + 1 - n, pool), t,
                    current_spatial_epoch_id + 1 - n, req)
      /\ UNCHANGED <<config, valid, sorted_chip_ids, placed_ops, name_to_op_placement,
                     num_epochs, call, replay, assign>>
  BY DEF NextChip, Req, Backs, NextPool
<1>3. req \in Seq(Int) /\ Len(req) <= 1
  BY <1>1, Requested DEF Req
<1>4. /\ n \in {0, 1}
      /\ n = IF placed_ops = <<>> /\ Range(req) \cap Range(rem) # {} THEN 1 ELSE 0
  BY <1>3, PutsBack DEF Backs
<1>5. /\ sorted_chip_ids \in Seq(Nat) /\ rem \in Seq(Nat) /\ IsInjective(rem)
      /\ k \in Nat /\ t \in Nat /\ current_spatial_epoch_id \in Nat
      /\ b \in 0 .. k /\ k - b = current_spatial_epoch_id
      /\ Spread(epoch, b, k + 1, t, rem, sorted_chip_ids)
      /\ \A i \in DOMAIN epoch : epoch[i] \in EpochRecords
      /\ epoch[k].chip = current_chip_id /\ current_chip_id \notin Range(rem)
      /\ current_chip_id \in OpenChips /\ OpenChips \subseteq Nat
  BY <1>1, OpenFacts
<1>6. Position(k + 1 - n, pool) = At(epoch, k + 1 - n, pool)
  BY DEF Position, At
<1>11. pool = back \o rem
  BY DEF NextPool
<1> HIDE DEF n, req, k, t, b, pool
<1>7. /\ pool \in Seq(Nat) /\ pool # <<>> /\ IsInjective(pool)
      /\ Range(pool) = Range(rem) \cup (IF n = 1 THEN {current_chip_id} ELSE {})
      /\ Spread(epoch, b, k + 1 - n, t, pool, sorted_chip_ids)
  <2>1. CASE n = 0
    <3>1. pool = rem /\ k + 1 - n = k + 1
      BY <1>5, <1>11, <2>1
    <3> QED
      BY <1>2, <1>5, <2>1, <3>1
  <2>2. CASE n = 1
    <3>1. back = <<current_chip_id>> /\ k + 1 - n = k /\ b \in Nat /\ b <= k
      BY <1>5, <2>2
    <3>2. /\ back \in Seq(Nat) /\ IsInjective(back) /\ Range(back) = {current_chip_id} /\ Len(back) = 1
      <4>1. current_chip_id \in Nat
        BY <1>5
      <4> HIDE DEF back
      <4>2. back \in Seq(Nat) /\ Len(back) = 1 /\ DOMAIN back = {1} /\ back[1] = current_chip_id
        BY <3>1, <4>1
      <4> QED
        BY <4>2 DEF IsInjective, Range
    <3> HIDE DEF back
    <3>9. Range(back) \cap Range(rem) = {}
      BY <1>5, <3>2
    <3>3. /\ pool \in Seq(Nat) /\ Len(pool) = 1 + Len(rem) /\ Range(pool) = {current_chip_id} \cup Range(rem)
          /\ IsInjective(pool)
      <4>1. rem \in Seq(Nat) /\ IsInjective(rem)
        BY <1>5
      <4>2. back \in Seq(Nat) /\ IsInjective(back)
        BY <3>2
      <4> HIDE DEF rem
      <4>3. /\ back \o rem \in Seq(Nat) /\ Len(back \o rem) = Len(back) + Len(rem)
            /\ Range(back \o rem) = Range(back) \cup Range(rem) /\ IsInjective(back \o rem)
        BY <3>9, <4>1, <4>2, Concatenation
      <4> QED
        BY <1>11, <3>2, <4>3
    <3>4. Len(rem) \in Nat /\ Len(pool) = Len(rem) + 1 /\ pool # <<>>
      BY <1>5, <3>3
    <3>5. Spread(epoch, b, k, t, pool, sorted_chip_ids)
      BY <1>5, <3>1, <3>3, <3>4, SpreadBack
    <3> QED
      BY <2>2, <3>1, <3>3, <3>4, <3>5
  <2> QED
    BY <1>4, <2>1, <2>2
<1>8. current_spatial_epoch_id + 1 - n \in Nat /\ current_spatial_epoch_id + 1 - n = (k + 1 - n) - b
  BY <1>4, <1>5
<1>9. StaysOpen
  BY <1>1, <1>2 DEF StaysOpen, OpenEpochs
<1>12. init_epoch(At(epoch, k + 1 - n, pool), t, current_spatial_epoch_id + 1 - n, req)
  BY <1>2, <1>6 DEF t, n, req, pool
<1>10. /\ ChipTypes' /\ EpochTypes' /\ OpenEpochs' /\ Base' = b
       /\ current_epoch_index' = k + 1 - n
  BY <1>3, <1>5, <1>7, <1>8, <1>9, <1>12, Opens
<1>13. Opened(epoch, k + 1 - n, pool, t, current_spatial_epoch_id + 1 - n, req)
  BY <1>2, <1>3, <1>7, <1>12, OpenedEpoch
<1> QED
  BY <1>3, <1>4, <1>7, <1>9, <1>10, <1>13 DEF NextOpens, k, t, n, req, pool, b

\* The loop of place_one_op goes on with another chip.
LEMMA StepNextChip ==
  ASSUME EpochsInv, OneRequested, valid = "open", call # NoCall, NEW r, NextChip(r)
  PROVE  EpochsInv'
<1>1. /\ TypeInv /\ CallOk /\ CallTypes /\ HasPlaced /\ ToPlace /\ NameTypes /\ config \in Configs
  BY DEF EpochsInv, TypeInv, ToPlace
<1>2. UNCHANGED <<config, valid, sorted_chip_ids, placed_ops, name_to_op_placement,
                  num_epochs, call, replay, assign>>
  BY DEF NextChip
<1>9. StaysOpen
  BY NextChipOpens DEF NextOpens
<1>10. ChipTypes' /\ EpochTypes' /\ OpenEpochs'
  BY NextChipOpens DEF NextOpens
<1>11. TypeInv'
  BY <1>1, <1>2, <1>10 DEF TypeInv, NameTypes, CallTypes
<1>12. Committed' /\ Assigned'
  BY <1>9 DEF Committed, Assigned, StaysOpen
<1>13. ToPlace'
  BY <1>1, <1>2 DEF ToPlace, CallOk
<1>14. HasPlaced'
  <2>1. call.ops[1] \in Range(call.ops) /\ call.ops[1] \in Op
    BY <1>1, CallShape DEF CallTypes, Range
  <2>2. ~AllPlaced'
    BY <1>1, <1>2, <2>1 DEF AllPlaced, CallOk
  <2> QED
    BY <1>1, <1>2, <2>2, <1>9 DEF HasPlaced, StaysOpen
<1> QED
  BY <1>10, <1>11, <1>12, <1>13, <1>14 DEF EpochsInv

\* The entries that the ops of a call, placed at p, get in their epoch.
Entries(p) == [i \in DOMAIN call.ops |-> <<call.ops[i], p[i]>>]

\* The ops of the call are listed in the current epoch and recorded by name.
OpsPlaced(p) ==
    LET k == current_epoch_index
        e2 == epoch'
        n2 == name_to_op_placement'
    IN  /\ DOMAIN e2 = DOMAIN epoch /\ \A i \in DOMAIN epoch : i # k => e2[i] = epoch[i]
        /\ e2[k] \in EpochRecords
        /\ e2[k].chip = epoch[k].chip /\ e2[k].temporal = epoch[k].temporal
        /\ e2[k].spatial = epoch[k].spatial
        /\ e2[k].ops = epoch[k].ops \o Entries(p)
        /\ e2[k].grid.rows = epoch[k].grid.rows /\ e2[k].grid.cols = epoch[k].grid.cols
        /\ e2[k].grid.used = epoch[k].grid.used
                               \cup UNION {Cores(p[i].start, p[i].shape) : i \in DOMAIN call.ops}
        /\ placed_ops' = placed_ops \o call.ops
        /\ DOMAIN n2 = DOMAIN name_to_op_placement \cup Range(call.ops)
        /\ \A i \in DOMAIN call.ops : n2[call.ops[i]] = p[i]
        /\ \A o \in DOMAIN name_to_op_placement : n2[o] = name_to_op_placement[o]
        /\ Return(IF replay = <<>> THEN <<>> ELSE Tail(replay))
        /\ UNCHANGED <<config, valid, sorted_chip_ids, remaining_chip_ids, current_chip_id,
                       current_epoch_index, current_temporal_epoch_id,
                       current_spatial_epoch_id, visited_ops, num_epochs, assign>>

\* The entries of a call: one for each of its ops.
LEMMA EntriesTypes ==
  ASSUME call \in Calls, CallOk, NEW p, \A i \in DOMAIN call.ops : p[i] \in Places
  PROVE  /\ Entries(p) \in Seq(Op \X Places) /\ Len(Entries(p)) = Len(call.ops)
         /\ DOMAIN Entries(p) = DOMAIN call.ops /\ Len(call.ops) \in {1, 2}
         /\ \A i \in DOMAIN call.ops : Entries(p)[i][1] = call.ops[i] /\ Entries(p)[i][2] = p[i]
<1>1. call.ops \in Seq(Op) /\ Len(call.ops) \in {1, 2}
  BY CallShape
<1>2. DOMAIN call.ops = 1 .. Len(call.ops) /\ \A i \in DOMAIN call.ops : call.ops[i] \in Op
  BY <1>1
<1>3. \A i \in DOMAIN call.ops : <<call.ops[i], p[i]>> \in Op \X Places
  BY <1>2
<1> DEFINE n == Len(call.ops)
<1> HIDE DEF n
<1>4. n \in Nat /\ DOMAIN call.ops = 1 .. n
  BY <1>1, <1>2 DEF n
<1> DEFINE x(i) == <<call.ops[i], p[i]>>
           X == Op \X Places
<1>6. \A i \in 1 .. n : x(i) \in X
  BY <1>3, <1>4
<1> HIDE DEF x, X
<1>5. [i \in 1 .. n |-> x(i)] \in Seq(X) /\ Len([i \in 1 .. n |-> x(i)]) = n
  BY <1>4, <1>6
<1> QED
  BY <1>1, <1>4, <1>5 DEF Entries, n, x, X

\* This is what the end of the loop of place_one_op does.
LEMMA PlacedFacts ==
  ASSUME EpochsInv, valid = "open", call # NoCall, NEW r, r = TryPlace, Placed(r)
  PROVE  BlockRight(r, OpPlacements(r)) /\ OpsPlaced(OpPlacements(r))
<1> DEFINE k == current_epoch_index
           p == OpPlacements(r)
           names == call.ops
           X == [i \in DOMAIN names |-> <<names[i], p[i]>>]
           U == UNION {Cores(p[i].start, p[i].shape) : i \in DOMAIN names}
<1>1. /\ TypeInv /\ OpenEpochs /\ CallOk /\ config \in Configs /\ call \in Calls
      /\ replay \in Seq(Op \X Places)
  BY DEF EpochsInv, ToPlace, TypeInv, CallTypes
<1>2. /\ k \in Nat /\ k \in DOMAIN epoch /\ epoch[k] \in EpochRecords /\ current_chip_id \in Nat
  <2>1. k \in Nat /\ 0 .. k \subseteq DOMAIN epoch /\ current_chip_id \in OpenChips /\ OpenChips \subseteq Nat
        /\ \A i \in DOMAIN epoch : epoch[i] \in EpochRecords
    BY <1>1, OpenFacts
  <2>2. k \in 0 .. k
    BY <2>1
  <2> QED
    BY <2>1, <2>2
<1>3. r.res = "placed" /\ epoch[k].grid \in Grids
  BY <1>2 DEF Placed, EpochRecords
<1>4. BlockRight(r, p)
  BY <1>1, <1>2, <1>3, BlockPlaced
<1>5. /\ placed_ops' = placed_ops \o names
      /\ name_to_op_placement' =
            [o \in DOMAIN name_to_op_placement \cup Range(names) |->
                IF o \in Range(names) THEN p[CHOOSE i \in DOMAIN names : names[i] = o]
                ELSE name_to_op_placement[o]]
      /\ epoch' = [epoch EXCEPT ![k].ops = @ \o X, ![k].grid.used = @ \cup U]
      /\ Return(IF replay = <<>> THEN <<>> ELSE Tail(replay))
      /\ UNCHANGED <<config, valid, sorted_chip_ids, remaining_chip_ids, current_chip_id,
                     current_epoch_index, current_temporal_epoch_id,
                     current_spatial_epoch_id, visited_ops, num_epochs, assign>>
  BY DEF Placed
<1> HIDE DEF p
<1>6. /\ \A i \in DOMAIN call.ops : p[i] \in Places
      /\ \A i \in DOMAIN call.ops : Cores(p[i].start, p[i].shape) \subseteq Nat \X Nat
  BY <1>4 DEF BlockRight
<1>7. X = Entries(p) /\ X \in Seq(Op \X Places) /\ U \subseteq Nat \X Nat
  BY ZenonT(30), <1>1, <1>6, EntriesTypes DEF Entries
<1>8. epoch[k].ops \o X \in Seq(Op \X Places)
  BY <1>2, <1>7 DEF EpochRecords
<1> DEFINE UU == U
<1> HIDE DEF X, U, names, k
<1>9. /\ DOMAIN epoch' = DOMAIN epoch /\ \A i \in DOMAIN epoch : i # k => epoch'[i] = epoch[i]
      /\ epoch'[k].chip = epoch[k].chip /\ epoch'[k].temporal = epoch[k].temporal
      /\ epoch'[k].spatial = epoch[k].spatial /\ epoch'[k].ops = epoch[k].ops \o X
  BY <1>2, <1>5 DEF EpochRecords
<1>10. /\ epoch'[k].grid.rows = epoch[k].grid.rows /\ epoch'[k].grid.cols = epoch[k].grid.cols
       /\ epoch'[k].grid.used = epoch[k].grid.used \cup U
  BY <1>2, <1>5 DEF EpochRecords, Grids
<1>11. epoch'[k] \in EpochRecords
  BY <1>2, <1>5, <1>7, <1>8 DEF EpochRecords, Grids
<1>12. /\ DOMAIN name_to_op_placement' = DOMAIN name_to_op_placement \cup Range(names)
       /\ \A o \in DOMAIN name_to_op_placement : name_to_op_placement'[o] = name_to_op_placement[o]
  <2>1. Range(names) \cap DOMAIN name_to_op_placement = {}
    BY <1>1 DEF CallOk, names
  <2> QED
    BY <1>5, <2>1
<1>13. ASSUME NEW i \in DOMAIN names PROVE name_to_op_placement'[names[i]] = p[i]
  <2>1. names[i] \in Range(names)
    BY DEF Range
  <2>2. \A j \in DOMAIN names : names[j] = names[i] => j = i
    BY <1>1 DEF CallOk, IsInjective, names
  <2>3. (CHOOSE j \in DOMAIN names : names[j] = names[i]) = i
    BY <2>2
  <2> QED
    BY <1>5, <2>1, <2>3
<1> QED
  BY <1>4, <1>5, <1>7, <1>9, <1>10, <1>11, <1>12, <1>13 DEF OpsPlaced, p, names, k, U

\* The call after a placement that is placed again.
LEMMA Returned ==
  ASSUME NEW left \in Seq(Op \X Places), Return(left), valid' = "open",
         \A i \in DOMAIN left : left[i][1] \notin (DOMAIN name_to_op_placement)',
         \A i, j \in DOMAIN left : left[i][1] = left[j][1] => i = j
  PROVE  call' \in Calls /\ replay' \in Seq(Op \X Places) /\ ToPlace'
<1>1. replay' = left
  BY DEF Return
<1>2. CASE left = <<>>
  <2>1. call' = NoCall
    BY <1>2 DEF Return
  <2> QED
    BY <1>1, <1>2, <2>1, NoCallTypes DEF ToPlace
<1>3. CASE left # <<>>
  <2>1. 1 \in DOMAIN left /\ left[1] \in Op \X Places
    BY <1>3
  <2> DEFINE o == left[1][1]
             p == left[1][2]
             s == IF p.transpose THEN Transposed(p.shape) ELSE p.shape
  <2>2. call' = CallOf(o, p) /\ call' = [ops |-> <<o>>, shapes |-> <<s>>, transpose |-> FALSE, chip_break |-> FALSE]
    BY <1>3 DEF Return, CallOf
  <2>3. o \in Op /\ p \in Places
    BY <2>1
  <2>4. s \in Shapes
    BY <2>3 DEF Places, Shapes, Transposed
  <2> HIDE DEF o, p, s
  <2>5. <<o>> \in Seq(Op) /\ <<s>> \in Seq(Shapes)
    BY <2>3, <2>4
  <2>6. call' \in Calls
    BY <2>2, <2>5 DEF Calls
  <2>7. IsInjective(<<o>>) /\ Range(<<o>>) = {o} /\ Len(<<o>>) = 1 /\ Len(<<s>>) = 1
    BY DEF IsInjective, Range
  <2>8. o \notin (DOMAIN name_to_op_placement)'
    BY <2>1 DEF o
  <2>9. CallOk'
    BY <2>2, <2>7, <2>8 DEF CallOk
  <2>10. call' # NoCall
    <3>1. call'.ops # <<>>
      BY <2>2
    <3> QED
      BY <3>1, NoCallTypes
  <2>11. ToPlace'
    BY <1>1, <2>2, <2>9, <2>10 DEF ToPlace, o, p
  <2> QED
    BY <1>1, <2>6, <2>11
<1> QED
  BY <1>2, <1>3

\* What Spread says of the epochs does not depend on the ops they hold.
LEMMA SpreadFrame ==
  ASSUME NEW e, NEW e2, NEW f, NEW k, NEW t \in Nat, NEW S \in Seq(Nat), NEW rem,
         Spread(e, f, k, t, rem, S), DOMAIN e2 = DOMAIN e,
         \A i \in 0 .. f - 1 : e2[i] = e[i],
         \A i \in f .. k - 1 : /\ e2[i].chip = e[i].chip /\ e2[i].temporal = e[i].temporal
                               /\ e2[i].spatial = e[i].spatial
  PROVE  Spread(e2, f, k, t, rem, S)
<1>1. /\ f \in Nat /\ k \in Nat /\ f <= k /\ k - f + Len(rem) = Len(S)
      /\ \A i \in f .. k - 1 : /\ e[i].temporal = t /\ e[i].spatial = i - f
                               /\ e[i].chip \in Range(S)
      /\ \A i, j \in f .. k - 1 : e[i].chip = e[j].chip => i = j
      /\ Range(rem) = Range(S) \ {e[i].chip : i \in f .. k - 1}
      /\ 0 .. k - 1 \subseteq DOMAIN e /\ DOMAIN e \subseteq 0 .. f + Len(S) - 1
      /\ PastWhole(e, f, t, S)
  BY DEF Spread
<1>2. PastWhole(e2, f, t, S)
  <2>1. Len(S) \in Nat
    OBVIOUS
  <2> QED
    BY <1>1, <2>1, PastFrame
<1> DEFINE I == f .. k - 1
<1>3. \A i \in I : e2[i].chip = e[i].chip /\ e2[i].temporal = e[i].temporal /\ e2[i].spatial = e[i].spatial
  OBVIOUS
<1>4. /\ \A i \in I : e[i].temporal = t /\ e[i].spatial = i - f /\ e[i].chip \in Range(S)
      /\ \A i, j \in I : e[i].chip = e[j].chip => i = j
      /\ Range(rem) = Range(S) \ {e[i].chip : i \in I}
  BY <1>1
<1> HIDE DEF I
<1>5. {e2[i].chip : i \in I} = {e[i].chip : i \in I}
  BY <1>3
<1>6. /\ \A i \in I : e2[i].temporal = t /\ e2[i].spatial = i - f /\ e2[i].chip \in Range(S)
      /\ \A i, j \in I : e2[i].chip = e2[j].chip => i = j
      /\ Range(rem) = Range(S) \ {e2[i].chip : i \in I}
  BY <1>3, <1>4, <1>5
<1> QED
  BY <1>1, <1>2, <1>6 DEF Spread, I

\* The ops of the call are placed on the current chip.
LEMMA StepPlaced ==
  ASSUME EpochsInv, valid = "open", call # NoCall, NEW r, r = TryPlace, Placed(r)
  PROVE  EpochsInv'
<1> DEFINE k == current_epoch_index
           p == OpPlacements(r)
           left == IF replay = <<>> THEN <<>> ELSE Tail(replay)
<1>1. /\ TypeInv /\ OpenEpochs /\ CallOk /\ ToPlace /\ HasPlaced /\ ChipTypes /\ EpochTypes
      /\ NameTypes /\ CallTypes /\ config \in Configs /\ call \in Calls /\ replay \in Seq(Op \X Places)
  BY DEF EpochsInv, ToPlace, TypeInv, CallTypes
<1>2. BlockRight(r, p) /\ OpsPlaced(p)
  BY PlacedFacts
<1> HIDE DEF p
<1>3. /\ sorted_chip_ids \in Seq(Nat) /\ k \in Nat /\ current_temporal_epoch_id \in Nat
      /\ Base \in 0 .. k
      /\ Spread(epoch, Base, k + 1, current_temporal_epoch_id, remaining_chip_ids, sorted_chip_ids)
      /\ epoch[k].chip = current_chip_id
      /\ 0 .. k \subseteq DOMAIN epoch /\ \A i \in DOMAIN epoch : epoch[i] \in EpochRecords
  BY <1>1, OpenFacts
<1>4. /\ DOMAIN epoch' = DOMAIN epoch /\ \A i \in DOMAIN epoch : i # k => epoch'[i] = epoch[i]
      /\ epoch'[k] \in EpochRecords
      /\ epoch'[k].chip = epoch[k].chip /\ epoch'[k].temporal = epoch[k].temporal
      /\ epoch'[k].spatial = epoch[k].spatial
      /\ epoch'[k].ops = epoch[k].ops \o Entries(p)
  BY <1>2 DEF OpsPlaced
<1>5. /\ placed_ops' = placed_ops \o call.ops
      /\ DOMAIN name_to_op_placement' = DOMAIN name_to_op_placement \cup Range(call.ops)
      /\ \A i \in DOMAIN call.ops : name_to_op_placement'[call.ops[i]] = p[i]
      /\ \A o \in DOMAIN name_to_op_placement : name_to_op_placement'[o] = name_to_op_placement[o]
      /\ Return(left)
      /\ UNCHANGED <<config, valid, sorted_chip_ids, remaining_chip_ids, current_chip_id,
                     current_epoch_index, current_temporal_epoch_id,
                     current_spatial_epoch_id, visited_ops, num_epochs, assign>>
  BY <1>2 DEF OpsPlaced
<1>6. Base' = Base /\ Chips' = Chips
  BY <1>5 DEF Base, Chips, OpenChips
<1>7. OpenEpochs'
  <2> DEFINE e2 == epoch'
             b == Base
  <2>1. \A i \in 0 .. k : i \in DOMAIN epoch
    BY <1>3
  <2>2. /\ b \in Nat /\ b <= k /\ (k + 1) - 1 = k
    BY <1>3
  <2> HIDE DEF e2, b, k
  <2>3. /\ \A i \in 0 .. b - 1 : e2[i] = epoch[i]
        /\ \A i \in b .. (k + 1) - 1 : /\ e2[i].chip = epoch[i].chip /\ e2[i].temporal = epoch[i].temporal
                                       /\ e2[i].spatial = epoch[i].spatial
    <3>1. \A i \in 0 .. b - 1 : i \in 0 .. k /\ i # k
      BY <1>3, <2>2
    <3>2. \A i \in b .. (k + 1) - 1 : i \in 0 .. k
      BY <1>3, <2>2
    <3> QED
      BY <1>4, <2>1, <3>1, <3>2 DEF e2
  <2>4. Spread(e2, b, k + 1, current_temporal_epoch_id, remaining_chip_ids, sorted_chip_ids)
    <3>1. DOMAIN e2 = DOMAIN epoch
      BY <1>4 DEF e2
    <3>2. Spread(epoch, b, k + 1, current_temporal_epoch_id, remaining_chip_ids, sorted_chip_ids)
      BY <1>3 DEF b
    <3> QED
      BY <1>3, <2>3, <3>1, <3>2, SpreadFrame
  <2>5. assign.epoch = 0
    BY <1>1 DEF OpenEpochs
  <2> QED
    BY <1>3, <1>4, <1>5, <1>6, <2>4, <2>5 DEF OpenEpochs, e2, b, k
<1>8. valid' = "open" /\ Committed' /\ Assigned'
  BY <1>5 DEF Committed, Assigned
<1>9. left \in Seq(Op \X Places) /\ \A i \in DOMAIN left : i + 1 \in DOMAIN replay /\ left[i] = replay[i + 1]
  BY <1>1
<1>10. replay # <<>> => Range(call.ops) = {replay[1][1]}
  <2>1. replay # <<>> => call.ops = <<replay[1][1]>>
    BY <1>1 DEF ToPlace, CallOf
  <2> QED
    BY <2>1 DEF Range
<1>11. \A i \in DOMAIN left : left[i][1] \notin DOMAIN name_to_op_placement'
  <2> SUFFICES ASSUME NEW i \in DOMAIN left PROVE left[i][1] \notin DOMAIN name_to_op_placement'
    OBVIOUS
  <2>1. replay # <<>> /\ i + 1 \in DOMAIN replay /\ left[i] = replay[i + 1] /\ i \in Nat /\ i # 0
    BY <1>9
  <2>2. 1 \in DOMAIN replay /\ i + 1 # 1
    BY <1>1, <2>1
  <2>3. replay[i + 1][1] # replay[1][1] /\ replay[i + 1][1] \notin DOMAIN name_to_op_placement
    BY <1>1, <2>1, <2>2 DEF ToPlace
  <2> QED
    BY <1>5, <1>10, <2>1, <2>3
<1>12. \A i, j \in DOMAIN left : left[i][1] = left[j][1] => i = j
  <2> SUFFICES ASSUME NEW i \in DOMAIN left, NEW j \in DOMAIN left, left[i][1] = left[j][1] PROVE i = j
    OBVIOUS
  <2>1. i + 1 \in DOMAIN replay /\ j + 1 \in DOMAIN replay /\ replay[i + 1][1] = replay[j + 1][1]
    BY <1>9
  <2>2. i + 1 = j + 1 /\ i \in Nat /\ j \in Nat
    BY <1>1, <1>9, <2>1 DEF ToPlace
  <2> QED
    BY <2>2
<1>13. call' \in Calls /\ replay' \in Seq(Op \X Places) /\ ToPlace'
  <2> HIDE DEF left
  <2> QED
    BY <1>5, <1>8, <1>9, <1>11, <1>12, Returned
<1>14. /\ placed_ops' \in Seq(Op) /\ Range(placed_ops') = Range(placed_ops) \cup Range(call.ops)
       /\ IsInjective(placed_ops')
  <2>1. /\ placed_ops \in Seq(Op) /\ call.ops \in Seq(Op) /\ IsInjective(placed_ops)
        /\ IsInjective(call.ops) /\ Range(placed_ops) \cap Range(call.ops) = {}
    BY <1>1, CallShape DEF NameTypes, HasPlaced, CallOk
  <2> QED
    BY <1>5, <2>1, Concatenation
<1>15. epoch'[k].ops # <<>>
  <2>1. Entries(p) \in Seq(Op \X Places) /\ Len(Entries(p)) \in {1, 2}
    BY <1>1, <1>2, EntriesTypes DEF BlockRight
  <2>2. epoch[k].ops \in Seq(Op \X Places)
    <3>1. k \in 0 .. k
      BY <1>3
    <3> QED
      BY <1>3, <3>1 DEF EpochRecords
  <2>3. Len(epoch'[k].ops) = Len(epoch[k].ops) + Len(Entries(p)) /\ Len(epoch[k].ops) \in Nat
    BY <1>4, <2>1, <2>2
  <2>4. \A m \in Nat : \A n \in {1, 2} : m + n # 0
    OBVIOUS
  <2>5. Len(epoch'[k].ops) # 0
    BY <2>1, <2>3, <2>4
  <2> QED
    BY <2>5
<1>16. HasPlaced'
  BY <1>1, <1>5, <1>14, <1>15 DEF HasPlaced
<1>17. EpochTypes' /\ ChipTypes'
  BY <1>1, <1>4, <1>5, <1>6 DEF EpochTypes, ChipTypes
<1>18. NameTypes'
  <2>1. Range(call.ops) \subseteq Op
    BY <1>1, CallShape DEF Range
  <2>2. \A o \in Range(call.ops) : name_to_op_placement'[o] \in Places
    BY <1>2, <1>5 DEF Range, BlockRight
  <2> QED
    BY <1>1, <1>5, <1>14, <2>1, <2>2 DEF NameTypes
<1>19. TypeInv'
  BY <1>1, <1>5, <1>13, <1>17, <1>18 DEF TypeInv, CallTypes
<1> QED
  BY <1>7, <1>8, <1>13, <1>16, <1>19 DEF EpochsInv

-----------------------------------------------------------------------------
(***************************************************************************)
(* The epochs that a policy opens and takes back.                          *)
(***************************************************************************)
\* Where an epoch that starts the next temporal epoch starts from.
NextTemporal == StartTemporalEpoch(Position(current_epoch_index + 1, remaining_chip_ids), TRUE,
                                   current_temporal_epoch_id + 1)

\* The temporal epoch before it is completed.
LEMMA Starts ==
  ASSUME TypeInv, OpenEpochs, valid = "open"
  PROVE  LET t == current_temporal_epoch_id
             e2 == NextTemporal.epoch
         IN  /\ NextTemporal = At(e2, Base + Len(sorted_chip_ids), Pool(t + 1))
             /\ FilledEpochs(e2, epoch, Base, current_epoch_index, t, sorted_chip_ids)
<1> DEFINE k == current_epoch_index
           t == current_temporal_epoch_id
           b == Base
           S == sorted_chip_ids
           rem == remaining_chip_ids
           P == Position(k + 1, rem)
           ins == insert_empty_graphs(P, P.epoch[P.index - 1].spatial + 1, (t + 1) - 1)
           st == IF rem # <<>> THEN ins ELSE P
<1>1. /\ S \in Seq(Nat) /\ rem \in Seq(Nat) /\ k \in Nat /\ t \in Nat /\ b \in 0 .. k
      /\ current_spatial_epoch_id \in Nat
      /\ Spread(epoch, b, k + 1, t, rem, S) /\ (k + 1) - b + Len(rem) = Len(S)
      /\ 0 .. k \subseteq DOMAIN epoch /\ DOMAIN epoch \subseteq 0 .. b + Len(S) - 1
      /\ \A i \in DOMAIN epoch : epoch[i] \in EpochRecords
      /\ epoch[k].spatial = current_spatial_epoch_id
  BY OpenFacts
<1>2. P = At(epoch, k + 1, rem) /\ P.epoch = epoch /\ P.index = k + 1 /\ P.remaining = rem
  BY DEF Position, At
<1>3. NextTemporal = [st EXCEPT !.remaining = Pool(t + 1)]
  BY <1>2 DEF NextTemporal, StartTemporalEpoch, Pool
<1> HIDE DEF P
<1>4. CASE rem # <<>>
  <2>1. P.index - 1 = k /\ (t + 1) - 1 = t
    BY <1>1, <1>2
  <2>2. ins = Completed
    BY <1>1, <1>2, <2>1 DEF Completed
  <2>3. ins = At(ins.epoch, b + Len(S), <<>>) /\ FilledEpochs(ins.epoch, epoch, b, k, t, S)
    BY <2>2, FilledUp
  <2> HIDE DEF ins
  <2>4. NextTemporal = At(ins.epoch, b + Len(S), Pool(t + 1))
    BY <1>3, <1>4, <2>3 DEF At
  <2>5. NextTemporal.epoch = ins.epoch
    BY <2>4 DEF At
  <2> QED
    BY <2>3, <2>4, <2>5
<1>5. CASE rem = <<>>
  <2>1. Len(rem) = 0 /\ Len(S) \in Nat
    BY <1>1, <1>5
  <2> HIDE DEF k, b, rem, S, t
  <2>2. b + Len(S) = k + 1 /\ (k + 1) + Len(rem) - 1 = k /\ (k + 1) - 1 = k /\ b + Len(S) - 1 = k
    BY <1>1, <2>1
  <2>3. NextTemporal = At(epoch, b + Len(S), Pool(t + 1))
    BY <1>2, <1>3, <1>5, <2>2 DEF At
  <2>4. NextTemporal.epoch = epoch
    BY <2>3 DEF At
  <2>5. PastWhole(epoch, b + Len(S), t + 1, S)
    <3>1. \A i \in 0 .. (k + 1) - 1 : epoch[i] = epoch[i]
      OBVIOUS
    <3>2. (k + 1) .. (k + 1) + Len(rem) - 1 = {}
      BY <1>1, <2>2
    <3> QED
      BY <1>1, <3>2, SpreadFilled
  <2>6. DOMAIN epoch = 0 .. b + Len(S) - 1 /\ \A i \in DOMAIN epoch : ~(i > k)
    <3>1. DOMAIN epoch = 0 .. k
      BY <1>1, <2>2
    <3>2. \A i \in 0 .. k : ~(i > k)
      BY <1>1
    <3> QED
      BY <2>2, <3>1, <3>2
  <2>7. FilledEpochs(epoch, epoch, b, k, t, S)
    BY <1>1, <2>5, <2>6 DEF FilledEpochs
  <2> QED
    BY <2>3, <2>4, <2>7 DEF b, S, t, k
<1> QED
  BY <1>4, <1>5

\* The first epoch of the next temporal epoch is opened.
LEMMA NextEpochOpens ==
  ASSUME EpochsInv, next_epoch
  PROVE  LET f == Base + Len(sorted_chip_ids)
             t == current_temporal_epoch_id
         IN  /\ StaysOpen /\ ChipTypes' /\ EpochTypes' /\ OpenEpochs'
             /\ Base' = f /\ current_epoch_index' = f /\ f \in Nat
             /\ Opened(NextTemporal.epoch, f, Pool(t + 1), t + 1, 0, <<>>)
             /\ FilledEpochs(NextTemporal.epoch, epoch, Base, current_epoch_index, t, sorted_chip_ids)
<1> DEFINE t == current_temporal_epoch_id
           e2 == NextTemporal.epoch
           f == Base + Len(sorted_chip_ids)
           S == sorted_chip_ids
           pool == Pool(t + 1)
<1>1. /\ TypeInv /\ OpenEpochs /\ ChipTypes /\ ToPlace /\ NameTypes /\ CallTypes /\ config \in Configs
  BY DEF EpochsInv, TypeInv
<1>2. /\ valid = "open"
      /\ init_epoch(NextTemporal, t + 1, 0, <<>>)
      /\ placed_ops' = <<>> /\ visited_ops' = {}
      /\ UNCHANGED <<config, valid, sorted_chip_ids, name_to_op_placement, num_epochs, call,
                       replay, assign>>
  BY DEF next_epoch, Idle, NextTemporal
<1>3. /\ S \in Seq(Nat) /\ IsInjective(S) /\ S # <<>> /\ Len(S) \in Nat /\ t \in Nat
      /\ Base \in 0 .. current_epoch_index
  BY <1>1, <1>2, OpenFacts
<1>14. FilledEpochs(e2, epoch, Base, current_epoch_index, t, S)
  BY <1>1, <1>2, Starts
<1>4. /\ NextTemporal = At(e2, f, pool)
      /\ DOMAIN e2 = 0 .. f - 1 /\ PastWhole(e2, f, t + 1, S)
      /\ \A i \in DOMAIN e2 : e2[i] \in EpochRecords
  <2>1. NextTemporal = At(e2, f, pool) /\ FilledEpochs(e2, epoch, Base, current_epoch_index, t, S)
    BY <1>1, <1>2, Starts
  <2> HIDE DEF e2, pool
  <2>4. FilledEpochs(e2, epoch, Base, current_epoch_index, t, S)
    BY <2>1
  <2>5. DOMAIN e2 = 0 .. f - 1
    BY <1>3, <2>4 DEF FilledEpochs
  <2>2. DOMAIN e2 = 0 .. f - 1 /\ PastWhole(e2, f, t + 1, S)
    BY <2>4, <2>5 DEF FilledEpochs
  <2>3. \A i \in DOMAIN e2 : e2[i] \in EpochRecords
    BY <2>1 DEF FilledEpochs
  <2> HIDE DEF f
  <2> QED
    BY <2>1, <2>2, <2>3
<1>5. /\ pool \in Seq(Nat) /\ IsInjective(pool) /\ pool # <<>>
      /\ Range(pool) = Range(S) /\ Len(pool) = Len(S)
  BY <1>3, PoolFacts
<1>6. f \in Nat /\ t + 1 \in Nat /\ 0 = f - f
  BY <1>3
<1> HIDE DEF e2, f, pool
<1>7. Spread(e2, f, f, t + 1, pool, S)
  <2>1. 0 .. f - 1 \subseteq 0 .. f + Len(S) - 1
    BY <1>3, <1>6
  <2> QED
    BY <1>3, <1>4, <1>5, <1>6, <2>1, SpreadStart
<1>8. StaysOpen
  BY <1>1, <1>2 DEF StaysOpen, OpenEpochs
<1>15. init_epoch(At(e2, f, pool), t + 1, 0, <<>>)
  BY <1>2, <1>4
<1>16. <<>> \in Seq(Int) /\ Len(<<>>) <= 1
  OBVIOUS
<1>9. ChipTypes' /\ EpochTypes' /\ OpenEpochs' /\ Base' = f /\ current_epoch_index' = f
  <2> DEFINE u == t + 1
             z == 0
             req == <<>>
             k == f
  <2>3. /\ u \in Nat /\ z \in Nat /\ z = k - f /\ req \in Seq(Int) /\ Len(req) <= 1
        /\ Spread(e2, f, k, u, pool, S) /\ init_epoch(At(e2, k, pool), u, z, req)
    BY <1>6, <1>7, <1>15, <1>16
  <2>4. k = f
    OBVIOUS
  <2> HIDE DEF u, z, req, k
  <2>5. ChipTypes' /\ EpochTypes' /\ OpenEpochs' /\ Base' = f /\ current_epoch_index' = k
    BY <1>4, <1>5, <1>8, <2>3, Opens
  <2> QED
    BY <2>4, <2>5
<1>17. Opened(e2, f, pool, t + 1, 0, <<>>)
  BY <1>2, <1>5, <1>15, <1>16, OpenedEpoch
<1> QED
  BY <1>6, <1>8, <1>9, <1>14, <1>17 DEF e2, f, pool

\* A new temporal epoch keeps the invariant of the epochs.
LEMMA StepNextEpoch ==
  ASSUME EpochsInv, ~AllPlaced, next_epoch
  PROVE  EpochsInv'
<1>1. /\ TypeInv /\ ToPlace /\ NameTypes /\ CallTypes /\ config \in Configs
  BY DEF EpochsInv, TypeInv
<1>2. /\ placed_ops' = <<>>
      /\ UNCHANGED <<config, valid, sorted_chip_ids, name_to_op_placement, num_epochs, call,
                       replay, assign>>
  BY DEF next_epoch
<1>9. StaysOpen /\ ChipTypes' /\ EpochTypes' /\ OpenEpochs'
  BY NextEpochOpens
<1>10. <<>> \in Seq(Op)
  OBVIOUS
<1>11. TypeInv'
  BY <1>1, <1>2, <1>9, <1>10 DEF TypeInv, NameTypes, CallTypes, StaysOpen
<1>12. Committed' /\ Assigned'
  BY <1>9 DEF Committed, Assigned, StaysOpen
<1>13. ToPlace'
  BY <1>1, <1>2 DEF ToPlace, CallOk
<1>14. HasPlaced'
  BY <1>2 DEF HasPlaced, AllPlaced, IsInjective, Range
<1> QED
  BY <1>9, <1>11, <1>12, <1>13, <1>14 DEF EpochsInv

\* The temporal epoch is taken back to its first epoch.
LEMMA RewindEpochs ==
  ASSUME EpochsInv, valid = "open", placed_ops # <<>>, Rewind
  PROVE  /\ ChipTypes' /\ EpochTypes' /\ NameTypes' /\ OpenEpochs' /\ Committed' /\ Assigned' /\ HasPlaced'
         /\ Base' = Base /\ current_epoch_index' = Base /\ StaysOpen
         /\ Opened(epoch, Base, Pool(current_temporal_epoch_id), current_temporal_epoch_id, 0, <<>>)
         /\ DOMAIN name_to_op_placement' = DOMAIN name_to_op_placement \ Range(placed_ops)
         /\ \A o \in DOMAIN name_to_op_placement' : name_to_op_placement'[o] = name_to_op_placement[o]
         /\ placed_ops' = <<>> /\ visited_ops' = {}
         /\ UNCHANGED <<config, valid, sorted_chip_ids, num_epochs, assign>>
<1> DEFINE t == current_temporal_epoch_id
           f == Base
           S == sorted_chip_ids
           rem == remaining_chip_ids
           pool == Pool(t)
           st == StartTemporalEpoch(Position(f, rem), FALSE, t)
<1>1. /\ TypeInv /\ OpenEpochs /\ ChipTypes /\ NameTypes /\ HasPlaced /\ config \in Configs
  BY DEF EpochsInv, TypeInv
<1>2. /\ init_epoch(st, t, 0, <<>>)
      /\ name_to_op_placement' =
            [o \in DOMAIN name_to_op_placement \ Range(placed_ops) |-> name_to_op_placement[o]]
      /\ placed_ops' = <<>> /\ visited_ops' = {}
      /\ UNCHANGED <<config, valid, sorted_chip_ids, num_epochs, assign>>
  BY DEF Rewind, Base
<1>3. st = At(epoch, f, pool)
  <2>1. st = [Position(f, rem) EXCEPT !.remaining = pool]
    BY DEF StartTemporalEpoch, Pool
  <2> QED
    BY <2>1 DEF Position, At
<1>4. /\ S \in Seq(Nat) /\ IsInjective(S) /\ S # <<>> /\ Len(S) \in Nat /\ t \in Nat
      /\ f \in 0 .. current_epoch_index /\ current_epoch_index \in Nat
      /\ 0 .. current_epoch_index \subseteq DOMAIN epoch /\ DOMAIN epoch \subseteq 0 .. f + Len(S) - 1
      /\ Spread(epoch, f, current_epoch_index + 1, t, rem, S)
      /\ \A i \in DOMAIN epoch : epoch[i] \in EpochRecords
  BY <1>1, OpenFacts
<1>5. /\ pool \in Seq(Nat) /\ IsInjective(pool) /\ pool # <<>>
      /\ Range(pool) = Range(S) /\ Len(pool) = Len(S)
  BY <1>4, PoolFacts
<1>6. PastWhole(epoch, f, t, S)
  BY <1>4 DEF Spread
<1>7. f \in Nat /\ 0 = f - f /\ 0 .. f - 1 \subseteq 0 .. current_epoch_index
  BY <1>4
<1> HIDE DEF f, pool, st
<1>8. Spread(epoch, f, f, t, pool, S)
  BY <1>4, <1>5, <1>6, <1>7, SpreadStart
<1>9. StaysOpen
  BY <1>1, <1>2 DEF StaysOpen, OpenEpochs
<1>10. <<>> \in Seq(Int) /\ Len(<<>>) <= 1 /\ <<>> \in Seq(Op)
  OBVIOUS
<1>11. init_epoch(At(epoch, f, pool), t, 0, <<>>)
  BY <1>2, <1>3
<1>12. ChipTypes' /\ EpochTypes' /\ OpenEpochs' /\ Base' = f /\ current_epoch_index' = f
  <2> DEFINE z == 0
             req == <<>>
             k == f
  <2>1. /\ z \in Nat /\ z = k - f /\ req \in Seq(Int) /\ Len(req) <= 1
        /\ Spread(epoch, f, k, t, pool, S) /\ init_epoch(At(epoch, k, pool), t, z, req)
    BY <1>7, <1>8, <1>10, <1>11
  <2>2. k = f
    OBVIOUS
  <2> HIDE DEF z, req, k
  <2>3. ChipTypes' /\ EpochTypes' /\ OpenEpochs' /\ Base' = f /\ current_epoch_index' = k
    BY <1>4, <1>5, <1>9, <2>1, Opens
  <2> QED
    BY <2>2, <2>3
<1>13. Opened(epoch, f, pool, t, 0, <<>>)
  BY <1>2, <1>5, <1>10, <1>11, OpenedEpoch
<1>14. NameTypes' /\ Committed' /\ Assigned'
  BY <1>1, <1>2, <1>9, <1>10 DEF Committed, Assigned, StaysOpen, NameTypes
<1>15. HasPlaced'
  <2>1. placed_ops \in Seq(Op)
    BY <1>1 DEF NameTypes
  <2>2. placed_ops[1] \in Op /\ placed_ops[1] \in Range(placed_ops)
    BY <2>1 DEF Range
  <2>3. ~AllPlaced'
    BY <1>2, <2>2 DEF AllPlaced
  <2> QED
    BY <1>2, <2>3 DEF HasPlaced, IsInjective, Range
<1>16. /\ DOMAIN name_to_op_placement' = DOMAIN name_to_op_placement \ Range(placed_ops)
       /\ \A o \in DOMAIN name_to_op_placement' : name_to_op_placement'[o] = name_to_op_placement[o]
  BY <1>2
<1> QED
  BY <1>2, <1>9, <1>12, <1>13, <1>14, <1>15, <1>16 DEF f, pool

\* So does a temporal epoch that is taken back.
LEMMA StepRewindEpoch ==
  ASSUME EpochsInv, placed_ops # <<>>, rewind_epoch
  PROVE  EpochsInv'
<1>1. valid = "open" /\ Rewind /\ UNCHANGED <<call, replay>> /\ call = NoCall /\ replay = <<>>
  BY DEF rewind_epoch, Idle
<1>2. /\ ChipTypes' /\ EpochTypes' /\ NameTypes' /\ OpenEpochs' /\ Committed' /\ Assigned' /\ HasPlaced'
      /\ UNCHANGED <<config, valid, sorted_chip_ids, num_epochs, assign>>
  BY <1>1, RewindEpochs
<1>3. TypeInv'
  BY <1>1, <1>2 DEF EpochsInv, TypeInv, CallTypes
<1>4. ToPlace'
  BY <1>1 DEF ToPlace
<1> QED
  BY <1>2, <1>3, <1>4 DEF EpochsInv

\* What rewind_to places again: what was placed before the op.
CountBefore(op) == (CHOOSE i \in DOMAIN placed_ops : placed_ops[i] = op) - 1
PlacedBefore(op) ==
    [i \in 1 .. CountBefore(op) |-> <<placed_ops[i], name_to_op_placement[placed_ops[i]]>>]

\* What rewind_to places again: the ops before the given one, each once.
LEMMA PlacedBeforeFacts ==
  ASSUME EpochsInv, valid = "open", NEW op \in Range(placed_ops)
  PROVE  LET left == PlacedBefore(op)
         IN  /\ left \in Seq(Op \X Places) /\ DOMAIN left \subseteq DOMAIN placed_ops
             /\ CountBefore(op) + 1 \in DOMAIN placed_ops /\ CountBefore(op) \in Nat
             /\ DOMAIN left = 1 .. CountBefore(op)
             /\ \A i \in DOMAIN left : /\ left[i][1] = placed_ops[i]
                                       /\ left[i][2] = name_to_op_placement[placed_ops[i]]
             /\ \A i, j \in DOMAIN left : left[i][1] = left[j][1] => i = j
<1> DEFINE c == CHOOSE i \in DOMAIN placed_ops : placed_ops[i] = op
           n == CountBefore(op)
           x(i) == <<placed_ops[i], name_to_op_placement[placed_ops[i]]>>
           X == Op \X Places
           left == PlacedBefore(op)
<1>1. /\ placed_ops \in Seq(Op) /\ IsInjective(placed_ops)
      /\ Range(placed_ops) \subseteq DOMAIN name_to_op_placement
      /\ \A o \in DOMAIN name_to_op_placement : name_to_op_placement[o] \in Places
  BY DEF EpochsInv, TypeInv, NameTypes, HasPlaced
<1>2. c \in DOMAIN placed_ops
  BY DEF Range
<1>3. n = c - 1
  BY DEF CountBefore
<1> HIDE DEF c, n
<1>4. n \in Nat /\ n + 1 \in DOMAIN placed_ops /\ 1 .. n \subseteq DOMAIN placed_ops
  BY <1>1, <1>2, <1>3
<1>5. \A i \in 1 .. n : x(i) \in X
  BY <1>1, <1>4 DEF Range
<1>6. left = [i \in 1 .. n |-> x(i)]
  BY DEF PlacedBefore, n
<1>7. left \in Seq(X)
  <2> HIDE DEF x, X, left
  <2> QED
    BY <1>4, <1>5, <1>6
<1> HIDE DEF left
<1>8. DOMAIN left = 1 .. n /\ \A i \in 1 .. n : left[i] = <<placed_ops[i], name_to_op_placement[placed_ops[i]]>>
  BY <1>6
<1>9. \A i \in DOMAIN left : left[i][1] = placed_ops[i] /\ left[i][2] = name_to_op_placement[placed_ops[i]]
  BY <1>8
<1>10. \A i, j \in DOMAIN left : left[i][1] = left[j][1] => i = j
  BY <1>1, <1>4, <1>8, <1>9 DEF IsInjective
<1> QED
  BY <1>4, <1>7, <1>8, <1>9, <1>10 DEF left, n

\* rewind_to keeps the invariant of the epochs.
LEMMA StepRewindTo ==
  ASSUME EpochsInv, NEW op \in Op, rewind_to(op)
  PROVE  EpochsInv'
<1>1. /\ valid = "open" /\ Rewind /\ op \in Range(placed_ops) /\ Return(PlacedBefore(op))
  BY DEF rewind_to, Idle, PlacedBefore, CountBefore
<1>2. placed_ops # <<>>
  BY <1>1 DEF Range
<1>3. /\ ChipTypes' /\ EpochTypes' /\ NameTypes' /\ OpenEpochs' /\ Committed' /\ Assigned' /\ HasPlaced'
      /\ DOMAIN name_to_op_placement' = DOMAIN name_to_op_placement \ Range(placed_ops)
      /\ UNCHANGED <<config, valid, sorted_chip_ids, num_epochs, assign>>
  BY <1>1, <1>2, RewindEpochs
<1> DEFINE left == PlacedBefore(op)
<1>4. /\ left \in Seq(Op \X Places) /\ DOMAIN left \subseteq DOMAIN placed_ops
      /\ \A i \in DOMAIN left : left[i][1] = placed_ops[i]
      /\ \A i, j \in DOMAIN left : left[i][1] = left[j][1] => i = j
  BY <1>1, PlacedBeforeFacts
<1> HIDE DEF left
<1>5. \A i \in DOMAIN left : left[i][1] \notin DOMAIN name_to_op_placement'
  BY <1>3, <1>4 DEF Range
<1>6. call' \in Calls /\ replay' \in Seq(Op \X Places) /\ ToPlace'
  <2>1. Return(left) /\ valid' = "open"
    BY <1>1, <1>3 DEF left
  <2> QED
    BY <1>4, <1>5, <2>1, Returned
<1>7. TypeInv'
  BY <1>3, <1>6 DEF EpochsInv, TypeInv, CallTypes
<1> QED
  BY <1>3, <1>6, <1>7 DEF EpochsInv

-----------------------------------------------------------------------------
(***************************************************************************)
(* The commit.                                                             *)
(***************************************************************************)
\* Every op is placed, the last one in the current epoch.
LEMMA CommitCounts ==
  ASSUME EpochsInv, valid = "open", AllPlaced
  PROVE  CommitIndex = current_epoch_index + 1
<1>1. epoch[current_epoch_index].ops # <<>>
  BY DEF EpochsInv, HasPlaced
<1> QED
  BY <1>1 DEF CommitIndex

\* A commit completes the last temporal epoch.
LEMMA StepCommit ==
  ASSUME EpochsInv, AllPlaced, commit
  PROVE  EpochsInv'
<1> DEFINE k == current_epoch_index
           t == current_temporal_epoch_id
           S == sorted_chip_ids
           e2 == Completed.epoch
           J == Base + Len(S)
<1>1. /\ TypeInv /\ OpenEpochs /\ ChipTypes /\ EpochTypes /\ NameTypes /\ CallTypes
      /\ config \in Configs
  BY DEF EpochsInv, TypeInv
<1>2. valid = "open" /\ call = NoCall /\ replay = <<>> /\ ~config.pipelined
  BY DEF commit, Idle
<1>3. CommitIndex = k + 1
  BY <1>2, CommitCounts
<1>4. insert_empty_graphs(Position(CommitIndex, remaining_chip_ids),
                          current_spatial_epoch_id + 1, t) = Completed
  BY <1>3 DEF Completed, Position, At
<1>5. /\ num_epochs' = k + 1 /\ epoch' = e2 /\ current_epoch_index' = Completed.index
      /\ remaining_chip_ids' = Completed.remaining /\ valid' = "committed"
      /\ UNCHANGED <<config, sorted_chip_ids, current_chip_id, current_temporal_epoch_id,
                     current_spatial_epoch_id, placed_ops, visited_ops, name_to_op_placement,
                     call, replay, assign>>
  BY <1>3, <1>4 DEF commit
<1>6. Completed = At(e2, J, <<>>) /\ FilledEpochs(e2, epoch, Base, k, t, S)
  BY <1>1, <1>2, FilledUp
<1>7. current_epoch_index' = J /\ remaining_chip_ids' = <<>>
  BY <1>5, <1>6 DEF At
<1>8. k \in Nat /\ Base \in 0 .. k /\ S \in Seq(Nat) /\ Len(S) \in Nat /\ J \in Nat
  BY SMTT(30), <1>1, <1>2, OpenFacts
<1> HIDE DEF e2
<1>9. /\ DOMAIN e2 = 0 .. J - 1 /\ PastWhole(e2, J, t + 1, S)
      /\ \A i \in DOMAIN e2 : e2[i] \in EpochRecords
  BY <1>6, <1>8 DEF FilledEpochs
<1> HIDE DEF J, k
<1>10. Chips' = Chips
  BY <1>2, <1>5 DEF Chips, OpenChips
<1>11. <<>> \in Seq(Nat) /\ IsInjective(<<>>)
  BY DEF IsInjective
<1>12. ChipTypes'
  BY <1>1, <1>5, <1>7, <1>10, <1>11 DEF ChipTypes
<1>13. EpochTypes'
  BY <1>1, <1>5, <1>7, <1>8, <1>9 DEF EpochTypes
<1>14. TypeInv'
  BY <1>1, <1>5, <1>8, <1>12, <1>13 DEF TypeInv, NameTypes, CallTypes
<1>15. Committed'
  BY <1>5, <1>7, <1>9 DEF Committed
<1>16. OpenEpochs' /\ Assigned' /\ HasPlaced'
  BY <1>2, <1>5 DEF OpenEpochs, Assigned, HasPlaced
<1>17. ToPlace'
  BY <1>2, <1>5 DEF ToPlace
<1> QED
  BY <1>14, <1>15, <1>16, <1>17 DEF EpochsInv

\* A pipelined commit has no epoch assigned yet.
LEMMA StepCommitPipelined ==
  ASSUME EpochsInv, AllPlaced, commit_pipelined
  PROVE  EpochsInv'
<1> DEFINE k == current_epoch_index
           S == sorted_chip_ids'
<1>1. /\ TypeInv /\ OpenEpochs /\ ChipTypes /\ EpochTypes /\ NameTypes /\ CallTypes
      /\ config \in Configs
  BY DEF EpochsInv, TypeInv
<1>2. valid = "open" /\ call = NoCall /\ replay = <<>> /\ config.pipelined
  BY DEF commit_pipelined, Idle
<1>3. CommitIndex = k + 1
  BY <1>2, CommitCounts
<1>4. /\ num_epochs' = k + 1 /\ current_epoch_index' = k + 1 /\ valid' = "assigning"
      /\ placed_ops' = <<>> /\ visited_ops' = {}
      /\ sorted_chip_ids' = apply_chip_placement_policy(config) /\ remaining_chip_ids' = sorted_chip_ids'
      /\ current_temporal_epoch_id' = 0 /\ current_spatial_epoch_id' = 0
      /\ current_chip_id' = sorted_chip_ids'[1]
      /\ UNCHANGED <<config, name_to_op_placement, epoch, call, replay, assign>>
  BY <1>3 DEF commit_pipelined
<1>5. /\ S \in Seq(Nat) /\ IsInjective(S) /\ Range(S) = Range(config.chips) /\ S # <<>>
  <2>1. /\ config.chips \in Seq(Nat) /\ config.chips # <<>> /\ IsInjective(config.chips)
        /\ config.galaxy \in Seq(Nat) /\ IsInjective(config.galaxy)
    BY <1>1, ConfigFacts
  <2>2. S \in Seq(Nat) /\ IsInjective(S) /\ Range(S) = Range(config.chips) /\ Len(S) = Len(config.chips)
    BY <1>4, <2>1, PolicyHasAllChips
  <2>3. Len(config.chips) # 0
    BY <2>1
  <2> QED
    BY <2>2, <2>3
<1>6. S[1] \in Range(S)
  BY <1>5 DEF Range
<1>7. DOMAIN epoch = 0 .. k /\ k \in Nat
  <2>1. /\ k \in Nat /\ Base \in 0 .. k /\ sorted_chip_ids \in Seq(Nat) /\ IsInjective(sorted_chip_ids)
        /\ Range(sorted_chip_ids) = {0} /\ Len(sorted_chip_ids) \in Nat
        /\ DOMAIN epoch \subseteq 0 .. Base + Len(sorted_chip_ids) - 1 /\ 0 .. k \subseteq DOMAIN epoch
    BY <1>1, <1>2, OpenFacts DEF OpenChips
  <2>2. Len(sorted_chip_ids) = 1
    <3>1. Cardinality({0}) = Len(sorted_chip_ids)
      BY <2>1, LengthOfInjective
    <3> QED
      BY <3>1, FS_Singleton
  <2>3. DOMAIN epoch \subseteq 0 .. k
    BY <2>1, <2>2
  <2> QED
    BY <2>1, <2>3
<1>8. Chips' = Range(config.chips)
  BY <1>4 DEF Chips
<1>9. ChipTypes'
  BY <1>4, <1>5, <1>6, <1>8 DEF ChipTypes
<1>10. EpochTypes'
  BY <1>1, <1>4, <1>7 DEF EpochTypes
<1>11. <<>> \in Seq(Op)
  OBVIOUS
<1>12. TypeInv'
  BY <1>1, <1>4, <1>7, <1>9, <1>10, <1>11 DEF TypeInv, NameTypes, CallTypes
<1>13. Assigned'
  <2>1. assign.epoch = 0
    BY <1>1, <1>2 DEF OpenEpochs
  <2>2. AssignedUpTo(epoch, 0, k + 1, k + 1, S)
    BY <1>7 DEF AssignedUpTo
  <2>3. 0 \in 0 .. k + 1 /\ k + 1 <= k + 1 /\ 0 .. k = 0 .. (k + 1) - 1
    BY <1>7
  <2> QED
    BY <1>2, <1>4, <1>7, <2>1, <2>2, <2>3 DEF Assigned
<1>14. OpenEpochs' /\ Committed' /\ HasPlaced'
  BY <1>4 DEF OpenEpochs, Committed, HasPlaced
<1>15. ToPlace'
  BY <1>2, <1>4 DEF ToPlace
<1> QED
  BY <1>12, <1>13, <1>14, <1>15 DEF EpochsInv

\* When all epochs have their chips the solution is committed.
LEMMA StepAssignEnds ==
  ASSUME EpochsInv, AssignEnds
  PROVE  EpochsInv'
<1>1. /\ valid = "assigning" /\ assign.epoch = num_epochs /\ valid' = "committed"
      /\ UNCHANGED <<config, placing, num_epochs, call, replay, assign>>
  BY DEF AssignEnds
<1>2. /\ config' = config /\ sorted_chip_ids' = sorted_chip_ids
      /\ remaining_chip_ids' = remaining_chip_ids /\ current_chip_id' = current_chip_id
      /\ current_epoch_index' = current_epoch_index
      /\ current_temporal_epoch_id' = current_temporal_epoch_id
      /\ current_spatial_epoch_id' = current_spatial_epoch_id
      /\ placed_ops' = placed_ops /\ name_to_op_placement' = name_to_op_placement /\ epoch' = epoch
      /\ num_epochs' = num_epochs /\ assign' = assign /\ call' = call /\ replay' = replay
  BY <1>1 DEF placing
<1>3. /\ config.pipelined /\ TypeInv /\ Assigned /\ ToPlace
  BY <1>1 DEF EpochsInv, Assigned
<1>4. Chips' = Chips
  BY <1>1, <1>2 DEF Chips
<1>5. ChipTypes' /\ EpochTypes' /\ NameTypes' /\ CallTypes'
  BY <1>2, <1>3, <1>4 DEF TypeInv, ChipTypes, EpochTypes, NameTypes, CallTypes
<1>6. TypeInv'
  BY <1>1, <1>2, <1>3, <1>5 DEF TypeInv
<1>7. Assigned'
  BY <1>1, <1>2, <1>3 DEF Assigned
<1>8. OpenEpochs' /\ Committed' /\ HasPlaced'
  BY <1>1, <1>2, <1>3 DEF OpenEpochs, Committed, HasPlaced
<1>9. ToPlace'
  BY <1>1, <1>2, <1>3 DEF ToPlace
<1> QED
  BY <1>6, <1>7, <1>8, <1>9 DEF EpochsInv

-----------------------------------------------------------------------------
(***************************************************************************)
(* The chips of a pipelined placement.                                     *)
(***************************************************************************)
\* The epoch whose turn it is goes to the current chip; the other chips get an
\* empty epoch each.
OnChip(p) == [p EXCEPT !.chip = current_chip_id]
Mine == [epoch EXCEPT ![assign.epoch].chip = current_chip_id, ![assign.epoch].spatial = 0,
                      ![assign.epoch].temporal = current_temporal_epoch_id,
                      ![assign.epoch].ops = [k \in DOMAIN @ |-> <<@[k][1], OnChip(@[k][2])>>]]
Others == Filter(remaining_chip_ids, Range(remaining_chip_ids) \ {current_chip_id})
AssignedTo == insert_empty_graphs(At(Mine, current_epoch_index, Others), 1, current_temporal_epoch_id)

\* What holds while the chips are assigned.
LEMMA AssignFacts ==
  ASSUME TypeInv, Assigned, valid = "assigning"
  PROVE  /\ config.pipelined /\ assign.epoch \in 0 .. num_epochs /\ num_epochs \in Nat
         /\ assign.epoch \in Nat /\ current_temporal_epoch_id = assign.epoch
         /\ current_epoch_index \in Nat /\ num_epochs <= current_epoch_index
         /\ remaining_chip_ids = sorted_chip_ids /\ DOMAIN epoch = 0 .. current_epoch_index - 1
         /\ sorted_chip_ids \in Seq(Nat) /\ IsInjective(sorted_chip_ids)
         /\ Range(sorted_chip_ids) = Range(config.chips)
         /\ current_chip_id \in Range(sorted_chip_ids) /\ current_chip_id \in Nat
         /\ Len(sorted_chip_ids) \in Nat /\ sorted_chip_ids # <<>>
         /\ \A i \in DOMAIN epoch : epoch[i] \in EpochRecords
         /\ AssignedUpTo(epoch, assign.epoch, num_epochs, current_epoch_index, sorted_chip_ids)
<1>1. /\ config.pipelined /\ assign.epoch \in 0 .. num_epochs
      /\ current_temporal_epoch_id = assign.epoch /\ num_epochs <= current_epoch_index
      /\ remaining_chip_ids = sorted_chip_ids /\ DOMAIN epoch = 0 .. current_epoch_index - 1
      /\ AssignedUpTo(epoch, assign.epoch, num_epochs, current_epoch_index, sorted_chip_ids)
  BY DEF Assigned
<1>2. /\ num_epochs \in Nat /\ assign.epoch \in Nat /\ current_epoch_index \in Nat
      /\ \A i \in DOMAIN epoch : epoch[i] \in EpochRecords
  BY DEF TypeInv, CallTypes, EpochTypes, Assigns
<1>3. /\ sorted_chip_ids \in Seq(Nat) /\ IsInjective(sorted_chip_ids)
      /\ Range(sorted_chip_ids) = Range(config.chips) /\ current_chip_id \in Range(sorted_chip_ids)
  BY DEF TypeInv, ChipTypes, Chips
<1>4. Len(sorted_chip_ids) \in Nat /\ sorted_chip_ids # <<>> /\ current_chip_id \in Nat
  BY <1>3 DEF Range
<1> QED
  BY <1>1, <1>2, <1>3, <1>4

\* The epoch that gets its chip; the others stay as they are.
LEMMA MineFacts ==
  ASSUME TypeInv, Assigned, valid = "assigning", assign.epoch < num_epochs
  PROVE  /\ assign.epoch \in DOMAIN epoch /\ DOMAIN Mine = DOMAIN epoch
         /\ \A i \in DOMAIN epoch : i # assign.epoch => Mine[i] = epoch[i]
         /\ Mine[assign.epoch].chip = current_chip_id /\ Mine[assign.epoch].spatial = 0
         /\ Mine[assign.epoch].temporal = current_temporal_epoch_id
         /\ Mine[assign.epoch].grid = epoch[assign.epoch].grid
         /\ DOMAIN Mine[assign.epoch].ops = DOMAIN epoch[assign.epoch].ops
         /\ \A k \in DOMAIN epoch[assign.epoch].ops :
               Mine[assign.epoch].ops[k] = <<epoch[assign.epoch].ops[k][1], OnChip(epoch[assign.epoch].ops[k][2])>>
         /\ \A i \in DOMAIN epoch : Mine[i] \in EpochRecords
         /\ \A p \in Places : OnChip(p) \in Places
<1> DEFINE e == assign.epoch
           ops == epoch[e].ops
           new == [k \in DOMAIN ops |-> <<ops[k][1], OnChip(ops[k][2])>>]
<1>1. /\ e \in Nat /\ num_epochs \in Nat /\ num_epochs <= current_epoch_index /\ current_epoch_index \in Nat
      /\ DOMAIN epoch = 0 .. current_epoch_index - 1 /\ current_chip_id \in Nat
      /\ \A i \in DOMAIN epoch : epoch[i] \in EpochRecords
      /\ current_temporal_epoch_id = e
  BY AssignFacts
<1>2. e \in DOMAIN epoch
  BY <1>1
<1>3. \A p \in Places : OnChip(p) \in Places
  BY <1>1 DEF Places, OnChip
<1>4. ops \in Seq(Op \X Places)
  BY <1>1, <1>2 DEF EpochRecords
<1>5. new \in Seq(Op \X Places)
  <2> DEFINE n == Len(ops)
             x(k) == <<ops[k][1], OnChip(ops[k][2])>>
             X == Op \X Places
  <2>1. n \in Nat /\ DOMAIN ops = 1 .. n
    BY <1>4
  <2>2. \A k \in 1 .. n : ops[k] \in Op \X Places
    BY <1>4, <2>1
  <2>3. \A k \in 1 .. n : x(k) \in X
    BY <1>3, <2>2
  <2> HIDE DEF x, X, n
  <2>4. [k \in 1 .. n |-> x(k)] \in Seq(X)
    BY <2>1, <2>3
  <2> QED
    BY <2>1, <2>4 DEF x, X
<1>6. Mine = [epoch EXCEPT ![e].chip = current_chip_id, ![e].spatial = 0,
                           ![e].temporal = current_temporal_epoch_id, ![e].ops = new]
  BY DEF Mine
<1>7. DOMAIN new = DOMAIN ops /\ \A k \in DOMAIN ops : new[k] = <<ops[k][1], OnChip(ops[k][2])>>
  OBVIOUS
<1> HIDE DEF new, e
<1>8. /\ DOMAIN Mine = DOMAIN epoch /\ \A i \in DOMAIN epoch : i # e => Mine[i] = epoch[i]
      /\ Mine[e].chip = current_chip_id /\ Mine[e].spatial = 0
      /\ Mine[e].temporal = current_temporal_epoch_id /\ Mine[e].ops = new
      /\ Mine[e].grid = epoch[e].grid
  BY <1>1, <1>2, <1>6 DEF EpochRecords
<1>9. Mine[e] \in EpochRecords
  BY <1>1, <1>2, <1>5, <1>6 DEF EpochRecords
<1>10. \A i \in DOMAIN epoch : Mine[i] \in EpochRecords
  BY <1>1, <1>8, <1>9
<1> QED
  BY <1>2, <1>3, <1>7, <1>8, <1>10 DEF e

\* What the epochs are once the chip is assigned.
LEMMA AssignedToFacts ==
  ASSUME TypeInv, Assigned, valid = "assigning", assign.epoch < num_epochs
  PROVE  LET e2 == AssignedTo.epoch
             b == current_epoch_index
             n == Len(sorted_chip_ids)
         IN  /\ AssignedTo = At(e2, b + n - 1, <<>>) /\ DOMAIN e2 = 0 .. b + n - 2
             /\ \A i \in 0 .. b - 1 : e2[i] = Mine[i]
             /\ \A i \in b .. b + n - 2 : /\ e2[i].temporal = assign.epoch /\ e2[i].spatial = 1 + i - b
                                          /\ e2[i].ops = <<>> /\ e2[i] \in EpochRecords
             /\ {e2[i].chip : i \in b .. b + n - 2} = Range(sorted_chip_ids) \ {current_chip_id}
<1> DEFINE e2 == AssignedTo.epoch
           b == current_epoch_index
           S == sorted_chip_ids
           n == Len(S)
           rem == Others
           J == b .. b + Len(rem) - 1
<1>1. /\ b \in Nat /\ n \in Nat /\ remaining_chip_ids = S /\ DOMAIN epoch = 0 .. b - 1
      /\ S \in Seq(Nat) /\ IsInjective(S) /\ current_chip_id \in Range(S) /\ config \in Configs
      /\ current_temporal_epoch_id = assign.epoch /\ assign.epoch \in Nat
  BY AssignFacts DEF TypeInv
<1>2. rem \in Seq(Nat) /\ IsInjective(rem) /\ Range(rem) = Range(S) \ {current_chip_id}
  <2>1. rem = Filter(S, Range(S) \ {current_chip_id})
    BY <1>1 DEF Others
  <2>2. rem \in Seq(Nat) /\ Range(rem) = Range(S) \cap (Range(S) \ {current_chip_id}) /\ IsInjective(rem)
    BY <1>1, <2>1, FilterRange
  <2> QED
    BY <2>2
<1> HIDE DEF rem
<1>3. Len(rem) + 1 = n /\ Len(rem) \in Nat
  <2>1. IsFiniteSet(Range(S)) /\ Cardinality(Range(S)) = n
    BY <1>1, LengthOfInjective
  <2>2. IsFiniteSet(Range(rem)) /\ Cardinality(Range(rem)) = Len(rem)
    BY <1>2, LengthOfInjective
  <2>3. Cardinality(Range(S) \ {current_chip_id}) = Cardinality(Range(S)) - 1
    BY <1>1, <2>1, FS_RemoveElement
  <2>4. Len(rem) \in Nat
    BY <1>2
  <2> QED
    BY <1>1, <1>2, <2>1, <2>2, <2>3, <2>4
<1>4. InsertedFrom(AssignedTo, Mine, b, rem, 1, current_temporal_epoch_id)
  BY <1>1, <1>2, Inserted DEF AssignedTo, rem
<1>5. /\ AssignedTo = At(e2, b + Len(rem), <<>>) /\ DOMAIN e2 = DOMAIN Mine \cup J
      /\ \A i \in DOMAIN Mine : i \notin J => e2[i] = Mine[i]
      /\ \A i \in J : e2[i] =
              [chip |-> rem[i - b + 1], temporal |-> current_temporal_epoch_id, spatial |-> 1 + i - b,
               ops |-> <<>>,
               grid |-> IF i \in DOMAIN Mine THEN Mine[i].grid ELSE create_empty_device_grid(0, 0)]
  BY <1>4 DEF InsertedFrom
<1> HIDE DEF e2, n
<1>6. DOMAIN Mine = 0 .. b - 1
  BY <1>1, MineFacts
<1>7. b + Len(rem) = b + n - 1 /\ J = b .. b + n - 2 /\ 0 .. b + n - 2 = (0 .. b - 1) \cup J
  BY <1>1, <1>3
<1>8. \A i \in 0 .. b - 1 : e2[i] = Mine[i]
  <2>1. \A i \in 0 .. b - 1 : i \notin J
    BY <1>1
  <2> QED
    BY <1>5, <1>6, <2>1
<1>9. ASSUME NEW i \in J
      PROVE  /\ e2[i].chip = rem[(i - b) + 1] /\ e2[i].temporal = assign.epoch /\ e2[i].spatial = 1 + i - b
             /\ e2[i].ops = <<>> /\ e2[i] \in EpochRecords
  <2>1. i \notin DOMAIN Mine /\ i \in Nat /\ 1 + i - b \in Nat /\ (i - b) + 1 \in 1 .. Len(rem)
    BY <1>1, <1>3, <1>6, <1>9
  <2> DEFINE g == create_empty_device_grid(0, 0)
  <2>2. e2[i] = [chip |-> rem[(i - b) + 1], temporal |-> assign.epoch, spatial |-> 1 + i - b,
                 ops |-> <<>>, grid |-> g]
    BY <1>1, <1>5, <2>1
  <2>3. g \in Grids
    BY <1>1, GridTypes
  <2> HIDE DEF g
  <2>4. <<>> \in Seq(Op \X Places)
    OBVIOUS
  <2>5. rem[(i - b) + 1] \in Nat
    BY <1>2, <2>1
  <2> HIDE DEF J, b
  <2>6. e2[i] \in EpochRecords
    BY <1>1, <2>1, <2>2, <2>3, <2>4, <2>5 DEF EpochRecords
  <2> QED
    BY <2>2, <2>6
<1>10. {e2[i].chip : i \in J} = Range(rem)
  <2>1. ASSUME NEW i \in J PROVE e2[i].chip \in Range(rem)
    <3>1. (i - b) + 1 \in DOMAIN rem
      BY <1>1, <1>2, <1>3
    <3> QED
      BY <1>9, <3>1 DEF Range
  <2>2. ASSUME NEW x \in DOMAIN rem PROVE \E i \in J : rem[x] = e2[i].chip
    <3>1. (x + b) - 1 \in J /\ (((x + b) - 1) - b) + 1 = x
      BY <1>1, <1>2, <1>3
    <3> QED
      BY <1>9, <3>1
  <2> HIDE DEF J
  <2> QED
    BY <2>1, <2>2 DEF Range
<1>11. AssignedTo = At(e2, b + n - 1, <<>>) /\ DOMAIN e2 = 0 .. b + n - 2
  BY <1>5, <1>6, <1>7
<1>12. {e2[i].chip : i \in b .. b + n - 2} = Range(S) \ {current_chip_id}
  BY <1>2, <1>7, <1>10
<1>13. \A i \in b .. b + n - 2 : /\ e2[i].temporal = assign.epoch /\ e2[i].spatial = 1 + i - b
                                 /\ e2[i].ops = <<>> /\ e2[i] \in EpochRecords
  BY <1>7, <1>9
<1> QED
  BY <1>8, <1>11, <1>12, <1>13 DEF e2, n

\* One more epoch has its chip.
LEMMA AssignedMore ==
  ASSUME NEW e, NEW e2, NEW S \in Seq(Nat), NEW t \in Nat, NEW m \in Nat, NEW b \in Nat, t < m, m <= b,
         Len(S) >= 1, AssignedUpTo(e, t, m, b, S),
         \A i \in 0 .. b - 1 : i # t => e2[i] = e[i],
         e2[t].temporal = t, e2[t].spatial = 0, e2[t].chip \in Range(S),
         \A i \in b .. b + Len(S) - 2 : e2[i].temporal = t /\ e2[i].spatial = 1 + i - b,
         {e2[i].chip : i \in b .. b + Len(S) - 2} = Range(S) \ {e2[t].chip}
  PROVE  AssignedUpTo(e2, t + 1, m, b + Len(S) - 1, S)
<1> DEFINE n == Len(S)
           c == b + n - 1
<1>1. n \in Nat /\ c \in Nat /\ b <= c /\ c - 1 = b + n - 2
  OBVIOUS
<1>2. /\ \A i \in m .. b - 1 : e[i].temporal \in 0 .. t - 1
      /\ \A u \in 0 .. t - 1 :
            \E f \in m .. b : /\ AssignedFrom(e, u, f, S)
                              /\ f + n - 1 <= b
                              /\ \A i \in m .. b - 1 : e[i].temporal = u => i \in f .. f + n - 2
  BY DEF AssignedUpTo
<1>3. \A i \in m .. b - 1 : i \in 0 .. b - 1 /\ i # t
  OBVIOUS
<1>4. \A i \in m .. b - 1 : e2[i] = e[i]
  BY <1>3
<1>5. \A i \in m .. c - 1 : i \in m .. b - 1 \/ i \in b .. b + n - 2
  BY <1>1
<1>6. \A i \in b .. b + n - 2 : e2[i].temporal = t /\ e2[i].spatial = 1 + i - b
  OBVIOUS
<1> HIDE DEF c
<1>7. \A i \in m .. c - 1 : e2[i].temporal \in 0 .. (t + 1) - 1
  <2>1. t \in 0 .. (t + 1) - 1 /\ 0 .. t - 1 \subseteq 0 .. (t + 1) - 1
    OBVIOUS
  <2> QED
    BY <1>2, <1>4, <1>5, <1>6, <2>1
<1> DEFINE Has(u) == \E f \in m .. c :
                        /\ AssignedFrom(e2, u, f, S)
                        /\ f + n - 1 <= c
                        /\ \A i \in m .. c - 1 : e2[i].temporal = u => i \in f .. f + n - 2
<1>8. ASSUME NEW u \in 0 .. t - 1
      PROVE  Has(u)
  <2>1. PICK f \in m .. b : /\ AssignedFrom(e, u, f, S)
                            /\ f + n - 1 <= b
                            /\ \A i \in m .. b - 1 : e[i].temporal = u => i \in f .. f + n - 2
    BY <1>2
  <2>2. f \in m .. c /\ f + n - 1 <= c
    BY <1>1, <2>1
  <2>3. \A i \in m .. c - 1 : e2[i].temporal = u => i \in f .. f + n - 2
    <3>1. u # t
      BY <1>8
    <3> QED
      BY <1>4, <1>5, <1>6, <2>1, <3>1
  <2>4. AssignedFrom(e2, u, f, S)
    <3> DEFINE J == f .. f + n - 2
    <3>1. /\ e[u].temporal = u /\ e[u].spatial = 0 /\ e[u].chip \in Range(S)
          /\ \A i \in J : e[i].temporal = u /\ e[i].spatial = 1 + i - f
          /\ {e[i].chip : i \in J} = Range(S) \ {e[u].chip}
      BY <2>1 DEF AssignedFrom
    <3>2. u \in 0 .. b - 1 /\ u # t
      BY <1>8
    <3>3. e2[u] = e[u]
      BY <3>2
    <3>4. \A i \in J : i \in m .. b - 1
      BY <1>1, <2>1
    <3>5. \A i \in J : e2[i] = e[i]
      BY <1>4, <3>4
    <3> HIDE DEF J
    <3>8. {e[i].chip : i \in J} = Range(S) \ {e[u].chip}
      BY <3>1
    <3>9. {e2[i].chip : i \in J} = {e[i].chip : i \in J}
      BY <3>5
    <3>6. {e2[i].chip : i \in J} = Range(S) \ {e[u].chip}
      BY <3>8, <3>9
    <3>7. \A i \in J : e2[i].temporal = u /\ e2[i].spatial = 1 + i - f
      BY <3>1, <3>5
    <3> QED
      BY <3>1, <3>3, <3>6, <3>7 DEF AssignedFrom, J
  <2> QED
    BY <2>2, <2>3, <2>4
<1>9. Has(t)
  <2>1. b \in m .. c /\ b + n - 1 <= c
    BY <1>1 DEF c
  <2>2. AssignedFrom(e2, t, b, S)
    BY DEF AssignedFrom
  <2>3. \A i \in m .. c - 1 : e2[i].temporal = t => i \in b .. b + n - 2
    <3>1. \A i \in m .. b - 1 : e2[i].temporal # t
      <4>1. t \notin 0 .. t - 1
        OBVIOUS
      <4>2. \A i \in m .. b - 1 : e2[i].temporal \in 0 .. t - 1
        BY <1>2, <1>4
      <4> QED
        BY <4>1, <4>2
    <3> QED
      BY <1>5, <3>1
  <2> HIDE DEF n
  <2> QED
    BY <2>1, <2>2, <2>3
<1>10. \A u \in 0 .. (t + 1) - 1 : u \in 0 .. t - 1 \/ u = t
  OBVIOUS
<1> HIDE DEF Has
<1>11. \A u \in 0 .. (t + 1) - 1 : Has(u)
  BY <1>8, <1>9, <1>10
<1>12. AssignedUpTo(e2, t + 1, m, c, S)
  BY <1>7, <1>11 DEF AssignedUpTo, Has
<1> QED
  BY <1>12 DEF c

\* Each turn of the assignment keeps the invariant of the epochs.
LEMMA StepAssignChip ==
  ASSUME EpochsInv, AssignChip
  PROVE  EpochsInv'
<1> DEFINE e == assign.epoch
           S == sorted_chip_ids
           b == current_epoch_index
           n == Len(S)
           fits == \A o \in EpochOps(e) :
                     can_place_op_onto_chip(o, current_chip_id, o \in config.chip_breaks, Override(o))
           count == assign.count + IF fits THEN 1 ELSE 0
           full == count = num_epochs_per_chip
           move == ~fits \/ full
           names == [k \in DOMAIN epoch[e].ops |-> epoch[e].ops[k][1]]
<1>1. /\ TypeInv /\ Assigned /\ ToPlace /\ ChipTypes /\ EpochTypes /\ NameTypes /\ CallTypes
      /\ config \in Configs
  BY DEF EpochsInv, TypeInv
<1>2. /\ valid = "assigning" /\ e < num_epochs
      /\ UNCHANGED <<config, valid, sorted_chip_ids, remaining_chip_ids,
                     current_spatial_epoch_id, num_epochs, call, replay>>
  BY DEF AssignChip
<1>3. Position(b, Others) = At(epoch, b, Others)
  BY DEF Position, At
<1>4. /\ IF fits THEN /\ epoch' = AssignedTo.epoch /\ current_epoch_index' = AssignedTo.index
                      /\ current_temporal_epoch_id' = current_temporal_epoch_id + 1
                      /\ name_to_op_placement' =
                            [o \in DOMAIN name_to_op_placement |->
                               IF o \in EpochOps(e) THEN OnChip(name_to_op_placement[o])
                               ELSE name_to_op_placement[o]]
                 ELSE UNCHANGED <<epoch, current_epoch_index, current_temporal_epoch_id,
                                  name_to_op_placement>>
      /\ placed_ops' = IF fits /\ full THEN <<>> ELSE IF fits THEN placed_ops \o names ELSE placed_ops
      /\ assign' = [epoch |-> IF fits THEN e + 1 ELSE e, count |-> IF move THEN 0 ELSE count,
                    chip_index |-> (assign.chip_index + IF move THEN 1 ELSE 0) % Len(sorted_chip_ids)]
      /\ current_chip_id' = sorted_chip_ids[assign'.chip_index + 1]
  BY DEF AssignChip, AssignedTo, Mine, Others, OnChip, At
<1>5. /\ config.pipelined /\ e \in 0 .. num_epochs /\ num_epochs \in Nat /\ e \in Nat
      /\ current_temporal_epoch_id = e /\ b \in Nat /\ num_epochs <= b
      /\ remaining_chip_ids = S /\ DOMAIN epoch = 0 .. b - 1 /\ S \in Seq(Nat) /\ n \in Nat
      /\ S # <<>> /\ current_chip_id \in Range(S) /\ Range(S) = Range(config.chips)
      /\ AssignedUpTo(epoch, e, num_epochs, b, S)
  BY <1>1, <1>2, AssignFacts
<1>6. assign \in Assigns /\ assign.count \in Nat /\ assign.chip_index \in Nat
  BY <1>1 DEF CallTypes, Assigns
<1> HIDE DEF fits, full
<1>7. n \in Pos /\ n >= 1
  BY <1>5 DEF Pos
<1>8. assign' \in Assigns /\ assign'.chip_index + 1 \in 1 .. n /\ assign'.epoch = IF fits THEN e + 1 ELSE e
  <2> DEFINE x == assign.chip_index + IF move THEN 1 ELSE 0
             y == IF move THEN 0 ELSE count
             z == IF fits THEN e + 1 ELSE e
  <2>1. x \in Int /\ y \in Nat /\ z \in Nat
    BY SMTT(30), <1>5, <1>6
  <2>2. assign' = [epoch |-> z, count |-> y, chip_index |-> x % n]
    BY <1>4
  <2> HIDE DEF x, y, z, n
  <2>3. x % n \in 0 .. n - 1
    BY <1>7, <2>1, ModRange
  <2>4. x % n \in Nat /\ (x % n) + 1 \in 1 .. n
    BY <1>7, <2>3 DEF Pos
  <2> QED
    BY <2>1, <2>2, <2>4 DEF Assigns, z
<1>9. current_chip_id' \in Range(S)
  <2>1. DOMAIN S = 1 .. n
    BY <1>5
  <2> QED
    BY <1>4, <1>8, <2>1 DEF Range
<1>10. Chips' = Chips
  BY <1>2 DEF Chips
<1>11. ChipTypes'
  <2>1. Range(S) = Chips
    BY <1>1 DEF ChipTypes
  <2> QED
    BY <1>1, <1>2, <1>9, <1>10, <2>1 DEF ChipTypes
<1>12. CallTypes'
  BY <1>1, <1>2, <1>8 DEF CallTypes
<1>13. OpenEpochs' /\ Committed' /\ HasPlaced' /\ valid' = "assigning"
  BY <1>2 DEF OpenEpochs, Committed, HasPlaced
<1>14. DOMAIN name_to_op_placement' = DOMAIN name_to_op_placement
  BY <1>4
<1>15. ToPlace'
  BY <1>1, <1>2, <1>14 DEF ToPlace
<1>16. CASE ~fits
  <2>1. /\ epoch' = epoch /\ current_epoch_index' = b /\ name_to_op_placement' = name_to_op_placement
        /\ current_temporal_epoch_id' = current_temporal_epoch_id /\ placed_ops' = placed_ops
        /\ assign'.epoch = e
    BY <1>4, <1>8, <1>16
  <2>2. EpochTypes' /\ NameTypes'
    BY <1>1, <1>2, <2>1 DEF EpochTypes, NameTypes
  <2>3. Assigned'
    BY <1>1, <1>2, <2>1 DEF Assigned
  <2> QED
    BY <1>1, <1>2, <1>11, <1>12, <1>13, <1>15, <2>2, <2>3 DEF EpochsInv, TypeInv
<1>17. CASE fits
  <2> DEFINE e2 == AssignedTo.epoch
  <2>1. /\ epoch' = e2 /\ current_epoch_index' = AssignedTo.index /\ current_temporal_epoch_id' = e + 1
        /\ assign'.epoch = e + 1
    BY <1>4, <1>5, <1>8, <1>17
  <2>2. /\ AssignedTo = At(e2, b + n - 1, <<>>) /\ DOMAIN e2 = 0 .. b + n - 2
        /\ \A i \in 0 .. b - 1 : e2[i] = Mine[i]
        /\ \A i \in b .. b + n - 2 : /\ e2[i].temporal = e /\ e2[i].spatial = 1 + i - b
                                     /\ e2[i].ops = <<>> /\ e2[i] \in EpochRecords
        /\ {e2[i].chip : i \in b .. b + n - 2} = Range(S) \ {current_chip_id}
    BY <1>1, <1>2, AssignedToFacts
  <2>3. /\ e \in DOMAIN epoch
        /\ \A i \in DOMAIN epoch : i # e => Mine[i] = epoch[i]
        /\ Mine[e].chip = current_chip_id /\ Mine[e].spatial = 0 /\ Mine[e].temporal = e
        /\ \A i \in DOMAIN epoch : Mine[i] \in EpochRecords
        /\ \A p \in Places : OnChip(p) \in Places
    BY <1>1, <1>2, <1>5, MineFacts
  <2>4. current_epoch_index' = b + n - 1
    BY <2>1, <2>2 DEF At
  <2> HIDE DEF e2
  <2>5. /\ e2[e].chip = current_chip_id /\ e2[e].spatial = 0 /\ e2[e].temporal = e
        /\ \A i \in 0 .. b - 1 : i # e => e2[i] = epoch[i]
    BY <1>5, <2>2, <2>3
  <2>6. AssignedUpTo(e2, e + 1, num_epochs, b + n - 1, S)
    <3> HIDE DEF e, b, S
    <3> QED
      BY <1>2, <1>5, <1>7, <2>2, <2>5, AssignedMore
  <2>7. Assigned'
    <3>1. /\ e + 1 \in 0 .. num_epochs /\ num_epochs <= b + n - 1 /\ (b + n - 1) - 1 = b + n - 2
      BY <1>2, <1>5, <1>7
    <3>2. /\ epoch' = e2 /\ current_temporal_epoch_id' = assign'.epoch /\ assign'.epoch = e + 1
          /\ remaining_chip_ids' = sorted_chip_ids' /\ num_epochs' = num_epochs
          /\ sorted_chip_ids' = S /\ DOMAIN e2 = 0 .. (b + n - 1) - 1
          /\ current_epoch_index' = b + n - 1 /\ valid' = "assigning" /\ config'.pipelined
      BY <1>2, <1>5, <2>1, <2>2, <2>4, <3>1 DEF e2
    <3> HIDE DEF b, n, e, S
    <3> QED
      BY <2>6, <3>1, <3>2 DEF Assigned
  <2>8. EpochTypes'
    <3>1. \A i \in 0 .. b + n - 2 : i \in 0 .. b - 1 \/ i \in b .. b + n - 2
      BY <1>5
    <3>2. \A i \in DOMAIN e2 : e2[i] \in EpochRecords
      BY <1>5, <2>2, <2>3, <3>1
    <3>3. b + n - 1 \in Nat /\ e + 1 \in Nat
      BY <1>5, <1>7
    <3> QED
      BY <1>1, <1>2, <2>1, <2>4, <3>2, <3>3 DEF EpochTypes, e2
  <2>9. NameTypes'
    <3>1. epoch[e].ops \in Seq(Op \X Places)
      BY <1>1, <2>3 DEF EpochTypes, EpochRecords
    <3>2. names \in Seq(Op)
      <4> DEFINE l == Len(epoch[e].ops)
      <4>1. l \in Nat /\ DOMAIN epoch[e].ops = 1 .. l
        BY <3>1
      <4>2. \A k \in 1 .. l : epoch[e].ops[k] \in Op \X Places
        BY <3>1, <4>1
      <4>3. \A k \in 1 .. l : epoch[e].ops[k][1] \in Op
        BY <4>2
      <4> HIDE DEF l
      <4> QED
        BY <4>1, <4>3
    <3> HIDE DEF names
    <3>3. placed_ops' \in Seq(Op)
      <4>1. placed_ops \in Seq(Op) /\ <<>> \in Seq(Op)
        BY <1>1 DEF NameTypes
      <4>2. placed_ops \o names \in Seq(Op)
        BY <3>2, <4>1
      <4> QED
        BY <1>4, <4>1, <4>2
    <3>4. \A o \in DOMAIN name_to_op_placement' : name_to_op_placement'[o] \in Places
      <4>1. \A o \in DOMAIN name_to_op_placement : name_to_op_placement[o] \in Places
        BY <1>1 DEF NameTypes
      <4> QED
        BY <1>4, <1>17, <2>3, <4>1
    <3> QED
      BY <1>1, <1>14, <3>3, <3>4 DEF NameTypes
  <2> QED
    BY <1>1, <1>2, <1>11, <1>12, <1>13, <1>15, <2>7, <2>8, <2>9 DEF EpochsInv, TypeInv
<1> QED
  BY <1>16, <1>17

\* The invariant of the epochs holds at first.
LEMMA StepInit ==
  ASSUME Op # {}, Init
  PROVE  EpochsInv
<1> DEFINE S == sorted_chip_ids
           chip == current_chip_id
           rem == remaining_chip_ids
<1>1. /\ config \in Configs /\ valid = "open"
      /\ S = (IF config.pipelined THEN <<0>> ELSE apply_chip_placement_policy(config))
      /\ chip = S[1] /\ rem = Tail(S)
      /\ current_epoch_index = 0 /\ current_temporal_epoch_id = 0 /\ current_spatial_epoch_id = 0
      /\ epoch = [i \in {0} |-> [chip |-> chip, temporal |-> 0, spatial |-> 0,
                                 ops |-> <<>>, grid |-> GridOf(chip)]]
      /\ placed_ops = <<>> /\ visited_ops = {} /\ name_to_op_placement = <<>>
      /\ num_epochs = 0 /\ call = NoCall /\ replay = <<>>
      /\ assign = [epoch |-> 0, chip_index |-> 0, count |-> 0]
  BY DEF Init
<1>2. /\ config.chips \in Seq(Nat) /\ config.chips # <<>> /\ IsInjective(config.chips)
      /\ config.galaxy \in Seq(Nat) /\ IsInjective(config.galaxy)
  BY <1>1, ConfigFacts
<1>3. Chips = OpenChips
  BY <1>1 DEF Chips
<1>4. S \in Seq(Nat) /\ IsInjective(S) /\ Range(S) = OpenChips /\ S # <<>>
  <2>1. CASE config.pipelined
    <3>1. S = <<0>>
      BY <1>1, <2>1
    <3> HIDE DEF S
    <3> QED
      BY <2>1, <3>1 DEF OpenChips, IsInjective, Range
  <2>2. CASE ~config.pipelined
    <3>1. S = apply_chip_placement_policy(config)
      BY <1>1, <2>2
    <3>2. /\ Len(S) = Len(config.chips) /\ S \in Seq(Nat) /\ Range(S) = Range(config.chips) /\ IsInjective(S)
      BY <1>2, <3>1, PolicyHasAllChips
    <3>3. Len(config.chips) # 0
      BY <1>2
    <3> QED
      BY <2>2, <3>2, <3>3 DEF OpenChips
  <2> QED
    BY <2>1, <2>2
<1>5. /\ chip \in Range(S) /\ rem \in Seq(Nat) /\ IsInjective(rem) /\ Range(rem) = Range(S) \ {chip}
      /\ Len(rem) + 1 = Len(S) /\ Len(S) \in Nat
  <2> HIDE DEF S, rem, chip
  <2>1. chip = S[1] /\ rem = Tail(S)
    BY <1>1
  <2>2. /\ S[1] \in Range(S) /\ Tail(S) \in Seq(Nat) /\ IsInjective(Tail(S))
        /\ Range(Tail(S)) = Range(S) \ {S[1]} /\ Len(Tail(S)) + 1 = Len(S)
    BY <1>4, TailOf
  <2> QED
    BY <1>4, <2>1, <2>2
<1>6. DOMAIN epoch = {0} /\ epoch[0] = [chip |-> chip, temporal |-> 0, spatial |-> 0,
                                        ops |-> <<>>, grid |-> GridOf(chip)]
  BY <1>1
<1>7. GridOf(chip) \in Grids
  BY <1>1, GridTypes
<1>8. chip \in Nat
  BY <1>4, <1>5 DEF Range
<1>9. <<>> \in Seq(Op \X Places) /\ <<>> \in Seq(Op)
  OBVIOUS
<1>10. epoch[0] \in EpochRecords
  BY <1>6, <1>7, <1>8, <1>9 DEF EpochRecords
<1>11. ChipTypes
  BY <1>3, <1>4, <1>5 DEF ChipTypes
<1>12. EpochTypes
  BY <1>1, <1>6, <1>10 DEF EpochTypes
<1>13. DOMAIN name_to_op_placement = {}
  BY <1>1
<1>14. NameTypes
  BY <1>1, <1>9, <1>13 DEF NameTypes
<1>15. CallTypes
  BY <1>1, <1>9, NoCallTypes DEF CallTypes, Assigns
<1>16. TypeInv
  BY <1>1, <1>11, <1>12, <1>14, <1>15 DEF TypeInv
<1>17. OpenEpochs
  <2> DEFINE none == [i \in {} |-> i]
             f == 0
             t == 0
             n == Len(S)
  <2>1. DOMAIN none = {} /\ f \in Nat /\ t \in Nat
    OBVIOUS
  <2>2. PastWhole(none, f, t, S)
    BY DEF PastWhole
  <2>3. 0 .. f - 1 = {} /\ f .. f - 1 = {}
    OBVIOUS
  <2>4. f <= f /\ f - f + Len(S) = Len(S)
    BY <1>5
  <2>5. Spread(none, f, f, t, S, S)
    <3>1. 0 .. f - 1 \subseteq DOMAIN none /\ DOMAIN none \subseteq 0 .. f + Len(S) - 1
      BY <2>1, <2>3
    <3> HIDE DEF none, S, f, t
    <3> QED
      BY <1>4, <2>1, <2>2, <3>1, SpreadStart
  <2>6. /\ DOMAIN epoch = DOMAIN none \cup {f} /\ \A i \in DOMAIN none : i # f => epoch[i] = none[i]
        /\ epoch[f].chip = chip /\ epoch[f].temporal = t /\ epoch[f].spatial = f - f
    BY <1>6, <2>1
  <2>7. f + 1 = current_epoch_index + 1 /\ Base = f /\ t = current_temporal_epoch_id
    BY <1>1 DEF Base
  <2> HIDE DEF none, f, t
  <2>8. Spread(epoch, f, f + 1, t, rem, S)
    BY <1>4, <1>5, <2>1, <2>5, <2>6, SpreadNext
  <2> QED
    BY <1>1, <1>6, <2>7, <2>8 DEF OpenEpochs
<1>18. Committed /\ Assigned
  BY <1>1 DEF Committed, Assigned
<1>19. ToPlace
  BY <1>1 DEF ToPlace
<1>20. HasPlaced
  BY <1>1, <1>13 DEF HasPlaced, AllPlaced, IsInjective, Range
<1> QED
  BY <1>16, <1>17, <1>18, <1>19, <1>20 DEF EpochsInv

\* The invariant of the epochs does not depend on anything else.
LEMMA EpochsUnchanged ==
  ASSUME EpochsInv, UNCHANGED vars
  PROVE  EpochsInv'
<1>1. UNCHANGED <<config, valid, placing, num_epochs, assign>> /\ call' = call /\ replay' = replay
  BY DEF vars
<1>2. /\ TypeInv /\ OpenEpochs /\ Committed /\ Assigned /\ HasPlaced /\ ToPlace
  BY DEF EpochsInv
<1>3. /\ OpenEpochs' /\ Committed' /\ Assigned' /\ HasPlaced'
      /\ ChipTypes' /\ EpochTypes' /\ NameTypes'
      /\ config' \in Configs /\ valid' \in {"open", "assigning", "committed", "aborted"}
      /\ num_epochs' \in Nat /\ assign' \in Assigns
  BY <1>1, <1>2, EpochsFrame
<1>4. name_to_op_placement' = name_to_op_placement /\ valid' = valid
  BY <1>1 DEF placing
<1>5. ToPlace'
  BY <1>1, <1>2, <1>4 DEF ToPlace, CallOk
<1> QED
  BY <1>1, <1>2, <1>3, <1>5 DEF EpochsInv, TypeInv, CallTypes

\* A turn of the loop of place_one_op keeps the invariant of the epochs.
LEMMA StepPlaceOneOp ==
  ASSUME EpochsInv, OneRequested, PlaceOneOp
  PROVE  EpochsInv'
<1>1. valid = "open" /\ call # NoCall
  BY DEF PlaceOneOp
<1>2. Placed(TryPlace) \/ NotPlaced(TryPlace) \/ NextChip(TryPlace)
  BY DEF PlaceOneOp
<1> DEFINE r == TryPlace
<1>3. r = TryPlace /\ (Placed(r) \/ NotPlaced(r) \/ NextChip(r))
  BY <1>2
<1> HIDE DEF r
<1> QED
  BY <1>1, <1>3, StepPlaced, StepNotPlaced, StepNextChip

\* Every step keeps the invariant of the epochs.
LEMMA EpochsNext ==
  ASSUME EpochsInv, OneRequested, [Next]_vars
  PROVE  EpochsInv'
<1>1. ASSUME NEW op \in Op, PlaceOp(op, Breaks(op)) PROVE EpochsInv'
  <2> DEFINE br == Breaks(op)
  <2>1. br \in BOOLEAN /\ PlaceOp(op, br)
    BY <1>1 DEF Breaks
  <2> HIDE DEF br
  <2> QED
    BY <2>1, StepPlaceOp
<1>2. ASSUME NEW op \in Op, rewind_to(op) PROVE EpochsInv'
  BY <1>2, StepRewindTo
<1>3. ASSUME NEW op1 \in Op, NEW op2 \in Op, PlaceTwoOpsRowwise(op1, op2, Breaks(op1) \/ Breaks(op2))
      PROVE  EpochsInv'
  <2> DEFINE br == Breaks(op1) \/ Breaks(op2)
  <2>1. br \in BOOLEAN /\ PlaceTwoOpsRowwise(op1, op2, br)
    BY <1>3 DEF Breaks
  <2> HIDE DEF br
  <2> QED
    BY <2>1, StepPlaceTwo
<1>4. ASSUME ~AllPlaced, next_epoch PROVE EpochsInv'
  BY <1>4, StepNextEpoch
<1>5. ASSUME placed_ops # <<>>, rewind_epoch PROVE EpochsInv'
  BY <1>5, StepRewindEpoch
<1>6. ASSUME AllPlaced, commit \/ commit_pipelined PROVE EpochsInv'
  BY <1>6, StepCommit, StepCommitPipelined
<1>7. ASSUME PlacerSteps PROVE EpochsInv'
  BY <1>7, StepPlaceOneOp, StepAssignChip, StepAssignEnds DEF PlacerSteps
<1>8. ASSUME UNCHANGED vars PROVE EpochsInv'
  BY <1>8, EpochsUnchanged
<1> QED
  BY <1>1, <1>2, <1>3, <1>4, <1>5, <1>6, <1>7, <1>8 DEF Next

-----------------------------------------------------------------------------
(***************************************************************************)
(* Committed solutions.                                                    *)
(***************************************************************************)
\* When every epoch has its chip, a temporal epoch runs every chip once.
LEMMA AssignedComplete ==
  ASSUME NEW e, NEW m \in Nat, NEW b \in Nat, m <= b, NEW S \in Seq(Nat), Len(S) >= 1,
         AssignedUpTo(e, m, m, b, S), DOMAIN e = 0 .. b - 1,
         NEW u \in {e[i].temporal : i \in DOMAIN e}
  PROVE  RunsAll(e, u, S)
<1> DEFINE n == Len(S)
           mine == {i \in DOMAIN e : e[i].temporal = u}
<1>1. /\ \A i \in m .. b - 1 : e[i].temporal \in 0 .. m - 1
      /\ \A v \in 0 .. m - 1 :
            \E f \in m .. b : /\ AssignedFrom(e, v, f, S)
                              /\ f + n - 1 <= b
                              /\ \A i \in m .. b - 1 : e[i].temporal = v => i \in f .. f + n - 2
  BY DEF AssignedUpTo
<1>2. \A v \in 0 .. m - 1 : e[v].temporal = v
  BY <1>1 DEF AssignedFrom
<1>3. \A i \in DOMAIN e : i \in 0 .. m - 1 \/ i \in m .. b - 1
  OBVIOUS
<1>4. u \in 0 .. m - 1
  BY <1>1, <1>2, <1>3
<1>5. PICK f \in m .. b : /\ AssignedFrom(e, u, f, S)
                          /\ f + n - 1 <= b
                          /\ \A i \in m .. b - 1 : e[i].temporal = u => i \in f .. f + n - 2
  BY <1>1, <1>4
<1> DEFINE J == f .. f + n - 2
<1>6. /\ e[u].temporal = u /\ e[u].spatial = 0 /\ e[u].chip \in Range(S)
      /\ \A i \in J : e[i].temporal = u /\ e[i].spatial = 1 + i - f
      /\ {e[i].chip : i \in J} = Range(S) \ {e[u].chip}
  BY <1>5 DEF AssignedFrom
<1>7. n \in Nat /\ n >= 1 /\ f \in Nat /\ u \in Nat /\ u < f
  BY <1>4, <1>5
<1>8. J \subseteq m .. b - 1 /\ m .. b - 1 \subseteq DOMAIN e /\ u \in DOMAIN e /\ u \notin J
  BY <1>4, <1>5, <1>7
<1>9. mine = J \cup {u}
  <2>1. \A i \in mine : i \in J \cup {u}
    <3>1. \A i \in 0 .. m - 1 : e[i].temporal = u => i = u
      BY <1>2
    <3> QED
      BY <1>3, <1>5, <3>1
  <2>2. \A i \in J : i \in mine
    BY <1>6, <1>8
  <2>3. u \in mine
    BY <1>6, <1>8
  <2> HIDE DEF J, mine
  <2> QED
    BY <2>1, <2>2, <2>3
<1>10. Cardinality(J) = n - 1 /\ IsFiniteSet(J)
  <2>1. f \in Int /\ f + n - 2 \in Int
    BY <1>7
  <2>2. IsFiniteSet(J) /\ Cardinality(J) = IF f > f + n - 2 THEN 0 ELSE (f + n - 2) - f + 1
    BY <2>1, FS_Interval
  <2> QED
    BY <1>7, <2>2
<1> HIDE DEF mine, J
<1>11. Cardinality(mine) = n
  <2>1. Cardinality(J \cup {u}) = Cardinality(J) + 1
    BY <1>8, <1>10, FS_AddElement
  <2> QED
    BY <1>7, <1>9, <1>10, <2>1
<1>12. {e[i].chip : i \in mine} = Range(S)
  <2>1. {e[i].chip : i \in mine} = {e[i].chip : i \in J} \cup {e[u].chip}
    BY <1>9
  <2> QED
    BY <1>6, <2>1
<1>13. {e[i].spatial : i \in mine} = 0 .. n - 1
  <2>1. \A i \in mine : e[i].spatial \in 0 .. n - 1
    <3>1. \A i \in J : 1 + i - f \in 0 .. n - 1
      BY <1>7 DEF J
    <3>2. 0 \in 0 .. n - 1
      BY <1>7
    <3> QED
      BY <1>6, <1>9, <3>1, <3>2
  <2>2. ASSUME NEW x \in 0 .. n - 1 PROVE \E i \in mine : e[i].spatial = x
    <3>1. CASE x = 0
      BY <1>6, <1>9, <3>1
    <3>2. CASE x # 0
      <4>1. (x + f) - 1 \in J /\ 1 + ((x + f) - 1) - f = x
        BY <1>7, <2>2, <3>2 DEF J
      <4> QED
        BY <1>6, <1>9, <4>1
    <3> QED
      BY <3>1, <3>2
  <2> HIDE DEF n
  <2> QED
    BY <2>1, <2>2
<1> QED
  BY <1>11, <1>12, <1>13 DEF mine, RunsAll

\* The placer never changes its configuration.
LEMMA ConfigStays ==
  ASSUME [Next]_vars
  PROVE  config' = config
BY DEF Next, vars, PlaceOp, PlaceTwoOpsRowwise, rewind_to, Rewind, next_epoch, rewind_epoch,
       commit, commit_pipelined, PlacerSteps, PlaceOneOp, Placed, NotPlaced, NextChip,
       AssignChip, AssignEnds

\* The invariant of the epochs says that a committed solution is whole.
LEMMA EpochsComplete ==
  ASSUME EpochsInv
  PROVE  CommittedEpochsComplete
<1> DEFINE S == sorted_chip_ids
           n == Len(config.chips)
<1> SUFFICES ASSUME valid = "committed", NEW t \in {epoch[i].temporal : i \in DOMAIN epoch}
             PROVE  LET mine == {i \in DOMAIN epoch : epoch[i].temporal = t}
                    IN  /\ Cardinality(mine) = n
                        /\ {epoch[i].chip : i \in mine} = Range(config.chips)
                        /\ {epoch[i].spatial : i \in mine} = 0 .. n - 1
  BY DEF CommittedEpochsComplete
<1>1. /\ config \in Configs /\ TypeInv /\ Committed /\ Assigned
      /\ S \in Seq(Nat) /\ IsInjective(S) /\ Range(S) = Range(config.chips)
      /\ current_epoch_index \in Nat
  BY DEF EpochsInv, TypeInv, ChipTypes, Chips, EpochTypes
<1>2. config.chips \in Seq(Nat) /\ IsInjective(config.chips) /\ config.chips # <<>>
  BY <1>1, ConfigFacts
<1>3. Len(S) = n /\ n \in Nat /\ n >= 1
  <2>1. Cardinality(Range(S)) = Len(S)
    BY <1>1, LengthOfInjective
  <2>2. Cardinality(Range(config.chips)) = n
    BY <1>2, LengthOfInjective
  <2>3. n \in Nat /\ n # 0
    BY <1>2
  <2> QED
    BY <1>1, <2>1, <2>2, <2>3
<1> HIDE DEF S, n
<1>4. CASE ~config.pipelined
  <2> DEFINE b == current_epoch_index
             u == current_temporal_epoch_id + 1
  <2>1. DOMAIN epoch = 0 .. b - 1 /\ PastWhole(epoch, b, u, S)
    BY <1>1, <1>4 DEF Committed, S
  <2> HIDE DEF b, u
  <2>2. b \in Nat
    BY <1>1 DEF b
  <2>3. RunsAll(epoch, t, S)
    BY <1>1, <2>1, <2>2, PastComplete
  <2> QED
    BY <1>1, <1>3, <2>3 DEF RunsAll
<1>5. CASE config.pipelined
  <2> DEFINE b == current_epoch_index
             m == num_epochs
  <2>1. /\ DOMAIN epoch = 0 .. b - 1 /\ AssignedUpTo(epoch, m, m, b, S) /\ m <= b /\ m \in Nat /\ b \in Nat
    BY <1>1, <1>5 DEF Assigned, S, TypeInv, CallTypes
  <2> HIDE DEF b, m
  <2>3. RunsAll(epoch, t, S)
    BY <1>1, <1>3, <2>1, AssignedComplete
  <2> QED
    BY <1>1, <1>3, <2>3 DEF RunsAll
<1> QED
  BY <1>4, <1>5

\* As many epochs as chips run every chip only if none of them runs twice.
LEMMA WholeApart ==
  ASSUME NEW e, NEW f \in Nat, NEW t, NEW S \in Seq(Nat), IsInjective(S), Whole(e, f, t, S),
         NEW i \in f .. f + Len(S) - 1, NEW j \in f .. f + Len(S) - 1, e[i].chip = e[j].chip
  PROVE  i = j
<1> DEFINE J == f .. f + Len(S) - 1
           R == Range(S)
           chipOf == [x \in J |-> e[x].chip]
<1>1. Len(S) \in Nat /\ f \in Int /\ f + Len(S) - 1 \in Int
  OBVIOUS
<1>2. IsFiniteSet(J) /\ Cardinality(J) = Len(S)
  <2> DEFINE l == f + Len(S) - 1
  <2>1. IsFiniteSet(f .. l) /\ Cardinality(f .. l) = IF f > l THEN 0 ELSE l - f + 1
    <3>1. f \in Int /\ l \in Int
      BY <1>1
    <3> HIDE DEF l
    <3> QED
      BY <3>1, FS_Interval
  <2> QED
    BY <1>1, <2>1
<1>3. Cardinality(R) = Len(S)
  BY LengthOfInjective
<1>4. chipOf \in Surjection(J, R)
  <2>1. {e[x].chip : x \in J} = R
    BY DEF Whole
  <2>2. chipOf \in [J -> R]
    BY <2>1
  <2>3. \A c \in R : \E x \in J : chipOf[x] = c
    BY <2>1
  <2> QED
    BY <2>2, <2>3 DEF Surjection
<1>5. chipOf \in Injection(J, R)
  <2> HIDE DEF J, R, chipOf
  <2> QED
    BY <1>2, <1>3, <1>4, FS_SurjSameCardinalityImpliesInj
<1>6. chipOf[i] = chipOf[j] /\ i \in J /\ j \in J
  OBVIOUS
<1> HIDE DEF J, R, chipOf
<1> QED
  BY <1>5, <1>6 DEF Injection, IsInjective

\* The chips of a temporal epoch are apart, in the past ones and in the open one.
LEMMA EpochsApart ==
  ASSUME EpochsInv
  PROVE  ChipsNotRepeated
<1> DEFINE k == current_epoch_index
           b == Base
           t == current_temporal_epoch_id
           S == sorted_chip_ids
           rem == remaining_chip_ids
<1> SUFFICES ASSUME valid = "open", NEW i \in Epochs, NEW j \in Epochs,
                    epoch[i].temporal = epoch[j].temporal, epoch[i].chip = epoch[j].chip
             PROVE  i = j
  BY DEF ChipsNotRepeated
<1>1. /\ k \in Nat /\ b \in 0 .. k /\ S \in Seq(Nat) /\ IsInjective(S)
      /\ Spread(epoch, b, k + 1, t, rem, S) /\ t \in Nat
  BY OpenFacts DEF EpochsInv
<1>2. i \in 0 .. k /\ j \in 0 .. k
  BY DEF Epochs
<1> HIDE DEF k, b, t, S, rem
<1>3. /\ PastWhole(epoch, b, t, S)
      /\ \A x \in b .. k : epoch[x].temporal = t
      /\ \A x, y \in b .. k : epoch[x].chip = epoch[y].chip => x = y
  <2>1. (k + 1) - 1 = k
    BY <1>1
  <2> QED
    BY <1>1, <2>1 DEF Spread
<1>4. \A x \in 0 .. b - 1 : epoch[x].temporal < t
  BY <1>3 DEF PastWhole
<1>5. CASE i \in b .. k
  <2>1. j \notin 0 .. b - 1
    BY <1>1, <1>3, <1>4, <1>5
  <2>2. j \in b .. k
    BY <1>1, <1>2, <2>1
  <2> QED
    BY <1>3, <1>5, <2>2
<1>6. CASE i \notin b .. k
  <2>1. i \in 0 .. b - 1
    BY <1>1, <1>2, <1>6
  <2>2. j \notin b .. k
    BY <1>1, <1>3, <1>4, <2>1
  <2>3. j \in 0 .. b - 1
    BY <1>1, <1>2, <2>2
  <2> DEFINE f == i - epoch[i].spatial
             u == epoch[i].temporal
             n == Len(S)
  <2>4. /\ epoch[i].spatial \in 0 .. n - 1 /\ f \in 0 .. b - n /\ Whole(epoch, f, u, S)
        /\ epoch[j].spatial \in 0 .. n - 1 /\ j - epoch[j].spatial = f
    BY <1>3, <2>1, <2>3 DEF PastWhole
  <2>5. n \in Nat /\ f \in Nat
    BY <1>1, <2>4
  <2>6. i \in f .. f + n - 1 /\ j \in f .. f + n - 1
    <3> DEFINE x == epoch[i].spatial
               y == epoch[j].spatial
    <3>1. x \in 0 .. n - 1 /\ y \in 0 .. n - 1 /\ f = i - x /\ j - y = f
      BY <2>4
    <3> HIDE DEF x, y, f, n
    <3> QED
      BY <2>1, <2>3, <2>5, <3>1
  <2> HIDE DEF f, u
  <2> QED
    BY <1>1, <2>4, <2>5, <2>6, WholeApart
<1> QED
  BY <1>5, <1>6

\* The invariant of the epochs, in every reachable state: the types of all that the
\* placer keeps, the epochs of the temporal epoch that is placed, those of a committed
\* solution, and what is left to place.
THEOREM EpochsAlways ==
  ASSUME Op # {}
  PROVE  Spec => [](OneRequested => EpochsInv)
<1> DEFINE Inv == OneRequested => EpochsInv
<1>1. Init => Inv
  BY StepInit
<1>2. Inv /\ [Next]_vars => Inv'
  <2> SUFFICES ASSUME Inv, [Next]_vars, OneRequested' PROVE EpochsInv'
    OBVIOUS
  <2>1. config' = config
    BY ConfigStays
  <2>2. OneRequested
    BY <2>1 DEF OneRequested
  <2> QED
    BY <2>2, EpochsNext
<1> QED
  BY <1>1, <1>2, PTL DEF Spec

\* However the ops are placed, moved on, taken back and placed again, an interactive
\* placement that is committed consists of whole temporal epochs: each runs every
\* chip once, with its spatial epochs counted from 0.
THEOREM CommittedAlways ==
  ASSUME Op # {}
  PROVE  Spec => [](OneRequested => CommittedEpochsComplete)
<1>1. (OneRequested => EpochsInv) => (OneRequested => CommittedEpochsComplete)
  BY EpochsComplete
<1> QED
  BY <1>1, EpochsAlways, PTL

\* While a placement is open, no two epochs of a temporal epoch are on one chip:
\* next_chip_id never picks a chip that the temporal epoch has, whichever chips are
\* put back for an op that asks for one.
THEOREM ChipsAlways ==
  ASSUME Op # {}
  PROVE  Spec => [](OneRequested => ChipsNotRepeated)
<1>1. (OneRequested => EpochsInv) => (OneRequested => ChipsNotRepeated)
  BY EpochsApart
<1> QED
  BY <1>1, EpochsAlways, PTL

-----------------------------------------------------------------------------
(***************************************************************************)
(* The records of a placement agree.                                       *)
(***************************************************************************)
\* A step that changes no epoch and no placement.
LEMMA AgreeFrame ==
  ASSUME Agree, OpenAgree, UNCHANGED <<config, valid, placing>>
  PROVE  Agree' /\ OpenAgree'
<1>1. /\ valid' = valid /\ current_epoch_index' = current_epoch_index
      /\ current_spatial_epoch_id' = current_spatial_epoch_id
      /\ placed_ops' = placed_ops /\ name_to_op_placement' = name_to_op_placement /\ epoch' = epoch
  BY DEF placing
<1>2. Epochs' = Epochs /\ Base' = Base
  BY <1>1 DEF Epochs, Base
<1>3. Agree'
  <2> SUFFICES ASSUME valid # "aborted"
               PROVE  /\ \A o \in DOMAIN name_to_op_placement : NameSound(o)'
                      /\ \A i \in Epochs : EpochSound(i)'
    BY <1>1, <1>2 DEF Agree
  <2>1. ASSUME NEW o \in DOMAIN name_to_op_placement PROVE NameSound(o)'
    <3>1. NameSound(o)
      BY DEF Agree
    <3> QED
      BY <1>1, <1>2, <3>1 DEF NameSound, EpochOps
  <2>2. ASSUME NEW i \in Epochs PROVE EpochSound(i)'
    <3>1. EpochSound(i)
      BY DEF Agree
    <3> QED
      BY <1>1, <3>1 DEF EpochSound, Listed, Apart
  <2> QED
    BY <2>1, <2>2
<1>4. OpenAgree'
  BY <1>1, <1>2 DEF OpenAgree
<1> QED
  BY <1>3, <1>4

\* The ops of an epoch are the ones recorded by name for it.
LEMMA OpsOf ==
  ASSUME Agree, valid # "aborted", NEW o \in DOMAIN name_to_op_placement, NEW i \in Epochs
  PROVE  o \in EpochOps(i) <=> name_to_op_placement[o].epoch = i
<1>1. NameSound(o) /\ Listed(i)
  BY DEF Agree, EpochSound
<1> QED
  BY <1>1 DEF NameSound, Listed, EpochOps

\* An epoch whose record, and whose ops' placements, stay is as sound as before.
LEMMA SoundStays ==
  ASSUME NEW i, EpochSound(i), epoch'[i] = epoch[i],
         \A k \in DOMAIN epoch[i].ops : LET o == epoch[i].ops[k][1]
                                        IN  /\ o \in DOMAIN name_to_op_placement'
                                            /\ name_to_op_placement'[o] = name_to_op_placement[o]
  PROVE  EpochSound(i)'
<1> DEFINE n == name_to_op_placement
           e == epoch[i]
<1>1. Listed(i) /\ Apart(i) /\ (e.ops # <<>> => e.grid.used = Used(e))
  BY DEF EpochSound
<1>2. Listed(i)'
  BY <1>1 DEF Listed
<1>3. Apart(i)'
  BY <1>1 DEF Apart
<1> QED
  BY <1>1, <1>2, <1>3 DEF EpochSound

\* An epoch without ops is sound.
LEMMA EmptySound ==
  ASSUME NEW e
  PROVE  \A i : epoch'[i].ops = <<>> => EpochSound(i)'
BY DEF EpochSound, Listed, Apart

\* When an epoch is opened, the ones before it are as they were, or hold no op.
LEMMA OpenedAgree ==
  ASSUME Agree, valid = "open", valid' = "open", NEW k2 \in Nat, current_epoch_index' = k2,
         current_epoch_index \in Nat,
         epoch'[k2].ops = <<>>, epoch'[k2].grid.used = {},
         \A i \in 0 .. k2 - 1 : (i <= current_epoch_index /\ epoch'[i] = epoch[i]) \/ epoch'[i].ops = <<>>,
         \A o \in DOMAIN name_to_op_placement' :
            /\ o \in DOMAIN name_to_op_placement /\ name_to_op_placement'[o] = name_to_op_placement[o]
            /\ name_to_op_placement[o].epoch \in 0 .. k2 - 1
            /\ epoch'[name_to_op_placement[o].epoch] = epoch[name_to_op_placement[o].epoch],
         \A i \in 0 .. k2 - 1 : i <= current_epoch_index =>
            \A j \in DOMAIN epoch[i].ops : epoch[i].ops[j][1] \in DOMAIN name_to_op_placement'
  PROVE  Agree' /\ epoch'[k2].grid.used = Used(epoch'[k2])
<1>1. Epochs' = 0 .. k2
  BY DEF Epochs
<1>2. \A o \in DOMAIN name_to_op_placement : NameSound(o)
  BY DEF Agree
<1>3. Epochs = 0 .. current_epoch_index /\ \A i \in Epochs : EpochSound(i)
  BY DEF Agree, Epochs
<1>4. ASSUME NEW i \in Epochs' PROVE EpochSound(i)'
  <2>1. CASE epoch'[i].ops = <<>>
    BY <2>1, EmptySound
  <2>2. CASE ~(epoch'[i].ops = <<>>)
    <3>1. i \in 0 .. k2 - 1
      BY <1>1, <1>4, <2>2
    <3>2. i <= current_epoch_index /\ epoch'[i] = epoch[i] /\ i \in Epochs
      BY <1>3, <2>2, <3>1
    <3>3. EpochSound(i)
      BY <1>3, <3>2
    <3> QED
      BY <3>1, <3>2, <3>3, SoundStays
  <2> QED
    BY <2>1, <2>2
<1>5. ASSUME NEW o \in DOMAIN name_to_op_placement' PROVE NameSound(o)'
  <2> DEFINE p == name_to_op_placement[o]
  <2>1. /\ o \in DOMAIN name_to_op_placement /\ name_to_op_placement'[o] = p
        /\ p.epoch \in 0 .. k2 - 1 /\ epoch'[p.epoch] = epoch[p.epoch]
    BY <1>5
  <2>2. epoch[p.epoch].chip = p.chip /\ o \in EpochOps(p.epoch)
    BY <1>2, <2>1 DEF NameSound
  <2>3. p.epoch \in Epochs'
    BY <1>1, <2>1
  <2> HIDE DEF p
  <2>4. \E j \in DOMAIN epoch'[p.epoch].ops : epoch'[p.epoch].ops[j][1] = o
    BY <2>1, <2>2 DEF EpochOps
  <2> QED
    BY <2>1, <2>2, <2>3, <2>4 DEF NameSound, EpochOps
<1>6. Used(epoch'[k2]) = {}
  BY DEF Used
<1>7. Agree'
  BY <1>4, <1>5 DEF Agree
<1> QED
  BY <1>6, <1>7

\* The entries of an epoch that ops are added to.
LEMMA AddedEntries ==
  ASSUME NEW X, NEW ops \in Seq(X), NEW more \in Seq(X)
  PROVE  /\ ops \o more \in Seq(X)
         /\ \A x \in DOMAIN (ops \o more) :
              \/ x \in DOMAIN ops /\ (ops \o more)[x] = ops[x]
              \/ \E y \in DOMAIN more : x = Len(ops) + y /\ (ops \o more)[x] = more[y]
         /\ \A x \in DOMAIN ops : x \in DOMAIN (ops \o more) /\ (ops \o more)[x] = ops[x]
         /\ \A y \in DOMAIN more : /\ Len(ops) + y \in DOMAIN (ops \o more)
                                   /\ (ops \o more)[Len(ops) + y] = more[y]
<1> DEFINE s == ops \o more
           n == Len(ops)
           m == Len(more)
<1>1. /\ n \in Nat /\ m \in Nat /\ DOMAIN ops = 1 .. n /\ DOMAIN more = 1 .. m /\ s \in Seq(X)
      /\ Len(s) = n + m /\ DOMAIN s = 1 .. n + m
      /\ \A x \in 1 .. n + m : s[x] = IF x <= n THEN ops[x] ELSE more[x - n]
  OBVIOUS
<1> HIDE DEF s, n, m
<1>2. ASSUME NEW x \in DOMAIN s
      PROVE  \/ x \in DOMAIN ops /\ s[x] = ops[x]
             \/ \E y \in DOMAIN more : x = n + y /\ s[x] = more[y]
  <2>1. CASE x <= n
    BY <1>1, <2>1
  <2>2. CASE ~(x <= n)
    <3>1. x - n \in DOMAIN more /\ x = n + (x - n) /\ s[x] = more[x - n]
      BY <1>1, <2>2
    <3> QED
      BY <3>1
  <2> QED
    BY <2>1, <2>2
<1>3. \A x \in DOMAIN ops : x \in DOMAIN s /\ s[x] = ops[x]
  BY <1>1
<1>4. ASSUME NEW y \in DOMAIN more PROVE n + y \in DOMAIN s /\ s[n + y] = more[y]
  <2>1. n + y \in 1 .. n + m /\ ~(n + y <= n) /\ (n + y) - n = y
    BY <1>1
  <2> QED
    BY <1>1, <2>1
<1> QED
  BY <1>1, <1>2, <1>3, <1>4 DEF s, n

\* The records agree after ops were placed.
LEMMA PlacedAgree ==
  ASSUME EpochsInv, Agree, OpenAgree, valid = "open", call # NoCall, NEW r, r = TryPlace, Placed(r)
  PROVE  Agree' /\ OpenAgree'
<1> DEFINE k == current_epoch_index
           p == OpPlacements(r)
           names == call.ops
           ops == epoch[k].ops
           more == Entries(p)
           g == epoch[k].grid
           n == name_to_op_placement
           new == UNION {Cores(p[i].start, p[i].shape) : i \in DOMAIN names}
<1>1. /\ TypeInv /\ OpenEpochs /\ CallOk /\ HasPlaced /\ call \in Calls /\ NameTypes
  BY DEF EpochsInv, ToPlace, TypeInv, CallTypes
<1>2. BlockRight(r, p) /\ OpsPlaced(p)
  BY PlacedFacts
<1>3. /\ k \in Nat /\ Base \in 0 .. k /\ 0 .. k \subseteq DOMAIN epoch /\ epoch[k].chip = current_chip_id
      /\ \A i \in DOMAIN epoch : epoch[i] \in EpochRecords
      /\ current_spatial_epoch_id \in Nat
  BY <1>1, OpenFacts
<1>4. k \in 0 .. k /\ k \in DOMAIN epoch
  BY <1>3
<1> HIDE DEF p, k
<1>5. ops \in Seq(Op \X Places)
  BY <1>3, <1>4 DEF EpochRecords
<1>6. /\ more \in Seq(Op \X Places) /\ DOMAIN more = DOMAIN names
      /\ \A i \in DOMAIN names : more[i][1] = names[i] /\ more[i][2] = p[i]
  BY <1>1, <1>2, EntriesTypes DEF BlockRight
<1> HIDE DEF more
<1>7. /\ DOMAIN epoch' = DOMAIN epoch /\ \A i \in DOMAIN epoch : i # k => epoch'[i] = epoch[i]
      /\ epoch'[k].chip = epoch[k].chip /\ epoch'[k].ops = ops \o more
      /\ epoch'[k].grid.rows = g.rows /\ epoch'[k].grid.cols = g.cols
      /\ epoch'[k].grid.used = g.used \cup new
      /\ placed_ops' = placed_ops \o names
      /\ DOMAIN n' = DOMAIN n \cup Range(names)
      /\ \A i \in DOMAIN names : n'[names[i]] = p[i]
      /\ \A o \in DOMAIN n : n'[o] = n[o]
      /\ valid' = "open" /\ current_epoch_index' = k
      /\ current_spatial_epoch_id' = current_spatial_epoch_id
  BY <1>2 DEF OpsPlaced, k, more
<1>8. /\ Cores(r.start, r.shape) \cap g.used = {}
      /\ \A i \in DOMAIN names :
            /\ p[i].chip = current_chip_id /\ p[i].epoch = k
            /\ InGrid(g, p[i].start, p[i].shape)
            /\ Cores(p[i].start, p[i].shape) \subseteq Cores(r.start, r.shape)
      /\ \A i, j \in DOMAIN names :
            i # j => Cores(p[i].start, p[i].shape) \cap Cores(p[j].start, p[j].shape) = {}
  BY <1>2 DEF BlockRight, k
<1>9. Epochs = 0 .. k /\ Epochs' = 0 .. k /\ Base' = Base
  BY <1>7 DEF Epochs, k, Base
<1>10. /\ \A o \in DOMAIN n : NameSound(o)
       /\ \A i \in 0 .. k : EpochSound(i)
       /\ g.used = Used(epoch[k])
       /\ \A o \in DOMAIN n : o \in Range(placed_ops) <=> n[o].epoch >= Base
  BY <1>9 DEF Agree, OpenAgree, k
<1>11. \A i \in DOMAIN names : names[i] \in Range(names) /\ names[i] \notin DOMAIN n
  BY <1>1 DEF CallOk, Range
<1> DEFINE ops2 == ops \o more
<1>12. /\ \A x \in DOMAIN ops2 :
              \/ x \in DOMAIN ops /\ ops2[x] = ops[x]
              \/ \E y \in DOMAIN names : x = Len(ops) + y /\ ops2[x] = more[y]
       /\ \A x \in DOMAIN ops : x \in DOMAIN ops2 /\ ops2[x] = ops[x]
       /\ \A y \in DOMAIN names : Len(ops) + y \in DOMAIN ops2 /\ ops2[Len(ops) + y] = more[y]
  <2> DEFINE X == Op \X Places
  <2>1. ops \in Seq(X) /\ more \in Seq(X) /\ DOMAIN more = DOMAIN names
    BY <1>5, <1>6
  <2> HIDE DEF X, ops, names
  <2>2. /\ \A x \in DOMAIN ops2 :
              \/ x \in DOMAIN ops /\ ops2[x] = ops[x]
              \/ \E y \in DOMAIN more : x = Len(ops) + y /\ ops2[x] = more[y]
        /\ \A x \in DOMAIN ops : x \in DOMAIN ops2 /\ ops2[x] = ops[x]
        /\ \A y \in DOMAIN more : Len(ops) + y \in DOMAIN ops2 /\ ops2[Len(ops) + y] = more[y]
    BY <2>1, AddedEntries
  <2> HIDE DEF ops2
  <2> QED
    BY <2>1, <2>2
<1>13. epoch'[k].ops = ops2
  BY <1>7
<1> HIDE DEF ops2, ops, g, names, new, n
<1>14. Listed(k) /\ Apart(k) /\ g.used = UNION {CoresOf(epoch[k], x) : x \in DOMAIN ops}
  BY <1>4, <1>10 DEF EpochSound, Used, ops, g
<1>15. ASSUME NEW x \in DOMAIN ops
       PROVE  /\ ops[x][1] \in DOMAIN n /\ ops[x][2] = n[ops[x][1]] /\ ops[x][2].epoch = k
              /\ InGrid(g, ops[x][2].start, ops[x][2].shape)
              /\ Cores(ops[x][2].start, ops[x][2].shape) \subseteq g.used
  BY <1>14 DEF Listed, CoresOf, ops, g, n
<1>16. ASSUME NEW x \in DOMAIN ops2
       PROVE  /\ ops2[x][1] \in DOMAIN n' /\ ops2[x][2] = n'[ops2[x][1]] /\ ops2[x][2].epoch = k
              /\ InGrid(g, ops2[x][2].start, ops2[x][2].shape)
  <2>1. CASE x \in DOMAIN ops /\ ops2[x] = ops[x]
    BY <1>7, <1>15, <2>1 DEF n
  <2>2. CASE \E y \in DOMAIN names : x = Len(ops) + y /\ ops2[x] = more[y]
    <3>1. PICK y \in DOMAIN names : ops2[x] = more[y]
      BY <2>2
    <3> QED
      BY <1>6, <1>7, <1>8, <1>11, <3>1 DEF n
  <2> QED
    BY <1>12, <2>1, <2>2
<1>17. Listed(k)'
  <2>1. \A s, h : InGrid(g, s, h) <=> InGrid(epoch'[k].grid, s, h)
    BY <1>7 DEF InGrid, g
  <2>2. \A x \in DOMAIN epoch'[k].ops :
          /\ epoch'[k].ops[x][1] \in DOMAIN name_to_op_placement'
          /\ epoch'[k].ops[x][2] = name_to_op_placement'[epoch'[k].ops[x][1]]
          /\ epoch'[k].ops[x][2].epoch = k
          /\ InGrid(epoch'[k].grid, epoch'[k].ops[x][2].start, epoch'[k].ops[x][2].shape)
    BY <1>13, <1>16, <2>1 DEF n
  <2>3. k' = k
    BY <1>7 DEF k
  <2> QED
    BY <2>2, <2>3 DEF Listed
<1>18. ASSUME NEW x \in DOMAIN ops2, NEW y \in DOMAIN ops2, x # y
       PROVE  Cores(ops2[x][2].start, ops2[x][2].shape) \cap Cores(ops2[y][2].start, ops2[y][2].shape) = {}
  <2>1. ASSUME NEW a \in DOMAIN ops, NEW b \in DOMAIN ops, a # b
        PROVE  Cores(ops[a][2].start, ops[a][2].shape) \cap Cores(ops[b][2].start, ops[b][2].shape) = {}
    BY <1>14, <2>1 DEF Apart, CoresOf, ops
  <2>2. ASSUME NEW a \in DOMAIN ops, NEW b \in DOMAIN names
        PROVE  Cores(ops[a][2].start, ops[a][2].shape) \cap Cores(more[b][2].start, more[b][2].shape) = {}
    <3>1. Cores(ops[a][2].start, ops[a][2].shape) \subseteq g.used
      BY <1>15
    <3>2. Cores(more[b][2].start, more[b][2].shape) \subseteq Cores(r.start, r.shape)
      BY <1>6, <1>8
    <3> QED
      BY <1>8, <3>1, <3>2
  <2>3. ASSUME NEW a \in DOMAIN names, NEW b \in DOMAIN names, a # b
        PROVE  Cores(more[a][2].start, more[a][2].shape) \cap Cores(more[b][2].start, more[b][2].shape) = {}
    BY <1>6, <1>8, <2>3
  <2>4. /\ (x \in DOMAIN ops /\ ops2[x] = ops[x]) \/ \E a \in DOMAIN names : x = Len(ops) + a /\ ops2[x] = more[a]
        /\ (y \in DOMAIN ops /\ ops2[y] = ops[y]) \/ \E a \in DOMAIN names : y = Len(ops) + a /\ ops2[y] = more[a]
    BY <1>12
  <2>5. CASE x \in DOMAIN ops /\ ops2[x] = ops[x]
    <3>1. CASE y \in DOMAIN ops /\ ops2[y] = ops[y]
      BY <1>18, <2>1, <2>5, <3>1
    <3>2. CASE \E b \in DOMAIN names : y = Len(ops) + b /\ ops2[y] = more[b]
      BY <2>2, <2>5, <3>2
    <3> QED
      BY <2>4, <3>1, <3>2
  <2>6. CASE \E a \in DOMAIN names : x = Len(ops) + a /\ ops2[x] = more[a]
    <3>0. PICK a \in DOMAIN names : x = Len(ops) + a /\ ops2[x] = more[a]
      BY <2>6
    <3>1. CASE y \in DOMAIN ops /\ ops2[y] = ops[y]
      <4>1. Cores(ops[y][2].start, ops[y][2].shape) \cap Cores(more[a][2].start, more[a][2].shape) = {}
        BY <2>2, <3>1
      <4> QED
        BY <3>0, <3>1, <4>1
    <3>2. CASE \E b \in DOMAIN names : y = Len(ops) + b /\ ops2[y] = more[b]
      <4>1. PICK b \in DOMAIN names : y = Len(ops) + b /\ ops2[y] = more[b]
        BY <3>2
      <4>2. a # b
        BY <1>18, <3>0, <4>1
      <4> QED
        BY <2>3, <3>0, <4>1, <4>2
    <3> QED
      BY <2>4, <3>1, <3>2
  <2> QED
    BY <2>4, <2>5, <2>6
<1>19. Apart(k)'
  <2>1. k' = k
    BY <1>7 DEF k
  <2> QED
    BY <1>13, <1>18, <2>1 DEF Apart, CoresOf
<1>20. epoch'[k].grid.used = Used(epoch'[k])
  <2> DEFINE C(e) == Cores(e[2].start, e[2].shape)
  <2>1. Used(epoch'[k]) = UNION {C(ops2[x]) : x \in DOMAIN ops2}
    BY <1>13 DEF Used, CoresOf
  <2>2. g.used = UNION {C(ops[x]) : x \in DOMAIN ops}
    BY <1>14 DEF CoresOf, ops
  <2>3. new = UNION {C(more[y]) : y \in DOMAIN names}
    BY <1>6 DEF new, names
  <2> HIDE DEF C
  <2>4. UNION {C(ops2[x]) : x \in DOMAIN ops2}
          = (UNION {C(ops[x]) : x \in DOMAIN ops}) \cup (UNION {C(more[y]) : y \in DOMAIN names})
    <3>1. ASSUME NEW c, NEW x \in DOMAIN ops2, c \in C(ops2[x])
          PROVE  c \in (UNION {C(ops[z]) : z \in DOMAIN ops}) \cup (UNION {C(more[y]) : y \in DOMAIN names})
      BY <1>12, <3>1
    <3>2. ASSUME NEW c, NEW x \in DOMAIN ops, c \in C(ops[x])
          PROVE  c \in UNION {C(ops2[z]) : z \in DOMAIN ops2}
      BY <1>12, <3>2
    <3>3. ASSUME NEW c, NEW y \in DOMAIN names, c \in C(more[y])
          PROVE  c \in UNION {C(ops2[z]) : z \in DOMAIN ops2}
      BY <1>12, <3>3
    <3> QED
      BY <3>1, <3>2, <3>3
  <2> QED
    BY <1>7, <2>1, <2>2, <2>3, <2>4 DEF g
<1>21. ASSUME NEW i \in 0 .. k PROVE EpochSound(i)'
  <2>1. CASE i = k
    BY <1>17, <1>19, <1>20, <2>1, <1>7 DEF EpochSound, k
  <2>2. CASE i # k
    <3>1. epoch'[i] = epoch[i] /\ EpochSound(i)
      BY <1>3, <1>7, <1>10, <2>2 DEF k
    <3>2. \A x \in DOMAIN epoch[i].ops : epoch[i].ops[x][1] \in DOMAIN n
      BY <3>1 DEF EpochSound, Listed, n
    <3> QED
      BY <1>7, <3>1, <3>2, SoundStays DEF n
  <2> QED
    BY <2>1, <2>2
<1>22. ASSUME NEW o \in DOMAIN n' PROVE NameSound(o)' /\ (o \in Range(placed_ops') <=> n'[o].epoch >= Base)
  <2>0. /\ placed_ops \in Seq(Op) /\ names \in Seq(Op)
    BY <1>1, CallShape DEF NameTypes, names
  <2>1. Range(placed_ops') = Range(placed_ops) \cup Range(names)
    BY <1>7, <2>0, Concatenation DEF names
  <2>2. CASE o \in DOMAIN n
    <3> DEFINE q == n[o]
    <3>1. q.epoch \in 0 .. k /\ epoch[q.epoch].chip = q.chip /\ o \in EpochOps(q.epoch) /\ n'[o] = q
      BY <1>7, <1>9, <1>10, <2>2 DEF NameSound, n
    <3>2. o \notin Range(names)
      BY <1>1, <2>2 DEF CallOk, names, n
    <3>3. epoch'[q.epoch].chip = q.chip
      BY <1>3, <1>4, <1>7, <3>1 DEF k
    <3>4. PICK x \in DOMAIN epoch[q.epoch].ops : epoch[q.epoch].ops[x][1] = o
      BY <3>1 DEF EpochOps
    <3>5. \E y \in DOMAIN epoch'[q.epoch].ops : epoch'[q.epoch].ops[y][1] = o
      <4>1. CASE q.epoch = k
        BY <1>12, <1>13, <3>4, <4>1 DEF ops
      <4>2. CASE q.epoch # k
        BY <1>3, <1>7, <3>1, <3>4, <4>2 DEF k
      <4> QED
        BY <4>1, <4>2
    <3> HIDE DEF q
    <3>6. NameSound(o)'
      BY <1>9, <3>1, <3>3, <3>5 DEF NameSound, EpochOps, n
    <3>7. o \in Range(placed_ops') <=> n'[o].epoch >= Base
      BY <1>10, <2>1, <2>2, <3>1, <3>2 DEF q
    <3> QED
      BY <3>6, <3>7
  <2>3. CASE o \in Range(names)
    <3>1. PICK i \in DOMAIN names : names[i] = o
      BY <2>3 DEF Range
    <3>2. n'[o] = p[i] /\ p[i].chip = current_chip_id /\ p[i].epoch = k
      BY <1>7, <1>8, <3>1 DEF n
    <3>3. \E y \in DOMAIN epoch'[k].ops : epoch'[k].ops[y][1] = o
      BY <1>6, <1>12, <1>13, <3>1
    <3>4. epoch'[k].chip = current_chip_id
      BY <1>3, <1>7 DEF k
    <3>5. k >= Base
      BY <1>3 DEF k
    <3>6. NameSound(o)'
      BY <1>4, <1>9, <3>2, <3>3, <3>4 DEF NameSound, EpochOps, n, k
    <3> QED
      BY <2>1, <2>3, <3>2, <3>5, <3>6
  <2> QED
    BY <1>7, <2>2, <2>3
<1>23. Agree'
  BY <1>9, <1>21, <1>22 DEF Agree, n
<1>24. OpenAgree'
  BY <1>7, <1>9, <1>20, <1>22 DEF OpenAgree, n, k
<1> QED
  BY <1>23, <1>24

\* An epoch that was opened is empty, on the grid of its chip.
LEMMA OpenedEmpty ==
  ASSUME config \in Configs, config' = config, NEW e, NEW k, NEW rem, NEW t, NEW s, NEW req,
         Opened(e, k, rem, t, s, req)
  PROVE  /\ epoch'[k].ops = <<>> /\ epoch'[k].grid.used = {} /\ epoch'[k].chip = current_chip_id'
         /\ epoch'[k].grid.rows = GridOf(current_chip_id').rows
         /\ epoch'[k].grid.cols = GridOf(current_chip_id').cols
<1>1. epoch'[k].ops = <<>> /\ epoch'[k].grid = GridOf(current_chip_id)' /\ epoch'[k].chip = current_chip_id'
  BY DEF Opened
<1> DEFINE c == current_chip_id'
<1>2. GridOf(current_chip_id)' = GridOf(c)
  BY DEF GridOf, IsMmio
<1> HIDE DEF c
<1>3. GridOf(c).used = {}
  BY GridTypes
<1> QED
  BY <1>1, <1>2, <1>3 DEF c

\* What the records that agree say of the epoch of a placement.
LEMMA NamesEpoch ==
  ASSUME Agree, valid = "open", NEW o \in DOMAIN name_to_op_placement
  PROVE  /\ name_to_op_placement[o].epoch \in 0 .. current_epoch_index
         /\ epoch[name_to_op_placement[o].epoch].chip = name_to_op_placement[o].chip
BY DEF Agree, NameSound, Epochs

\* An op that an epoch lists names that epoch.
LEMMA EpochNames ==
  ASSUME Agree, valid = "open", NEW i \in 0 .. current_epoch_index, NEW j \in DOMAIN epoch[i].ops
  PROVE  /\ epoch[i].ops[j][1] \in DOMAIN name_to_op_placement
         /\ name_to_op_placement[epoch[i].ops[j][1]].epoch = i
<1>1. EpochSound(i)
  BY DEF Agree, Epochs
<1> QED
  BY <1>1 DEF EpochSound, Listed

\* The records agree after the move to another chip.
LEMMA NextChipAgree ==
  ASSUME EpochsInv, OneRequested, Agree, OpenAgree, valid = "open", call # NoCall, NEW r, NextChip(r)
  PROVE  Agree' /\ OpenAgree'
<1> DEFINE k == current_epoch_index
           n == Backs
           k2 == k + 1 - n
           N == name_to_op_placement
<1>1. /\ n \in {0, 1} /\ (n = 1 => placed_ops = <<>>)
      /\ Opened(epoch, k2, NextPool, current_temporal_epoch_id, current_spatial_epoch_id + 1 - n, Req)
      /\ Base' = Base /\ current_epoch_index' = k2 /\ StaysOpen
  BY NextChipOpens DEF NextOpens
<1>2. UNCHANGED <<config, valid, sorted_chip_ids, placed_ops, name_to_op_placement,
                  num_epochs, call, replay, assign>>
  BY DEF NextChip
<1>3. /\ config \in Configs /\ k \in Nat /\ Base \in 0 .. k /\ 0 .. k \subseteq DOMAIN epoch
      /\ current_spatial_epoch_id \in Nat
  BY OpenFacts DEF EpochsInv, TypeInv
<1>4. epoch'[k2].ops = <<>> /\ epoch'[k2].grid.used = {}
  <2> DEFINE t == current_temporal_epoch_id
             s == current_spatial_epoch_id + 1 - n
  <2>1. Opened(epoch, k2, NextPool, t, s, Req)
    BY <1>1
  <2> HIDE DEF k2, t, s
  <2> QED
    BY <1>2, <1>3, <2>1, OpenedEmpty
<1>5. \A i \in DOMAIN epoch : i # k2 => epoch'[i] = epoch[i]
  BY <1>1 DEF Opened
<1> HIDE DEF n, k, N
<1>6. k2 \in Nat /\ k2 - 1 <= k /\ (n = 0 => k2 - 1 = k) /\ (n = 1 => k2 = k)
  BY <1>1, <1>3
<1> HIDE DEF k2
<1>7. \A i \in 0 .. k2 - 1 : i <= k /\ epoch'[i] = epoch[i]
  <2>1. \A i \in 0 .. k2 - 1 : i \in 0 .. k /\ i # k2
    BY <1>3, <1>6
  <2> QED
    BY <1>3, <1>5, <2>1
<1>8. \A o \in DOMAIN N : N[o].epoch \in 0 .. k2 - 1
  <2> SUFFICES ASSUME NEW o \in DOMAIN N PROVE N[o].epoch \in 0 .. k2 - 1
    OBVIOUS
  <2>1. N[o].epoch \in 0 .. k
    BY NamesEpoch DEF N, k
  <2>2. n = 1 => ~(N[o].epoch >= Base)
    BY <1>1 DEF OpenAgree, N, Range
  <2> QED
    BY <1>1, <1>3, <1>6, <2>1, <2>2
<1>9. Agree' /\ epoch'[k2].grid.used = Used(epoch'[k2])
  <2>1. \A i \in 0 .. k2 - 1 : i <= k => \A j \in DOMAIN epoch[i].ops : epoch[i].ops[j][1] \in DOMAIN N
    <3>1. \A i \in 0 .. k2 - 1 : i \in 0 .. k
      BY <1>3, <1>6
    <3> QED
      BY <3>1, EpochNames DEF N, k
  <2>2. valid' = "open" /\ N' = N /\ current_epoch_index' = k2
    BY <1>1, <1>2 DEF N, StaysOpen, k2
  <2> QED
    BY <1>3, <1>4, <1>6, <1>7, <1>8, <2>1, <2>2, OpenedAgree DEF N, k
<1>10. OpenAgree'
  <2>1. /\ N' = N /\ placed_ops' = placed_ops /\ Base' = Base /\ current_epoch_index' = k2
    BY <1>1, <1>2 DEF N, k2
  <2> QED
    BY <1>9, <2>1 DEF OpenAgree, N
<1> QED
  BY <1>9, <1>10

\* The records agree after a new temporal epoch.
LEMMA NextEpochAgree ==
  ASSUME EpochsInv, Agree, OpenAgree, next_epoch
  PROVE  Agree' /\ OpenAgree'
<1> DEFINE k == current_epoch_index
           e2 == NextTemporal.epoch
           k2 == Base + Len(sorted_chip_ids)
           t == current_temporal_epoch_id
           N == name_to_op_placement
           pool == Pool(t + 1)
<1>1. /\ StaysOpen /\ Base' = k2 /\ current_epoch_index' = k2 /\ k2 \in Nat
      /\ Opened(e2, k2, pool, t + 1, 0, <<>>)
      /\ FilledEpochs(e2, epoch, Base, k, t, sorted_chip_ids)
  BY NextEpochOpens
<1>2. /\ UNCHANGED <<config, valid, name_to_op_placement>> /\ placed_ops' = <<>> /\ valid = "open"
  BY DEF next_epoch, Idle
<1>3. /\ config \in Configs /\ k \in Nat /\ 0 .. k \subseteq DOMAIN epoch
      /\ Base \in Nat /\ (k + 1) - Base + Len(remaining_chip_ids) = Len(sorted_chip_ids)
      /\ Len(remaining_chip_ids) \in Nat /\ Len(sorted_chip_ids) \in Nat
  BY <1>2, OpenFacts DEF EpochsInv, TypeInv
<1>4. epoch'[k2].ops = <<>> /\ epoch'[k2].grid.used = {}
  <2> DEFINE u == t + 1
             z == 0
             req == <<>>
  <2>1. Opened(e2, k2, pool, u, z, req)
    BY <1>1
  <2> HIDE DEF e2, k2, pool, u, z, req
  <2> QED
    BY <1>2, <1>3, <2>1, OpenedEmpty
<1>5. /\ DOMAIN e2 = 0 .. k2 - 1
      /\ \A i \in 0 .. k : e2[i] = epoch[i]
      /\ \A i \in DOMAIN e2 : i > k => e2[i].ops = <<>>
  <2>1. DOMAIN e2 = 0 .. k2 - 1
    BY <1>1, <1>3 DEF FilledEpochs
  <2>2. /\ \A i \in 0 .. k : e2[i] = epoch[i]
        /\ \A i \in DOMAIN e2 : i > k => e2[i].ops = <<>>
    BY <1>1 DEF FilledEpochs
  <2> QED
    BY <2>1, <2>2
<1>6. \A i \in DOMAIN e2 : i # k2 => epoch'[i] = e2[i]
  BY <1>1 DEF Opened
<1>7. k < k2
  BY <1>3
<1> HIDE DEF e2, k2, N, k
<1>8. \A i \in 0 .. k2 - 1 : epoch'[i] = e2[i]
  <2>1. \A i \in 0 .. k2 - 1 : i # k2
    BY <1>1
  <2> QED
    BY <1>5, <1>6, <2>1
<1>9. \A i \in 0 .. k2 - 1 : (i <= k /\ epoch'[i] = epoch[i]) \/ epoch'[i].ops = <<>>
  <2>1. \A i \in 0 .. k2 - 1 : i \in 0 .. k \/ i > k
    BY <1>1, <1>3
  <2>2. \A i \in 0 .. k : i <= k
    OBVIOUS
  <2> QED
    BY <1>5, <1>8, <2>1, <2>2
<1>10. ASSUME NEW o \in DOMAIN N
       PROVE  N[o].epoch \in 0 .. k2 - 1 /\ epoch'[N[o].epoch] = epoch[N[o].epoch] /\ ~(N[o].epoch >= k2)
  <2>1. N[o].epoch \in 0 .. k
    BY <1>2, NamesEpoch DEF N, k
  <2>2. N[o].epoch \in 0 .. k2 - 1 /\ ~(N[o].epoch >= k2)
    BY <1>1, <1>3, <1>7, <2>1
  <2> QED
    BY <1>5, <1>8, <2>1, <2>2
<1>11. Agree' /\ epoch'[k2].grid.used = Used(epoch'[k2])
  <2>1. \A i \in 0 .. k2 - 1 : i <= k => \A j \in DOMAIN epoch[i].ops : epoch[i].ops[j][1] \in DOMAIN N
    <3>1. \A i \in 0 .. k2 - 1 : i <= k => i \in 0 .. k
      BY <1>3
    <3> QED
      BY <1>2, <3>1, EpochNames DEF N, k
  <2>2. valid' = "open" /\ N' = N /\ current_epoch_index' = k2 /\ k2 \in Nat
    BY <1>1, <1>2 DEF N, StaysOpen, k2
  <2> QED
    BY <1>2, <1>3, <1>4, <1>9, <1>10, <2>1, <2>2, OpenedAgree DEF N, k
<1>12. OpenAgree'
  <2>1. N' = N /\ placed_ops' = <<>> /\ Base' = k2 /\ current_epoch_index' = k2
    BY <1>1, <1>2 DEF N, k2
  <2>2. Range(placed_ops') = {}
    BY <2>1 DEF Range
  <2> QED
    BY <1>10, <1>11, <2>1, <2>2 DEF OpenAgree, N
<1> QED
  BY <1>11, <1>12

\* The records agree after a temporal epoch was taken back.
LEMMA RewindAgree ==
  ASSUME EpochsInv, Agree, OpenAgree, valid = "open", placed_ops # <<>>, Rewind
  PROVE  Agree' /\ OpenAgree'
<1> DEFINE k == current_epoch_index
           k2 == Base
           N == name_to_op_placement
           t == current_temporal_epoch_id
           pool == Pool(t)
<1>1. /\ StaysOpen /\ Base' = k2 /\ current_epoch_index' = k2
      /\ Opened(epoch, k2, pool, t, 0, <<>>)
      /\ DOMAIN N' = DOMAIN N \ Range(placed_ops)
      /\ \A o \in DOMAIN N' : N'[o] = N[o]
      /\ placed_ops' = <<>> /\ UNCHANGED <<config, valid>>
  BY RewindEpochs
<1>2. /\ config \in Configs /\ k \in Nat /\ k2 \in 0 .. k /\ 0 .. k \subseteq DOMAIN epoch
  BY OpenFacts DEF EpochsInv, TypeInv
<1>3. epoch'[k2].ops = <<>> /\ epoch'[k2].grid.used = {}
  <2> DEFINE z == 0
             req == <<>>
  <2>1. Opened(epoch, k2, pool, t, z, req)
    BY <1>1
  <2> HIDE DEF k2, pool, t, z, req
  <2> QED
    BY <1>1, <1>2, <2>1, OpenedEmpty
<1>4. \A i \in DOMAIN epoch : i # k2 => epoch'[i] = epoch[i]
  BY <1>1 DEF Opened
<1> HIDE DEF k2, N, k
<1>5. \A i \in 0 .. k2 - 1 : i <= k /\ epoch'[i] = epoch[i] /\ i \in 0 .. k /\ ~(i >= k2)
  <2>1. \A i \in 0 .. k2 - 1 : i \in 0 .. k /\ i # k2 /\ ~(i >= k2) /\ i <= k
    BY <1>2
  <2> QED
    BY <1>2, <1>4, <2>1
<1>6. \A o \in DOMAIN N : o \in Range(placed_ops) <=> N[o].epoch >= k2
  BY DEF OpenAgree, N, k2
<1>7. ASSUME NEW o \in DOMAIN N'
      PROVE  /\ o \in DOMAIN N /\ N'[o] = N[o] /\ N[o].epoch \in 0 .. k2 - 1
             /\ epoch'[N[o].epoch] = epoch[N[o].epoch] /\ ~(N[o].epoch >= k2)
  <2>1. o \in DOMAIN N /\ N'[o] = N[o] /\ ~(N[o].epoch >= k2)
    BY <1>1, <1>6
  <2>2. N[o].epoch \in 0 .. k
    BY <2>1, NamesEpoch DEF N, k
  <2>3. N[o].epoch \in 0 .. k2 - 1
    BY <1>2, <2>1, <2>2
  <2> QED
    BY <1>5, <2>1, <2>3
<1>8. Agree' /\ epoch'[k2].grid.used = Used(epoch'[k2])
  <2>1. \A i \in 0 .. k2 - 1 : i <= k => \A j \in DOMAIN epoch[i].ops : epoch[i].ops[j][1] \in DOMAIN N'
    <3> SUFFICES ASSUME NEW i \in 0 .. k2 - 1, NEW j \in DOMAIN epoch[i].ops
                 PROVE  epoch[i].ops[j][1] \in DOMAIN N'
      OBVIOUS
    <3>1. i \in 0 .. k /\ ~(i >= k2)
      BY <1>5
    <3>2. epoch[i].ops[j][1] \in DOMAIN N /\ N[epoch[i].ops[j][1]].epoch = i
      BY <3>1, EpochNames DEF N, k
    <3> QED
      BY <1>1, <1>6, <3>1, <3>2
  <2>2. valid' = "open" /\ current_epoch_index' = k2 /\ k2 \in Nat
    BY <1>1, <1>2 DEF StaysOpen, k2
  <2> QED
    BY <1>2, <1>3, <1>5, <1>7, <2>1, <2>2, OpenedAgree DEF N, k
<1>9. OpenAgree'
  <2>1. placed_ops' = <<>> /\ Base' = k2 /\ current_epoch_index' = k2
    BY <1>1 DEF k2
  <2>2. Range(placed_ops') = {}
    BY <2>1 DEF Range
  <2> QED
    BY <1>7, <1>8, <2>1, <2>2 DEF OpenAgree, N
<1> QED
  BY <1>8, <1>9

\* A commit adds epochs without ops.
LEMMA CommitAgree ==
  ASSUME EpochsInv, AllPlaced, Agree, commit
  PROVE  Agree' /\ OpenAgree'
<1> DEFINE k == current_epoch_index
           t == current_temporal_epoch_id
           S == sorted_chip_ids
           e2 == Completed.epoch
           J == Base + Len(S)
           N == name_to_op_placement
<1>1. TypeInv /\ OpenEpochs
  BY DEF EpochsInv
<1>2. valid = "open"
  BY DEF commit, Idle
<1>3. CommitIndex = k + 1
  BY <1>2, CommitCounts
<1>4. insert_empty_graphs(Position(CommitIndex, remaining_chip_ids),
                          current_spatial_epoch_id + 1, t) = Completed
  BY <1>3 DEF Completed, Position, At
<1>5. epoch' = e2 /\ valid' = "committed" /\ N' = N
  BY <1>4 DEF commit
<1>6. FilledEpochs(e2, epoch, Base, k, t, S)
  BY <1>1, <1>2, FilledUp
<1>7. /\ k \in Nat /\ Base \in 0 .. k /\ Len(S) \in Nat
      /\ (k + 1) - Base + Len(remaining_chip_ids) = Len(S) /\ Len(remaining_chip_ids) \in Nat
  BY <1>1, <1>2, OpenFacts
<1> HIDE DEF e2
<1>8. /\ DOMAIN e2 = 0 .. J - 1 /\ \A i \in 0 .. k : e2[i] = epoch[i]
      /\ \A i \in DOMAIN e2 : i > k => e2[i].ops = <<>>
  <2>1. DOMAIN e2 = 0 .. J - 1
    BY <1>6, <1>7 DEF FilledEpochs
  <2>2. /\ \A i \in 0 .. k : e2[i] = epoch[i]
        /\ \A i \in DOMAIN e2 : i > k => e2[i].ops = <<>>
    BY <1>6 DEF FilledEpochs
  <2> QED
    BY <2>1, <2>2
<1>9. k < J /\ J \in Nat
  BY <1>7
<1> HIDE DEF J, k, N
<1>10. Epochs' = 0 .. J - 1 /\ Epochs = 0 .. k
  BY <1>2, <1>5, <1>8 DEF Epochs, k
<1>11. (\A o \in DOMAIN N : NameSound(o)) /\ \A i \in 0 .. k : EpochSound(i)
  BY <1>2, <1>10 DEF Agree, N
<1>12. ASSUME NEW i \in 0 .. J - 1 PROVE EpochSound(i)'
  <2>1. CASE i > k
    BY <1>5, <1>8, <1>12, <2>1, EmptySound
  <2>2. CASE ~(i > k)
    <3>1. i \in 0 .. k
      BY <1>7, <1>12, <2>2
    <3>2. EpochSound(i) /\ epoch'[i] = epoch[i]
      BY <1>5, <1>8, <1>11, <3>1
    <3>3. \A x \in DOMAIN epoch[i].ops : epoch[i].ops[x][1] \in DOMAIN N
      BY <3>2 DEF EpochSound, Listed, N
    <3> QED
      BY <1>5, <3>2, <3>3, SoundStays DEF N
  <2> QED
    BY <2>1, <2>2
<1>13. ASSUME NEW o \in DOMAIN N' PROVE NameSound(o)'
  <2> DEFINE p == N[o]
  <2>1. p.epoch \in 0 .. k /\ epoch[p.epoch].chip = p.chip /\ o \in EpochOps(p.epoch) /\ N'[o] = p
    BY <1>5, <1>10, <1>11, <1>13 DEF NameSound, N
  <2>2. epoch'[p.epoch] = epoch[p.epoch]
    BY <1>5, <1>8, <2>1
  <2>3. p.epoch \in 0 .. J - 1
    BY <1>7, <1>9, <2>1
  <2>4. \E j \in DOMAIN epoch'[p.epoch].ops : epoch'[p.epoch].ops[j][1] = o
    BY <2>1, <2>2 DEF EpochOps
  <2> HIDE DEF p
  <2> QED
    BY <1>10, <2>1, <2>2, <2>3, <2>4 DEF NameSound, EpochOps, N
<1> QED
  BY <1>5, <1>10, <1>12, <1>13 DEF Agree, OpenAgree, N

\* A pipelined commit, and the end of its chip assignment, change no record.
LEMMA SameAgree ==
  ASSUME Agree, valid # "aborted", valid' \in {"assigning", "committed"}, Epochs' = Epochs,
         epoch' = epoch, name_to_op_placement' = name_to_op_placement
  PROVE  Agree' /\ OpenAgree'
<1>1. (\A o \in DOMAIN name_to_op_placement : NameSound(o)) /\ \A i \in Epochs : EpochSound(i)
  BY DEF Agree
<1>2. ASSUME NEW o \in DOMAIN name_to_op_placement PROVE NameSound(o)'
  BY <1>1 DEF NameSound, EpochOps
<1>3. ASSUME NEW i \in Epochs PROVE EpochSound(i)'
  BY <1>1 DEF EpochSound, Listed, Apart
<1> QED
  BY <1>2, <1>3 DEF Agree, OpenAgree

\* A pipelined commit changes no record.
LEMMA CommitPipelinedAgree ==
  ASSUME EpochsInv, Agree, commit_pipelined, EpochsInv', AllPlaced
  PROVE  Agree' /\ OpenAgree'
<1>1. valid = "open" /\ valid' = "assigning" /\ UNCHANGED <<epoch, name_to_op_placement, config>>
      /\ config.pipelined /\ current_epoch_index' = CommitIndex
  BY DEF commit_pipelined, Idle
<1>2. CommitIndex = current_epoch_index + 1
  BY <1>1, CommitCounts
<1>3. DOMAIN epoch' = 0 .. current_epoch_index' - 1
  BY <1>1 DEF EpochsInv, Assigned
<1>4. current_epoch_index \in Nat
  BY DEF EpochsInv, TypeInv, EpochTypes
<1>5. Epochs' = Epochs
  BY <1>1, <1>2, <1>3, <1>4 DEF Epochs
<1> QED
  BY <1>1, <1>5, SameAgree

\* The end of the assignment changes no record.
LEMMA AssignEndsAgree ==
  ASSUME Agree, AssignEnds
  PROVE  Agree' /\ OpenAgree'
<1>1. valid = "assigning" /\ valid' = "committed" /\ epoch' = epoch
      /\ name_to_op_placement' = name_to_op_placement
  BY DEF AssignEnds, placing
<1>2. Epochs' = Epochs
  BY <1>1 DEF Epochs
<1> QED
  BY <1>1, <1>2, SameAgree

\* The chip of an epoch changes in all records at once.
LEMMA AssignChipAgree ==
  ASSUME EpochsInv, Agree, AssignChip
  PROVE  Agree' /\ OpenAgree'
<1> DEFINE e == assign.epoch
           b == current_epoch_index
           n == Len(sorted_chip_ids)
           N == name_to_op_placement
           e2 == AssignedTo.epoch
           fits == \A o \in EpochOps(e) :
                     can_place_op_onto_chip(o, current_chip_id, o \in config.chip_breaks, Override(o))
<1>1. TypeInv /\ Assigned /\ NameTypes
  BY DEF EpochsInv, TypeInv
<1>2. valid = "assigning" /\ e < num_epochs /\ valid' = "assigning"
  BY DEF AssignChip
<1>3. IF fits THEN /\ epoch' = AssignedTo.epoch
                   /\ N' = [o \in DOMAIN N |-> IF o \in EpochOps(e) THEN OnChip(N[o]) ELSE N[o]]
      ELSE UNCHANGED <<epoch, name_to_op_placement>>
  BY DEF AssignChip, AssignedTo, Mine, Others, OnChip, At
<1> HIDE DEF fits
<1>4. CASE ~fits
  <2>1. epoch' = epoch /\ N' = N
    BY <1>3, <1>4
  <2>2. Epochs' = Epochs
    BY <1>2, <2>1 DEF Epochs
  <2> QED
    BY <1>2, <2>1, <2>2, SameAgree
<1>5. CASE fits
  <2>1. /\ epoch' = e2 /\ DOMAIN N' = DOMAIN N
        /\ \A o \in DOMAIN N : N'[o] = IF o \in EpochOps(e) THEN OnChip(N[o]) ELSE N[o]
    BY <1>3, <1>5
  <2>2. /\ DOMAIN e2 = 0 .. b + n - 2
        /\ \A i \in 0 .. b - 1 : e2[i] = Mine[i]
        /\ \A i \in b .. b + n - 2 : e2[i].ops = <<>>
    BY <1>1, <1>2, AssignedToFacts
  <2>3. /\ e \in DOMAIN epoch
        /\ \A i \in DOMAIN epoch : i # e => Mine[i] = epoch[i]
        /\ Mine[e].chip = current_chip_id /\ Mine[e].grid = epoch[e].grid
        /\ DOMAIN Mine[e].ops = DOMAIN epoch[e].ops
        /\ \A k \in DOMAIN epoch[e].ops :
              Mine[e].ops[k] = <<epoch[e].ops[k][1], OnChip(epoch[e].ops[k][2])>>
    BY <1>1, <1>2, MineFacts
  <2>4. /\ DOMAIN epoch = 0 .. b - 1 /\ b \in Nat /\ n \in Nat /\ n # 0
    <3>1. sorted_chip_ids # <<>> /\ sorted_chip_ids \in Seq(Nat)
      BY <1>1, <1>2, AssignFacts
    <3> QED
      BY <1>1, <1>2, <3>1, AssignFacts
  <2> HIDE DEF e2, e, b, n, N
  <2>5. Epochs = 0 .. b - 1 /\ Epochs' = 0 .. b + n - 2
    BY <1>2, <2>1, <2>2, <2>4 DEF Epochs
  <2>6. /\ \A o \in DOMAIN N : NameSound(o)
        /\ \A i \in 0 .. b - 1 : EpochSound(i)
        /\ \A o \in DOMAIN N : \A i \in 0 .. b - 1 : o \in EpochOps(i) <=> N[o].epoch = i
    BY <1>2, <2>5, OpsOf DEF Agree, N
  <2>7. /\ \A i \in 0 .. b - 1 : i # e => epoch'[i] = epoch[i]
        /\ epoch'[e].chip = current_chip_id /\ epoch'[e].grid = epoch[e].grid
        /\ DOMAIN epoch'[e].ops = DOMAIN epoch[e].ops
        /\ \A k \in DOMAIN epoch[e].ops :
              epoch'[e].ops[k] = <<epoch[e].ops[k][1], OnChip(epoch[e].ops[k][2])>>
    BY <2>1, <2>2, <2>3, <2>4
  <2>8. \A o \in DOMAIN N : /\ N[o] \in Places /\ OnChip(N[o]).epoch = N[o].epoch
                            /\ OnChip(N[o]).start = N[o].start /\ OnChip(N[o]).shape = N[o].shape
                            /\ OnChip(N[o]).chip = current_chip_id
    BY <1>1 DEF NameTypes, Places, OnChip, N
  <2>9. ASSUME NEW i, i = e PROVE EpochSound(i)'
    <3>1. /\ \A k \in DOMAIN epoch[e].ops :
                /\ epoch[e].ops[k][1] \in DOMAIN N
                /\ epoch[e].ops[k][2] = N[epoch[e].ops[k][1]]
                /\ epoch[e].ops[k][2].epoch = e
                /\ InGrid(epoch[e].grid, epoch[e].ops[k][2].start, epoch[e].ops[k][2].shape)
          /\ Apart(e) /\ (epoch[e].ops # <<>> => epoch[e].grid.used = Used(epoch[e]))
      BY <2>3, <2>4, <2>6 DEF EpochSound, Listed, N
    <3>2. \A k \in DOMAIN epoch'[e].ops :
            /\ epoch'[e].ops[k][1] = epoch[e].ops[k][1]
            /\ epoch'[e].ops[k][2] = OnChip(N[epoch[e].ops[k][1]])
            /\ epoch'[e].ops[k][2].start = epoch[e].ops[k][2].start
            /\ epoch'[e].ops[k][2].shape = epoch[e].ops[k][2].shape
            /\ epoch'[e].ops[k][2].epoch = e
      BY <2>7, <2>8, <3>1
    <3>3. \A k \in DOMAIN epoch'[e].ops : CoresOf(epoch'[e], k) = CoresOf(epoch[e], k)
      BY <3>2 DEF CoresOf
    <3>4. \A k \in DOMAIN epoch[e].ops : epoch[e].ops[k][1] \in EpochOps(e)
      BY DEF EpochOps
    <3>5. \A k \in DOMAIN epoch'[e].ops :
            /\ epoch'[e].ops[k][1] \in DOMAIN N'
            /\ epoch'[e].ops[k][2] = N'[epoch'[e].ops[k][1]]
            /\ epoch'[e].ops[k][2].epoch = e
            /\ InGrid(epoch'[e].grid, epoch'[e].ops[k][2].start, epoch'[e].ops[k][2].shape)
      BY <2>1, <2>7, <3>1, <3>2, <3>4
    <3>6. \A k, l \in DOMAIN epoch'[e].ops : k # l => CoresOf(epoch'[e], k) \cap CoresOf(epoch'[e], l) = {}
      BY <2>7, <3>1, <3>3 DEF Apart
    <3>7. Used(epoch'[e]) = Used(epoch[e])
      BY <2>7, <3>3 DEF Used
    <3>8. epoch'[e].ops # <<>> => epoch'[e].grid.used = Used(epoch'[e])
      <4>1. epoch[e].ops = <<>> => Used(epoch[e]) = {} /\ DOMAIN epoch'[e].ops = {}
        BY <2>7 DEF Used
      <4>2. CASE epoch[e].ops # <<>>
        BY <2>7, <3>1, <3>7, <4>2
      <4>3. CASE epoch[e].ops = <<>>
        <5>1. epoch'[e] \in EpochRecords
          <6>1. Mine[e] \in EpochRecords /\ e \in 0 .. b - 1
            BY <1>1, <1>2, <2>3, <2>4, MineFacts DEF e
          <6> QED
            BY <2>1, <2>2, <6>1
        <5>2. epoch'[e].ops \in Seq(Op \X Places) /\ DOMAIN epoch'[e].ops = {}
          BY <4>1, <4>3, <5>1 DEF EpochRecords
        <5>3. \A s \in Seq(Op \X Places) : DOMAIN s = {} => s = <<>>
          OBVIOUS
        <5> QED
          BY <5>2, <5>3
      <4> QED
        BY <4>2, <4>3
    <3>9. /\ \A k \in DOMAIN epoch'[i].ops :
                /\ epoch'[i].ops[k][1] \in DOMAIN N'
                /\ epoch'[i].ops[k][2] = N'[epoch'[i].ops[k][1]]
                /\ epoch'[i].ops[k][2].epoch = i
                /\ InGrid(epoch'[i].grid, epoch'[i].ops[k][2].start, epoch'[i].ops[k][2].shape)
          /\ \A k, l \in DOMAIN epoch'[i].ops : k # l => CoresOf(epoch'[i], k) \cap CoresOf(epoch'[i], l) = {}
          /\ epoch'[i].ops # <<>> => epoch'[i].grid.used = Used(epoch'[i])
      BY <2>9, <3>5, <3>6, <3>8
    <3>10. Listed(i)' /\ Apart(i)'
      BY <3>9 DEF Listed, Apart, N
    <3> QED
      BY <3>9, <3>10 DEF EpochSound
  <2>10. ASSUME NEW i \in 0 .. b - 1, i # e PROVE EpochSound(i)'
    <3>1. EpochSound(i) /\ epoch'[i] = epoch[i]
      BY <2>6, <2>7, <2>10
    <3>2. ASSUME NEW x \in DOMAIN epoch[i].ops
          PROVE  epoch[i].ops[x][1] \in DOMAIN N /\ N'[epoch[i].ops[x][1]] = N[epoch[i].ops[x][1]]
      <4>1. epoch[i].ops[x][1] \in DOMAIN N /\ N[epoch[i].ops[x][1]].epoch = i
        BY <3>1 DEF EpochSound, Listed, N
      <4>2. epoch[i].ops[x][1] \notin EpochOps(e)
        BY <2>3, <2>4, <2>6, <2>10, <4>1
      <4> QED
        BY <2>1, <4>1, <4>2
    <3> QED
      BY <2>1, <3>1, <3>2, SoundStays DEF N
  <2>11. ASSUME NEW i \in 0 .. b + n - 2 PROVE EpochSound(i)'
    <3>1. CASE i \in b .. b + n - 2
      BY <2>1, <2>2, <3>1, EmptySound
    <3>2. CASE ~(i \in b .. b + n - 2)
      <4>1. i \in 0 .. b - 1
        BY <2>4, <2>11, <3>2
      <4>2. CASE i = e
        BY <2>9, <4>2
      <4>3. CASE i # e
        BY <2>10, <4>1, <4>3
      <4> QED
        BY <4>2, <4>3
    <3> QED
      BY <3>1, <3>2
  <2>12. ASSUME NEW o \in DOMAIN N PROVE NameSound(o)'
    <3> DEFINE p == N[o]
               q == N'[o]
               i == N[o].epoch
    <3>1. i \in 0 .. b - 1 /\ epoch[i].chip = p.chip /\ o \in EpochOps(i) /\ (o \in EpochOps(e) <=> i = e)
      BY <2>3, <2>4, <2>5, <2>6 DEF NameSound, N
    <3>2. q = IF i = e THEN OnChip(p) ELSE p
      BY <2>1, <3>1
    <3>3. q.epoch = i /\ q.chip = epoch'[i].chip
      BY <2>7, <2>8, <3>1, <3>2
    <3>4. PICK j \in DOMAIN epoch[i].ops : epoch[i].ops[j][1] = o
      BY <3>1 DEF EpochOps
    <3>5. \E x \in DOMAIN epoch'[i].ops : epoch'[i].ops[x][1] = o
      <4>1. CASE i = e
        BY <2>7, <3>4, <4>1
      <4>2. CASE i # e
        BY <2>7, <3>1, <3>4, <4>2
      <4> QED
        BY <4>1, <4>2
    <3>6. i \in 0 .. b + n - 2
      BY <2>4, <3>1
    <3> HIDE DEF q, i, p
    <3>7. /\ q.epoch \in Epochs' /\ epoch'[q.epoch].chip = q.chip
          /\ \E x \in DOMAIN epoch'[q.epoch].ops : epoch'[q.epoch].ops[x][1] = o
      BY <2>5, <3>3, <3>5, <3>6
    <3> QED
      BY <3>7 DEF NameSound, EpochOps, q, N
  <2> QED
    BY <1>2, <2>1, <2>5, <2>11, <2>12 DEF Agree, OpenAgree, N
<1> QED
  BY <1>4, <1>5

\* The records that agree are what the property says of them.
LEMMA AgreeImplies ==
  ASSUME Agree, valid # "aborted"
  PROVE  PlacementsAgree
<1>1. ASSUME NEW o \in DOMAIN name_to_op_placement
      PROVE  LET p == name_to_op_placement[o]
             IN  {i \in Epochs : o \in EpochOps(i)} = {p.epoch} /\ epoch[p.epoch].chip = p.chip
  <2>1. NameSound(o)
    BY DEF Agree
  <2>2. \A i \in Epochs : o \in EpochOps(i) <=> name_to_op_placement[o].epoch = i
    BY OpsOf
  <2> QED
    BY <2>1, <2>2 DEF NameSound
<1>2. ASSUME NEW i \in Epochs
      PROVE  LET ops == epoch[i].ops
                 cores(k) == Cores(ops[k][2].start, ops[k][2].shape)
             IN  /\ \A k \in DOMAIN ops :
                       /\ ops[k][1] \in DOMAIN name_to_op_placement
                       /\ ops[k][2] = name_to_op_placement[ops[k][1]]
                       /\ InGrid(epoch[i].grid, ops[k][2].start, ops[k][2].shape)
                 /\ \A k, l \in DOMAIN ops : k # l => cores(k) \cap cores(l) = {}
                 /\ ops # <<>> => epoch[i].grid.used = UNION {cores(k) : k \in DOMAIN ops}
  <2>1. Listed(i) /\ Apart(i) /\ (epoch[i].ops # <<>> => epoch[i].grid.used = Used(epoch[i]))
    BY DEF Agree, EpochSound
  <2> QED
    BY <2>1 DEF Listed, Apart, Used, CoresOf
<1> QED
  BY <1>1, <1>2 DEF PlacementsAgree

\* The records agree at first.
LEMMA InitAgree ==
  ASSUME Init
  PROVE  Agree /\ OpenAgree
<1>1. /\ valid = "open" /\ current_epoch_index = 0 /\ name_to_op_placement = <<>>
      /\ epoch = [i \in {0} |-> [chip |-> current_chip_id, temporal |-> 0, spatial |-> 0,
                                 ops |-> <<>>, grid |-> GridOf(current_chip_id)]]
      /\ config \in Configs
  BY DEF Init
<1>2. Epochs = {0}
  BY <1>1 DEF Epochs
<1>3. epoch[0].ops = <<>> /\ epoch[0].grid.used = {}
  BY <1>1, GridTypes
<1>4. DOMAIN name_to_op_placement = {}
  BY <1>1
<1>5. EpochSound(0)
  BY <1>3 DEF EpochSound, Listed, Apart
<1>6. Used(epoch[0]) = {}
  BY <1>3 DEF Used
<1> QED
  BY <1>1, <1>2, <1>3, <1>4, <1>5, <1>6 DEF Agree, OpenAgree

-----------------------------------------------------------------------------
(***************************************************************************)
(* The replay of rewind_to.                                                *)
(***************************************************************************)
\* The conditions of the code, of the configuration.
LEMMA OfConfig ==
  /\ OpenChips = PoolOf(config)
  /\ \A o : IsOutput(o) <=> OnHost(config, o)
  /\ \A chip : GridOf(chip) = EmptyGrid(config, chip)
BY DEF OpenChips, PoolOf, IsOutput, OnHost, GridOf, EmptyGrid, IsMmio

\* When the current chip is the only one; it is in a pipelined placement.
LEMMA OneChipLeft ==
  ASSUME TypeInv, OpenEpochs, valid = "open"
  PROVE  /\ Len(sorted_chip_ids) = 1 <=> PoolOf(config) = {current_chip_id}
         /\ config.pipelined => remaining_chip_ids = <<>>
<1>1. /\ sorted_chip_ids \in Seq(Nat) /\ IsInjective(sorted_chip_ids)
      /\ Range(sorted_chip_ids) = PoolOf(config) /\ current_chip_id \in PoolOf(config)
      /\ remaining_chip_ids \in Seq(Nat) /\ Range(remaining_chip_ids) \subseteq PoolOf(config)
      /\ current_chip_id \notin Range(remaining_chip_ids)
  BY OpenFacts, OfConfig
<1>2. /\ IsFiniteSet(PoolOf(config)) /\ Cardinality(PoolOf(config)) = Len(sorted_chip_ids)
  BY <1>1, LengthOfInjective
<1>3. PoolOf(config) = {current_chip_id} => Len(sorted_chip_ids) = 1
  <2> SUFFICES ASSUME PoolOf(config) = {current_chip_id} PROVE Len(sorted_chip_ids) = 1
    OBVIOUS
  <2>1. Cardinality({current_chip_id}) = 1
    BY FS_Singleton
  <2> QED
    BY <1>2, <2>1
<1>4. Len(sorted_chip_ids) = 1 => PoolOf(config) = {current_chip_id}
  <2> SUFFICES ASSUME Len(sorted_chip_ids) = 1 PROVE PoolOf(config) = {current_chip_id}
    OBVIOUS
  <2>1. \E x : PoolOf(config) = {x}
    BY <1>2, FS_Singleton
  <2> QED
    BY <1>1, <2>1
<1>5. config.pipelined => remaining_chip_ids = <<>>
  <2> SUFFICES ASSUME config.pipelined, remaining_chip_ids # <<>> PROVE FALSE
    OBVIOUS
  <2>1. remaining_chip_ids[1] \in Range(remaining_chip_ids)
    BY <1>1 DEF Range
  <2> QED
    BY <1>1, <2>1 DEF PoolOf
<1> QED
  BY <1>3, <1>4, <1>5

\* A coordinate is not the missing one.
LEMMA CoordIsSome ==
  \A s \in Nat \X Nat : s # NoCoord
<1> SUFFICES ASSUME NEW x \in Nat, NEW y \in Nat PROVE <<x, y>> # NoCoord
  OBVIOUS
<1>1. Len(<<x, y>>) = 2 /\ Len(NoCoord) = 0
  BY DEF NoCoord
<1> QED
  BY <1>1

\* An op that is placed runs where it may.
LEMMA CanPlaceRuns ==
  ASSUME TypeInv, OpenEpochs, valid = "open", NEW o, NEW br, NEW ov,
         can_place_op_onto_chip(o, current_chip_id, br, ov)
  PROVE  /\ MayRun(config, o, current_chip_id)
         /\ ComesFirst(config, o) => ~BreakHere(o)
<1>1. /\ ~(IsOutput(o) /\ ~IsMmio(current_chip_id))
      /\ ~(config.nebula /\ ~IsOutput(o) /\ IsMmio(current_chip_id) /\ Len(sorted_chip_ids) # 1)
      /\ ~(config.nebula /\ config.pipelined /\ IsOutput(o) /\ BreakHere(o))
  BY DEF can_place_op_onto_chip
<1>2. Len(sorted_chip_ids) = 1 => PoolOf(config) = {current_chip_id}
  BY OneChipLeft
<1> QED
  BY <1>1, <1>2, OfConfig DEF MayRun, ComesFirst, IsMmio

\* An op that is placed again, on the current chip, is placed where it was.
LEMMA PlacedWhereItWas ==
  ASSUME EpochsInv, valid = "open", replay # <<>>, TryPlace.res = "placed",
         NEW p, p = replay[1][2]
  PROVE  /\ p.chip = current_chip_id
         /\ TryPlace.start = p.start /\ TryPlace.shape = p.shape
<1>1. /\ replay \in Seq(Op \X Places) /\ call = CallOf(replay[1][1], p)
  BY DEF EpochsInv, TypeInv, CallTypes, ToPlace
<1>2. p \in Places /\ p.chip \in Nat /\ p.start \in Nat \X Nat /\ p.transpose \in BOOLEAN /\ p.shape \in Shapes
  <2>1. replay[1] \in Op \X Places
    BY <1>1
  <2> QED
    BY <2>1 DEF Places
<1>3. /\ call.ops[1] = replay[1][1]
      /\ BlockShape = IF p.transpose THEN Transposed(p.shape) ELSE p.shape
  <2>1. /\ call.ops[1] = replay[1][1] /\ Len(call.shapes) = 1
        /\ call.shapes[1] = IF p.transpose THEN Transposed(p.shape) ELSE p.shape
    BY <1>1 DEF CallOf
  <2>2. call.shapes[1] \in Nat \X Nat
    BY <1>2, <2>1 DEF Shapes, Pos, Transposed
  <2> DEFINE s == call.shapes[1]
  <2>3. BlockShape = <<s[1], s[2] + 0>>
    BY <2>1 DEF BlockShape
  <2>4. BlockShape = s
    <3> HIDE DEF s
    <3>1. s \in Nat \X Nat
      BY <2>2 DEF s
    <3> QED
      BY <2>3, <3>1
  <2> QED
    BY <2>1, <2>4
<1>4. CallOverride = [start |-> p.start, transpose |-> p.transpose, chip |-> p.chip]
  BY DEF CallOverride
<1> DEFINE ov == CallOverride
           o == call.ops[1]
           g == epoch[current_epoch_index].grid
           b == BlockShape
<1>5. /\ can_place_op_onto_chip(o, current_chip_id, call.chip_break, ov)
      /\ TryPlace = place_one_op(o, b, g, ov, call.transpose)
  BY DEF TryPlace, Failed
<1>6. ov.chip = p.chip /\ ov.start = p.start /\ ov.transpose = p.transpose /\ p.start # NoCoord
  BY <1>2, <1>4, CoordIsSome
<1>7. p.chip = current_chip_id
  BY <1>2, <1>5, <1>6 DEF can_place_op_onto_chip, NoChip
<1> HIDE DEF ov, o, g, b
<1>8. TryPlace = get_placed_coordinate(o, b, g, ov, call.transpose, <<>>)
  BY <1>5 DEF place_one_op, Failed
<1>9. TryPlace = PlacedAt(p.start, b, p.transpose)
  BY <1>6, <1>8 DEF get_placed_coordinate, Failed
<1>10. TryPlace.start = p.start /\ TryPlace.shape = IF p.transpose THEN Transposed(b) ELSE b
  BY <1>9 DEF PlacedAt
<1>11. (p.transpose => Transposed(Transposed(p.shape)) = p.shape)
  BY <1>2 DEF Transposed, Shapes
<1> QED
  BY <1>3, <1>7, <1>10, <1>11 DEF b

\* An op that is to be placed again on the current chip has room there.
LEMMA AgainFits ==
  ASSUME EpochsInv, InOrder, Again, valid = "open", replay # <<>>,
         replay[1][2].chip = current_chip_id
  PROVE  TryPlace.res = "placed"
<1> DEFINE p == replay[1][2]
           o == call.ops[1]
           k == current_epoch_index
           g == epoch[k].grid
           ov == CallOverride
           b == BlockShape
<1>1. /\ replay \in Seq(Op \X Places) /\ call = CallOf(replay[1][1], p) /\ TypeInv /\ OpenEpochs
  BY DEF EpochsInv, TypeInv, CallTypes, ToPlace
<1>2. p.chip = current_chip_id /\ p.start \in Nat \X Nat /\ p.transpose \in BOOLEAN /\ p.shape \in Shapes
  <2>1. replay[1] \in Op \X Places
    BY <1>1
  <2> QED
    BY <2>1 DEF Places
<1>3. /\ o = replay[1][1] /\ Len(call.shapes) = 1 /\ call.chip_break = FALSE
      /\ call.shapes[1] = IF p.transpose THEN Transposed(p.shape) ELSE p.shape
  BY <1>1 DEF CallOf
<1>4. b = IF p.transpose THEN Transposed(p.shape) ELSE p.shape
  <2>2. call.shapes[1] \in Nat \X Nat
    BY <1>2, <1>3 DEF Shapes, Pos, Transposed
  <2> DEFINE s == call.shapes[1]
  <2>3. b = <<s[1], s[2] + 0>>
    BY <1>3 DEF BlockShape
  <2>4. b = s
    <3> HIDE DEF s, b
    <3>1. s \in Nat \X Nat
      BY <2>2 DEF s
    <3> QED
      BY <2>3, <3>1
  <2> QED
    BY <1>3, <2>4
<1>5. ov.start = p.start /\ ov.transpose = p.transpose /\ ov.chip = p.chip
  BY DEF CallOverride
<1>6. /\ Cores(p.start, p.shape) \cap g.used = {}
      /\ MayRun(config, o, current_chip_id)
      /\ InGrid(EmptyGrid(config, current_chip_id), p.start, p.shape)
      /\ ComesFirst(config, o) => placed_ops = <<>>
  <2>1. 1 \in DOMAIN replay
    BY <1>1
  <2>2. FitsAgain(replay[1][1], p, p) /\ (ComesFirst(config, replay[1][1]) => placed_ops = <<>>)
    BY <2>1 DEF Again
  <2> QED
    BY <1>2, <1>3, <2>2 DEF FitsAgain, Placeable
<1>7. /\ g.rows = EmptyGrid(config, current_chip_id).rows /\ g.cols = EmptyGrid(config, current_chip_id).cols
      /\ g \in Grids
  <2>1. k \in Nat /\ Base \in 0 .. k /\ epoch[k].chip = current_chip_id /\ 0 .. k \subseteq DOMAIN epoch
        /\ \A i \in DOMAIN epoch : epoch[i] \in EpochRecords
    BY <1>1, OpenFacts
  <2>2. k \in Base .. k /\ k \in DOMAIN epoch
    BY <2>1
  <2> QED
    BY <2>1, <2>2 DEF InOrder, GridsFit, EpochRecords
<1>8. can_place_op_onto_chip(o, current_chip_id, call.chip_break, ov)
  <2>1. PoolOf(config) = {current_chip_id} => Len(sorted_chip_ids) = 1
    BY <1>1, OneChipLeft
  <2>2. /\ ~(IsOutput(o) /\ ~IsMmio(current_chip_id))
        /\ ~(config.nebula /\ ~IsOutput(o) /\ IsMmio(current_chip_id) /\ Len(sorted_chip_ids) # 1)
    BY <1>6, <2>1, OfConfig DEF MayRun, IsMmio
  <2>3. ~(config.nebula /\ config.pipelined /\ IsOutput(o) /\ BreakHere(o))
    BY <1>6, OfConfig DEF ComesFirst, BreakHere
  <2> QED
    BY <1>2, <1>3, <1>5, <2>2, <2>3 DEF can_place_op_onto_chip
<1>9. TryPlace = place_one_op(o, b, g, ov, call.transpose)
  BY <1>8 DEF TryPlace
<1> HIDE DEF o, g, b, ov, k, p
<1>10. InGrid(g, p.start, p.shape)
  BY <1>6, <1>7 DEF InGrid
<1>11. p.shape[1] <= g.rows /\ p.shape[2] <= g.cols /\ (p.transpose => Transposed(Transposed(p.shape)) = p.shape)
  <2>1. /\ p.start[1] \in Nat /\ p.start[2] \in Nat /\ p.shape[1] \in Nat /\ p.shape[2] \in Nat
        /\ g.rows \in Nat /\ g.cols \in Nat
    BY <1>2, <1>7 DEF Shapes, Pos, Grids
  <2>2. p.shape = <<p.shape[1], p.shape[2]>>
    BY <1>2 DEF Shapes
  <2> QED
    BY SMTT(30), <1>10, <2>1, <2>2 DEF InGrid, Transposed
<1>12. ~(ov.transpose /\ ~Transposable(g, b))
  BY <1>4, <1>5, <1>11 DEF Transposable, Transposed
<1>13. (IF ov.transpose THEN Transposed(b) ELSE b) = p.shape
  BY <1>4, <1>5, <1>11
<1>14. ov.start # NoCoord
  BY <1>2, <1>5, CoordIsSome
<1>15. satisfies_constraints(o, ov.start, p.shape, <<>>)
  BY DEF satisfies_constraints
<1>16. can_place_on_device_grid(superposition(g, o, <<>>), ov.start, p.shape)
  <2>1. superposition(g, o, <<>>) = [g EXCEPT !.used = @ \cup UNION {}]
    <3>1. DOMAIN <<>> \ {o} = {}
      OBVIOUS
    <3> DEFINE none == {<<>>[c].used : c \in DOMAIN <<>> \ {o}}
    <3>2. none = {}
      BY <3>1
    <3>3. superposition(g, o, <<>>) = [g EXCEPT !.used = @ \cup UNION none]
      BY DEF superposition
    <3> HIDE DEF none
    <3> QED
      BY <3>2, <3>3
  <2>2. /\ superposition(g, o, <<>>).used = g.used /\ superposition(g, o, <<>>).rows = g.rows
        /\ superposition(g, o, <<>>).cols = g.cols
    BY <1>7, <2>1 DEF Grids
  <2> QED
    BY <1>5, <1>6, <1>10, <2>2 DEF can_place_on_device_grid, InGrid
<1>17. get_placed_coordinate(o, b, g, ov, call.transpose, <<>>) = PlacedAt(ov.start, b, ov.transpose)
  BY <1>12, <1>13, <1>14, <1>15, <1>16 DEF get_placed_coordinate
<1>18. PlacedAt(ov.start, b, ov.transpose).res = "placed"
  BY DEF PlacedAt
<1> QED
  BY <1>9, <1>17, <1>18 DEF place_one_op

\* A step that changes no placement.
LEMMA OrderFrame ==
  ASSUME InOrder, valid = "open", UNCHANGED <<config, valid, placing>>, CallAlike'
  PROVE  InOrder'
<1>1. /\ current_epoch_index' = current_epoch_index /\ config' = config
      /\ current_spatial_epoch_id' = current_spatial_epoch_id /\ visited_ops' = visited_ops
      /\ placed_ops' = placed_ops /\ name_to_op_placement' = name_to_op_placement /\ epoch' = epoch
  BY DEF placing
<1>2. Base' = Base
  BY <1>1 DEF Base
<1>3. GridsFit'
  BY <1>1, <1>2 DEF InOrder, GridsFit
<1>4. OpsInOrder'
  BY <1>1 DEF InOrder, OpsInOrder
<1> QED
  BY <1>1, <1>3, <1>4 DEF InOrder

\* A call of one op, or none.
LEMMA OneAlike ==
  ASSUME NEW n, n \in {0, 1}, DOMAIN call'.ops = 1 .. n
  PROVE  CallAlike'
<1>1. \A k \in DOMAIN call'.ops : k = 1
  OBVIOUS
<1> QED
  BY <1>1 DEF CallAlike

\* The replay places single ops.
LEMMA ReturnAlike ==
  ASSUME NEW left, Return(left)
  PROVE  CallAlike'
<1>1. CASE left = <<>>
  <2>1. call'.ops = <<>>
    BY <1>1 DEF Return, NoCall
  <2>2. DOMAIN call'.ops = 1 .. 0
    BY <2>1
  <2> QED
    BY <2>2, OneAlike
<1>2. CASE left # <<>>
  <2>1. call'.ops = <<left[1][1]>>
    BY <1>2 DEF Return
  <2>2. DOMAIN call'.ops = 1 .. 1
    BY <2>1
  <2> QED
    BY <2>2, OneAlike
<1> QED
  BY <1>1, <1>2

\* A call for one op has nothing to place again.
LEMMA PlaceOpAgain ==
  ASSUME InOrder, NEW op, NEW br, PlaceOp(op, br)
  PROVE  InOrder' /\ Again'
<1>1. /\ valid = "open" /\ replay' = <<>> /\ valid' = valid /\ call'.ops = <<op>>
      /\ UNCHANGED <<config, valid, placing>>
  BY DEF PlaceOp, Idle
<1>2. DOMAIN call'.ops = 1 .. 1
  BY <1>1
<1>3. InOrder'
  BY <1>1, <1>2, OrderFrame, OneAlike
<1> QED
  BY <1>1, <1>3 DEF Again

\* Nor has a call for two, of which the second may run where the first may.
LEMMA PlaceTwoAgain ==
  ASSUME InOrder, PairsAlike, NEW op1 \in Op, NEW op2 \in Op, NEW br, PlaceTwoOpsRowwise(op1, op2, br)
  PROVE  InOrder' /\ Again'
<1>1. /\ valid = "open" /\ replay' = <<>> /\ valid' = valid /\ call'.ops = <<op1, op2>>
      /\ UNCHANGED <<config, valid, placing>> /\ config' = config
      /\ op1 # op2 /\ config.shape[op1][1] = config.shape[op2][1]
      /\ can_fit_on_single_epoch(<<config.shape[op1][1], config.shape[op1][2] + config.shape[op2][2]>>)
  BY DEF PlaceTwoOpsRowwise, Idle
<1>2. Alike(config, op1, op2)
  BY <1>1 DEF PairsAlike
<1>3. \A k \in DOMAIN call'.ops : k # 1 => k = 2
  BY <1>1
<1>4. CallAlike'
  BY <1>1, <1>2, <1>3 DEF CallAlike
<1>5. InOrder'
  BY <1>1, <1>4, OrderFrame
<1> QED
  BY <1>1, <1>5 DEF Again

\* A call that fails is not one of a replay.
LEMMA NotPlacedAgain ==
  ASSUME EpochsInv, Agree, OpenAgree, InOrder, Again, valid = "open", NEW r, r = TryPlace, NotPlaced(r)
  PROVE  Agree' /\ OpenAgree' /\ InOrder' /\ Again'
<1>1. /\ r.res # "placed" /\ remaining_chip_ids = <<>> /\ call' = NoCall /\ replay' = <<>>
      /\ valid' = (IF replay = <<>> THEN "open" ELSE "aborted")
      /\ UNCHANGED <<config, placing>>
  BY DEF NotPlaced
<1>2. replay = <<>>
  <2> SUFFICES ASSUME replay # <<>> PROVE FALSE
    OBVIOUS
  <2>1. replay \in Seq(Op \X Places)
    BY DEF EpochsInv, TypeInv, CallTypes
  <2>2. 1 \in DOMAIN replay
    BY <2>1
  <2>3. replay[1][2].chip \in {current_chip_id} \cup Range(remaining_chip_ids)
    BY <2>2 DEF Again, FitsAgain
  <2>4. Range(remaining_chip_ids) = {}
    BY <1>1 DEF Range
  <2>5. TryPlace.res = "placed"
    BY <2>3, <2>4, AgainFits
  <2> QED
    BY <1>1, <2>5
<1>3. UNCHANGED <<config, valid, placing>> /\ valid' = "open"
  BY <1>1, <1>2
<1>4. Agree' /\ OpenAgree'
  BY <1>3, AgreeFrame
<1>5. DOMAIN call'.ops = 1 .. 0
  BY <1>1 DEF NoCall
<1>6. InOrder'
  BY <1>3, <1>5, OrderFrame, OneAlike
<1> QED
  BY <1>1, <1>3, <1>4, <1>6 DEF Again

\* A replay that moves on does not leave a chip it still needs.
LEMMA NextChipAgain ==
  ASSUME EpochsInv, OneRequested, InOrder, Again, valid = "open", call # NoCall,
         NEW r, r = TryPlace, NextChip(r)
  PROVE  InOrder' /\ Again'
<1> DEFINE k == current_epoch_index
           n == Backs
           k2 == k + 1 - n
           p1 == replay[1][2]
<1>1. /\ n \in {0, 1}
      /\ n = IF placed_ops = <<>> /\ Range(Req) \cap Range(remaining_chip_ids) # {} THEN 1 ELSE 0
      /\ Opened(epoch, k2, NextPool, current_temporal_epoch_id, current_spatial_epoch_id + 1 - n, Req)
      /\ Range(NextPool) = Range(remaining_chip_ids) \cup (IF n = 1 THEN {current_chip_id} ELSE {})
      /\ Base' = Base /\ current_epoch_index' = k2 /\ StaysOpen
  BY NextChipOpens DEF NextOpens
<1>2. /\ r.res # "placed" /\ remaining_chip_ids # <<>>
      /\ UNCHANGED <<config, valid, sorted_chip_ids, placed_ops, name_to_op_placement,
                     num_epochs, call, replay, assign>>
  BY DEF NextChip
<1>3. /\ config \in Configs /\ k \in Nat /\ Base \in 0 .. k /\ 0 .. k \subseteq DOMAIN epoch
      /\ TypeInv /\ OpenEpochs /\ replay \in Seq(Op \X Places)
  BY OpenFacts DEF EpochsInv, TypeInv, CallTypes
<1>4. /\ epoch'[k2].grid.used = {} /\ epoch'[k2].chip = current_chip_id'
      /\ epoch'[k2].grid.rows = GridOf(current_chip_id').rows
      /\ epoch'[k2].grid.cols = GridOf(current_chip_id').cols
  <2> DEFINE t == current_temporal_epoch_id
             s == current_spatial_epoch_id + 1 - n
  <2>1. Opened(epoch, k2, NextPool, t, s, Req)
    BY <1>1
  <2> HIDE DEF k2, t, s
  <2> QED
    BY <1>2, <1>3, <2>1, OpenedEmpty
<1>5. /\ \A i \in DOMAIN epoch : i # k2 => epoch'[i] = epoch[i]
      /\ current_chip_id' \in Range(NextPool)
      /\ Range(remaining_chip_ids') = Range(NextPool) \ {current_chip_id'}
      /\ \A c \in Range(Req) : c \in Range(NextPool) => current_chip_id' = c
  BY <1>1 DEF Opened
<1> HIDE DEF n, k, k2
<1>6. \A i \in Base .. k2 : i = k2 \/ (i \in Base .. k /\ i \in 0 .. k)
  BY <1>1, <1>3 DEF k2
<1>7. /\ GridsFit /\ OpsInOrder /\ CallAlike
  BY DEF InOrder
<1>8. InOrder'
  <2>1. ASSUME NEW i \in Base .. k2
        PROVE  /\ epoch'[i].grid.rows = EmptyGrid(config, epoch'[i].chip).rows
               /\ epoch'[i].grid.cols = EmptyGrid(config, epoch'[i].chip).cols
    <3>1. CASE i = k2
      BY <1>4, <3>1, OfConfig
    <3>2. CASE i # k2
      <4>1. i \in Base .. k /\ epoch'[i] = epoch[i]
        BY <1>3, <1>5, <1>6, <3>2
      <4> QED
        BY <1>7, <4>1 DEF GridsFit, k
    <3> QED
      BY <3>1, <3>2
  <2>2. GridsFit'
    BY <1>1, <1>2, <2>1 DEF GridsFit
  <2>3. OpsInOrder'
    BY <1>2, <1>7 DEF OpsInOrder
  <2>4. CallAlike'
    BY <1>2, <1>7 DEF CallAlike
  <2>5. ~config.pipelined
    BY <1>2, <1>3, OneChipLeft
  <2> QED
    BY <1>2, <2>2, <2>3, <2>4, <2>5 DEF InOrder
<1>9. ASSUME replay # <<>>
      PROVE  /\ p1.chip # current_chip_id /\ p1.chip \in Range(remaining_chip_ids)
             /\ current_chip_id' = p1.chip /\ n = (IF placed_ops = <<>> THEN 1 ELSE 0)
  <2>1. 1 \in DOMAIN replay /\ replay[1] \in Op \X Places
    BY <1>3, <1>9
  <2>2. p1.chip # current_chip_id
    BY <1>2, <1>9, AgainFits
  <2>3. p1.chip \in Range(remaining_chip_ids)
    BY <2>1, <2>2 DEF Again, FitsAgain
  <2>4. CallOverride.chip = p1.chip /\ p1.chip # NoChip
    <3>1. p1.chip \in Nat
      BY <2>1 DEF Places
    <3> QED
      BY <1>9, <3>1 DEF CallOverride, NoChip
  <2>5. Req = <<p1.chip>>
    BY <2>2, <2>4 DEF Req, requested_chip_ids
  <2>6. Range(Req) = {p1.chip}
    BY <2>5 DEF Range
  <2> QED
    BY <1>1, <1>5, <2>2, <2>3, <2>6
<1>10. ASSUME NEW i \in DOMAIN replay
       PROVE  /\ replay[i][2].chip \in {current_chip_id'} \cup Range(remaining_chip_ids')
              /\ replay[1][2].chip = current_chip_id'
              /\ Placeable(config, replay[i][1], replay[i][2])
              /\ ComesFirst(config, replay[i][1]) => i = 1 /\ placed_ops = <<>>
  <2>1. replay # <<>>
    BY <1>3, <1>10
  <2> DEFINE c == replay[i][2].chip
  <2>2. /\ c \in {current_chip_id} \cup Range(remaining_chip_ids)
        /\ placed_ops = <<>> \/ p1.chip = current_chip_id \/ c # current_chip_id
        /\ Placeable(config, replay[i][1], replay[i][2])
        /\ ComesFirst(config, replay[i][1]) => i = 1 /\ placed_ops = <<>>
    BY DEF Again, FitsAgain
  <2> HIDE DEF c
  <2>3. c \in Range(NextPool)
    BY <1>1, <1>9, <2>1, <2>2
  <2> QED
    BY <1>5, <1>9, <2>1, <2>2, <2>3 DEF c
<1>11. Again'
  <2>1. /\ valid' # "aborted" /\ replay' = replay /\ placed_ops' = placed_ops /\ config' = config
        /\ current_epoch_index' = k2
    BY <1>1, <1>2 DEF StaysOpen, k2
  <2>2. \A i, l \in DOMAIN replay : i < l => PairAgain(replay[i][2], replay[l][2])
    BY DEF Again
  <2>3. \A i \in DOMAIN replay : FitsAgain(replay[i][1], replay[i][2], replay[1][2])'
    BY <1>4, <1>10, <2>1 DEF FitsAgain
  <2> QED
    BY <1>10, <2>1, <2>2, <2>3 DEF Again, FitsAgain
<1> QED
  BY <1>8, <1>11

\* The ops stay in the order of their epochs when more are placed.
LEMMA PlacedOrder ==
  ASSUME EpochsInv, Agree, OpenAgree, InOrder, valid = "open", call # NoCall,
         NEW r, r = TryPlace, Placed(r)
  PROVE  InOrder'
<1> DEFINE k == current_epoch_index
           p == OpPlacements(r)
           c == call.ops
           s == placed_ops
           N == name_to_op_placement
           chip == current_chip_id
           u == s \o c
<1>1. /\ TypeInv /\ OpenEpochs /\ CallOk /\ HasPlaced /\ call \in Calls /\ NameTypes
      /\ replay \in Seq(Op \X Places) /\ config \in Configs
  BY DEF EpochsInv, ToPlace, TypeInv, CallTypes
<1>2. BlockRight(r, p) /\ OpsPlaced(p)
  BY PlacedFacts
<1>3. /\ k \in Nat /\ Base \in 0 .. k /\ 0 .. k \subseteq DOMAIN epoch /\ epoch[k].chip = chip
      /\ \A i \in DOMAIN epoch : epoch[i] \in EpochRecords /\ chip \in PoolOf(config)
  BY <1>1, OpenFacts, OfConfig
<1>4. GridsFit /\ OpsInOrder /\ CallAlike /\ (config.pipelined => visited_ops = {})
  BY DEF InOrder
<1> HIDE DEF p, k, s, N, c, chip
<1>5. /\ DOMAIN epoch' = DOMAIN epoch /\ \A i \in DOMAIN epoch : i # k => epoch'[i] = epoch[i]
      /\ epoch'[k].chip = epoch[k].chip
      /\ epoch'[k].grid.rows = epoch[k].grid.rows /\ epoch'[k].grid.cols = epoch[k].grid.cols
      /\ s' = u
      /\ DOMAIN N' = DOMAIN N \cup Range(c)
      /\ \A i \in DOMAIN c : N'[c[i]] = p[i]
      /\ \A o \in DOMAIN N : N'[o] = N[o]
      /\ valid' = "open" /\ config' = config /\ visited_ops' = visited_ops
      /\ current_epoch_index' = k /\ current_spatial_epoch_id' = current_spatial_epoch_id
  BY <1>2 DEF OpsPlaced, k, c, s, N
<1>6. \A i \in DOMAIN c : /\ p[i].chip = chip /\ p[i].epoch = k /\ InGrid(epoch[k].grid, p[i].start, p[i].shape)
  BY <1>2 DEF BlockRight, k, c, chip
<1>7. /\ c \in Seq(Op) /\ s \in Seq(Op) /\ DOMAIN c \in {{1}, {1, 2}}
  BY <1>1, CallShape DEF NameTypes, c, s
<1>8. Base' = Base
  BY <1>5 DEF Base, k
<1>9. GridsFit'
  <2>1. ASSUME NEW i \in Base .. k
        PROVE  /\ epoch'[i].grid.rows = EmptyGrid(config, epoch'[i].chip).rows
               /\ epoch'[i].grid.cols = EmptyGrid(config, epoch'[i].chip).cols
    <3>1. i \in 0 .. k
      BY <1>3
    <3>2. /\ epoch[i].grid.rows = EmptyGrid(config, epoch[i].chip).rows
          /\ epoch[i].grid.cols = EmptyGrid(config, epoch[i].chip).cols
      BY <1>4 DEF GridsFit, k
    <3> QED
      BY <1>3, <1>5, <3>1, <3>2
  <2> QED
    BY <1>5, <1>8, <2>1 DEF GridsFit
<1>10. /\ MayRun(config, c[1], chip)
       /\ ComesFirst(config, c[1]) => s = <<>>
  <2>1. TryPlace.res = "placed"
    BY DEF Placed
  <2>2. can_place_op_onto_chip(c[1], chip, call.chip_break, CallOverride)
    BY <2>1 DEF TryPlace, Failed, c, chip
  <2>3. MayRun(config, c[1], chip) /\ (ComesFirst(config, c[1]) => ~BreakHere(c[1]))
    BY <1>1, <2>2, CanPlaceRuns DEF chip
  <2>4. ComesFirst(config, c[1]) => visited_ops = {}
    BY <1>4 DEF ComesFirst
  <2> QED
    BY <2>3, <2>4 DEF BreakHere, s
<1>11. ASSUME NEW i \in DOMAIN c
       PROVE  /\ Placeable(config, c[i], p[i])
              /\ ComesFirst(config, c[i]) => s = <<>> /\ i = 1
  <2>1. i # 1 => Alike(config, c[1], c[i])
    BY <1>4 DEF CallAlike, c
  <2>2. MayRun(config, c[i], chip) /\ (ComesFirst(config, c[i]) => s = <<>> /\ i = 1)
    <3>1. CASE i = 1
      BY <1>10, <3>1
    <3>2. CASE i # 1
      BY <1>3, <1>10, <2>1, <3>2 DEF Alike
    <3> QED
      BY <3>1, <3>2
  <2>3. k \in Base .. k
    BY <1>3
  <2>4. /\ epoch[k].grid.rows = EmptyGrid(config, chip).rows
        /\ epoch[k].grid.cols = EmptyGrid(config, chip).cols
    BY <1>3, <1>4, <2>3 DEF GridsFit, k
  <2>5. InGrid(EmptyGrid(config, chip), p[i].start, p[i].shape)
    BY <1>6, <2>4 DEF InGrid
  <2> QED
    BY <1>6, <2>2, <2>5 DEF Placeable
<1>12. ASSUME NEW x \in DOMAIN s
       PROVE  s[x] \in DOMAIN N /\ N[s[x]].epoch \in 0 .. k /\ N'[s[x]] = N[s[x]]
  <2>1. s[x] \in DOMAIN N
    BY <1>1 DEF HasPlaced, Range, s, N
  <2> QED
    BY <1>5, <2>1, NamesEpoch DEF N, k
<1>13. ASSUME NEW x \in DOMAIN u
       PROVE  \/ x \in DOMAIN s /\ u[x] = s[x] /\ x <= Len(s)
              \/ \E y \in DOMAIN c : x = Len(s) + y /\ u[x] = c[y] /\ x > Len(s)
  <2>1. Len(s) \in Nat /\ DOMAIN s = 1 .. Len(s) /\ \A y \in DOMAIN c : y \in Nat /\ y > 0
    BY <1>7
  <2>2. \/ x \in DOMAIN s /\ u[x] = s[x]
        \/ \E y \in DOMAIN c : x = Len(s) + y /\ u[x] = c[y]
    BY <1>7, AddedEntries
  <2> HIDE DEF u
  <2> QED
    BY <2>1, <2>2
<1>14. Len(s) \in Nat /\ (s = <<>> => Len(s) = 0) /\ DOMAIN s = 1 .. Len(s) /\ DOMAIN u \subseteq Nat
  <2>1. u \in Seq(Op)
    BY <1>7
  <2> HIDE DEF u
  <2> QED
    BY <1>7, <2>1
<1> HIDE DEF u
<1>15. ASSUME NEW x \in DOMAIN u
       PROVE  /\ Placeable(config, u[x], N'[u[x]])
              /\ ComesFirst(config, u[x]) => x = 1
  <2>1. CASE x \in DOMAIN s /\ u[x] = s[x] /\ x <= Len(s)
    <3>1. Placeable(config, s[x], N[s[x]]) /\ (ComesFirst(config, s[x]) => x = 1)
      BY <1>4, <2>1 DEF OpsInOrder, s, N
    <3> QED
      BY <1>12, <2>1, <3>1
  <2>2. CASE \E y \in DOMAIN c : x = Len(s) + y /\ u[x] = c[y] /\ x > Len(s)
    <3>1. PICK y \in DOMAIN c : x = Len(s) + y /\ u[x] = c[y]
      BY <2>2
    <3>2. Placeable(config, c[y], p[y]) /\ (ComesFirst(config, c[y]) => s = <<>> /\ y = 1)
      BY <1>11
    <3> QED
      BY <1>5, <1>14, <3>1, <3>2
  <2> QED
    BY <1>13, <2>1, <2>2
<1>16. ASSUME NEW x \in DOMAIN u, NEW l \in DOMAIN u, x < l
       PROVE  N'[u[x]].epoch <= N'[u[l]].epoch
  <2>1. CASE l \in DOMAIN s /\ u[l] = s[l] /\ l <= Len(s)
    <3>1. x \in DOMAIN s /\ u[x] = s[x]
      BY <1>13, <1>14, <1>16, <2>1
    <3>2. N[s[x]].epoch <= N[s[l]].epoch
      BY <1>4, <1>16, <2>1, <3>1 DEF OpsInOrder, s, N
    <3> QED
      BY <1>12, <2>1, <3>1, <3>2
  <2>2. CASE \E y \in DOMAIN c : l = Len(s) + y /\ u[l] = c[y] /\ l > Len(s)
    <3>1. N'[u[l]].epoch = k
      BY <1>5, <1>6, <2>2
    <3>2. N'[u[x]].epoch \in 0 .. k
      <4>1. CASE x \in DOMAIN s /\ u[x] = s[x]
        BY <1>12, <4>1
      <4>2. CASE \E y \in DOMAIN c : x = Len(s) + y /\ u[x] = c[y] /\ x > Len(s)
        <5>1. N'[u[x]].epoch = k
          BY <1>5, <1>6, <4>2
        <5> QED
          BY <1>3, <5>1
      <4> QED
        BY <1>13, <4>1, <4>2
    <3> QED
      BY <1>3, <3>1, <3>2
  <2> QED
    BY <1>13, <2>1, <2>2
<1>17. OpsInOrder'
  BY <1>5, <1>15, <1>16 DEF OpsInOrder, s, N
<1>18. CallAlike'
  <2>1. Return(IF replay = <<>> THEN <<>> ELSE Tail(replay))
    BY <1>2 DEF OpsPlaced
  <2> QED
    BY <2>1, ReturnAlike
<1> QED
  BY <1>4, <1>5, <1>9, <1>17, <1>18 DEF InOrder

\* A placement that was made again leaves room for those behind it.
LEMMA PlacedAgain ==
  ASSUME EpochsInv, Again, valid = "open", call # NoCall, NEW r, r = TryPlace, Placed(r)
  PROVE  Again'
<1> DEFINE k == current_epoch_index
           p == OpPlacements(r)
           left == IF replay = <<>> THEN <<>> ELSE Tail(replay)
           used == epoch[k].grid.used
           new == UNION {Cores(p[i].start, p[i].shape) : i \in DOMAIN call.ops}
           p1 == replay[1][2]
<1>1. replay \in Seq(Op \X Places) /\ replay' = left
  BY DEF EpochsInv, TypeInv, CallTypes, Placed, Return
<1>2. BlockRight(r, p) /\ OpsPlaced(p)
  BY PlacedFacts
<1>3. /\ epoch'[k].grid.used = used \cup new
      /\ UNCHANGED <<config, valid, remaining_chip_ids, current_chip_id, current_epoch_index>>
  BY <1>2 DEF OpsPlaced
<1>4. valid' = "open" /\ config' = config /\ remaining_chip_ids' = remaining_chip_ids
      /\ current_chip_id' = current_chip_id /\ current_epoch_index' = k
  BY <1>3
<1>5. CASE replay = <<>>
  <2>1. replay' = <<>>
    BY <1>1, <1>5
  <2> QED
    BY <1>4, <2>1 DEF Again
<1>6. CASE replay # <<>>
  <2>1. /\ \A i \in DOMAIN left : i \in Nat /\ i > 0 /\ i + 1 \in DOMAIN replay /\ left[i] = replay[i + 1]
        /\ 1 \in DOMAIN replay /\ (DOMAIN left # {} => 1 \in DOMAIN left)
        /\ \A i \in DOMAIN replay : replay[i] \in Op \X Places
    <3>1. left = Tail(replay)
      BY <1>6
    <3> DEFINE n == Len(replay)
    <3>2. /\ n \in Nat /\ n > 0 /\ DOMAIN replay = 1 .. n
          /\ DOMAIN Tail(replay) = 1 .. n - 1 /\ \A i \in 1 .. n - 1 : Tail(replay)[i] = replay[i + 1]
          /\ \A i \in DOMAIN replay : replay[i] \in Op \X Places
      BY <1>1, <1>6
    <3> HIDE DEF n, left
    <3> QED
      BY <3>1, <3>2
  <2>2. /\ p1.chip = current_chip_id /\ r.start = p1.start /\ r.shape = p1.shape
    <3>1. TryPlace.res = "placed"
      BY DEF Placed
    <3> QED
      BY <1>6, <3>1, PlacedWhereItWas
  <2>3. new \subseteq Cores(p1.start, p1.shape)
    <3>1. \A i \in DOMAIN call.ops : Cores(p[i].start, p[i].shape) \subseteq Cores(p1.start, p1.shape)
      BY <1>2, <2>2 DEF BlockRight
    <3> HIDE DEF p
    <3> QED
      BY <3>1
  <2> HIDE DEF left, new, used
  <2>4. ASSUME NEW i \in DOMAIN left
        PROVE  /\ PairAgain(p1, left[i][2])
               /\ FitsAgain(left[i][1], left[i][2], p1)
               /\ ~ComesFirst(config, left[i][1])
               /\ left[i][2] \in Places
    <3>1. /\ i + 1 \in DOMAIN replay /\ left[i] = replay[i + 1] /\ 1 < i + 1 /\ i + 1 # 1
      BY <2>1, <2>4
    <3>2. left[i][2] \in Places
      BY <2>1, <3>1
    <3> QED
      BY <2>1, <3>1, <3>2 DEF Again
  <2>5. ASSUME NEW i \in DOMAIN left, NEW l \in DOMAIN left, i < l
        PROVE  PairAgain(left[i][2], left[l][2])
    <3>1. i + 1 < l + 1
      BY <2>1, <2>5
    <3> QED
      BY <2>1, <3>1 DEF Again
  <2>6. ASSUME NEW i \in DOMAIN left
        PROVE  /\ left[i][2].chip \in {current_chip_id} \cup Range(remaining_chip_ids)
               /\ left[1][2].chip = current_chip_id \/ left[i][2].chip # current_chip_id
               /\ left[i][2].chip = current_chip_id
                    => Cores(left[i][2].start, left[i][2].shape) \cap (used \cup new) = {}
               /\ Placeable(config, left[i][1], left[i][2])
    <3> DEFINE q == left[i][2]
    <3>1. /\ PairAgain(p1, q) /\ FitsAgain(left[i][1], q, p1)
      BY <2>4
    <3>2. q.chip = current_chip_id => Cores(q.start, q.shape) \cap (used \cup new) = {}
      <4> SUFFICES ASSUME q.chip = current_chip_id PROVE Cores(q.start, q.shape) \cap (used \cup new) = {}
        OBVIOUS
      <4>1. Cores(q.start, q.shape) \cap used = {}
        BY <3>1 DEF FitsAgain, used
      <4>2. Cores(p1.start, p1.shape) \cap Cores(q.start, q.shape) = {}
        BY <2>2, <3>1 DEF PairAgain
      <4> QED
        BY <2>3, <4>1, <4>2
    <3>3. q.chip = current_chip_id => left[1][2].chip = current_chip_id
      <4> SUFFICES ASSUME q.chip = current_chip_id PROVE left[1][2].chip = current_chip_id
        OBVIOUS
      <4>0. 1 \in DOMAIN left
        BY <2>1
      <4> DEFINE z == left[1][2]
      <4>1. PairAgain(p1, z) /\ z \in Places
        BY <2>4, <4>0
      <4>2. CASE i = 1
        BY <4>2
      <4>3. CASE i # 1
        <5>1. 1 < i
          BY <2>1, <4>3
        <5>2. PairAgain(z, q)
          BY <2>5, <4>0, <5>1
        <5>3. q \in Places /\ p1 \in Places
          BY <2>1, <2>4
        <5> HIDE DEF z, q, p1
        <5>4. p1.epoch \in Nat /\ q.epoch \in Nat /\ z.epoch \in Nat
          BY <4>1, <5>3 DEF Places
        <5>5. p1.epoch = q.epoch
          BY <2>2, <3>1 DEF PairAgain
        <5>6. p1.epoch = z.epoch
          BY <4>1, <5>2, <5>4, <5>5 DEF PairAgain
        <5>7. z.chip = current_chip_id
          BY <2>2, <4>1, <5>6 DEF PairAgain
        <5> QED
          BY <5>7 DEF z
      <4> QED
        BY <4>2, <4>3
    <3>4. q.chip \in {current_chip_id} \cup Range(remaining_chip_ids) /\ Placeable(config, left[i][1], q)
      BY <3>1 DEF FitsAgain
    <3> QED
      BY <3>2, <3>3, <3>4
  <2> QED
    <3>1. replay' = left
      BY <1>1
    <3>2. ASSUME NEW i \in DOMAIN left
          PROVE  /\ left[i][2].chip \in {current_chip_id'} \cup Range(remaining_chip_ids')
                 /\ placed_ops' = <<>> \/ left[1][2].chip = current_chip_id' \/ left[i][2].chip # current_chip_id'
                 /\ left[i][2].chip = current_chip_id'
                      => Cores(left[i][2].start, left[i][2].shape) \cap epoch'[current_epoch_index'].grid.used = {}
                 /\ Placeable(config', left[i][1], left[i][2])
                 /\ ~ComesFirst(config', left[i][1])
      BY <1>3, <1>4, <2>4, <2>6 DEF used
    <3> QED
      BY <1>4, <2>5, <3>1, <3>2 DEF Again, FitsAgain
<1> QED
  BY <1>5, <1>6

\* A temporal epoch that starts, or starts again, has no op.
LEMMA StartedOrder ==
  ASSUME NEW k, k \in Nat, config \in Configs, config' = config, current_epoch_index' = k, Base' = k,
         epoch'[k].chip = current_chip_id',
         epoch'[k].grid.rows = GridOf(current_chip_id').rows,
         epoch'[k].grid.cols = GridOf(current_chip_id').cols,
         placed_ops' = <<>>, visited_ops' = {}, CallAlike'
  PROVE  InOrder'
<1>1. k .. k = {k}
  OBVIOUS
<1>2. \A i \in k .. k : /\ epoch'[i].grid.rows = EmptyGrid(config, epoch'[i].chip).rows
                        /\ epoch'[i].grid.cols = EmptyGrid(config, epoch'[i].chip).cols
  BY <1>1, OfConfig
<1>3. GridsFit'
  BY <1>2 DEF GridsFit
<1>4. OpsInOrder'
  BY DEF OpsInOrder
<1> QED
  BY <1>3, <1>4 DEF InOrder

\* Without a call there is nothing to compare.
LEMMA NoneAlike ==
  ASSUME call' = NoCall
  PROVE  CallAlike'
<1>1. DOMAIN call'.ops = 1 .. 0
  BY DEF NoCall
<1> QED
  BY <1>1, OneAlike

\* A new temporal epoch has nothing to place again.
LEMMA NextEpochAgain ==
  ASSUME EpochsInv, next_epoch
  PROVE  InOrder' /\ Again'
<1> DEFINE e2 == NextTemporal.epoch
           k2 == Base + Len(sorted_chip_ids)
           t == current_temporal_epoch_id
           pool == Pool(t + 1)
<1>1. /\ StaysOpen /\ Base' = k2 /\ current_epoch_index' = k2 /\ k2 \in Nat
      /\ Opened(e2, k2, pool, t + 1, 0, <<>>)
  BY NextEpochOpens
<1>2. /\ UNCHANGED <<config, valid>> /\ placed_ops' = <<>> /\ visited_ops' = {} /\ valid = "open"
      /\ call' = NoCall /\ replay' = <<>>
  BY DEF next_epoch, Idle
<1>3. config \in Configs
  BY DEF EpochsInv, TypeInv
<1>4. /\ epoch'[k2].chip = current_chip_id'
      /\ epoch'[k2].grid.rows = GridOf(current_chip_id').rows
      /\ epoch'[k2].grid.cols = GridOf(current_chip_id').cols
  <2> DEFINE u == t + 1
             z == 0
             req == <<>>
  <2>1. Opened(e2, k2, pool, u, z, req)
    BY <1>1
  <2> HIDE DEF e2, k2, pool, u, z, req
  <2> QED
    BY <1>2, <1>3, <2>1, OpenedEmpty
<1> HIDE DEF k2
<1>5. InOrder'
  BY <1>1, <1>2, <1>3, <1>4, StartedOrder, NoneAlike
<1> QED
  BY <1>2, <1>5 DEF Again

\* A temporal epoch that is taken back starts on empty grids.
LEMMA RewoundOrder ==
  ASSUME EpochsInv, valid = "open", placed_ops # <<>>, Rewind, CallAlike'
  PROVE  /\ InOrder' /\ placed_ops' = <<>> /\ UNCHANGED <<config, valid>>
         /\ current_epoch_index' = Base /\ epoch'[Base].grid.used = {}
         /\ {current_chip_id'} \cup Range(remaining_chip_ids') = OpenChips
<1> DEFINE k2 == Base
           t == current_temporal_epoch_id
           pool == Pool(t)
<1>1. /\ StaysOpen /\ Base' = k2 /\ current_epoch_index' = k2
      /\ Opened(epoch, k2, pool, t, 0, <<>>)
      /\ placed_ops' = <<>> /\ visited_ops' = {} /\ UNCHANGED <<config, valid>>
  BY RewindEpochs
<1>2. /\ config \in Configs /\ current_epoch_index \in Nat /\ k2 \in 0 .. current_epoch_index
      /\ sorted_chip_ids \in Seq(Nat) /\ IsInjective(sorted_chip_ids) /\ sorted_chip_ids # <<>>
      /\ Range(sorted_chip_ids) = OpenChips
  BY OpenFacts DEF EpochsInv, TypeInv
<1>3. Range(pool) = OpenChips
  BY <1>2, PoolFacts
<1>4. /\ epoch'[k2].chip = current_chip_id' /\ epoch'[k2].grid.used = {}
      /\ epoch'[k2].grid.rows = GridOf(current_chip_id').rows
      /\ epoch'[k2].grid.cols = GridOf(current_chip_id').cols
  <2> DEFINE z == 0
             req == <<>>
  <2>1. Opened(epoch, k2, pool, t, z, req)
    BY <1>1
  <2> HIDE DEF k2, pool, t, z, req
  <2> QED
    BY <1>1, <1>2, <2>1, OpenedEmpty
<1>5. current_chip_id' \in Range(pool) /\ Range(remaining_chip_ids') = Range(pool) \ {current_chip_id'}
  BY <1>1 DEF Opened
<1>6. k2 \in Nat
  BY <1>2
<1> HIDE DEF k2, pool
<1>7. InOrder'
  BY <1>1, <1>2, <1>4, <1>6, StartedOrder
<1> QED
  BY <1>1, <1>3, <1>4, <1>5, <1>7 DEF k2

\* After rewind_epoch there is nothing to place again.
LEMMA RewindAgain ==
  ASSUME EpochsInv, placed_ops # <<>>, rewind_epoch
  PROVE  InOrder' /\ Again'
<1>1. valid = "open" /\ Rewind /\ call' = NoCall /\ replay' = <<>>
  BY DEF rewind_epoch, Idle
<1>2. InOrder' /\ valid' = valid
  BY <1>1, RewoundOrder, NoneAlike
<1> QED
  BY <1>1, <1>2 DEF Again

\* Two placements of the temporal epoch are in one epoch when they are on one chip,
\* and then they share no core.
LEMMA TwoPlaced ==
  ASSUME EpochsInv, Agree, OpenAgree, InOrder, valid = "open",
         NEW x \in DOMAIN placed_ops, NEW y \in DOMAIN placed_ops, x < y
  PROVE  PairAgain(name_to_op_placement[placed_ops[x]], name_to_op_placement[placed_ops[y]])
<1> DEFINE N == name_to_op_placement
           k == current_epoch_index
           p == N[placed_ops[x]]
           q == N[placed_ops[y]]
<1>1. /\ TypeInv /\ OpenEpochs /\ IsInjective(placed_ops) /\ Range(placed_ops) \subseteq DOMAIN N
      /\ placed_ops \in Seq(Op)
  BY DEF EpochsInv, HasPlaced, TypeInv, NameTypes
<1>2. placed_ops[x] \in Range(placed_ops) /\ placed_ops[y] \in Range(placed_ops)
  BY DEF Range
<1>3. placed_ops[x] # placed_ops[y]
  <2>1. x # y
    BY <1>1
  <2> QED
    BY <1>1, <2>1 DEF IsInjective
<1>4. /\ k \in Nat /\ Base \in 0 .. k
      /\ Spread(epoch, Base, k + 1, current_temporal_epoch_id, remaining_chip_ids, sorted_chip_ids)
  BY <1>1, OpenFacts
<1>5. \A i, j \in Base .. (k + 1) - 1 : epoch[i].chip = epoch[j].chip => i = j
  BY <1>4 DEF Spread
<1>6. /\ p.epoch \in 0 .. k /\ q.epoch \in 0 .. k /\ p.epoch >= Base /\ q.epoch >= Base
      /\ epoch[p.epoch].chip = p.chip /\ epoch[q.epoch].chip = q.chip
  BY <1>1, <1>2, NamesEpoch DEF OpenAgree
<1>7. p.epoch <= q.epoch
  BY DEF InOrder, OpsInOrder
<1>8. p.epoch = q.epoch => Cores(p.start, p.shape) \cap Cores(q.start, q.shape) = {}
  <2> SUFFICES ASSUME p.epoch = q.epoch PROVE Cores(p.start, p.shape) \cap Cores(q.start, q.shape) = {}
    OBVIOUS
  <2> DEFINE e == p.epoch
  <2>1. NameSound(placed_ops[x]) /\ NameSound(placed_ops[y])
    BY <1>1, <1>2 DEF Agree
  <2>2. PICK a \in DOMAIN epoch[e].ops : epoch[e].ops[a][1] = placed_ops[x]
    BY <2>1 DEF NameSound, EpochOps
  <2>3. PICK b \in DOMAIN epoch[e].ops : epoch[e].ops[b][1] = placed_ops[y]
    BY <2>1 DEF NameSound, EpochOps
  <2>4. e \in Epochs
    BY <2>1 DEF NameSound
  <2>5. Listed(e) /\ Apart(e)
    BY <2>4 DEF Agree, EpochSound
  <2>6. epoch[e].ops[a][2] = p /\ epoch[e].ops[b][2] = q /\ a # b
    BY <1>3, <2>2, <2>3, <2>5 DEF Listed
  <2> HIDE DEF e, p, q
  <2> QED
    BY <2>2, <2>3, <2>5, <2>6 DEF Apart, CoresOf
<1> HIDE DEF p, q, k
<1>9. (p.epoch = q.epoch) <=> (p.chip = q.chip)
  <2>1. p.epoch \in Base .. (k + 1) - 1 /\ q.epoch \in Base .. (k + 1) - 1
    BY <1>4, <1>6
  <2> QED
    BY <1>5, <1>6, <2>1
<1>10. PairAgain(p, q)
  BY <1>7, <1>8, <1>9 DEF PairAgain
<1> QED
  BY <1>10 DEF p, q

\* What rewind_to places again fits on the chips it starts over with.
LEMMA RewindToAgain ==
  ASSUME EpochsInv, Agree, OpenAgree, InOrder, NEW op \in Op, rewind_to(op)
  PROVE  InOrder' /\ Again'
<1> DEFINE left == PlacedBefore(op)
           N == name_to_op_placement
           k == current_epoch_index
<1>1. /\ valid = "open" /\ Rewind /\ op \in Range(placed_ops) /\ Return(left)
  BY DEF rewind_to, Idle, PlacedBefore, CountBefore
<1>2. /\ DOMAIN left \subseteq DOMAIN placed_ops
      /\ \A i \in DOMAIN left : left[i][1] = placed_ops[i] /\ left[i][2] = N[placed_ops[i]]
  BY <1>1, PlacedBeforeFacts
<1> HIDE DEF left
<1>3. placed_ops # <<>> /\ CallAlike' /\ replay' = left
  BY <1>1, ReturnAlike DEF Range, Return
<1>4. /\ InOrder' /\ placed_ops' = <<>> /\ UNCHANGED <<config, valid>>
      /\ current_epoch_index' = Base /\ epoch'[Base].grid.used = {}
      /\ {current_chip_id'} \cup Range(remaining_chip_ids') = OpenChips
  BY <1>1, <1>3, RewoundOrder
<1>5. ASSUME NEW i \in DOMAIN left
      PROVE  /\ left[i][2].chip \in OpenChips
             /\ Placeable(config, left[i][1], left[i][2])
             /\ ComesFirst(config, left[i][1]) => i = 1
  <2> DEFINE p == N[placed_ops[i]]
  <2>1. i \in DOMAIN placed_ops /\ left[i][1] = placed_ops[i] /\ left[i][2] = p
    BY <1>2
  <2>2. Placeable(config, placed_ops[i], p) /\ (ComesFirst(config, placed_ops[i]) => i = 1)
    BY <1>1, <2>1 DEF InOrder, OpsInOrder
  <2>3. placed_ops[i] \in Range(placed_ops) /\ placed_ops[i] \in DOMAIN N
    BY <1>1, <2>1 DEF EpochsInv, HasPlaced, Range
  <2>4. p.epoch \in 0 .. k /\ p.epoch >= Base /\ epoch[p.epoch].chip = p.chip
    BY <1>1, <2>3, NamesEpoch DEF OpenAgree
  <2>5. /\ k \in Nat /\ Base \in 0 .. k /\ Range(sorted_chip_ids) = OpenChips
        /\ Spread(epoch, Base, k + 1, current_temporal_epoch_id, remaining_chip_ids, sorted_chip_ids)
    BY <1>1, OpenFacts DEF EpochsInv
  <2>6. \A j \in Base .. (k + 1) - 1 : epoch[j].chip \in OpenChips
    BY <2>5 DEF Spread
  <2> HIDE DEF p, k
  <2>7. p.epoch \in Base .. (k + 1) - 1
    BY <2>4, <2>5
  <2> QED
    BY <2>1, <2>2, <2>4, <2>6, <2>7
<1>6. ASSUME NEW i \in DOMAIN left, NEW l \in DOMAIN left, i < l
      PROVE  PairAgain(left[i][2], left[l][2])
  <2>1. PairAgain(N[placed_ops[i]], N[placed_ops[l]])
    BY <1>1, <1>2, <1>6, TwoPlaced
  <2> QED
    BY <1>2, <2>1
<1>7. Again'
  <2>1. ASSUME NEW i \in DOMAIN left
        PROVE  /\ left[i][2].chip \in {current_chip_id'} \cup Range(remaining_chip_ids')
               /\ placed_ops' = <<>> \/ left[1][2].chip = current_chip_id' \/ left[i][2].chip # current_chip_id'
               /\ left[i][2].chip = current_chip_id'
                    => Cores(left[i][2].start, left[i][2].shape) \cap epoch'[current_epoch_index'].grid.used = {}
               /\ Placeable(config', left[i][1], left[i][2])
               /\ ComesFirst(config', left[i][1]) => i = 1 /\ placed_ops' = <<>>
    <3> DEFINE p == left[i][2]
    <3>1. p.chip \in OpenChips /\ Placeable(config, left[i][1], p) /\ (ComesFirst(config, left[i][1]) => i = 1)
      BY <1>5
    <3> HIDE DEF p
    <3> QED
      BY <1>4, <3>1 DEF p
  <2>2. valid' # "aborted"
    BY <1>1, <1>4
  <2> QED
    BY <1>3, <1>6, <2>1, <2>2 DEF Again, FitsAgain
<1> QED
  BY <1>4, <1>7

-----------------------------------------------------------------------------
(***************************************************************************)
(* Every step.                                                             *)
(***************************************************************************)
\* The records agree after a call that failed.
LEMMA NotPlacedAgree ==
  ASSUME Agree, OpenAgree, valid = "open", NEW r, NotPlaced(r)
  PROVE  Agree' /\ OpenAgree'
<1>1. UNCHANGED <<config, placing>> /\ valid' \in {"open", "aborted"}
  BY DEF NotPlaced
<1>2. CASE valid' = "open"
  BY <1>1, <1>2, AgreeFrame
<1>3. CASE valid' = "aborted"
  BY <1>3 DEF Agree, OpenAgree
<1> QED
  BY <1>1, <1>2, <1>3

\* Every step keeps the agreement of the records.
LEMMA AgreeNext ==
  ASSUME EpochsInv, OneRequested, Agree, OpenAgree, [Next]_vars
  PROVE  Agree' /\ OpenAgree'
<1>1. ASSUME NEW op \in Op, PlaceOp(op, Breaks(op)) PROVE Agree' /\ OpenAgree'
  <2> DEFINE br == Breaks(op)
  <2>1. PlaceOp(op, br)
    BY <1>1
  <2> HIDE DEF br
  <2>2. UNCHANGED <<config, valid, placing>>
    BY <2>1 DEF PlaceOp
  <2> QED
    BY <2>2, AgreeFrame
<1>2. ASSUME NEW op \in Op, rewind_to(op) PROVE Agree' /\ OpenAgree'
  <2>1. valid = "open" /\ placed_ops # <<>> /\ Rewind
    BY <1>2 DEF rewind_to, Idle, Range
  <2> QED
    BY <2>1, RewindAgree
<1>3. ASSUME NEW op1 \in Op, NEW op2 \in Op, PlaceTwoOpsRowwise(op1, op2, Breaks(op1) \/ Breaks(op2))
      PROVE  Agree' /\ OpenAgree'
  <2> DEFINE br == Breaks(op1) \/ Breaks(op2)
  <2>1. PlaceTwoOpsRowwise(op1, op2, br)
    BY <1>3
  <2> HIDE DEF br
  <2>2. UNCHANGED <<config, valid, placing>>
    BY <2>1 DEF PlaceTwoOpsRowwise
  <2> QED
    BY <2>2, AgreeFrame
<1>4. ASSUME next_epoch PROVE Agree' /\ OpenAgree'
  BY <1>4, NextEpochAgree
<1>5. ASSUME placed_ops # <<>>, rewind_epoch PROVE Agree' /\ OpenAgree'
  BY <1>5, RewindAgree DEF rewind_epoch, Idle
<1>6. ASSUME AllPlaced, commit PROVE Agree' /\ OpenAgree'
  BY <1>6, CommitAgree
<1>7. ASSUME AllPlaced, commit_pipelined PROVE Agree' /\ OpenAgree'
  BY <1>7, EpochsNext, CommitPipelinedAgree
<1>8. ASSUME PlaceOneOp PROVE Agree' /\ OpenAgree'
  <2> DEFINE r == TryPlace
  <2>1. valid = "open" /\ call # NoCall /\ r = TryPlace /\ (Placed(r) \/ NotPlaced(r) \/ NextChip(r))
    BY <1>8 DEF PlaceOneOp
  <2> HIDE DEF r
  <2> QED
    BY <2>1, PlacedAgree, NotPlacedAgree, NextChipAgree
<1>9. ASSUME AssignChip \/ AssignEnds PROVE Agree' /\ OpenAgree'
  BY <1>9, AssignChipAgree, AssignEndsAgree
<1>10. ASSUME UNCHANGED vars PROVE Agree' /\ OpenAgree'
  BY <1>10, AgreeFrame DEF vars
<1> QED
  BY <1>1, <1>2, <1>3, <1>4, <1>5, <1>6, <1>7, <1>8, <1>9, <1>10 DEF Next, PlacerSteps

\* A commit, and the chip assignment that follows it, have nothing to place again.
LEMMA ClosedAgain ==
  ASSUME replay = <<>>, replay' = replay, valid' \in {"assigning", "committed"}
  PROVE  InOrder' /\ Again'
<1>1. DOMAIN replay' = {}
  OBVIOUS
<1> QED
  BY <1>1 DEF InOrder, Again

\* Every step keeps the order of the ops and the room of the replay.
LEMMA AgainNext ==
  ASSUME EpochsInv, OneRequested, PairsAlike, Agree, OpenAgree, InOrder, Again, [Next]_vars
  PROVE  InOrder' /\ Again'
<1>1. ASSUME NEW op \in Op, PlaceOp(op, Breaks(op)) PROVE InOrder' /\ Again'
  <2> DEFINE br == Breaks(op)
  <2>1. PlaceOp(op, br)
    BY <1>1
  <2> HIDE DEF br
  <2> QED
    BY <2>1, PlaceOpAgain
<1>2. ASSUME NEW op \in Op, rewind_to(op) PROVE InOrder' /\ Again'
  BY <1>2, RewindToAgain
<1>3. ASSUME NEW op1 \in Op, NEW op2 \in Op, PlaceTwoOpsRowwise(op1, op2, Breaks(op1) \/ Breaks(op2))
      PROVE  InOrder' /\ Again'
  <2> DEFINE br == Breaks(op1) \/ Breaks(op2)
  <2>1. PlaceTwoOpsRowwise(op1, op2, br)
    BY <1>3
  <2> HIDE DEF br
  <2> QED
    BY <2>1, PlaceTwoAgain
<1>4. ASSUME next_epoch PROVE InOrder' /\ Again'
  BY <1>4, NextEpochAgain
<1>5. ASSUME placed_ops # <<>>, rewind_epoch PROVE InOrder' /\ Again'
  BY <1>5, RewindAgain
<1>6. ASSUME commit \/ commit_pipelined PROVE InOrder' /\ Again'
  <2>1. replay = <<>> /\ replay' = replay /\ valid' \in {"assigning", "committed"}
    BY <1>6 DEF commit, commit_pipelined, Idle
  <2> QED
    BY <2>1, ClosedAgain
<1>7. ASSUME PlaceOneOp PROVE InOrder' /\ Again'
  <2> DEFINE r == TryPlace
  <2>1. valid = "open" /\ call # NoCall /\ r = TryPlace /\ (Placed(r) \/ NotPlaced(r) \/ NextChip(r))
    BY <1>7 DEF PlaceOneOp
  <2> HIDE DEF r
  <2> QED
    BY <2>1, PlacedOrder, PlacedAgain, NotPlacedAgain, NextChipAgain
<1>8. ASSUME AssignChip \/ AssignEnds PROVE InOrder' /\ Again'
  <2>1. valid = "assigning" /\ replay' = replay /\ valid' \in {"assigning", "committed"}
    BY <1>8 DEF AssignChip, AssignEnds
  <2>2. replay = <<>>
    BY <2>1 DEF EpochsInv, ToPlace
  <2> QED
    BY <2>1, <2>2, ClosedAgain
<1>9. ASSUME UNCHANGED vars PROVE InOrder' /\ Again'
  <2>1. UNCHANGED <<config, valid, placing>> /\ call' = call /\ replay' = replay
    BY <1>9 DEF vars
  <2>2. Again'
    BY <2>1 DEF Again, FitsAgain, placing
  <2>3. CASE valid = "open"
    <3>1. CallAlike
      BY <2>3 DEF InOrder
    <3>2. CallAlike'
      BY <2>1, <3>1 DEF CallAlike
    <3> QED
      BY <2>1, <2>2, <2>3, <3>2, OrderFrame
  <2>4. CASE valid # "open"
    BY <2>1, <2>2, <2>4 DEF InOrder
  <2> QED
    BY <2>3, <2>4
<1> QED
  BY <1>1, <1>2, <1>3, <1>4, <1>5, <1>6, <1>7, <1>8, <1>9 DEF Next, PlacerSteps

\* The invariant of the placements holds at first.
LEMMA PlacementInit ==
  ASSUME Op # {}, Init
  PROVE  Agree /\ OpenAgree /\ InOrder /\ Again
<1>1. /\ config \in Configs /\ valid = "open"
      /\ current_epoch_index = 0 /\ current_spatial_epoch_id = 0
      /\ epoch[0].chip = current_chip_id /\ epoch[0].grid = GridOf(current_chip_id)
      /\ placed_ops = <<>> /\ visited_ops = {} /\ call = NoCall /\ replay = <<>>
  BY DEF Init
<1>2. Base = 0
  BY <1>1 DEF Base
<1>3. GridsFit
  <2>1. Base .. current_epoch_index = {0}
    BY <1>1, <1>2
  <2> QED
    BY <1>1, <2>1, OfConfig DEF GridsFit
<1>4. DOMAIN placed_ops = {} /\ DOMAIN call.ops = {} /\ DOMAIN replay = {}
  BY <1>1 DEF NoCall
<1>5. InOrder
  BY <1>1, <1>3, <1>4 DEF InOrder, OpsInOrder, CallAlike
<1>6. Again
  BY <1>1, <1>4 DEF Again
<1> QED
  BY <1>5, <1>6, InitAgree

\* However the ops are placed, alone or in pairs, moved on, taken back and placed
\* again, the four records of an interactive placement agree; where the second op of
\* any pair that is placed as a block may run wherever the first one may, what
\* rewind_to places again fits again, so that its assertion never fails and the
\* records agree in every state.
THEOREM PlacementsAlways ==
  ASSUME Op # {}
  PROVE  Spec => [](OneRequested => /\ valid # "aborted" => PlacementsAgree
                                    /\ PairsAlike => PlacementsHold)
<1> DEFINE Inv == OneRequested => /\ EpochsInv /\ Agree /\ OpenAgree
                                  /\ PairsAlike => InOrder /\ Again
           Goal == OneRequested => /\ valid # "aborted" => PlacementsAgree
                                   /\ PairsAlike => PlacementsHold
<1>1. Init => Inv
  BY StepInit, PlacementInit
<1>2. Inv /\ [Next]_vars => Inv'
  <2> SUFFICES ASSUME Inv, [Next]_vars, OneRequested'
               PROVE  (EpochsInv /\ Agree /\ OpenAgree /\ (PairsAlike => InOrder /\ Again))'
    OBVIOUS
  <2>1. config' = config
    BY ConfigStays
  <2>2. OneRequested
    BY <2>1 DEF OneRequested
  <2>3. EpochsInv' /\ Agree' /\ OpenAgree'
    BY <2>2, EpochsNext, AgreeNext
  <2>4. ASSUME PairsAlike' PROVE InOrder' /\ Again'
    <3>1. PairsAlike
      BY <2>1, <2>4 DEF PairsAlike, can_fit_on_single_epoch
    <3> QED
      BY <2>2, <3>1, AgainNext
  <2> QED
    BY <2>3, <2>4
<1>3. Inv => Goal
  <2> SUFFICES ASSUME Inv, OneRequested
               PROVE  (valid # "aborted" => PlacementsAgree) /\ (PairsAlike => PlacementsHold)
    OBVIOUS
  <2>1. ASSUME PairsAlike PROVE valid # "aborted"
    BY <2>1 DEF Again
  <2> QED
    BY <2>1, AgreeImplies DEF PlacementsHold, ReplayFits
<1> QED
  BY <1>1, <1>2, <1>3, PTL DEF Spec
=============================================================================
