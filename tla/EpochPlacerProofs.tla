------------------------- MODULE EpochPlacerProofs -------------------------
(***************************************************************************)
(* What holds of every placement of the list placer, for every graph, for  *)
(* every number and grid of chips and for every override: the solution is  *)
(* sound, its temporal epochs are complete, and the placer gives up only   *)
(* if no chip may run an epoch.                                            *)
(*                                                                         *)
(* The recursion over the schedule (Turn) and the order of Nth and Filter  *)
(* are reasoned about with the least counterexample: a set of naturals     *)
(* without a least element is empty (Least).                               *)
(***************************************************************************)
EXTENDS EpochPlacer, DeviceGridTheorems

-----------------------------------------------------------------------------
(***************************************************************************)
(* The chips of the forward ops on Grayskull.                              *)
(***************************************************************************)
NoTurn == [index |-> 0, chip |-> <<>>]
TurnsTo(c, m, f) == f = [k \in 0 .. m |-> IF k = 0 THEN NoTurn ELSE Turn(c, f[k - 1], k)]

\* The function of the turns is defined: its CHOOSE has a witness.
LEMMA TurnsExist ==
  ASSUME NEW c, NEW m \in Nat
  PROVE  \E f : TurnsTo(c, m, f)
<1> DEFINE Bad == {n \in Nat : ~ \E f : TurnsTo(c, n, f)}
<1> SUFFICES ASSUME m \in Bad PROVE FALSE
  OBVIOUS
<1>1. PICK n \in Bad : \A j \in Bad : n <= j
  BY Least
<1>2. CASE n = 0
  <2> DEFINE f == [k \in 0 .. 0 |-> NoTurn]
  <2>1. f = [k \in 0 .. 0 |-> IF k = 0 THEN NoTurn ELSE Turn(c, f[k - 1], k)]
    OBVIOUS
  <2> HIDE DEF f
  <2>2. TurnsTo(c, 0, f)
    BY <2>1 DEF TurnsTo
  <2> QED
    BY <2>2, <1>2
<1>3. CASE n # 0
  <2>1. n - 1 \in Nat /\ n - 1 \notin Bad
    BY <1>1, <1>3
  <2>2. PICK g : TurnsTo(c, n - 1, g)
    BY <2>1
  <2>3. g = [k \in 0 .. n - 1 |-> IF k = 0 THEN NoTurn ELSE Turn(c, g[k - 1], k)]
    BY <2>2 DEF TurnsTo
  <2> DEFINE f == [k \in 0 .. n |-> IF k = 0 THEN NoTurn ELSE Turn(c, g[k - 1], k)]
  <2>4. \A k \in 0 .. n - 1 : f[k] = g[k]
    BY <2>1, <2>3
  <2>5. \A k \in 0 .. n : k # 0 => f[k - 1] = g[k - 1]
    <3> HIDE DEF f
    <3> QED
      BY <2>4
  <2>6. f = [k \in 0 .. n |-> IF k = 0 THEN NoTurn ELSE Turn(c, f[k - 1], k)]
    BY <2>5
  <2> HIDE DEF f
  <2>7. TurnsTo(c, n, f)
    BY <2>6 DEF TurnsTo
  <2> QED
    BY <2>7
<1> QED
  BY <1>2, <1>3

\* After k turns: the chip index is on the device, and so are the chips of the forward
\* ops so far.
FwdUpTo(c, k) == {o \in Range(c.schedule) :
                    c.type[o] = "fwd" /\ \E j \in 1 .. k : c.schedule[j] = o}
TurnOk(c, t, k) == t.index \in 0 .. Len(c.chips) - 1
                   /\ DOMAIN t.chip = FwdUpTo(c, k)
                   /\ \A o \in DOMAIN t.chip : t.chip[o] \in Range(c.chips)

\* A turn keeps the index on the device and gives a forward op a chip of it.
LEMMA TurnStep ==
  ASSUME NEW c, ConfigOk(c), NEW k \in 1 .. Len(c.schedule), NEW t, TurnOk(c, t, k - 1)
  PROVE  TurnOk(c, Turn(c, t, k), k)
<1> DEFINE n == Len(c.chips)
           o == c.schedule[k]
           user_defined == c.chip_breaks # {} \/ n = 1
           ops_per_device == CeilDiv(Cardinality(OfType(c, "fwd")), n)
           move == user_defined /\ o \in c.chip_breaks /\ DOMAIN t.chip # {}
           at == (t.index + IF move THEN 1 ELSE 0) % n
           full == (Cardinality(DOMAIN t.chip) + 1) % ops_per_device = 0
           next == IF ~user_defined /\ full THEN (at + 1) % n ELSE at
           more == [p \in DOMAIN t.chip \cup {o} |->
                           IF p = o THEN c.chips[at + 1] ELSE t.chip[p]]
<1>1. /\ c.chips \in Seq(Nat) /\ c.chips # <<>>
      /\ c.schedule \in Seq(Op) /\ IsInjective(c.schedule)
  BY DEF ConfigOk
<1>2. Turn(c, t, k) = IF o \notin OfType(c, "fwd") THEN [index |-> at, chip |-> t.chip]
                      ELSE [index |-> next, chip |-> more]
  BY DEF Turn
<1>3. n \in Pos
  BY <1>1 DEF Pos
<1>4. t.index \in 0 .. n - 1 /\ DOMAIN t.chip = FwdUpTo(c, k - 1)
      /\ \A p \in DOMAIN t.chip : t.chip[p] \in Range(c.chips)
  BY DEF TurnOk
<1>5. o \in Range(c.schedule) /\ DOMAIN c.schedule = 1 .. Len(c.schedule) /\ k \in Nat
  BY <1>1 DEF Range
<1> HIDE DEF n, o, move, user_defined, full
<1>6. at \in 0 .. n - 1
  <2>1. (t.index + IF move THEN 1 ELSE 0) \in Int
    BY <1>3, <1>4 DEF Pos
  <2> QED
    BY <2>1, <1>3, ModRange
<1> HIDE DEF at
<1>7. next \in 0 .. n - 1
  <2>1. (at + 1) \in Int
    BY <1>6, <1>3 DEF Pos
  <2>2. (at + 1) % n \in 0 .. n - 1
    BY <2>1, <1>3, ModRange
  <2> QED
    BY <2>2, <1>6
<1> HIDE DEF next
<1>8. c.chips[at + 1] \in Range(c.chips)
  <2>1. at + 1 \in 1 .. n
    BY <1>6, <1>3 DEF Pos
  <2>2. DOMAIN c.chips = 1 .. n
    BY <1>1 DEF n
  <2> QED
    BY <2>1, <2>2 DEF Range
<1>9. \A j \in 1 .. k : j = k \/ j \in 1 .. k - 1
  BY <1>5
<1>10. \A j \in 1 .. k - 1 : j \in 1 .. k
  BY <1>5
<1>11. CASE o \notin OfType(c, "fwd")
  <2>1. c.type[o] # "fwd"
    BY <1>5, <1>11 DEF OfType
  <2>2. FwdUpTo(c, k) = FwdUpTo(c, k - 1)
    BY <2>1, <1>9, <1>10 DEF FwdUpTo, o
  <2>3. Turn(c, t, k) = [index |-> at, chip |-> t.chip]
    BY <1>2, <1>11
  <2> QED
    BY <2>2, <2>3, <1>4, <1>6 DEF TurnOk, n
<1>12. CASE o \in OfType(c, "fwd")
  <2>1. c.type[o] = "fwd"
    BY <1>5, <1>12 DEF OfType
  <2>4. k \in 1 .. k
    BY <1>5
  <2>2. FwdUpTo(c, k) = FwdUpTo(c, k - 1) \cup {o}
    BY <2>1, <1>9, <1>10, <1>5, <2>4 DEF FwdUpTo, o
  <2>3. Turn(c, t, k) = [index |-> next, chip |-> more]
    BY <1>2, <1>12
  <2>5. DOMAIN more = DOMAIN t.chip \cup {o}
        /\ \A p \in DOMAIN more : more[p] = IF p = o THEN c.chips[at + 1] ELSE t.chip[p]
    OBVIOUS
  <2> HIDE DEF more
  <2>6. \A p \in DOMAIN more : more[p] \in Range(c.chips)
    BY <2>5, <1>4, <1>8
  <2>7. DOMAIN more = FwdUpTo(c, k)
    BY <2>2, <2>5, <1>4
  <2> QED
    BY <2>3, <2>6, <2>7, <1>7 DEF TurnOk, n
<1> QED
  BY <1>11, <1>12

\* After every turn the chips given are chips of the device, for the forward ops so far.
LEMMA TurnsOk ==
  ASSUME NEW c, ConfigOk(c), NEW f, TurnsTo(c, Len(c.schedule), f), NEW k \in 0 .. Len(c.schedule)
  PROVE  TurnOk(c, f[k], k)
<1> DEFINE N == Len(c.schedule)
           Bad == {j \in 0 .. N : ~TurnOk(c, f[j], j)}
<1> SUFFICES ASSUME k \in Bad PROVE FALSE
  OBVIOUS
<1>0. c.chips \in Seq(Nat) /\ c.chips # <<>> /\ c.schedule \in Seq(Op)
  BY DEF ConfigOk
<1>1. Bad \subseteq Nat /\ N \in Nat
  BY <1>0
<1>2. PICK j \in Bad : \A i \in Bad : j <= i
  BY <1>1, Least
<1>3. f = [i \in 0 .. N |-> IF i = 0 THEN NoTurn ELSE Turn(c, f[i - 1], i)]
  BY DEF TurnsTo
<1>4. CASE j = 0
  <2>1. f[0] = NoTurn
    BY <1>1, <1>3
  <2>2. FwdUpTo(c, 0) = {}
    BY DEF FwdUpTo
  <2>3. 0 \in 0 .. Len(c.chips) - 1
    BY <1>0
  <2>4. NoTurn.index = 0 /\ NoTurn.chip = <<>>
    BY DEF NoTurn
  <2>5. DOMAIN <<>> = {}
    OBVIOUS
  <2>6. TurnOk(c, f[0], 0)
    BY <2>1, <2>2, <2>3, <2>4, <2>5 DEF TurnOk
  <2> QED
    BY <1>2, <1>4, <2>6
<1>5. CASE j # 0
  <2>1. j \in 1 .. N /\ j - 1 \in 0 .. N /\ j - 1 \notin Bad
    BY <1>1, <1>2, <1>5
  <2>2. f[j] = Turn(c, f[j - 1], j)
    BY <2>1, <1>3, <1>5
  <2>3. TurnOk(c, f[j - 1], j - 1)
    BY <2>1
  <2>4. TurnOk(c, f[j], j)
    BY <2>1, <2>2, <2>3, TurnStep
  <2> QED
    BY <2>4, <1>2
<1> QED
  BY <1>4, <1>5

\* Every forward op gets a chip of the device (fwd_op_to_chip_id_placement).
LEMMA FwdChips ==
  ASSUME NEW c, ConfigOk(c)
  PROVE  /\ DOMAIN fwd_op_to_chip_id_placement(c) = OfType(c, "fwd")
         /\ \A o \in OfType(c, "fwd") : fwd_op_to_chip_id_placement(c)[o] \in Range(c.chips)
<1> DEFINE N == Len(c.schedule)
           turn == CHOOSE f : f = [k \in 0 .. N |-> IF k = 0 THEN NoTurn ELSE Turn(c, f[k - 1], k)]
<1>0. c.schedule \in Seq(Op)
  BY DEF ConfigOk
<1>1. fwd_op_to_chip_id_placement(c) = turn[N].chip
  BY DEF fwd_op_to_chip_id_placement, NoTurn
<1>2. TurnsTo(c, N, turn)
  BY <1>0, TurnsExist DEF TurnsTo
<1> HIDE DEF turn
<1>3. TurnOk(c, turn[N], N)
  BY <1>0, <1>2, TurnsOk
<1>4. FwdUpTo(c, N) = OfType(c, "fwd")
  BY <1>0 DEF FwdUpTo, OfType, Range
<1> QED
  BY <1>1, <1>3, <1>4 DEF TurnOk

(* Every scheduled op of a Grayskull device has a chip of the device.        *)
LEMMA ChipsAssigned ==
  ASSUME NEW c, ConfigOk(c), c.arch = "grayskull"
  PROVE  get_op_to_chip_id_assignment(c) \in [Range(c.schedule) -> Range(c.chips)]
<1> DEFINE chip == fwd_op_to_chip_id_placement(c)
           owners(o, of) == {k \in DOMAIN c.schedule :
                             /\ c.schedule[k] \in OfType(c, "fwd") \cap DOMAIN of
                             /\ o \in of[c.schedule[k]]}
           owner(o) == IF c.type[o] = "fwd" THEN o
                       ELSE IF c.type[o] = "bwd" THEN c.schedule[Min(owners(o, c.fwd_to_bwd))]
                       ELSE c.schedule[Max(owners(o, c.fwd_to_opt))]
<1>6. c.schedule \in Seq(Op) /\ c.type \in [Op -> {"fwd", "bwd", "opt"}]
  BY DEF ConfigOk
<1>8. AllOwned(c)
  BY DEF ConfigOk
<1>7. \A o \in Range(c.schedule) : /\ c.type[o] = "bwd" => Owned(c, o, c.fwd_to_bwd)
                                   /\ c.type[o] = "opt" => Owned(c, o, c.fwd_to_opt)
  BY <1>8 DEF AllOwned, OfType
<1>0. /\ c.schedule \in Seq(Op) /\ DOMAIN c.schedule = 1 .. Len(c.schedule) /\ Len(c.schedule) \in Nat
      /\ c.type \in [Op -> {"fwd", "bwd", "opt"}]
      /\ \A o \in Range(c.schedule) : /\ c.type[o] = "bwd" => Owned(c, o, c.fwd_to_bwd)
                                      /\ c.type[o] = "opt" => Owned(c, o, c.fwd_to_opt)
  BY <1>6, <1>7
<1>1. get_op_to_chip_id_assignment(c) = [o \in Range(c.schedule) |-> chip[owner(o)]]
  BY DEF get_op_to_chip_id_assignment
<1>2. ASSUME NEW o, NEW of, Owned(c, o, of)
      PROVE  owners(o, of) \subseteq 0 .. Len(c.schedule) /\ owners(o, of) # {}
  <2>1. PICK p \in OfType(c, "fwd") \cap DOMAIN of : o \in of[p]
    BY <1>2 DEF Owned
  <2>2. PICK k \in DOMAIN c.schedule : c.schedule[k] = p
    BY <2>1 DEF OfType, Range
  <2> QED
    BY <2>1, <2>2, <1>0
<1>3. \A o, of : \A k \in owners(o, of) : c.schedule[k] \in OfType(c, "fwd")
  OBVIOUS
<1> HIDE DEF owners
<1>4. ASSUME NEW o \in Range(c.schedule) PROVE owner(o) \in OfType(c, "fwd")
  <2>1. o \in Op
    BY <1>0 DEF Range
  <2>2. c.type[o] \in {"fwd", "bwd", "opt"}
    BY <2>1, <1>0
  <2>3. CASE c.type[o] = "fwd"
    BY <2>3 DEF OfType
  <2>4. CASE c.type[o] = "bwd"
    <3>1. owners(o, c.fwd_to_bwd) \subseteq Nat /\ owners(o, c.fwd_to_bwd) # {}
      BY <1>0, <1>2, <2>4
    <3>2. Min(owners(o, c.fwd_to_bwd)) \in owners(o, c.fwd_to_bwd)
      BY <3>1, Smallest
    <3> QED
      BY <3>2, <1>3, <2>4
  <2>5. CASE c.type[o] = "opt"
    <3>1. owners(o, c.fwd_to_opt) \subseteq 0 .. Len(c.schedule) /\ owners(o, c.fwd_to_opt) # {}
      BY <1>0, <1>2, <2>5
    <3>2. Max(owners(o, c.fwd_to_opt)) \in owners(o, c.fwd_to_opt)
      BY <3>1, <1>0, Greatest
    <3> QED
      BY <3>2, <1>3, <2>5
  <2> QED
    BY <2>2, <2>3, <2>4, <2>5
<1> HIDE DEF owner, chip
<1>5. \A o \in OfType(c, "fwd") : chip[o] \in Range(c.chips)
  BY FwdChips DEF chip
<1> QED
  BY <1>1, <1>4, <1>5

-----------------------------------------------------------------------------
(***************************************************************************)
(* The calls of place_onto_chip divide the schedule.                       *)
(***************************************************************************)
TypeName == {"fwd", "bwd", "opt"}
LoadRecord == [type : TypeName, chip : Nat, ops : Seq(Op)]

\* Ops of one type and, on a galaxy, both or neither of the gradient ops.
SameKind(c, o, p) == c.type[o] = c.type[p] /\ (c.arch = "galaxy" => (o \in c.grad <=> p \in c.grad))

\* The loads L are the passes over the schedule of the ops S[1], S[2], ...
Divides(c, L, S) ==
    /\ L \in Seq(LoadRecord)
    /\ S \in [DOMAIN L -> SUBSET Range(c.schedule)]
    /\ \A k \in DOMAIN L : L[k].ops = Filter(c.schedule, S[k])
    /\ \A k \in DOMAIN L : \A o \in S[k] : c.type[o] = L[k].type
    /\ \A o \in Range(c.schedule) : \E k \in DOMAIN L : o \in S[k]
    /\ \A k, l \in DOMAIN L : k # l => S[k] \cap S[l] = {}
    /\ \A k, l \in DOMAIN L : \A o \in S[k], p \in S[l] :
          SameKind(c, o, p) /\ (c.arch = "grayskull" => L[k].chip = L[l].chip) => k = l

\* A function on 1 .. n is a sequence.
LEMMA IsSequence ==
  ASSUME NEW n \in Nat, NEW X, NEW f \in [1 .. n -> X]
  PROVE  f \in Seq(X)
OBVIOUS

\* What the schedule holds.
LEMMA ScheduleTypes ==
  ASSUME NEW c, ConfigOk(c)
  PROVE  /\ c.schedule \in Seq(Op) /\ Range(c.schedule) \subseteq Op
         /\ \A o \in Range(c.schedule) : c.type[o] \in TypeName
<1>1. c.schedule \in Seq(Op) /\ c.type \in [Op -> {"fwd", "bwd", "opt"}]
  BY DEF ConfigOk
<1>2. Range(c.schedule) \subseteq Op
  BY <1>1 DEF Range
<1> QED
  BY <1>1, <1>2 DEF TypeName

\* The three calls of a Wormhole device divide the schedule.
LEMMA WormholeDivides ==
  ASSUME NEW c, ConfigOk(c), c.arch = "wormhole"
  PROVE  \E S : Divides(c, wormhole_loads(c), S)
<1> DEFINE L == wormhole_loads(c)
           S == [k \in 1 .. 3 |-> OfType(c, Types[k])]
<1>1. \A k \in 1 .. 3 : Types[k] \in TypeName
  BY DEF Types, TypeName
<1>2. \A t \in TypeName : \E k \in 1 .. 3 : Types[k] = t
  <2>1. Types[1] = "fwd" /\ Types[2] = "bwd" /\ Types[3] = "opt"
    BY DEF Types
  <2> QED
    BY <2>1 DEF TypeName
<1>3. \A k, l \in 1 .. 3 : Types[k] = Types[l] => k = l
  BY DEF Types
<1>4. /\ c.schedule \in Seq(Op) /\ Range(c.schedule) \subseteq Op
      /\ \A o \in Range(c.schedule) : c.type[o] \in TypeName
  BY ScheduleTypes
<1>5. L = [i \in 1 .. 3 |-> Load(Types[i], 0, Filter(c.schedule, OfType(c, Types[i])))]
  BY DEF wormhole_loads
<1> HIDE DEF L
<1>6. \A k \in 1 .. 3 : L[k] = [type |-> Types[k], chip |-> 0, ops |-> Filter(c.schedule, S[k])]
  BY <1>5 DEF Load
<1>7. \A k \in 1 .. 3 : Filter(c.schedule, S[k]) \in Seq(Op)
  BY <1>4, FilterRange
<1>8. L \in Seq(LoadRecord) /\ DOMAIN L = 1 .. 3
  <2>1. \A k \in 1 .. 3 : L[k] \in LoadRecord
    BY <1>1, <1>6, <1>7 DEF LoadRecord
  <2>2. DOMAIN L = 1 .. 3 /\ L = [k \in 1 .. 3 |-> L[k]]
    BY <1>5
  <2>3. L \in [1 .. 3 -> LoadRecord]
    BY <2>1, <2>2
  <2> QED
    BY <2>3, IsSequence
<1>9. \A k \in 1 .. 3 : S[k] = {o \in Range(c.schedule) : c.type[o] = Types[k]}
  BY DEF OfType
<1>10. S \in [DOMAIN L -> SUBSET Range(c.schedule)]
  BY <1>8 DEF OfType
<1> HIDE DEF S
<1>11. \A k \in 1 .. 3 : L[k].ops = Filter(c.schedule, S[k]) /\ L[k].type = Types[k]
  BY <1>6
<1>12. \A k \in 1 .. 3 : \A o \in S[k] : c.type[o] = Types[k]
  BY <1>9
<1>13. \A o \in Range(c.schedule) : \E k \in 1 .. 3 : o \in S[k]
  BY <1>2, <1>4, <1>9
<1>14. \A k, l \in 1 .. 3 : \A o \in S[k], p \in S[l] : c.type[o] = c.type[p] => k = l
  BY <1>3, <1>12
<1>15. \A k, l \in 1 .. 3 : k # l => S[k] \cap S[l] = {}
  BY <1>14
<1>16. Divides(c, L, S)
  BY <1>8, <1>10, <1>11, <1>12, <1>13, <1>14, <1>15 DEF Divides, SameKind
<1> QED
  BY <1>16 DEF L

\* The calls of a galaxy, without those that have no ops, divide the schedule.
LEMMA GalaxyDivides ==
  ASSUME NEW c, ConfigOk(c), c.arch = "galaxy"
  PROVE  \E S : Divides(c, galaxy_loads(c), S)
<1> DEFINE K == << OfType(c, "fwd"), OfType(c, "bwd") \ c.grad, OfType(c, "bwd") \cap c.grad,
                   OfType(c, "opt") >>
           T == << "fwd", "bwd", "bwd", "opt" >>
           load(t, ops) == Load(t, 0, Filter(c.schedule, ops))
           all == << load("fwd", OfType(c, "fwd")), load("bwd", OfType(c, "bwd") \ c.grad),
                  load("bwd", OfType(c, "bwd") \cap c.grad), load("opt", OfType(c, "opt")) >>
           L == galaxy_loads(c)
<1>1. /\ c.schedule \in Seq(Op) /\ Range(c.schedule) \subseteq Op
      /\ \A o \in Range(c.schedule) : c.type[o] \in TypeName
  BY ScheduleTypes
<1>2. \A i \in 1 .. 4 : K[i] \subseteq Range(c.schedule) /\ \A o \in K[i] : c.type[o] = T[i]
  BY DEF OfType
<1>3. \A o \in Range(c.schedule) : \E i \in 1 .. 4 : o \in K[i]
  <2> SUFFICES ASSUME NEW o \in Range(c.schedule) PROVE \E i \in 1 .. 4 : o \in K[i]
    OBVIOUS
  <2>1. o \in K[1] \/ o \in K[2] \/ o \in K[3] \/ o \in K[4]
    BY <1>1 DEF OfType, TypeName
  <2> QED
    BY <2>1
<1>4. \A i, j \in 1 .. 4 : \A o \in K[i], p \in K[j] :
         c.type[o] = c.type[p] /\ (o \in c.grad <=> p \in c.grad) => i = j
  <2> SUFFICES ASSUME NEW i \in 1 .. 4, NEW j \in 1 .. 4, NEW o \in K[i], NEW p \in K[j],
                      c.type[o] = c.type[p], o \in c.grad <=> p \in c.grad
               PROVE  i = j
    OBVIOUS
  <2>1. T[i] = T[j]
    BY <1>2
  <2>2. i = j \/ (i = 2 /\ j = 3) \/ (i = 3 /\ j = 2)
    BY <2>1
  <2>3. (i = 2 => o \notin c.grad) /\ (i = 3 => o \in c.grad)
    OBVIOUS
  <2>4. (j = 2 => p \notin c.grad) /\ (j = 3 => p \in c.grad)
    OBVIOUS
  <2> QED
    BY <2>2, <2>3, <2>4
<1>5. \A i \in 1 .. 4 : all[i] = [type |-> T[i], chip |-> 0, ops |-> Filter(c.schedule, K[i])]
  BY DEF Load
<1>6. DOMAIN all = 1 .. 4 /\ all \in Seq({all[i] : i \in 1 .. 4})
  OBVIOUS
<1>16. \A i \in 1 .. 4 : T[i] \in TypeName
  BY DEF TypeName
<1> DEFINE NonEmpty == {l \in Range(all) : l.ops # <<>>}
<1>7. L = Filter(all, NonEmpty)
  BY DEF galaxy_loads
<1> HIDE DEF K, T, all, L
<1>8. \A i \in 1 .. 4 : /\ Filter(c.schedule, K[i]) \in Seq(Op)
                        /\ Range(Filter(c.schedule, K[i])) = K[i]
  <2> SUFFICES ASSUME NEW i \in 1 .. 4
               PROVE  /\ Filter(c.schedule, K[i]) \in Seq(Op)
                      /\ Range(Filter(c.schedule, K[i])) = K[i]
    OBVIOUS
  <2>1. /\ Filter(c.schedule, K[i]) \in Seq(Op)
        /\ Range(Filter(c.schedule, K[i])) = Range(c.schedule) \cap K[i]
    BY <1>1, FilterRange
  <2> QED
    BY <2>1, <1>2
<1>9. \A i \in 1 .. 4 : all[i] \in LoadRecord
  BY <1>5, <1>8, <1>16 DEF LoadRecord
<1>10. all \in Seq(LoadRecord)
  <2>1. all \in [1 .. 4 -> LoadRecord]
    BY <1>6, <1>9
  <2> QED
    BY <2>1, IsSequence
<1>11. L \in Seq(LoadRecord) /\ \E at : Selects(L, at, all, NonEmpty)
  <2> HIDE DEF NonEmpty
  <2> QED
    BY <1>7, <1>10, FilterKeeps
<1>12. PICK at : Selects(L, at, all, NonEmpty)
  BY <1>11
<1>13. /\ at \in [DOMAIN L -> 1 .. 4]
       /\ \A k \in DOMAIN L : L[k] = all[at[k]]
       /\ \A k, l \in DOMAIN L : k < l => at[k] < at[l]
       /\ \A i \in 1 .. 4 : all[i] \in NonEmpty => \E k \in DOMAIN L : at[k] = i
  BY <1>6, <1>12 DEF Selects
<1>14. \A k, l \in DOMAIN L : at[k] = at[l] => k = l
  <2> SUFFICES ASSUME NEW k \in DOMAIN L, NEW l \in DOMAIN L, at[k] = at[l] PROVE k = l
    OBVIOUS
  <2>1. k \in Nat /\ l \in Nat /\ at[k] \in Nat /\ at[l] \in Nat
    BY <1>11, <1>13
  <2>2. ~(k < l) /\ ~(l < k)
    BY <2>1, <1>13
  <2> QED
    BY <2>1, <2>2
<1> DEFINE S == [k \in DOMAIN L |-> K[at[k]]]
<1>15. S \in [DOMAIN L -> SUBSET Range(c.schedule)]
  BY <1>2, <1>13
<1>17. \A k \in DOMAIN L : /\ L[k].ops = Filter(c.schedule, S[k]) /\ L[k].type = T[at[k]]
                           /\ S[k] = K[at[k]]
  BY <1>5, <1>13
<1>18. \A o \in Range(c.schedule) : \E k \in DOMAIN L : o \in S[k]
  <2> SUFFICES ASSUME NEW o \in Range(c.schedule) PROVE \E k \in DOMAIN L : o \in S[k]
    OBVIOUS
  <2>1. PICK i \in 1 .. 4 : o \in K[i]
    BY <1>3
  <2>2. all[i].ops = Filter(c.schedule, K[i])
    BY <1>5
  <2>3. Filter(c.schedule, K[i]) # <<>>
    <3>1. Range(Filter(c.schedule, K[i])) = K[i]
      BY <1>8
    <3>2. Range(<<>>) = {}
      BY DEF Range
    <3> QED
      BY <2>1, <3>1, <3>2
  <2>4. all[i] \in NonEmpty
    BY <1>6, <2>2, <2>3 DEF Range
  <2>5. PICK k \in DOMAIN L : at[k] = i
    BY <2>4, <1>13
  <2> QED
    BY <2>1, <2>5, <1>17
<1> HIDE DEF S
<1>19. \A k, l \in DOMAIN L : \A o \in S[k], p \in S[l] :
         c.type[o] = c.type[p] /\ (o \in c.grad <=> p \in c.grad) => k = l
  BY <1>4, <1>13, <1>14, <1>17
<1>20. \A k, l \in DOMAIN L : k # l => S[k] \cap S[l] = {}
  BY <1>19
<1>21. \A k \in DOMAIN L : \A o \in S[k] : c.type[o] = L[k].type
  BY <1>2, <1>13, <1>17
<1>22. Divides(c, L, S)
  BY <1>11, <1>15, <1>17, <1>18, <1>19, <1>20, <1>21 DEF Divides, SameKind
<1> QED
  BY <1>22 DEF L

\* Sorted(S) lists S once (the keys of a std::map).
LEMMA SortedIsSorted ==
  ASSUME NEW S, S \subseteq Nat, IsFiniteSet(S)
  PROVE  Sorted(S) \in Seq(Nat) /\ IsInjective(Sorted(S)) /\ Range(Sorted(S)) = S
<1> DEFINE n == Cardinality(S)
           f == Sorted(S)
<1>6. S \subseteq Int
  OBVIOUS
<1>1. /\ n \in Nat
      /\ \A i \in 1 .. n : Nth(S, i) \in S
      /\ \A i, j \in 1 .. n : i < j => Nth(S, i) < Nth(S, j)
      /\ \A x \in S : \E i \in 1 .. n : x = Nth(S, i)
  BY <1>6, NthInOrder
<1>2. f = [i \in 1 .. n |-> Nth(S, i)]
  BY DEF Sorted
<1> HIDE DEF f, n
<1>3. f \in Seq(Nat) /\ DOMAIN f = 1 .. n
  <2>1. f \in [1 .. n -> Nat]
    BY <1>1, <1>2
  <2> QED
    BY <2>1, <1>1, IsSequence
<1>4. Range(f) = S
  BY <1>1, <1>2 DEF Range
<1>5. IsInjective(f)
  <2> SUFFICES ASSUME NEW i \in 1 .. n, NEW j \in 1 .. n, f[i] = f[j] PROVE i = j
    BY <1>3 DEF IsInjective
  <2>1. Nth(S, i) = Nth(S, j) /\ Nth(S, i) \in Nat /\ Nth(S, j) \in Nat
    BY <1>1, <1>2
  <2>2. ~(i < j) /\ ~(j < i)
    BY <2>1, <1>1
  <2> QED
    BY <2>2, <1>1
<1> QED
  BY <1>3, <1>4, <1>5 DEF f

\* The calls of a Grayskull device: per type, one for each chip with an op.
ChipOf(c) == get_op_to_chip_id_assignment(c)
OnChip(c, t, chip) == {o \in OfType(c, t) : ChipOf(c)[o] = chip}
LoadOf(c, t, chip) == Load(t, chip, Filter(c.schedule, OnChip(c, t, chip)))
PerChip(c, t) == [i \in DOMAIN get_chip_id_order(c, t) |-> LoadOf(c, t, get_chip_id_order(c, t)[i])]

\* get_chip_id_order lists every chip with an op once, for every type.
LEMMA OrderOfChips ==
  ASSUME NEW c, ConfigOk(c), c.arch = "grayskull", NEW t
  PROVE  /\ get_chip_id_order(c, t) \in Seq(Nat) /\ IsInjective(get_chip_id_order(c, t))
         /\ Range(get_chip_id_order(c, t)) = Range(ChipOf(c))
         /\ Range(ChipOf(c)) \subseteq Nat
<1> DEFINE C == Range(ChipOf(c))
<1>1. c.chips \in Seq(Nat) /\ IsInjective(c.chips)
  BY DEF ConfigOk
<1>9. ChipOf(c) \in [Range(c.schedule) -> Range(c.chips)]
  BY ChipsAssigned DEF ChipOf
<1>2. C \subseteq Range(c.chips)
  <2> DEFINE f == ChipOf(c)
  <2> HIDE DEF f
  <2>1. f \in [Range(c.schedule) -> Range(c.chips)]
    BY <1>9 DEF f
  <2>2. \A x \in DOMAIN f : f[x] \in Range(c.chips)
    BY <2>1
  <2>3. {f[x] : x \in DOMAIN f} \subseteq Range(c.chips)
    BY <2>2
  <2> QED
    BY <2>3 DEF Range, f
<1>3. Range(c.chips) \subseteq Nat
  BY <1>1 DEF Range
<1>4. IsFiniteSet(Range(c.chips))
  BY <1>1, LengthOfInjective
<1>5. C \subseteq Nat /\ IsFiniteSet(C)
  BY <1>2, <1>3, <1>4, FS_Subset
<1>6. get_chip_id_order(c, t) = IF t = "bwd" THEN Reverse(Sorted(C)) ELSE Sorted(C)
  BY DEF get_chip_id_order, ChipOf
<1> HIDE DEF C
<1>7. Sorted(C) \in Seq(Nat) /\ IsInjective(Sorted(C)) /\ Range(Sorted(C)) = C
  BY <1>5, SortedIsSorted
<1>8. Reverse(Sorted(C)) \in Seq(Nat) /\ IsInjective(Reverse(Sorted(C))) /\ Range(Reverse(Sorted(C))) = C
  BY <1>7, Reversed
<1> QED
  BY <1>5, <1>6, <1>7, <1>8 DEF C

\* On Grayskull there is one call per type for every chip with an op.
LEMMA LoadsOfType ==
  ASSUME NEW c, ConfigOk(c), c.arch = "grayskull", NEW t \in TypeName
  PROVE  /\ PerChip(c, t) \in Seq(LoadRecord) /\ IsInjective(PerChip(c, t))
         /\ Range(PerChip(c, t)) = {LoadOf(c, t, chip) : chip \in Range(ChipOf(c))}
<1> DEFINE order == get_chip_id_order(c, t)
           C == Range(ChipOf(c))
           p == PerChip(c, t)
<1>1. order \in Seq(Nat) /\ IsInjective(order) /\ Range(order) = C /\ C \subseteq Nat
  BY OrderOfChips
<1>2. p = [i \in DOMAIN order |-> LoadOf(c, t, order[i])]
  BY DEF PerChip
<1>3. \A chip : /\ LoadOf(c, t, chip).chip = chip
                /\ LoadOf(c, t, chip)
                     = [type |-> t, chip |-> chip, ops |-> Filter(c.schedule, OnChip(c, t, chip))]
  BY DEF LoadOf, Load
<1> HIDE DEF order, C, p
<1>4. \A chip \in Nat : LoadOf(c, t, chip) \in LoadRecord
  <2>1. \A S : Filter(c.schedule, S) \in Seq(Op)
    <3>1. c.schedule \in Seq(Op)
      BY ScheduleTypes
    <3> QED
      BY <3>1, FilterRange
  <2> QED
    BY <1>3, <2>1 DEF LoadRecord
<1>5. p \in Seq(LoadRecord) /\ DOMAIN p = DOMAIN order
  <2>1. Len(order) \in Nat /\ DOMAIN order = 1 .. Len(order) /\ \A i \in DOMAIN order : order[i] \in Nat
    BY <1>1
  <2>2. p \in [1 .. Len(order) -> LoadRecord]
    BY <1>2, <1>4, <2>1
  <2> QED
    BY <1>2, <2>1, <2>2, IsSequence
<1>6. IsInjective(p)
  <2> SUFFICES ASSUME NEW i \in DOMAIN order, NEW j \in DOMAIN order, p[i] = p[j] PROVE i = j
    BY <1>5 DEF IsInjective
  <2>1. order[i] = order[j]
    BY <1>2, <1>3
  <2> QED
    BY <2>1, <1>1 DEF IsInjective
<1>7. Range(p) = {LoadOf(c, t, chip) : chip \in C}
  BY <1>1, <1>2, <1>5 DEF Range
<1> QED
  BY <1>5, <1>6, <1>7 DEF p, C

\* The calls of a Grayskull device, by type and chip, divide the schedule.
LEMMA GrayskullDivides ==
  ASSUME NEW c, ConfigOk(c), c.arch = "grayskull"
  PROVE  \E S : Divides(c, grayskull_loads(c), S)
<1> DEFINE L == grayskull_loads(c)
           C == Range(ChipOf(c))
           F == PerChip(c, "fwd")
           B == PerChip(c, "bwd")
           O == PerChip(c, "opt")
           All(t) == {LoadOf(c, t, chip) : chip \in C}
<1>1. L = (F \o B) \o O
  BY DEF grayskull_loads, PerChip, LoadOf, OnChip, ChipOf
<1>2. /\ F \in Seq(LoadRecord) /\ IsInjective(F) /\ Range(F) = All("fwd")
      /\ B \in Seq(LoadRecord) /\ IsInjective(B) /\ Range(B) = All("bwd")
      /\ O \in Seq(LoadRecord) /\ IsInjective(O) /\ Range(O) = All("opt")
  BY LoadsOfType DEF TypeName
<1>3. \A t, chip : /\ LoadOf(c, t, chip).chip = chip /\ LoadOf(c, t, chip).type = t
                   /\ LoadOf(c, t, chip).ops = Filter(c.schedule, OnChip(c, t, chip))
  BY DEF LoadOf, Load
<1> HIDE DEF L, C, F, B, O
<1>4. \A t, u : t # u => All(t) \cap All(u) = {}
  <2> SUFFICES ASSUME NEW t, NEW u, t # u, NEW l \in All(t), l \in All(u) PROVE FALSE
    OBVIOUS
  <2>1. l.type = t /\ l.type = u
    BY <1>3
  <2> QED
    BY <2>1
<1> HIDE DEF All
<1> DEFINE FB == F \o B
<1>5. FB \in Seq(LoadRecord) /\ IsInjective(FB) /\ Range(FB) = All("fwd") \cup All("bwd")
  BY <1>2, <1>4, Concatenation
<1> HIDE DEF FB
<1>6. (All("fwd") \cup All("bwd")) \cap All("opt") = {}
  BY <1>4
<1>7. /\ L \in Seq(LoadRecord) /\ IsInjective(L)
      /\ Range(L) = (All("fwd") \cup All("bwd")) \cup All("opt")
  <2>1. L = FB \o O
    BY <1>1 DEF FB
  <2> QED
    BY <1>2, <1>5, <1>6, <2>1, Concatenation
<1>8. \A k \in DOMAIN L : L[k] = LoadOf(c, L[k].type, L[k].chip)
  <2> SUFFICES ASSUME NEW k \in DOMAIN L PROVE L[k] = LoadOf(c, L[k].type, L[k].chip)
    OBVIOUS
  <2>1. L[k] \in Range(L)
    BY DEF Range
  <2>2. PICK t : L[k] \in All(t)
    BY <1>7, <2>1
  <2> QED
    BY <2>2, <1>3 DEF All
<1>9. \A t \in TypeName, chip \in C : \E k \in DOMAIN L : L[k] = LoadOf(c, t, chip)
  <2> SUFFICES ASSUME NEW t \in TypeName, NEW chip \in C
               PROVE  \E k \in DOMAIN L : L[k] = LoadOf(c, t, chip)
    OBVIOUS
  <2>1. LoadOf(c, t, chip) \in All(t)
    BY DEF All
  <2>2. LoadOf(c, t, chip) \in Range(L)
    BY <1>7, <2>1 DEF TypeName
  <2> QED
    BY <2>2 DEF Range
<1> DEFINE S == [k \in DOMAIN L |-> OnChip(c, L[k].type, L[k].chip)]
<1>10. \A k \in DOMAIN L : L[k].ops = Filter(c.schedule, S[k])
  BY <1>3, <1>8
<1>11. S \in [DOMAIN L -> SUBSET Range(c.schedule)]
  BY DEF OnChip, OfType
<1>12. \A k \in DOMAIN L : \A o \in S[k] : c.type[o] = L[k].type /\ ChipOf(c)[o] = L[k].chip
  BY DEF OnChip, OfType
<1>13. \A o \in Range(c.schedule) : \E k \in DOMAIN L : o \in S[k]
  <2> SUFFICES ASSUME NEW o \in Range(c.schedule) PROVE \E k \in DOMAIN L : o \in S[k]
    OBVIOUS
  <2>1. c.type[o] \in TypeName
    BY ScheduleTypes
  <2>2. ChipOf(c)[o] \in C
    BY ChipsAssigned DEF ChipOf, C, Range
  <2>3. PICK k \in DOMAIN L : L[k] = LoadOf(c, c.type[o], ChipOf(c)[o])
    BY <2>1, <2>2, <1>9
  <2>4. L[k].type = c.type[o] /\ L[k].chip = ChipOf(c)[o]
    BY <2>3, <1>3
  <2> QED
    BY <2>4 DEF OnChip, OfType
<1> HIDE DEF S
<1>14. \A k, l \in DOMAIN L : L[k].type = L[l].type /\ L[k].chip = L[l].chip => k = l
  <2> SUFFICES ASSUME NEW k \in DOMAIN L, NEW l \in DOMAIN L,
                      L[k].type = L[l].type, L[k].chip = L[l].chip
               PROVE  k = l
    OBVIOUS
  <2>1. L[k] = L[l]
    BY <1>8
  <2> QED
    BY <2>1, <1>7 DEF IsInjective
<1>15. \A k, l \in DOMAIN L : k # l => S[k] \cap S[l] = {}
  BY <1>12, <1>14
<1>16. \A k, l \in DOMAIN L : \A o \in S[k], p \in S[l] :
          c.type[o] = c.type[p] /\ L[k].chip = L[l].chip => k = l
  BY <1>12, <1>14
<1>17. Divides(c, L, S)
  BY <1>7, <1>10, <1>11, <1>12, <1>13, <1>15, <1>16 DEF Divides, SameKind
<1> QED
  BY <1>17 DEF L

\* The calls of place_onto_chip divide the schedule, on every architecture.
LEMMA LoadsDivide ==
  ASSUME NEW c, ConfigOk(c)
  PROVE  /\ \E S : Divides(c, Loads(c), S)
         /\ Loads(c) \in Seq(LoadRecord) /\ Loads(c) # <<>>
<1>1. c.arch \in {"grayskull", "wormhole", "galaxy"} /\ c.schedule \in Seq(Op) /\ c.schedule # <<>>
  BY DEF ConfigOk
<1>2. \E S : Divides(c, Loads(c), S)
  BY <1>1, GrayskullDivides, WormholeDivides, GalaxyDivides DEF Loads
<1>3. PICK S : Divides(c, Loads(c), S)
  BY <1>2
<1> DEFINE L == Loads(c)
<1> HIDE DEF L
<1>4. L \in Seq(LoadRecord) /\ \A o \in Range(c.schedule) : \E k \in DOMAIN L : o \in S[k]
  BY <1>3 DEF Divides, L
<1>5. c.schedule[1] \in Range(c.schedule)
  BY <1>1 DEF Range
<1>6. L # <<>>
  BY <1>4, <1>5
<1> QED
  BY <1>2, <1>4, <1>6 DEF L

-----------------------------------------------------------------------------
(***************************************************************************)
(* The type invariant.                                                     *)
(***************************************************************************)
\* The values the variables range over.
Shapes == Pos \X Pos
Placement == [op : Op, start : Nat \X Nat, shape : Shapes, transposed : BOOLEAN]
EpochRecord == [chip : Nat, type : TypeName, temporal : Nat, spatial : Int, ops : Seq(Placement)]
Cursor == [epoch : Nat, first : Nat, temporal : Nat, spatial : Nat, forward : BOOLEAN,
           count : Nat, attempt : Nat, index : Nat]

\* The number of the calls of place_onto_chip that are over.
LoadsDone == Len(Loads(config)) - Len(loads)
LoadsInv ==
    /\ loads \in Seq(LoadRecord) /\ Len(loads) <= Len(Loads(config))
    /\ \A k \in DOMAIN loads : loads[k] = Loads(config)[LoadsDone + k]
    /\ phase \in {"place", "assign"} => loads # <<>>
PlacerInv ==
    /\ remaining \in Seq(Op) /\ again \in Seq(Op) /\ placed \in Seq(Op)
    /\ active \in Seq(Placement) /\ epochs \in Seq(Seq(Placement))
    /\ grid = [rows |-> config.rows, cols |-> config.cols, used |-> grid.used]
EpochInv ==
    /\ NumEpochs \in Nat /\ DOMAIN epoch = 0 .. NumEpochs - 1
    /\ \A i \in DOMAIN epoch : epoch[i] \in EpochRecord
CursorInv ==
    /\ cursor \in Cursor /\ cursor.index < NumChips
    /\ phase = "assign" => cursor.epoch <= NumEpochs
    /\ phase = "summary" => /\ cursor.epoch <= NumEpochs
                            /\ \A i \in 0 .. cursor.epoch - 1 : epoch[i].temporal <= cursor.temporal
TypeInv ==
    /\ config \in Configs
    /\ phase \in {"place", "assign", "summary", "done", "no_chip", "abort"}
    /\ LoadsInv /\ PlacerInv /\ EpochInv /\ CursorInv

\* What the configuration of a behaviour fulfils.
LEMMA ConfigFacts ==
  ASSUME config \in Configs
  PROVE  /\ ConfigOk(config) /\ config.rows \in Nat /\ config.cols \in Nat
         /\ config.chips \in Seq(Nat) /\ NumChips \in Pos /\ IsInjective(config.chips)
         /\ config.shape \in [Op -> Shapes]
         /\ \A op : OverrideOk(Override(op))
<1>1. ConfigOk(config)
  BY ConfigsAssumption
<1>2. \A o \in DOMAIN config.override : OverrideOk(config.override[o])
  BY <1>1 DEF ConfigOk
<1>3. OverrideOk(NoOverride)
  BY DEF OverrideOk, NoOverride, NoChip
<1>4. \A op : OverrideOk(Override(op))
  BY <1>2, <1>3 DEF Override, HasOverride
<1>5. /\ config.chips \in Seq(Nat) /\ config.chips # <<>> /\ IsInjective(config.chips)
      /\ config.rows \in Nat /\ config.cols \in Nat
  BY <1>1 DEF ConfigOk
<1>6. config.shape \in [Op -> Shapes]
  BY <1>1 DEF ConfigOk, Shapes, Pos
<1>7. NumChips \in Pos
  BY <1>5 DEF NumChips, Pos
<1> QED
  BY <1>1, <1>4, <1>5, <1>6, <1>7

\* The empty device grid has no occupied core.
LEMMA EmptyGridOk ==
  EmptyGrid = [rows |-> config.rows, cols |-> config.cols, used |-> EmptyGrid.used]
  /\ EmptyGrid.used = {}
BY DEF EmptyGrid, create_empty_device_grid

\* The cursor before the first of the epochs from e on.
Fresh(c, e, type, t) ==
    /\ c \in Cursor /\ c.index < NumChips /\ c.epoch = e /\ c.first = e
    /\ c.temporal = t /\ c.spatial = 0 /\ c.forward = TRUE /\ c.attempt = 0
    /\ c.index = IF type = "fwd" \/ (type = "opt" /\ config.arch # "galaxy") THEN 0 ELSE NumChips - 1

\* NewCursor is the first cursor over the epochs from e on.
LEMMA NewCursorOk ==
  ASSUME NEW e \in Nat, NEW type, NEW t \in Nat, NumChips \in Pos
  PROVE  Fresh(NewCursor(e, type, t), e, type, t)
<1> DEFINE i == IF type = "fwd" \/ (type = "opt" /\ config.arch # "galaxy") THEN 0 ELSE NumChips - 1
           c == NewCursor(e, type, t)
<1>1. c = [epoch |-> e, first |-> e, temporal |-> t, spatial |-> 0,
         forward |-> TRUE, count |-> 0, attempt |-> 0, index |-> i]
  BY DEF NewCursor
<1>2. i \in Nat /\ i < NumChips
  BY DEF Pos
<1> HIDE DEF i, c
<1>3. /\ c \in Cursor /\ c.index = i /\ c.epoch = e /\ c.first = e
      /\ c.temporal = t /\ c.spatial = 0 /\ c.forward = TRUE /\ c.attempt = 0
  BY <1>1, <1>2 DEF Cursor
<1> QED
  BY <1>2, <1>3 DEF i, c, Fresh

\* What advance_epoch does to a cursor that goes up or down.
Advanced(c, r, up, snake) ==
    /\ r \in Cursor /\ r.index < NumChips
    /\ r.epoch = c.epoch /\ r.first = c.first /\ r.count = c.count /\ r.attempt = c.attempt
    /\ \/ /\ c.index = IF up THEN NumChips - 1 ELSE 0
          /\ r.spatial = 0 /\ r.temporal = c.temporal + 1
          /\ r.index = IF snake THEN c.index ELSE IF up THEN 0 ELSE NumChips - 1
          /\ r.forward = IF snake THEN ~c.forward ELSE c.forward
       \/ /\ c.index # IF up THEN NumChips - 1 ELSE 0
          /\ r.spatial = c.spatial + 1 /\ r.temporal = c.temporal /\ r.forward = c.forward
          /\ r.index = IF up THEN c.index + 1 ELSE c.index - 1

\* advance_epoch moves the chip index by one or turns over the end, as Advanced says.
LEMMA AdvanceEpoch ==
  ASSUME NEW c \in Cursor, c.index < NumChips, NumChips \in Pos, NEW fwd, NEW snake
  PROVE  Advanced(c, advance_epoch(c, fwd, snake), IF snake THEN c.forward ELSE fwd, snake)
<1> DEFINE up == IF snake THEN c.forward ELSE fwd
           last == c.index = IF up THEN NumChips - 1 ELSE 0
           step == IF up THEN 1 ELSE -1
           r == advance_epoch(c, fwd, snake)
           index == IF snake THEN c.index ELSE IF up THEN 0 ELSE NumChips - 1
           forward == IF snake THEN ~c.forward ELSE c.forward
<1>1. r = IF last THEN [c EXCEPT !.spatial = 0, !.temporal = c.temporal + 1,
                         !.index = index, !.forward = forward]
          ELSE [c EXCEPT !.spatial = c.spatial + 1, !.index = c.index + step]
  BY DEF advance_epoch
<1>2. /\ c.epoch \in Nat /\ c.first \in Nat /\ c.temporal \in Nat /\ c.spatial \in Nat
      /\ c.forward \in BOOLEAN /\ c.count \in Nat /\ c.attempt \in Nat /\ c.index \in Nat
  BY DEF Cursor
<1>11. NumChips \in Nat /\ NumChips > 0
  BY DEF Pos
<1>3. index \in Nat /\ index < NumChips /\ forward \in BOOLEAN
  <2>1. index \in {c.index, 0, NumChips - 1}
    OBVIOUS
  <2>2. \A i \in {c.index, 0, NumChips - 1} : i \in Nat /\ i < NumChips
    BY <1>2, <1>11
  <2>3. forward \in {c.forward, ~c.forward}
    OBVIOUS
  <2> HIDE DEF index, forward
  <2> QED
    BY <1>2, <2>1, <2>2, <2>3
<1>4. ~last => /\ c.index + step \in Nat /\ c.index + step < NumChips
               /\ c.index + step = IF up THEN c.index + 1 ELSE c.index - 1
  <2> HIDE DEF up
  <2>1. CASE up
    BY <2>1, <1>2, <1>11
  <2>2. CASE ~up
    BY <2>2, <1>2, <1>11
  <2> QED
    BY <2>1, <2>2
<1>8. last <=> c.index = IF up THEN NumChips - 1 ELSE 0
  OBVIOUS
<1>9. index = IF snake THEN c.index ELSE IF up THEN 0 ELSE NumChips - 1
  OBVIOUS
<1>10. forward = IF snake THEN ~c.forward ELSE c.forward
  OBVIOUS
<1> HIDE DEF up, last, step, r, index, forward
<1>5. CASE last
  <2> DEFINE t == c.temporal + 1
  <2>1. r = [c EXCEPT !.spatial = 0, !.temporal = t, !.index = index, !.forward = forward]
    BY <1>1, <1>5
  <2>4. t \in Nat /\ t = c.temporal + 1
    BY <1>2
  <2> HIDE DEF t
  <2>2. r \in Cursor
    BY <2>1, <2>4, <1>2, <1>3 DEF Cursor
  <2>3. /\ r.epoch = c.epoch /\ r.first = c.first /\ r.count = c.count /\ r.attempt = c.attempt
        /\ r.spatial = 0 /\ r.temporal = t /\ r.index = index /\ r.forward = forward
    BY <2>1 DEF Cursor
  <2> QED
    BY <2>2, <2>4, <2>3, <1>3, <1>5, <1>8, <1>9, <1>10 DEF Advanced, r, up
<1>6. CASE ~last
  <2> DEFINE i == c.index + step
             s == c.spatial + 1
  <2>0. i \in Nat /\ i < NumChips /\ s \in Nat /\ i = IF up THEN c.index + 1 ELSE c.index - 1
    BY <1>2, <1>4, <1>6
  <2>1. r = [c EXCEPT !.spatial = s, !.index = i]
    BY <1>1, <1>6
  <2> HIDE DEF i
  <2>4. s = c.spatial + 1
    OBVIOUS
  <2> HIDE DEF s
  <2>2. r \in Cursor
    BY <2>0, <2>1, <1>2 DEF Cursor
  <2>3. /\ r.epoch = c.epoch /\ r.first = c.first /\ r.count = c.count /\ r.attempt = c.attempt
        /\ r.spatial = s /\ r.temporal = c.temporal /\ r.index = i /\ r.forward = c.forward
    BY <2>1 DEF Cursor
  <2> QED
    BY <2>0, <2>2, <2>3, <2>4, <1>6, <1>8 DEF Advanced, r, up
<1> QED
  BY <1>5, <1>6

\* The invariant holds at the start.
LEMMA InitTypes == Init => TypeInv
<1> SUFFICES ASSUME Init PROVE TypeInv
  OBVIOUS
<1>1. config \in Configs /\ phase = "place" /\ loads = Loads(config) /\ ConfigOk(config)
  BY ConfigFacts DEF Init
<1>2. Loads(config) \in Seq(LoadRecord) /\ Loads(config) # <<>>
  BY <1>1, LoadsDivide
<1>3. LoadsInv
  BY <1>1, <1>2 DEF LoadsInv, LoadsDone
<1>4. loads[1].ops \in Seq(Op)
  <2>1. loads[1] \in LoadRecord
    BY <1>1, <1>2
  <2> QED
    BY <2>1 DEF LoadRecord
<1>5. PlacerInv
  BY <1>4, EmptyGridOk DEF PlacerInv, Init
<1>6. EpochInv
  <2>1. epoch = <<>> /\ DOMAIN epoch = {}
    BY DEF Init
  <2>2. NumEpochs = 0
    BY <2>1, FS_EmptySet DEF NumEpochs
  <2> QED
    BY <2>1, <2>2 DEF EpochInv
<1>7. CursorInv
  <2>1. cursor = NewCursor(0, "fwd", 0) /\ NumChips \in Pos
    BY <1>1, ConfigFacts DEF Init
  <2> QED
    BY <2>1, <1>1, NewCursorOk DEF CursorInv, Fresh
<1> QED
  BY <1>1, <1>3, <1>5, <1>6, <1>7 DEF TypeInv

-----------------------------------------------------------------------------
(***************************************************************************)
(* The inductive invariants.                                               *)
(***************************************************************************)
\* The ops, the cores and the overrides of a list of placements.
OpsOf(ops) == {ops[k].op : k \in DOMAIN ops}
CoresOf(p) == Cores(p.start, p.shape)
UserOf(c, op) == IF op \in DOMAIN c.override THEN c.override[op] ELSE NoOverride

\* What a solution asks of the ops of an epoch.
Legal(c, ops) ==
    /\ \A k, l \in DOMAIN ops : k # l => CoresOf(ops[k]) \cap CoresOf(ops[l]) = {}
    /\ \A k \in DOMAIN ops :
          /\ InGrid(create_empty_device_grid(c.rows, c.cols), ops[k].start, ops[k].shape)
          /\ UserOf(c, ops[k].op).start \in {NoCoord, ops[k].start}
          /\ ops[k].op \in c.epoch_breaks => k = 1

\* The epochs es of one call hold L[1] .. L[n] and nothing else, in order.
Holds(c, es, L, n) ==
    /\ \A m \in DOMAIN es : Legal(c, es[m])
    /\ \A m \in DOMAIN es : \A o \in OpsOf(es[m]) : \E x \in 1 .. n : o = L[x]
    /\ \A x \in 1 .. n : \E m \in DOMAIN es : L[x] \in OpsOf(es[m])
    /\ \A x, y \in 1 .. n : \A m, k \in DOMAIN es :
          x <= y /\ L[x] \in OpsOf(es[m]) /\ L[y] \in OpsOf(es[k]) => m <= k

\* The solution e holds the ops of the first n calls and nothing else, in order.
LoadOps(c, l) == Loads(c)[l].ops
Solves(c, e, n) ==
    /\ \A i \in DOMAIN e : Legal(c, e[i].ops)
    /\ \A i \in DOMAIN e : \A o \in OpsOf(e[i].ops) : \E l \in 1 .. n : o \in Range(LoadOps(c, l))
    /\ \A l \in 1 .. n : \A o \in Range(LoadOps(c, l)) : \E i \in DOMAIN e : o \in OpsOf(e[i].ops)
    /\ \A l \in 1 .. n : \A x, y \in DOMAIN LoadOps(c, l) : \A i, j \in DOMAIN e :
          x <= y /\ LoadOps(c, l)[x] \in OpsOf(e[i].ops) /\ LoadOps(c, l)[y] \in OpsOf(e[j].ops)
             => i <= j
    /\ c.arch = "grayskull" =>
          \A l \in 1 .. n : \A i \in DOMAIN e :
             OpsOf(e[i].ops) \cap Range(LoadOps(c, l)) # {} => e[i].chip = Loads(c)[l].chip

\* The calls of place_onto_chip whose ops are in the solution.
Calls == LoadsDone + IF phase = "assign" THEN 1 ELSE 0

\* The call in progress: the ops of the completed epochs, of the open one, to be
\* placed again and to be placed, one after the other, are those of the load L.
Completed == Len(loads[1].ops) - Len(remaining) - Len(again) - Len(placed)
InOrder(L, n) ==
    /\ n \in Nat /\ Len(L) = n + Len(placed) + Len(again) + Len(remaining)
    /\ \A k \in DOMAIN placed : placed[k] = L[n + k]
    /\ \A k \in DOMAIN again : again[k] = L[n + Len(placed) + k]
    /\ \A k \in DOMAIN remaining : remaining[k] = L[n + Len(placed) + Len(again) + k]
OpenEpoch ==
    /\ Len(active) = Len(placed)
    /\ \A k \in DOMAIN active : active[k].op = placed[k]
    /\ grid.used = UNION {CoresOf(active[k]) : k \in DOMAIN active}
    /\ Legal(config, active)
\* Between two calls the placer is empty.
Idle == again = <<>> /\ placed = <<>> /\ active = <<>> /\ epochs = <<>> /\ grid.used = {}

\* The placer holds the ops of the call in progress, the solution those of the calls before.
PlaceInv ==
    /\ phase \in {"place", "assign", "summary", "done"} => Solves(config, epoch, Calls)
    /\ phase = "place" =>
          InOrder(loads[1].ops, Completed) /\ OpenEpoch /\ Holds(config, epochs, loads[1].ops, Completed)
    /\ phase = "assign" => Idle
    /\ phase \in {"summary", "done"} => loads = <<>>

-----------------------------------------------------------------------------
\* The chips an epoch was tried on: those behind the cursor, as far back as there
\* were attempts, over the end of the row or around the turn of the snake.
Up == IF config.snake THEN cursor.forward ELSE loads[1].type # "bwd"
Tried(c, up, snake, n, j) ==
    LET back == IF up THEN c.index - j ELSE j - c.index
        turned == IF up THEN c.index + 1 + j ELSE (n - c.index) + ((n - 1) - j)
    IN  \/ back > 0 /\ back <= c.attempt
        \/ snake /\ turned <= c.attempt
        \/ ~snake /\ back <= 0 /\ back + n <= c.attempt

\* can_place_epoch_onto_chip, of what it depends on.
FitsOn(c, ops, chip) ==
    \A op \in OpsOf(ops) :
        LET output == c.output_queues_on_host /\ op \in c.output
            user == IF op \in DOMAIN c.override THEN c.override[op] ELSE NoOverride
        IN  /\ output => chip \in Range(c.mmio)
            /\ op \in DOMAIN c.assigned => c.assigned[op] = chip
            /\ user.chip \in {NoChip, chip}
            /\ c.nebula /\ chip \in Range(c.mmio) => output
Fits(j) == FitsOn(config, epoch[cursor.epoch].ops, apply_chip_placement_policy(config)[j + 1])

\* The chips tried so far do not fit, and all were tried before the placer gives up.
TriedInv ==
    /\ phase = "assign" /\ config.arch = "wormhole" =>
          \A j \in 0 .. NumChips - 1 :
             Tried(cursor, Up, config.snake, NumChips, j) => ~Fits(j)
    /\ phase = "no_chip" => \A j \in 0 .. NumChips - 1 : ~Fits(j)

-----------------------------------------------------------------------------
\* Two epochs of one temporal epoch.
PairOk(e, i, j) ==
    i # j /\ e[i].temporal = e[j].temporal =>
        e[i].chip # e[j].chip /\ e[i].spatial # e[j].spatial /\ e[i].type = e[j].type

\* The epochs that have a chip.
Assigned == IF phase = "assign" THEN 0 .. cursor.epoch - 1 ELSE DOMAIN epoch
Running == phase \in {"place", "assign", "summary"}

\* The index of the chip of a spatial epoch, going up or down the row.
At(type, s, n) == IF type = "fwd" THEN s ELSE (n - 1) - s

\* An epoch of the temporal epoch that the cursor is in.
Behind(r, c, type, chips) ==
    /\ r.spatial \in 0 .. c.spatial - 1 /\ r.type = type
    /\ r.chip = chips[At(type, r.spatial, Len(chips)) + 1]

\* galaxy_placer: the temporal epoch of the cursor holds the chips behind it in the row.
GalaxyInv ==
    /\ \A i, j \in Assigned : PairOk(epoch, i, j)
    /\ phase # "assign" \/ cursor.epoch = NumEpochs =>
          \A i \in Assigned : epoch[i].temporal < cursor.temporal
    /\ phase = "assign" =>
          /\ cursor.index = At(loads[1].type, cursor.spatial, NumChips)
          /\ \A i \in Assigned :
                /\ epoch[i].temporal <= cursor.temporal
                /\ epoch[i].temporal = cursor.temporal =>
                      Behind(epoch[i], cursor, loads[1].type, config.chips)

\* wormhole_placer: every epoch that has a chip has one of the device.
OnChips == \A i \in Assigned : epoch[i].chip \in Range(config.chips)

\* The summary: spatial epochs are chip indices, temporal epochs grow with the epoch, and at
\* a temporal epoch break, strictly.
Broken(c, ops) == OpsOf(ops) \cap c.temporal_breaks # {}
OnItsChip(c, r) == r.spatial \in 0 .. Len(c.chips) - 1 /\ r.chip = c.chips[r.spatial + 1]
Ordered(c, e, i, j) ==
    j < i => /\ e[j].temporal <= e[i].temporal
             /\ Broken(c, e[i].ops) => e[j].temporal < e[i].temporal
Summarized == 0 .. cursor.epoch - 1
SummaryInv ==
    /\ \A i \in Summarized : OnItsChip(config, epoch[i])
    /\ \A i, j \in Summarized : PairOk(epoch, i, j) /\ Ordered(config, epoch, i, j)

\* The temporal epochs of the solution so far, on each architecture.
TemporalInv ==
    /\ Running /\ config.arch = "grayskull" => \A i \in DOMAIN epoch : epoch[i].temporal = i
    /\ Running /\ config.arch = "galaxy" => GalaxyInv
    /\ Running /\ config.arch = "wormhole" => OnChips
    /\ phase = "summary" => config.arch = "wormhole" /\ SummaryInv
    /\ phase = "assign" => /\ config.arch # "grayskull" /\ cursor.first <= cursor.epoch
                           /\ \A i \in cursor.first .. NumEpochs - 1 : epoch[i].type = loads[1].type
    /\ TemporalEpochsComplete

-----------------------------------------------------------------------------
(***************************************************************************)
(* The steps keep the types.                                               *)
(***************************************************************************)
\* The calls to come are the last of Loads(config).
LEMMA LoadFacts ==
  ASSUME TypeInv
  PROVE  /\ loads \in Seq(LoadRecord) /\ Len(loads) \in Nat /\ DOMAIN loads = 1 .. Len(loads)
         /\ LoadsDone \in Nat /\ Len(Loads(config)) \in Nat
         /\ Loads(config) \in Seq(LoadRecord)
         /\ loads # <<>> => /\ loads[1] \in LoadRecord /\ loads[1] = Loads(config)[LoadsDone + 1]
                            /\ loads[1].ops \in Seq(Op)
                            /\ LoadsDone + 1 \in DOMAIN Loads(config)
<1>1. ConfigOk(config)
  BY ConfigFacts DEF TypeInv
<1>2. Loads(config) \in Seq(LoadRecord) /\ Len(Loads(config)) \in Nat
  BY <1>1, LoadsDivide
<1>3. /\ loads \in Seq(LoadRecord) /\ Len(loads) <= Len(Loads(config))
      /\ \A k \in DOMAIN loads : loads[k] = Loads(config)[LoadsDone + k]
  BY DEF TypeInv, LoadsInv
<1>4. Len(loads) \in Nat /\ DOMAIN loads = 1 .. Len(loads)
  BY <1>3
<1>5. LoadsDone \in Nat
  BY <1>2, <1>3, <1>4 DEF LoadsDone
<1>6. ASSUME loads # <<>>
      PROVE  /\ loads[1] \in LoadRecord /\ loads[1] = Loads(config)[LoadsDone + 1]
             /\ loads[1].ops \in Seq(Op) /\ LoadsDone + 1 \in DOMAIN Loads(config)
  <2>1. 1 \in DOMAIN loads
    BY <1>4, <1>6, <1>3
  <2>2. loads[1] \in LoadRecord
    BY <2>1, <1>3
  <2>3. loads[1].ops \in Seq(Op)
    BY <2>2 DEF LoadRecord
  <2>4. LoadsDone + 1 \in 1 .. Len(Loads(config))
    BY <2>1, <1>2, <1>3, <1>4 DEF LoadsDone
  <2> QED
    BY <2>1, <2>2, <2>3, <2>4, <1>2, <1>3
<1> QED
  BY <1>2, <1>3, <1>4, <1>5, <1>6

\* The next call of place_onto_chip begins.
LEMMA NextCall ==
  ASSUME TypeInv, loads # <<>>, loads' = Tail(loads), UNCHANGED config
  PROVE  /\ loads' \in Seq(LoadRecord) /\ Len(loads') <= Len(Loads(config)')
         /\ LoadsDone' = LoadsDone + 1
         /\ \A k \in DOMAIN loads' : loads'[k] = (Loads(config)[LoadsDone + k])'
         /\ Next1 \in Seq(Op) /\ (loads' # <<>> => Next1 = loads'[1].ops)
<1> DEFINE L == Loads(config)
<1>1. /\ loads \in Seq(LoadRecord) /\ Len(loads) \in Nat /\ DOMAIN loads = 1 .. Len(loads)
      /\ LoadsDone \in Nat /\ Len(L) \in Nat
  BY LoadFacts
<1>2. Len(loads) <= Len(L) /\ \A k \in DOMAIN loads : loads[k] = L[LoadsDone + k]
  BY DEF TypeInv, LoadsInv
<1>3. LoadsDone = Len(L) - Len(loads) /\ LoadsDone' = Len(L) - Len(loads')
  BY DEF LoadsDone
<1>4. Loads(config)' = L
  OBVIOUS
<1> HIDE DEF L
<1>5. /\ loads' \in Seq(LoadRecord) /\ Len(loads') = Len(loads) - 1 /\ DOMAIN loads' = 1 .. Len(loads')
      /\ \A k \in 1 .. Len(loads') : loads'[k] = loads[k + 1]
  BY <1>1
<1>6. LoadsDone' = LoadsDone + 1
  BY <1>1, <1>3, <1>5
<1>7. \A k \in DOMAIN loads' : loads'[k] = L[LoadsDone' + k]
  <2> SUFFICES ASSUME NEW k \in 1 .. Len(loads') PROVE loads'[k] = L[LoadsDone' + k]
    BY <1>5
  <2>1. k + 1 \in DOMAIN loads /\ LoadsDone + (k + 1) = LoadsDone' + k
    BY <1>1, <1>5, <1>6
  <2>2. loads[k + 1] = L[LoadsDone + (k + 1)]
    BY <2>1, <1>2
  <2> QED
    BY <2>1, <2>2, <1>5
<1>8. Next1 \in Seq(Op) /\ (loads' # <<>> => Next1 = loads'[1].ops)
  <2>1. CASE Len(loads) > 1
    <3>1. Next1 = loads[2].ops /\ loads[2] \in LoadRecord /\ loads'[1] = loads[2]
      BY <2>1, <1>1, <1>5 DEF Next1
    <3>2. loads[2].ops \in Seq(Op)
      BY <3>1 DEF LoadRecord
    <3> QED
      BY <3>1, <3>2
  <2>2. CASE ~(Len(loads) > 1)
    <3>1. Next1 = <<>> /\ loads' = <<>>
      BY <2>2, <1>1, <1>5 DEF Next1
    <3> QED
      BY <3>1
  <2> QED
    BY <2>1, <2>2
<1> QED
  BY <1>1, <1>2, <1>4, <1>5, <1>6, <1>7, <1>8

-----------------------------------------------------------------------------
\* Steps of get_next_epoch.
LEMMA PlacingTypes ==
  ASSUME TypeInv, phase = "place", UNCHANGED <<config, loads, epoch, cursor>>,
         phase' \in {"place", "abort"}, PlacerInv'
  PROVE  TypeInv'
<1>1. NumEpochs' = NumEpochs /\ NumChips' = NumChips
  BY DEF NumEpochs, NumChips
<1>2. LoadsDone' = LoadsDone /\ Loads(config)' = Loads(config)
  BY DEF LoadsDone
<1>3. LoadsInv'
  BY <1>2 DEF TypeInv, LoadsInv
<1>4. EpochInv'
  BY <1>1 DEF TypeInv, EpochInv
<1>5. CursorInv'
  BY <1>1 DEF TypeInv, CursorInv
<1> QED
  BY <1>3, <1>4, <1>5 DEF TypeInv

\* There is an op to place as long as there is one in either list.
LEMMA OpToPlace ==
  ASSUME TypeInv, Placing
  PROVE  /\ OpGroupToPlace \in Op
         /\ again # <<>> => Tail(again) \in Seq(Op)
         /\ again = <<>> => remaining # <<>> /\ Tail(remaining) \in Seq(Op)
<1>1. remaining \in Seq(Op) /\ again \in Seq(Op)
  BY DEF TypeInv, PlacerInv
<1>2. again = <<>> => remaining # <<>>
  BY <1>1 DEF Placing
<1>3. CASE again = <<>>
  <2>1. Head(remaining) \in Op /\ Tail(remaining) \in Seq(Op)
    BY <1>1, <1>2, <1>3
  <2> QED
    BY <2>1, <1>2, <1>3 DEF OpGroupToPlace
<1>4. CASE again # <<>>
  <2>1. Head(again) \in Op /\ Tail(again) \in Seq(Op)
    BY <1>1, <1>4
  <2> QED
    BY <2>1, <1>4 DEF OpGroupToPlace
<1> QED
  BY <1>3, <1>4

\* The grid of a new epoch has no occupied core.
LEMMA GridEmptied ==
  ASSUME grid' = EmptyGrid, UNCHANGED config
  PROVE  grid' = [rows |-> config'.rows, cols |-> config'.cols, used |-> grid'.used] /\ grid'.used = {}
BY EmptyGridOk

\* complete_epoch keeps the types.
LEMMA CompleteTypes ==
  ASSUME TypeInv, phase = "place", complete_epoch
  PROVE  TypeInv'
<1>1. /\ active \in Seq(Placement) /\ epochs \in Seq(Seq(Placement))
      /\ remaining \in Seq(Op) /\ again \in Seq(Op)
  BY DEF TypeInv, PlacerInv
<1>2. Append(epochs, active) \in Seq(Seq(Placement))
  BY <1>1
<1>3. grid' = [rows |-> config'.rows, cols |-> config'.cols, used |-> grid'.used]
  BY GridEmptied DEF complete_epoch
<1>4. PlacerInv'
  BY <1>1, <1>2, <1>3 DEF PlacerInv, complete_epoch
<1> QED
  BY <1>4, PlacingTypes DEF complete_epoch

\* So does a failed assertion,
LEMMA AbortTypes ==
  ASSUME TypeInv, phase = "place", Abort
  PROVE  TypeInv'
<1>1. PlacerInv'
  BY DEF TypeInv, PlacerInv, Abort, placer
<1> QED
  BY <1>1, PlacingTypes DEF Abort

\* and starting the epoch again.
LEMMA ReplayTypes ==
  ASSUME TypeInv, phase = "place", NEW op, NEW kept, Replay(op, kept)
  PROVE  TypeInv'
<1>1. placed \in Seq(Op) /\ epochs \in Seq(Seq(Placement)) /\ remaining \in Seq(Op) /\ again \in Seq(Op)
  BY DEF TypeInv, PlacerInv
<1>2. placed \o again \in Seq(Op)
  BY <1>1
<1>3. grid' = [rows |-> config'.rows, cols |-> config'.cols, used |-> grid'.used]
  BY GridEmptied DEF Replay
<1>4. PlacerInv'
  BY <1>1, <1>2, <1>3 DEF PlacerInv, Replay
<1> QED
  BY <1>4, PlacingTypes DEF Replay

\* What get_placed_coordinate answers for the op to place.
Answer == get_placed_coordinate(OpGroupToPlace, config.shape[OpGroupToPlace], grid,
             Override(OpGroupToPlace), config.auto_transpose, constraints)

\* A placement that get_placed_coordinate answers is free on the grid of the epoch.
LEMMA AnswerRight ==
  ASSUME TypeInv, Placing, Answer.res = "placed"
  PROVE  /\ PlacedRight(Answer, config.shape[OpGroupToPlace], grid, Override(OpGroupToPlace))
         /\ Answer.shape \in Shapes
<1>1. grid = [rows |-> config.rows, cols |-> config.cols, used |-> grid.used]
  BY DEF TypeInv, PlacerInv
<1>2. config.rows \in Nat /\ config.cols \in Nat /\ OverrideOk(Override(OpGroupToPlace))
  BY ConfigFacts DEF TypeInv
<1>3. PlacedRight(Answer, config.shape[OpGroupToPlace], grid, Override(OpGroupToPlace))
  BY <1>1, <1>2, CoordinateRight DEF Answer, OverrideOk
<1>4. config.shape[OpGroupToPlace] \in Shapes
  <2>1. config.shape \in [Op -> Shapes]
    BY ConfigFacts DEF TypeInv
  <2> QED
    BY <2>1, OpToPlace
<1>5. \A z \in Shapes : Transposed(z) \in Shapes
  BY DEF Transposed, Shapes
<1> QED
  BY <1>3, <1>4, <1>5 DEF PlacedRight

\* fill_device_grid_with_placement adds the cores of the op to those occupied.
LEMMA GridFilled ==
  ASSUME NEW n, NEW m, NEW g, g = [rows |-> n, cols |-> m, used |-> g.used], NEW start, NEW shape
  PROVE  fill_device_grid_with_placement(g, start, shape)
           = [rows |-> n, cols |-> m, used |-> g.used \cup Cores(start, shape)]
<1> DEFINE X == g.used \cup Cores(start, shape)
<1>1. fill_device_grid_with_placement(g, start, shape) = [g EXCEPT !.used = X]
  BY DEF fill_device_grid_with_placement
<1>2. X = g.used \cup Cores(start, shape)
  OBVIOUS
<1> HIDE DEF X
<1>3. [g EXCEPT !.used = X] = [rows |-> n, cols |-> m, used |-> X]
  OBVIOUS
<1> QED
  BY <1>1, <1>2, <1>3

\* Placing an op keeps the types.
LEMMA PlaceTypes ==
  ASSUME TypeInv, Placing, PlaceGroup(Answer)
  PROVE  TypeInv'
<1> DEFINE op == OpGroupToPlace
           r == Answer
           p == [op |-> op, start |-> r.start, shape |-> r.shape, transposed |-> r.transposed]
<1>1. CASE op \in DOMAIN constraints /\ again # <<>>
  BY <1>1, AbortTypes DEF PlaceGroup, Placing
<1>2. CASE ~(op \in DOMAIN constraints /\ again # <<>>)
  <2>1. op \in Op /\ r.start \in Nat \X Nat /\ r.shape \in Shapes /\ r.transposed \in BOOLEAN
    BY AnswerRight, OpToPlace DEF PlaceGroup, PlacedRight
  <2>2. p \in Placement
    BY <2>1 DEF Placement
  <2>3. /\ active' = Append(active, p) /\ placed' = Append(placed, op) /\ epochs' = epochs
        /\ grid' = fill_device_grid_with_placement(grid, r.start, r.shape)
        /\ \/ again = <<>> /\ remaining' = Tail(remaining) /\ again' = again
           \/ again # <<>> /\ again' = Tail(again) /\ remaining' = remaining
        /\ UNCHANGED <<config, phase, loads, epoch, cursor>>
    BY <1>2 DEF PlaceGroup
  <2>4. /\ active \in Seq(Placement) /\ epochs \in Seq(Seq(Placement)) /\ remaining \in Seq(Op)
        /\ again \in Seq(Op) /\ placed \in Seq(Op)
        /\ grid = [rows |-> config.rows, cols |-> config.cols, used |-> grid.used]
    BY DEF TypeInv, PlacerInv
  <2>5. grid' = [rows |-> config.rows, cols |-> config.cols,
                 used |-> grid.used \cup Cores(r.start, r.shape)]
    <3>1. grid = [rows |-> config.rows, cols |-> config.cols, used |-> grid.used]
      BY <2>4
    <3>2. fill_device_grid_with_placement(grid, r.start, r.shape)
            = [rows |-> config.rows, cols |-> config.cols,
               used |-> grid.used \cup Cores(r.start, r.shape)]
      BY <3>1, GridFilled
    <3> QED
      BY <2>3, <3>2
  <2>6. grid' = [rows |-> config'.rows, cols |-> config'.cols, used |-> grid'.used]
    BY <2>3, <2>5
  <2> HIDE DEF p, op
  <2>7. active' \in Seq(Placement) /\ placed' \in Seq(Op)
    BY <2>1, <2>2, <2>3, <2>4
  <2>8. remaining' \in Seq(Op) /\ again' \in Seq(Op)
    BY <2>3, <2>4, OpToPlace
  <2>9. PlacerInv'
    BY <2>3, <2>4, <2>6, <2>7, <2>8 DEF PlacerInv
  <2> QED
    BY <2>3, <2>9, PlacingTypes DEF Placing
<1> QED
  BY <1>1, <1>2

\* A turn of the loop of get_next_epoch keeps the types.
LEMMA TryGroupTypes ==
  ASSUME TypeInv, TryGroup
  PROVE  TypeInv'
<1>1. Placing /\ phase = "place"
  BY DEF TryGroup, Placing
<1>2. PlaceGroup(Answer) \/ NoRoom(Answer) \/ Taken(Answer) \/ Conflict(Answer)
  BY DEF TryGroup, Answer
<1>3. CASE PlaceGroup(Answer)
  BY <1>1, <1>3, PlaceTypes
<1>4. CASE NoRoom(Answer)
  BY <1>1, <1>4, CompleteTypes DEF NoRoom
<1>5. CASE Taken(Answer)
  <2>1. complete_epoch \/ Abort \/ \E op, kept : Replay(op, kept)
    BY <1>5 DEF Taken
  <2> QED
    BY <2>1, <1>1, CompleteTypes, AbortTypes, ReplayTypes
<1>6. CASE Conflict(Answer)
  BY <1>1, <1>6, AbortTypes DEF Conflict
<1> QED
  BY <1>2, <1>3, <1>4, <1>5, <1>6

\* How many numbers there are below n.
LEMMA IntervalCount ==
  ASSUME NEW n \in Nat
  PROVE  Cardinality(0 .. n - 1) = n
BY FS_Interval

\* The epochs that place_onto_chip adds.
Done == IF active = <<>> THEN epochs ELSE Append(epochs, active)
NewIds == NumEpochs .. NumEpochs + Len(Done) - 1
NewEpoch(i) == [chip |-> loads[1].chip, type |-> loads[1].type, temporal |-> i, spatial |-> 0,
                ops |-> Done[i - NumEpochs + 1]]

\* What the epochs of a call are.
LEMMA DoneTypes ==
  ASSUME TypeInv
  PROVE  /\ Done \in Seq(Seq(Placement)) /\ Len(Done) \in Nat /\ DOMAIN Done = 1 .. Len(Done)
         /\ NumEpochs \in Nat
         /\ \A i \in NewIds : i - NumEpochs + 1 \in DOMAIN Done /\ i \in Nat
<1>1. active \in Seq(Placement) /\ epochs \in Seq(Seq(Placement)) /\ NumEpochs \in Nat
  BY DEF TypeInv, PlacerInv, EpochInv
<1>2. Append(epochs, active) \in Seq(Seq(Placement))
  BY <1>1
<1>3. Done \in Seq(Seq(Placement))
  BY <1>1, <1>2 DEF Done
<1>4. Len(Done) \in Nat /\ DOMAIN Done = 1 .. Len(Done)
  BY <1>3
<1> QED
  BY <1>1, <1>3, <1>4 DEF NewIds

\* The end of place_onto_chip adds its epochs behind those of the solution.
LEMMA OntoChipFacts ==
  ASSUME TypeInv, PlacedOntoChip
  PROVE  /\ epoch' = [i \in DOMAIN epoch \cup NewIds |-> IF i \in NewIds THEN NewEpoch(i) ELSE epoch[i]]
         /\ DOMAIN epoch = 0 .. NumEpochs - 1 /\ DOMAIN epoch \cap NewIds = {}
         /\ DOMAIN epoch' = 0 .. (NumEpochs + Len(Done)) - 1
         /\ NumEpochs' = NumEpochs + Len(Done)
         /\ \A i \in DOMAIN epoch : epoch'[i] = epoch[i]
         /\ \A i \in NewIds : epoch'[i] = NewEpoch(i)
<1>1. epoch' = [i \in DOMAIN epoch \cup NewIds |-> IF i \in NewIds THEN NewEpoch(i) ELSE epoch[i]]
  BY DEF PlacedOntoChip, NewIds, NewEpoch, Done
<1>2. NumEpochs \in Nat /\ DOMAIN epoch = 0 .. NumEpochs - 1
  BY DEF TypeInv, EpochInv
<1>3. Len(Done) \in Nat
  BY DoneTypes
<1>4. DOMAIN epoch' = DOMAIN epoch \cup NewIds
  BY <1>1
<1>5. DOMAIN epoch' = 0 .. (NumEpochs + Len(Done)) - 1
  BY <1>2, <1>3, <1>4 DEF NewIds
<1>6. DOMAIN epoch \cap NewIds = {}
  BY <1>2, <1>3 DEF NewIds
<1>7. NumEpochs + Len(Done) \in Nat
  BY <1>2, <1>3
<1>8. NumEpochs' = NumEpochs + Len(Done)
  <2> DEFINE n == NumEpochs + Len(Done)
  <2>1. n \in Nat
    BY <1>7
  <2>4. DOMAIN epoch' = 0 .. n - 1
    BY <1>5, Zenon
  <2>2. NumEpochs' = Cardinality(DOMAIN epoch')
    BY DEF NumEpochs
  <2> HIDE DEF n
  <2>3. NumEpochs' = n
    BY <2>1, <2>2, <2>4, IntervalCount
  <2> QED
    BY <2>3 DEF n
<1> QED
  BY <1>1, <1>2, <1>5, <1>6, <1>8

\* A record of the solution.
LEMMA EpochTyped ==
  ASSUME NEW ch \in Nat, NEW ty \in TypeName, NEW te \in Nat, NEW sp \in Int, NEW ops \in Seq(Placement)
  PROVE  [chip |-> ch, type |-> ty, temporal |-> te, spatial |-> sp, ops |-> ops] \in EpochRecord
BY DEF EpochRecord

\* The end of place_onto_chip keeps the types.
LEMMA OntoChipTypes ==
  ASSUME TypeInv, PlacedOntoChip
  PROVE  TypeInv'
<1>0. UNCHANGED config /\ phase = "place" /\ loads # <<>>
  BY DEF TypeInv, LoadsInv, PlacedOntoChip
<1>1. /\ loads \in Seq(LoadRecord) /\ loads[1].type \in TypeName /\ loads[1].chip \in Nat
  <2>1. loads[1] \in LoadRecord /\ loads \in Seq(LoadRecord)
    BY <1>0, LoadFacts
  <2> QED
    BY <2>1 DEF LoadRecord
<1>2. EpochInv'
  <2>1. /\ DOMAIN epoch' = 0 .. NumEpochs' - 1 /\ NumEpochs' \in Nat
        /\ DOMAIN epoch' = DOMAIN epoch \cup NewIds
        /\ \A i \in DOMAIN epoch : epoch'[i] = epoch[i]
        /\ \A i \in NewIds : epoch'[i] = NewEpoch(i)
    BY OntoChipFacts, DoneTypes
  <2>2. \A i \in NewIds : NewEpoch(i) \in EpochRecord
    <3> SUFFICES ASSUME NEW i \in NewIds PROVE NewEpoch(i) \in EpochRecord
      OBVIOUS
    <3>1. Done[i - NumEpochs + 1] \in Seq(Placement) /\ i \in Nat
      BY DoneTypes
    <3> DEFINE ops == Done[i - NumEpochs + 1]
    <3>2. /\ ops \in Seq(Placement) /\ i \in Nat /\ 0 \in Int
          /\ NewEpoch(i) = [chip |-> loads[1].chip, type |-> loads[1].type, temporal |-> i,
                           spatial |-> 0, ops |-> ops]
      BY <3>1 DEF NewEpoch
    <3> HIDE DEF ops
    <3> QED
      BY <3>2, <1>1, EpochTyped
  <2>3. \A i \in DOMAIN epoch : epoch[i] \in EpochRecord
    BY DEF TypeInv, EpochInv
  <2> QED
    BY <2>1, <2>2, <2>3 DEF EpochInv
<1>3. CursorInv'
  <2>1. cursor' = NewCursor(NumEpochs, loads[1].type, cursor.temporal)
    BY DEF PlacedOntoChip
  <2>2. NumEpochs \in Nat /\ cursor.temporal \in Nat /\ NumChips \in Pos
    BY ConfigFacts DEF TypeInv, EpochInv, CursorInv, Cursor
  <2>3. cursor' \in Cursor /\ cursor'.index < NumChips /\ cursor'.epoch = NumEpochs
    <3>1. Fresh(NewCursor(NumEpochs, loads[1].type, cursor.temporal), NumEpochs, loads[1].type,
                cursor.temporal)
      BY <2>2, NewCursorOk
    <3> QED
      BY <2>1, <3>1 DEF Fresh
  <2>4. NumEpochs' = NumEpochs + Len(Done) /\ Len(Done) \in Nat /\ NumChips' = NumChips
    BY <1>0, OntoChipFacts, DoneTypes DEF NumChips
  <2> QED
    <3>1. phase' # "summary"
      BY <1>0 DEF PlacedOntoChip
    <3> QED
      BY <2>2, <2>3, <2>4, <3>1 DEF CursorInv
<1>4. remaining \in Seq(Op) /\ again \in Seq(Op)
  BY DEF TypeInv, PlacerInv
<1>5. /\ epochs' = <<>> /\ placed' = <<>> /\ active' = <<>> /\ again' = again
      /\ grid' = [rows |-> config'.rows, cols |-> config'.cols, used |-> grid'.used]
  BY <1>0, GridEmptied DEF PlacedOntoChip
<1>6. LoadsInv' /\ remaining' \in Seq(Op) /\ phase' \in {"place", "assign", "done", "abort"}
  <2>1. CASE UNCHANGED <<loads, remaining>> /\ phase' \in {"assign", "abort"}
    <3>1. LoadsDone' = LoadsDone /\ Loads(config)' = Loads(config)
      BY <1>0, <2>1 DEF LoadsDone
    <3>2. LoadsInv'
      BY <1>0, <2>1, <3>1 DEF TypeInv, LoadsInv
    <3> QED
      BY <2>1, <3>2, <1>4
  <2>2. CASE /\ loads' = Tail(loads) /\ remaining' = Next1
             /\ phase' = IF Tail(loads) = <<>> THEN "done" ELSE "place"
    <3>1. /\ loads' \in Seq(LoadRecord) /\ Len(loads') <= Len(Loads(config)')
          /\ LoadsDone' = LoadsDone + 1
          /\ \A k \in DOMAIN loads' : loads'[k] = (Loads(config)[LoadsDone + k])'
          /\ Next1 \in Seq(Op)
      BY <2>2, <1>0, NextCall
    <3>2. phase' \in {"place", "assign"} => loads' # <<>>
      BY <2>2
    <3>3. phase' \in {"place", "done"}
      BY <2>2
    <3>4. LoadsInv'
      BY <3>1, <3>2 DEF LoadsInv
    <3> QED
      BY <2>2, <3>1, <3>3, <3>4
  <2> QED
    BY <2>1, <2>2 DEF PlacedOntoChip
<1>7. PlacerInv'
  BY <1>4, <1>5, <1>6 DEF PlacerInv
<1> QED
  BY <1>0, <1>2, <1>3, <1>6, <1>7 DEF TypeInv

-----------------------------------------------------------------------------
\* Steps that leave the placer alone.
LEMMA PlacerUnchanged ==
  ASSUME PlacerInv, UNCHANGED <<config, placer>>
  PROVE  PlacerInv'
BY DEF PlacerInv, placer

\* The calls to come stay what they are.
LEMMA LoadsUnchanged ==
  ASSUME TypeInv, phase' # "place", phase = "assign" \/ phase' # "assign", UNCHANGED <<config, loads>>
  PROVE  LoadsInv' /\ NumChips' = NumChips
<1>1. LoadsDone' = LoadsDone /\ Loads(config)' = Loads(config)
  BY DEF LoadsDone
<1> QED
  BY <1>1 DEF TypeInv, LoadsInv, NumChips

\* The next call keeps the types.
LEMMA NextLoadTypes ==
  ASSUME TypeInv, NextLoad
  PROVE  TypeInv'
<1>1. loads # <<>> /\ loads' = Tail(loads) /\ UNCHANGED config
  BY DEF TypeInv, LoadsInv, NextLoad
<1>2. /\ loads' \in Seq(LoadRecord) /\ Len(loads') <= Len(Loads(config)')
      /\ LoadsDone' = LoadsDone + 1
      /\ \A k \in DOMAIN loads' : loads'[k] = (Loads(config)[LoadsDone + k])'
      /\ Next1 \in Seq(Op)
  BY <1>1, NextCall
<1>3. /\ phase' \in {"place", "summary", "done"}
      /\ phase' = "place" => loads' # <<>> /\ cursor' = cursor
      /\ phase' # "place" => cursor' = NewCursor(0, "fwd", 0)
  BY <1>1 DEF NextLoad
<1>4. LoadsInv'
  BY <1>2, <1>3 DEF LoadsInv
<1>5. PlacerInv'
  BY <1>2 DEF TypeInv, PlacerInv, NextLoad
<1>6. EpochInv' /\ NumEpochs' \in Nat
  BY DEF TypeInv, EpochInv, NextLoad, NumEpochs
<1>7. CursorInv'
  <2>1. NumChips' = NumChips /\ NumChips \in Pos
    BY <1>1, ConfigFacts DEF TypeInv, NumChips
  <2>2. cursor' \in Cursor /\ cursor'.index < NumChips /\ (phase' # "place" => cursor'.epoch = 0)
    <3>1. Fresh(NewCursor(0, "fwd", 0), 0, "fwd", 0)
      BY <2>1, NewCursorOk
    <3>2. cursor \in Cursor /\ cursor.index < NumChips
      BY DEF TypeInv, CursorInv
    <3>3. cursor' = cursor \/ cursor' = NewCursor(0, "fwd", 0)
      BY <1>3
    <3> QED
      BY <1>3, <3>1, <3>2, <3>3 DEF Fresh
  <2> QED
    BY <1>3, <1>6, <2>1, <2>2 DEF CursorInv
<1> QED
  BY <1>1, <1>3, <1>4, <1>5, <1>6, <1>7 DEF TypeInv

\* An epoch gets a chip and its temporal and spatial epoch.
Changed(i, ch, te, sp) ==
    /\ EpochInv' /\ NumEpochs' = NumEpochs /\ DOMAIN epoch' = DOMAIN epoch
    /\ \A j \in DOMAIN epoch : j # i => epoch'[j] = epoch[j]
    /\ epoch'[i].chip = ch /\ epoch'[i].temporal = te /\ epoch'[i].spatial = sp
    /\ epoch'[i].ops = epoch[i].ops /\ epoch'[i].type = epoch[i].type

\* An assignment to the fields of one epoch changes nothing else.
LEMMA EpochChanged ==
  ASSUME TypeInv, NEW i \in DOMAIN epoch, NEW ch \in Nat, NEW te \in Nat, NEW sp \in Int,
         epoch' = [epoch EXCEPT ![i].chip = ch, ![i].temporal = te, ![i].spatial = sp]
  PROVE  Changed(i, ch, te, sp)
<1>1. epoch[i] \in EpochRecord /\ (\A j \in DOMAIN epoch : epoch[j] \in EpochRecord)
      /\ NumEpochs \in Nat /\ DOMAIN epoch = 0 .. NumEpochs - 1
  BY DEF TypeInv, EpochInv
<1> DEFINE r == [chip |-> ch, type |-> epoch[i].type, temporal |-> te, spatial |-> sp, ops |-> epoch[i].ops]
<1>2. epoch[i].type \in TypeName /\ epoch[i].ops \in Seq(Placement)
  BY <1>1 DEF EpochRecord
<1>3. r \in EpochRecord
  BY <1>2, EpochTyped
<1>4. DOMAIN epoch' = DOMAIN epoch /\ \A j \in DOMAIN epoch : j # i => epoch'[j] = epoch[j]
  OBVIOUS
<1>5. epoch'[i] = r
  BY <1>1 DEF EpochRecord
<1>6. r.chip = ch /\ r.temporal = te /\ r.spatial = sp /\ r.ops = epoch[i].ops /\ r.type = epoch[i].type
  OBVIOUS
<1> HIDE DEF r
<1>7. NumEpochs' = NumEpochs
  BY <1>4 DEF NumEpochs
<1>8. \A j \in DOMAIN epoch' : epoch'[j] \in EpochRecord
  BY <1>1, <1>3, <1>4, <1>5
<1> QED
  BY <1>1, <1>4, <1>5, <1>6, <1>7, <1>8 DEF EpochInv, Changed

\* wormhole_placer tries an epoch on a chip.
Valid(chip) == can_place_epoch_onto_chip(cursor.epoch, chip)
Count(chip) == cursor.count + IF Valid(chip) THEN 1 ELSE 0
Here(chip, move) ==
    [cursor EXCEPT !.count = IF config.pipelined /\ move THEN 0 ELSE Count(chip),
                   !.epoch = IF Valid(chip) THEN cursor.epoch + 1 ELSE cursor.epoch,
                   !.attempt = IF Valid(chip) THEN 0 ELSE cursor.attempt + 1]

\* What the cursor is.
LEMMA CursorFacts ==
  ASSUME TypeInv
  PROVE  /\ cursor \in Cursor /\ cursor.index < NumChips /\ NumChips \in Pos
         /\ cursor.epoch \in Nat /\ cursor.first \in Nat /\ cursor.temporal \in Nat
         /\ cursor.spatial \in Nat /\ cursor.forward \in BOOLEAN /\ cursor.count \in Nat
         /\ cursor.attempt \in Nat /\ cursor.index \in Nat
<1>1. cursor \in Cursor /\ cursor.index < NumChips /\ NumChips \in Pos
  BY ConfigFacts DEF TypeInv, CursorInv
<1> QED
  BY <1>1 DEF Cursor

\* What TryChip makes of the cursor before it moves on.
LEMMA HereOk ==
  ASSUME TypeInv, NEW chip, NEW move
  PROVE  LET h == Here(chip, move)
         IN  /\ h \in Cursor /\ h.first = cursor.first /\ h.temporal = cursor.temporal
             /\ h.spatial = cursor.spatial /\ h.forward = cursor.forward /\ h.index = cursor.index
             /\ h.epoch = IF Valid(chip) THEN cursor.epoch + 1 ELSE cursor.epoch
             /\ h.attempt = IF Valid(chip) THEN 0 ELSE cursor.attempt + 1
<1> DEFINE n == IF config.pipelined /\ move THEN 0 ELSE Count(chip)
           e == IF Valid(chip) THEN cursor.epoch + 1 ELSE cursor.epoch
           a == IF Valid(chip) THEN 0 ELSE cursor.attempt + 1
           h == Here(chip, move)
<1>1. h = [cursor EXCEPT !.count = n, !.epoch = e, !.attempt = a]
  BY DEF Here
<1>2. n \in Nat /\ e \in Nat /\ a \in Nat
  BY CursorFacts DEF Count
<1> HIDE DEF n, h
<1>3. e = IF Valid(chip) THEN cursor.epoch + 1 ELSE cursor.epoch
  OBVIOUS
<1>4. a = IF Valid(chip) THEN 0 ELSE cursor.attempt + 1
  OBVIOUS
<1> HIDE DEF e, a
<1>5. cursor \in Cursor
  BY CursorFacts
<1>6. h \in Cursor
  BY <1>1, <1>2, <1>5 DEF Cursor
<1>7. /\ h.first = cursor.first /\ h.temporal = cursor.temporal /\ h.epoch = e /\ h.attempt = a
      /\ h.spatial = cursor.spatial /\ h.forward = cursor.forward /\ h.index = cursor.index
  BY <1>1, <1>5 DEF Cursor
<1> QED
  BY <1>3, <1>4, <1>6, <1>7 DEF h

\* TryChip leaves the cursor where it is, on a valid chip, or moves it on.
LEMMA TryChipCursor ==
  ASSUME TypeInv, NEW chip, TryChip(chip)
  PROVE  \E move :
            \/ cursor' = Here(chip, move) /\ Valid(chip)
            \/ Advanced(Here(chip, move), cursor', Up, config.snake)
<1> DEFINE count == Count(chip)
           full == count >= CeilDiv(NumEpochs - cursor.first, NumChips)
           move == ~config.pipelined \/ ~Valid(chip) \/ full
           h == Here(chip, move)
<1>1. cursor' = IF move THEN advance_epoch(h, loads[1].type # "bwd", config.snake) ELSE h
  BY DEF TryChip, Valid, Count, Here
<1>2. h \in Cursor /\ h.index < NumChips /\ NumChips \in Pos /\ h.forward = cursor.forward
  BY CursorFacts, HereOk
<1>3. ~Valid(chip) => move
  OBVIOUS
<1> HIDE DEF move, h
<1>4. Advanced(h, advance_epoch(h, loads[1].type # "bwd", config.snake),
               IF config.snake THEN h.forward ELSE loads[1].type # "bwd", config.snake)
  BY <1>2, AdvanceEpoch
<1>5. Up = IF config.snake THEN h.forward ELSE loads[1].type # "bwd"
  BY <1>2 DEF Up
<1>6. Advanced(h, advance_epoch(h, loads[1].type # "bwd", config.snake), Up, config.snake)
  BY <1>4, <1>5
<1>7. (cursor' = h /\ Valid(chip)) \/ Advanced(h, cursor', Up, config.snake)
  BY <1>1, <1>3, <1>6
<1> QED
  BY <1>7 DEF h

\* What an attempt on a chip changes, and that it keeps the types.
LEMMA TryChipTypes ==
  ASSUME TypeInv, phase = "assign", cursor.epoch < NumEpochs, NEW chip \in Nat, TryChip(chip)
  PROVE  /\ TypeInv'
         /\ cursor'.first = cursor.first
         /\ cursor'.epoch = IF Valid(chip) THEN cursor.epoch + 1 ELSE cursor.epoch
         /\ \A j \in DOMAIN epoch : epoch'[j].ops = epoch[j].ops /\ epoch'[j].type = epoch[j].type
         /\ DOMAIN epoch' = DOMAIN epoch
         /\ \A j \in DOMAIN epoch : j # cursor.epoch => epoch'[j] = epoch[j]
         /\ Valid(chip) => epoch'[cursor.epoch].chip = chip
         /\ NumEpochs' = NumEpochs
<1>1. PICK move : \/ cursor' = Here(chip, move) /\ Valid(chip)
                  \/ Advanced(Here(chip, move), cursor', Up, config.snake)
  BY TryChipCursor
<1> DEFINE h == Here(chip, move)
<1>2. /\ h \in Cursor /\ h.first = cursor.first /\ h.index = cursor.index
      /\ h.epoch = IF Valid(chip) THEN cursor.epoch + 1 ELSE cursor.epoch
      /\ cursor.index < NumChips
  BY HereOk, CursorFacts
<1>3. cursor' = h \/ Advanced(h, cursor', Up, config.snake)
  BY <1>1
<1> HIDE DEF h
<1>4. cursor' \in Cursor /\ cursor'.index < NumChips /\ cursor'.first = cursor.first
      /\ cursor'.epoch = IF Valid(chip) THEN cursor.epoch + 1 ELSE cursor.epoch
  BY <1>2, <1>3 DEF Advanced
<1> DEFINE i == cursor.epoch
           s == cursor.spatial % NumChips
<1>5. /\ epoch' = IF Valid(chip) THEN [epoch EXCEPT ![i].chip = chip, ![i].temporal = cursor.temporal,
                                                   ![i].spatial = s]
                  ELSE epoch
      /\ phase' \in {"abort", "no_chip", "assign"}
      /\ UNCHANGED <<config, loads, placer>>
  BY DEF TryChip, Valid
<1>6. i \in DOMAIN epoch /\ s \in Int /\ cursor.temporal \in Nat /\ NumEpochs \in Nat
  <2>1. NumChips \in Nat /\ NumChips > 0 /\ cursor.spatial \in Nat /\ cursor.temporal \in Nat
    BY CursorFacts DEF Pos
  <2>2. s \in Int
    BY <2>1
  <2>3. DOMAIN epoch = 0 .. NumEpochs - 1 /\ NumEpochs \in Nat /\ i \in Nat
    BY CursorFacts DEF TypeInv, EpochInv
  <2> QED
    BY <2>1, <2>2, <2>3
<1> HIDE DEF s
<1>7. /\ EpochInv' /\ NumEpochs' = NumEpochs /\ DOMAIN epoch' = DOMAIN epoch
      /\ \A j \in DOMAIN epoch : j # i => epoch'[j] = epoch[j]
      /\ Valid(chip) => epoch'[i].chip = chip
      /\ epoch'[i].ops = epoch[i].ops /\ epoch'[i].type = epoch[i].type
  <2>1. CASE Valid(chip)
    BY <2>1, <1>5, <1>6, EpochChanged DEF Changed
  <2>2. CASE ~Valid(chip)
    <3>1. epoch' = epoch
      BY <2>2, <1>5
    <3>2. NumEpochs' = NumEpochs
      BY <3>1 DEF NumEpochs
    <3> QED
      BY <2>2, <3>1, <3>2 DEF TypeInv, EpochInv
  <2> QED
    BY <2>1, <2>2
<1>8. LoadsInv' /\ NumChips' = NumChips
  BY <1>5, LoadsUnchanged
<1>9. PlacerInv'
  BY <1>5, PlacerUnchanged DEF TypeInv
<1>10. cursor'.epoch <= NumEpochs
  BY <1>4, <1>6, CursorFacts
<1>11. CursorInv'
  BY <1>4, <1>5, <1>7, <1>8, <1>10 DEF CursorInv
<1>12. TypeInv'
  BY <1>5, <1>7, <1>8, <1>9, <1>11 DEF TypeInv
<1> QED
  BY <1>4, <1>7, <1>12

\* The chip of the placement policy is one of the device.
LEMMA PolicyChip ==
  ASSUME NEW c \in Configs, NEW i \in Nat, i < Len(c.chips)
  PROVE  /\ apply_chip_placement_policy(c)[i + 1] \in Nat
         /\ apply_chip_placement_policy(c)[i + 1] \in Range(c.chips)
<1> DEFINE p == apply_chip_placement_policy(c)
<1>1. c.chips \in Seq(Nat) /\ IsInjective(c.chips) /\ c.galaxy \in Seq(Nat) /\ IsInjective(c.galaxy)
  BY ConfigsAssumption DEF ConfigOk
<1>2. p \in Seq(Nat) /\ Len(p) = Len(c.chips) /\ Range(p) = Range(c.chips)
  BY PolicyHasAllChips, ConfigsAssumption DEF ConfigOk
<1> HIDE DEF p
<1>3. i + 1 \in DOMAIN p
  BY <1>1, <1>2
<1>4. p[i + 1] \in Nat /\ p[i + 1] \in Range(p)
  BY <1>2, <1>3 DEF Range
<1> QED
  BY <1>2, <1>4 DEF p

\* A step of wormhole_placer keeps the types.
LEMMA WormholeTypes ==
  ASSUME TypeInv, AssignWormhole
  PROVE  TypeInv'
<1>1. /\ phase = "assign" /\ cursor.epoch < NumEpochs
      /\ TryChip(apply_chip_placement_policy(config)[cursor.index + 1])
  BY DEF AssignWormhole
<1>2. apply_chip_placement_policy(config)[cursor.index + 1] \in Nat
  <2>1. config \in Configs /\ cursor.index \in Nat /\ cursor.index < Len(config.chips)
    BY CursorFacts DEF TypeInv, NumChips
  <2> QED
    BY <2>1, PolicyChip
<1> QED
  BY <1>1, <1>2, TryChipTypes

\* Where galaxy_placer moves the cursor.
LEMMA GalaxyCursor ==
  ASSUME TypeInv, AssignGalaxy
  PROVE  LET c == [cursor EXCEPT !.epoch = cursor.epoch + 1]
         IN  /\ c \in Cursor /\ c.index = cursor.index /\ c.epoch = cursor.epoch + 1
             /\ c.first = cursor.first /\ c.spatial = cursor.spatial /\ c.temporal = cursor.temporal
             /\ c.forward = cursor.forward
             /\ \/ cursor.epoch < NumEpochs - 1
                   /\ Advanced(c, cursor', loads[1].type = "fwd", FALSE)
                \/ /\ cursor.epoch = NumEpochs - 1
                   /\ cursor' = [c EXCEPT !.temporal = cursor.temporal + 1]
                   /\ cursor' \in Cursor /\ cursor'.index = cursor.index /\ cursor'.epoch = NumEpochs
                   /\ cursor'.first = cursor.first /\ cursor'.temporal = cursor.temporal + 1
                   /\ cursor'.spatial = cursor.spatial
<1> DEFINE c == [cursor EXCEPT !.epoch = cursor.epoch + 1]
           e == cursor.epoch + 1
           t == cursor.temporal + 1
<1>1. /\ cursor \in Cursor /\ cursor.index < NumChips /\ NumChips \in Pos
      /\ cursor.epoch \in Nat /\ cursor.temporal \in Nat
  BY CursorFacts
<1>2. /\ cursor.epoch < NumEpochs /\ NumEpochs \in Nat
      /\ cursor' = IF cursor.epoch < NumEpochs - 1 THEN advance_epoch(c, loads[1].type = "fwd", FALSE)
                   ELSE [cursor EXCEPT !.epoch = e, !.temporal = t]
  BY DEF AssignGalaxy, TypeInv, EpochInv
<1>3. e \in Nat /\ t \in Nat /\ c = [cursor EXCEPT !.epoch = e]
  BY <1>1
<1>4. e = cursor.epoch + 1 /\ t = cursor.temporal + 1
  OBVIOUS
<1> HIDE DEF c, e, t
<1>5. /\ c \in Cursor /\ c.index = cursor.index /\ c.epoch = e
      /\ c.first = cursor.first /\ c.spatial = cursor.spatial /\ c.temporal = cursor.temporal
      /\ c.forward = cursor.forward
  BY <1>1, <1>3 DEF Cursor
<1>6. CASE cursor.epoch < NumEpochs - 1
  <2>1. cursor' = advance_epoch(c, loads[1].type = "fwd", FALSE)
    BY <1>2, <1>6
  <2>2. Advanced(c, cursor', loads[1].type = "fwd", FALSE)
    BY <2>1, <1>1, <1>5, AdvanceEpoch
  <2> QED
    BY <2>2, <1>4, <1>5, <1>6 DEF c
<1>7. CASE ~(cursor.epoch < NumEpochs - 1)
  <2>1. cursor.epoch = NumEpochs - 1 /\ e = NumEpochs
    BY <1>1, <1>2, <1>4, <1>7
  <2>2. cursor' = [cursor EXCEPT !.epoch = e, !.temporal = t]
    BY <1>2, <1>7
  <2>3. cursor' = [c EXCEPT !.temporal = t]
    BY <2>2, <1>1, <1>3 DEF Cursor
  <2>4. /\ cursor' \in Cursor /\ cursor'.index = cursor.index /\ cursor'.epoch = e
        /\ cursor'.first = cursor.first /\ cursor'.temporal = t /\ cursor'.spatial = cursor.spatial
    BY <2>2, <1>1, <1>3 DEF Cursor
  <2> QED
    BY <2>1, <2>3, <2>4, <1>4, <1>5 DEF c
<1> QED
  BY <1>6, <1>7

\* Which epoch galaxy_placer changes.
LEMMA GalaxyEpochs ==
  ASSUME TypeInv, AssignGalaxy
  PROVE  LET i == cursor.epoch
         IN  /\ i \in DOMAIN epoch /\ EpochInv' /\ NumEpochs' = NumEpochs /\ DOMAIN epoch' = DOMAIN epoch
             /\ \A j \in DOMAIN epoch : j # i => epoch'[j] = epoch[j]
             /\ epoch'[i].chip = config.chips[cursor.index + 1] /\ epoch'[i].temporal = cursor.temporal
             /\ epoch'[i].spatial = cursor.spatial % NumChips
             /\ epoch'[i].ops = epoch[i].ops /\ epoch'[i].type = epoch[i].type
<1> DEFINE i == cursor.epoch
           s == cursor.spatial % NumChips
           chip == config.chips[cursor.index + 1]
<1>1. /\ i < NumEpochs
      /\ epoch' = [epoch EXCEPT ![i].chip = chip, ![i].temporal = cursor.temporal, ![i].spatial = s]
  BY DEF AssignGalaxy
<1>2. NumChips \in Pos /\ i \in Nat /\ cursor.temporal \in Nat /\ cursor.spatial \in Nat
      /\ cursor.index \in Nat /\ cursor.index < NumChips
  BY CursorFacts
<1>3. s \in Int
  BY <1>2, ModRange
<1>4. chip \in Nat
  <2>1. config.chips \in Seq(Nat)
    BY ConfigFacts DEF TypeInv
  <2> QED
    BY <2>1, <1>2 DEF NumChips
<1>5. i \in DOMAIN epoch
  BY <1>1, <1>2 DEF TypeInv, EpochInv
<1> HIDE DEF s, chip
<1>6. /\ EpochInv' /\ NumEpochs' = NumEpochs /\ DOMAIN epoch' = DOMAIN epoch
      /\ \A j \in DOMAIN epoch : j # i => epoch'[j] = epoch[j]
      /\ epoch'[i].chip = chip /\ epoch'[i].temporal = cursor.temporal
      /\ epoch'[i].spatial = s
      /\ epoch'[i].ops = epoch[i].ops /\ epoch'[i].type = epoch[i].type
  <2>1. i \in DOMAIN epoch /\ chip \in Nat /\ cursor.temporal \in Nat /\ s \in Int
    BY <1>2, <1>3, <1>4, <1>5
  <2>2. epoch' = [epoch EXCEPT ![i].chip = chip, ![i].temporal = cursor.temporal, ![i].spatial = s]
    BY <1>1
  <2>3. Changed(i, chip, cursor.temporal, s)
    BY <2>1, <2>2, EpochChanged
  <2> QED
    BY <2>3 DEF Changed
<1> QED
  BY <1>5, <1>6 DEF s, chip

\* A step of galaxy_placer keeps the types.
LEMMA GalaxyTypes ==
  ASSUME TypeInv, AssignGalaxy
  PROVE  TypeInv'
<1>1. phase = "assign" /\ UNCHANGED <<config, phase, loads, placer>>
  BY DEF AssignGalaxy
<1>2. EpochInv' /\ NumEpochs' = NumEpochs
  BY GalaxyEpochs
<1>3. cursor' \in Cursor /\ cursor'.index < NumChips /\ cursor'.epoch <= NumEpochs
  <2>1. /\ cursor.epoch \in Nat /\ NumEpochs \in Nat /\ cursor.index < NumChips
    BY CursorFacts DEF TypeInv, EpochInv
  <2> DEFINE c == [cursor EXCEPT !.epoch = cursor.epoch + 1]
  <2>2. \/ /\ cursor.epoch < NumEpochs - 1 /\ c.epoch = cursor.epoch + 1
           /\ Advanced(c, cursor', loads[1].type = "fwd", FALSE)
        \/ cursor' \in Cursor /\ cursor'.index = cursor.index /\ cursor'.epoch = NumEpochs
    BY GalaxyCursor
  <2> HIDE DEF c
  <2> QED
    BY <2>1, <2>2 DEF Advanced
<1>4. LoadsInv' /\ NumChips' = NumChips
  BY <1>1, LoadsUnchanged
<1>5. PlacerInv'
  BY <1>1, PlacerUnchanged DEF TypeInv
<1>6. CursorInv'
  BY <1>1, <1>2, <1>3, <1>4 DEF CursorInv
<1> QED
  BY <1>1, <1>2, <1>4, <1>5, <1>6 DEF TypeInv

-----------------------------------------------------------------------------
\* The spatial epoch of the summary is the index of the chip.
LEMMA SpatialIndexOk ==
  ASSUME config \in Configs, NEW chip
  PROVE  /\ SpatialIndex(chip) \in Int
         /\ chip \in Range(config.chips) => /\ SpatialIndex(chip) \in 0 .. NumChips - 1
                                            /\ config.chips[SpatialIndex(chip) + 1] = chip
<1> DEFINE I == {i \in 1 .. Len(config.chips) : config.chips[i] = chip}
<1>1. SpatialIndex(chip) = (IF I # {} THEN Min(I) ELSE 0) - 1
  BY DEF SpatialIndex, SelectInSeq
<1>2. config.chips \in Seq(Nat) /\ Len(config.chips) \in Nat
  BY ConfigFacts
<1>6. I \subseteq Nat
  OBVIOUS
<1>3. I # {} => Min(I) \in I
  <2> HIDE DEF I
  <2> QED
    BY <1>6, Smallest
<1>4. chip \in Range(config.chips) => I # {}
  BY <1>2 DEF Range
<1>5. \A i \in I : i \in 1 .. NumChips /\ config.chips[i] = chip
  BY DEF NumChips
<1> HIDE DEF I
<1>8. CASE I # {}
  <2>1. SpatialIndex(chip) = Min(I) - 1 /\ Min(I) \in 1 .. NumChips /\ config.chips[Min(I)] = chip
    BY <1>1, <1>3, <1>5, <1>8
  <2>2. SpatialIndex(chip) \in 0 .. NumChips - 1 /\ SpatialIndex(chip) + 1 = Min(I)
    BY <2>1, <1>2 DEF NumChips
  <2> QED
    BY <2>1, <2>2
<1>7. CASE I = {}
  BY <1>1, <1>4, <1>7
<1> QED
  BY <1>7, <1>8

\* The temporal epoch that the summary gives an epoch.
AgainAt == {epoch[j].temporal + 1 :
               j \in {k \in 0 .. cursor.epoch - 1 : epoch[k].chip = epoch[cursor.epoch].chip}}
NextFree == Max({cursor.temporal} \cup AgainAt)
UsedAt(t) == \E j \in 0 .. cursor.epoch - 1 : epoch[j].temporal = t
NewTemporal == IF TemporalBreak(cursor.epoch) /\ UsedAt(NextFree) THEN NextFree + 1 ELSE NextFree

\* The temporal epoch of the cursor or the next one is the first that the chip is free in.
LEMMA NextFreeOk ==
  ASSUME TypeInv, phase = "summary"
  PROVE  /\ NextFree \in {cursor.temporal, cursor.temporal + 1}
         /\ \A j \in 0 .. cursor.epoch - 1 : epoch[j].chip = epoch[cursor.epoch].chip =>
               epoch[j].temporal < NextFree
<1> DEFINE T == {cursor.temporal} \cup AgainAt
           ct == cursor.temporal
<1>1. /\ ct \in Nat /\ cursor.epoch \in Nat
      /\ \A j \in 0 .. cursor.epoch - 1 : epoch[j].temporal \in Nat /\ epoch[j].temporal <= ct
  <2>1. cursor.temporal \in Nat /\ cursor.epoch \in Nat /\ cursor.epoch <= NumEpochs /\ NumEpochs \in Nat
    BY CursorFacts DEF TypeInv, CursorInv, EpochInv
  <2>2. \A j \in DOMAIN epoch : epoch[j].temporal \in Nat
    BY DEF TypeInv, EpochInv, EpochRecord
  <2>3. DOMAIN epoch = 0 .. NumEpochs - 1
    BY DEF TypeInv, EpochInv
  <2>4. \A j \in 0 .. cursor.epoch - 1 : j \in DOMAIN epoch
    BY <2>1, <2>3
  <2>5. \A j \in 0 .. cursor.epoch - 1 : epoch[j].temporal <= cursor.temporal
    BY DEF TypeInv, CursorInv
  <2> QED
    BY <2>1, <2>2, <2>4, <2>5
<1>2. \A j \in 0 .. cursor.epoch - 1 : epoch[j].chip = epoch[cursor.epoch].chip =>
         epoch[j].temporal + 1 \in T
  BY DEF AgainAt
<1>3. ct + 1 \in Nat /\ T \subseteq 0 .. ct + 1 /\ ct \in T
  BY <1>1 DEF AgainAt
<1> HIDE DEF T
<1>4. Max(T) \in T /\ \A k \in T : Max(T) >= k
  <2> DEFINE n == ct + 1
  <2>1. n \in Nat /\ T \subseteq 0 .. n /\ T # {}
    BY <1>3
  <2> HIDE DEF n
  <2> QED
    BY <2>1, Greatest
<1>5. NextFree = Max(T)
  BY DEF NextFree, T
<1>6. NextFree \in {ct, ct + 1}
  <2>1. Max(T) >= ct /\ Max(T) \in 0 .. ct + 1
    BY <1>3, <1>4
  <2> QED
    BY <2>1, <1>1, <1>5
<1>7. ASSUME NEW j \in 0 .. cursor.epoch - 1, epoch[j].chip = epoch[cursor.epoch].chip
      PROVE  epoch[j].temporal < NextFree
  <2>1. Max(T) >= epoch[j].temporal + 1
    BY <1>2, <1>4, <1>7
  <2> QED
    BY <2>1, <1>1, <1>5, <1>6
<1> QED
  BY <1>6, <1>7

\* What a step of the summary changes.
LEMMA SummarizeFacts ==
  ASSUME TypeInv, SummarizeEpoch
  PROVE  LET i == cursor.epoch
         IN  /\ i \in DOMAIN epoch /\ EpochInv' /\ NumEpochs' = NumEpochs /\ DOMAIN epoch' = DOMAIN epoch
             /\ \A j \in DOMAIN epoch : j # i => epoch'[j] = epoch[j]
             /\ epoch'[i].chip = epoch[i].chip /\ epoch'[i].temporal = NewTemporal
             /\ epoch'[i].spatial = SpatialIndex(epoch[i].chip)
             /\ epoch'[i].ops = epoch[i].ops /\ epoch'[i].type = epoch[i].type
             /\ cursor' \in Cursor /\ cursor'.epoch = i + 1 /\ cursor'.index < NumChips
             /\ cursor'.temporal = NewTemporal /\ NewTemporal \in Nat
             /\ NewTemporal >= cursor.temporal
             /\ NewTemporal = IF TemporalBreak(i) /\ UsedAt(NextFree) THEN NextFree + 1 ELSE NextFree
<1> DEFINE i == cursor.epoch
           s == SpatialIndex(epoch[i].chip)
           t == NewTemporal
           e == cursor.epoch + 1
<1>1. /\ phase = "summary" /\ i < NumEpochs
      /\ epoch' = [epoch EXCEPT ![i].temporal = t, ![i].spatial = s]
      /\ cursor' = [cursor EXCEPT !.epoch = e, !.temporal = t]
  BY DEF SummarizeEpoch, NewTemporal, NextFree, AgainAt, UsedAt
<1>2. /\ cursor \in Cursor /\ cursor.index < NumChips /\ cursor.epoch \in Nat /\ cursor.temporal \in Nat
  BY CursorFacts
<1>3. t = IF TemporalBreak(i) /\ UsedAt(NextFree) THEN NextFree + 1 ELSE NextFree
  BY DEF NewTemporal
<1>4. t \in Nat /\ t >= cursor.temporal
  <2>1. NextFree \in {cursor.temporal, cursor.temporal + 1}
    BY <1>1, NextFreeOk
  <2>2. t \in {NextFree, NextFree + 1}
    BY <1>3
  <2> HIDE DEF t
  <2> QED
    BY <2>1, <2>2, <1>2
<1>5. s \in Int
  BY SpatialIndexOk DEF TypeInv
<1>6. i \in DOMAIN epoch /\ e \in Nat /\ e = i + 1
  BY <1>1, <1>2 DEF TypeInv, EpochInv
<1>7. epoch[i].chip \in Nat
  BY <1>6 DEF TypeInv, EpochInv, EpochRecord
<1>8. epoch' = [epoch EXCEPT ![i].chip = epoch[i].chip, ![i].temporal = t, ![i].spatial = s]
  <2>1. epoch[i] \in EpochRecord
    BY <1>6 DEF TypeInv, EpochInv
  <2>2. [epoch[i] EXCEPT !.temporal = t, !.spatial = s]
          = [epoch[i] EXCEPT !.chip = epoch[i].chip, !.temporal = t, !.spatial = s]
    BY <2>1 DEF EpochRecord
  <2> HIDE DEF t, s
  <2> QED
    BY <1>1, <2>2
<1> HIDE DEF s, t, e
<1>9. Changed(i, epoch[i].chip, t, s)
  BY <1>4, <1>5, <1>6, <1>7, <1>8, EpochChanged
<1>10. /\ cursor' \in Cursor /\ cursor'.epoch = e /\ cursor'.index = cursor.index
       /\ cursor'.temporal = t
  BY <1>1, <1>2, <1>4, <1>6 DEF Cursor
<1> QED
  BY <1>2, <1>3, <1>4, <1>6, <1>9, <1>10 DEF Changed, s, t

\* A step of the summary keeps the types.
LEMMA SummarizeTypes ==
  ASSUME TypeInv, SummarizeEpoch
  PROVE  TypeInv'
<1> DEFINE i == cursor.epoch
<1>1. phase = "summary" /\ i < NumEpochs /\ UNCHANGED <<config, phase, loads, placer>>
  BY DEF SummarizeEpoch
<1>2. /\ EpochInv' /\ NumEpochs' = NumEpochs /\ i \in DOMAIN epoch
      /\ \A j \in DOMAIN epoch : j # i => epoch'[j] = epoch[j]
      /\ epoch'[i].temporal = cursor'.temporal
      /\ cursor' \in Cursor /\ cursor'.epoch = i + 1 /\ cursor'.index < NumChips
      /\ cursor'.temporal \in Nat /\ cursor'.temporal >= cursor.temporal
  BY SummarizeFacts
<1>3. LoadsInv' /\ NumChips' = NumChips
  BY <1>1, LoadsUnchanged
<1>4. PlacerInv'
  BY <1>1, PlacerUnchanged DEF TypeInv
<1>5. i \in Nat /\ NumEpochs \in Nat /\ cursor.temporal \in Nat /\ DOMAIN epoch = 0 .. NumEpochs - 1
  BY CursorFacts DEF TypeInv, EpochInv
<1>6. \A j \in 0 .. i - 1 : epoch[j].temporal <= cursor.temporal
  BY <1>1 DEF TypeInv, CursorInv
<1>7. \A j \in DOMAIN epoch : epoch[j].temporal \in Nat
  BY DEF TypeInv, EpochInv, EpochRecord
<1> HIDE DEF i
<1>8. ASSUME NEW j \in 0 .. i PROVE epoch'[j].temporal <= cursor'.temporal
  <2>1. CASE j = i
    BY <2>1, <1>2
  <2>2. CASE j # i
    <3>1. j \in 0 .. i - 1 /\ j \in DOMAIN epoch
      BY <2>2, <1>1, <1>5 DEF i
    <3>2. epoch'[j].temporal = epoch[j].temporal /\ epoch[j].temporal <= cursor.temporal
          /\ epoch[j].temporal \in Nat
      BY <2>2, <3>1, <1>2, <1>6, <1>7
    <3> QED
      BY <3>2, <1>2, <1>5
  <2> QED
    BY <2>1, <2>2
<1>9. cursor'.epoch <= NumEpochs /\ 0 .. cursor'.epoch - 1 = 0 .. i
  <2>1. (i + 1) - 1 = i /\ i + 1 <= NumEpochs
    BY <1>1, <1>5 DEF i
  <2> QED
    BY <2>1, <1>2
<1>10. CursorInv'
  BY <1>1, <1>2, <1>3, <1>8, <1>9 DEF CursorInv
<1> QED
  BY <1>1, <1>2, <1>3, <1>4, <1>10 DEF TypeInv

-----------------------------------------------------------------------------
(***************************************************************************)
(* The empty epochs of the summary.                                        *)
(***************************************************************************)
Have == {<<epoch[i].temporal, epoch[i].spatial>> : i \in DOMAIN epoch}
Temporals == {h[1] : h \in Have}
Missing == (Temporals \X (0 .. NumChips - 1)) \ Have
Id(m) == NumEpochs + Cardinality({n \in Missing : Before(n, m)})
TypeAt(t) == epoch[Max({i \in DOMAIN epoch : epoch[i].temporal = t})].type
Empty(m) == [chip |-> config.chips[m[2] + 1], type |-> TypeAt(m[1]), temporal |-> m[1],
             spatial |-> m[2], ops |-> <<>>]
MissingAt(i) == CHOOSE m \in Missing : Id(m) = i

\* The pairs of temporal and spatial epoch without an epoch are finitely many.
LEMMA MissingFacts ==
  ASSUME TypeInv
  PROVE  /\ IsFiniteSet(Missing) /\ Missing \subseteq Nat \X Nat
         /\ \A m \in Missing : m[2] \in 0 .. NumChips - 1 /\ \E i \in DOMAIN epoch : epoch[i].temporal = m[1]
<1>1. /\ DOMAIN epoch = 0 .. NumEpochs - 1 /\ NumEpochs \in Nat
      /\ \A i \in DOMAIN epoch : epoch[i].temporal \in Nat
  BY DEF TypeInv, EpochInv, EpochRecord
<1>2. IsFiniteSet(DOMAIN epoch)
  <2> DEFINE n == NumEpochs
  <2>1. DOMAIN epoch = 0 .. n - 1 /\ n \in Nat
    BY <1>1
  <2> HIDE DEF n
  <2> QED
    BY <2>1, FS_Interval
<1> DEFINE f == [i \in DOMAIN epoch |-> epoch[i].temporal]
<1>3. Temporals = {epoch[i].temporal : i \in DOMAIN epoch}
  <2>1. \A i : <<epoch[i].temporal, epoch[i].spatial>>[1] = epoch[i].temporal
    OBVIOUS
  <2>2. \A h \in Have : \E i \in DOMAIN epoch : h = <<epoch[i].temporal, epoch[i].spatial>>
    BY DEF Have
  <2>3. \A i \in DOMAIN epoch : <<epoch[i].temporal, epoch[i].spatial>> \in Have
    BY DEF Have
  <2>4. \A h \in Have : \E i \in DOMAIN epoch : h[1] = epoch[i].temporal
    BY <2>1, <2>2
  <2>5. \A i \in DOMAIN epoch : \E h \in Have : h[1] = epoch[i].temporal
    BY <2>1, <2>3
  <2> QED
    BY <2>4, <2>5 DEF Temporals
<1>4. f \in Surjection(DOMAIN epoch, Temporals)
  BY <1>3 DEF Surjection
<1>5. IsFiniteSet(Temporals)
  <2> HIDE DEF f
  <2> QED
    BY <1>2, <1>4, FS_Surjection
<1>6. NumChips \in Nat
  BY CursorFacts DEF Pos
<1>7. IsFiniteSet(0 .. NumChips - 1)
  BY <1>6, FS_Interval
<1>8. IsFiniteSet(Temporals \X (0 .. NumChips - 1))
  BY <1>5, <1>7, FS_Product
<1>9. IsFiniteSet(Missing)
  BY <1>8, FS_Subset DEF Missing
<1>10. Missing \subseteq Temporals \X (0 .. NumChips - 1)
  BY DEF Missing
<1>11. Temporals \subseteq Nat
  BY <1>1, <1>3
<1>12. \A m \in Missing : m[1] \in Temporals /\ m[2] \in 0 .. NumChips - 1
  BY <1>10
<1>13. Missing \subseteq Nat \X Nat
  <2>1. 0 .. NumChips - 1 \subseteq Nat
    BY <1>6
  <2> QED
    BY <1>10, <1>11, <2>1
<1> QED
  BY <1>3, <1>9, <1>12, <1>13

\* Row-major order on a set of pairs.
BeforeIn(S) == {p \in S \X S : Before(p[1], p[2])}

\* Row-major order is a strict order on pairs of naturals.
LEMMA BeforeIsOrder ==
  ASSUME NEW S, S \subseteq Nat \X Nat
  PROVE  StrictOrder(BeforeIn(S), S)
<1>1. \A x, y \in S : <<x, y>> \in BeforeIn(S) <=> Before(x, y)
  BY DEF BeforeIn
<1>2. \A x \in S : x[1] \in Nat /\ x[2] \in Nat /\ x = <<x[1], x[2]>>
  OBVIOUS
<1>3. \A x \in S : ~Before(x, x)
  BY <1>2 DEF Before
<1>4. \A x, y, z \in S : Before(x, y) /\ Before(y, z) => Before(x, z)
  BY <1>2 DEF Before
<1>5. \A x, y \in S : x # y => Before(x, y) \/ Before(y, x)
  <2> SUFFICES ASSUME NEW x \in S, NEW y \in S, x # y PROVE Before(x, y) \/ Before(y, x)
    OBVIOUS
  <2>1. x[1] # y[1] \/ x[2] # y[2]
    BY <1>2
  <2> QED
    BY <2>1, <1>2 DEF Before
<1> QED
  BY <1>1, <1>3, <1>4, <1>5 DEF StrictOrder

\* The empty epochs get the ids behind those of the solution, each its own.
LEMMA IdsOfMissing ==
  ASSUME TypeInv
  PROVE  /\ {Id(m) : m \in Missing} = NumEpochs .. NumEpochs + (Cardinality(Missing) - 1)
         /\ \A m, n \in Missing : Id(m) = Id(n) => m = n
         /\ Cardinality(Missing) \in Nat
<1> DEFINE M == Missing
           R == BeforeIn(M)
           N == NumEpochs
<1>1. IsFiniteSet(M) /\ M \subseteq Nat \X Nat
  BY MissingFacts
<1>2. \A m \in M : Id(m) = N + Rank(R, M, m)
  <2> SUFFICES ASSUME NEW m \in M PROVE Id(m) = N + Rank(R, M, m)
    OBVIOUS
  <2>1. {n \in M : Before(n, m)} = {n \in M : <<n, m>> \in R}
    BY DEF BeforeIn
  <2> QED
    BY <2>1 DEF Id, Rank
<1>3. N \in Nat
  BY DEF TypeInv, EpochInv
<1> HIDE DEF M, N
<1>4. StrictOrder(R, M)
  BY <1>1, BeforeIsOrder
<1> HIDE DEF R
<1>5. {Rank(R, M, m) : m \in M} = 0 .. Cardinality(M) - 1
  BY <1>1, <1>4, RankIsOnto
<1>6. Cardinality(M) \in Nat
  BY <1>1, FS_CardinalityType
<1>7. \A m \in M : Rank(R, M, m) \in 0 .. Cardinality(M) - 1
  BY <1>5
<1>8. \A m, n \in M : Rank(R, M, m) = Rank(R, M, n) => m = n
  <2> SUFFICES ASSUME NEW m \in M, NEW n \in M, m # n PROVE Rank(R, M, m) # Rank(R, M, n)
    OBVIOUS
  <2>1. <<m, n>> \in R \/ <<n, m>> \in R
    BY <1>4 DEF StrictOrder
  <2>2. \A x, y \in M : <<x, y>> \in R => Rank(R, M, x) < Rank(R, M, y)
    BY <1>1, <1>4, RankGrows
  <2>3. Rank(R, M, m) \in Int /\ Rank(R, M, n) \in Int
    BY <1>7
  <2> QED
    BY <2>1, <2>2, <2>3
<1>9. \A m, n \in M : Id(m) = Id(n) => m = n
  <2> SUFFICES ASSUME NEW m \in M, NEW n \in M, Id(m) = Id(n) PROVE m = n
    OBVIOUS
  <2>1. N + Rank(R, M, m) = N + Rank(R, M, n) /\ Rank(R, M, m) \in Int /\ Rank(R, M, n) \in Int
    BY <1>2, <1>7
  <2>2. Rank(R, M, m) = Rank(R, M, n)
    <3> DEFINE a == Rank(R, M, m)
               b == Rank(R, M, n)
    <3>1. N + a = N + b /\ a \in Int /\ b \in Int
      BY <2>1
    <3> HIDE DEF a, b
    <3>2. a = b
      BY <3>1, <1>3
    <3> QED
      BY <3>2 DEF a, b
  <2> QED
    BY <2>2, <1>8
<1>10. {Id(m) : m \in M} = N .. N + (Cardinality(M) - 1)
  <2> DEFINE k == Cardinality(M)
  <2>1. \A m \in M : Id(m) \in N .. N + (k - 1)
    BY <1>2, <1>3, <1>6, <1>7
  <2>2. ASSUME NEW x \in N .. N + (k - 1) PROVE \E m \in M : Id(m) = x
    <3>1. x - N \in 0 .. k - 1
      BY <1>3, <1>6
    <3>2. PICK m \in M : Rank(R, M, m) = x - N
      BY <3>1, <1>5
    <3>3. Id(m) = x
      BY <3>2, <1>2, <1>3
    <3> QED
      BY <3>3
  <2> HIDE DEF k
  <2>3. {Id(m) : m \in M} = N .. N + (k - 1)
    BY <2>1, <2>2
  <2> QED
    BY <2>3 DEF k
<1> QED
  BY <1>6, <1>9, <1>10 DEF M, N

\* The type of a temporal epoch is that of one of its epochs.
LEMMA TypeAtOk ==
  ASSUME TypeInv, NEW t, \E i \in DOMAIN epoch : epoch[i].temporal = t
  PROVE  \E i \in DOMAIN epoch : epoch[i].temporal = t /\ TypeAt(t) = epoch[i].type
<1> DEFINE T == {i \in DOMAIN epoch : epoch[i].temporal = t}
<1>1. DOMAIN epoch = 0 .. NumEpochs - 1 /\ NumEpochs \in Nat
  BY DEF TypeInv, EpochInv
<1>2. T \subseteq 0 .. NumEpochs /\ T # {}
  BY <1>1
<1>3. Max(T) \in T
  <2> DEFINE n == NumEpochs
  <2>1. n \in Nat /\ T \subseteq 0 .. n /\ T # {}
    BY <1>1, <1>2
  <2> HIDE DEF n, T
  <2> QED
    BY <2>1, Greatest
<1>4. TypeAt(t) = epoch[Max(T)].type
  BY DEF TypeAt
<1>5. \A i \in T : i \in DOMAIN epoch /\ epoch[i].temporal = t
  OBVIOUS
<1> HIDE DEF T
<1> QED
  BY <1>3, <1>4, <1>5

\* What inserting the empty epochs adds to the solution.
LEMMA InsertFacts ==
  ASSUME TypeInv, InsertEmptyEpochs
  PROVE  /\ DOMAIN epoch' = DOMAIN epoch \cup {Id(m) : m \in Missing}
         /\ \A i \in DOMAIN epoch : epoch'[i] = epoch[i]
         /\ \A m \in Missing : Id(m) \in DOMAIN epoch' /\ epoch'[Id(m)] = Empty(m)
         /\ \A i \in DOMAIN epoch, m \in Missing : i < Id(m)
         /\ EpochInv'
<1>1. epoch' = [i \in DOMAIN epoch \cup {Id(m) : m \in Missing} |->
                   IF i \in DOMAIN epoch THEN epoch[i] ELSE Empty(MissingAt(i))]
  BY DEF InsertEmptyEpochs, Missing, Temporals, Have, Id, TypeAt, Empty, MissingAt
<1>2. /\ DOMAIN epoch = 0 .. NumEpochs - 1 /\ NumEpochs \in Nat
      /\ \A i \in DOMAIN epoch : epoch[i] \in EpochRecord
  BY DEF TypeInv, EpochInv
<1>3. /\ {Id(m) : m \in Missing} = NumEpochs .. NumEpochs + (Cardinality(Missing) - 1)
      /\ \A m, n \in Missing : Id(m) = Id(n) => m = n
      /\ Cardinality(Missing) \in Nat
  BY IdsOfMissing
<1> DEFINE N == NumEpochs
           k == Cardinality(Missing)
           Ids == {Id(m) : m \in Missing}
<1>4. Ids = N .. N + (k - 1) /\ k \in Nat /\ N \in Nat /\ DOMAIN epoch = 0 .. N - 1
  BY <1>2, <1>3
<1>5. \A m \in Missing : Id(m) \in Ids
  OBVIOUS
<1>6. DOMAIN epoch' = DOMAIN epoch \cup Ids
  BY <1>1
<1>7. \A i \in DOMAIN epoch : epoch'[i] = epoch[i]
  BY <1>1
<1>20. \A i \in Ids : \E m \in Missing : Id(m) = i
  OBVIOUS
<1> HIDE DEF N, k, Ids
<1>8. \A i \in DOMAIN epoch, m \in Missing : i < Id(m)
  BY <1>4, <1>5
<1>9. \A m \in Missing : epoch'[Id(m)] = Empty(m)
  <2> SUFFICES ASSUME NEW m \in Missing PROVE epoch'[Id(m)] = Empty(m)
    OBVIOUS
  <2>1. Id(m) \in Ids /\ Id(m) \notin DOMAIN epoch
    BY <1>4, <1>5
  <2>2. epoch'[Id(m)] = Empty(MissingAt(Id(m)))
    BY <2>1, <1>1 DEF Ids
  <2>3. MissingAt(Id(m)) = m
    BY <1>3 DEF MissingAt
  <2> QED
    BY <2>2, <2>3
<1>10. DOMAIN epoch' = 0 .. (N + k) - 1 /\ N + k \in Nat
  BY <1>4, <1>6
<1>11. NumEpochs' = N + k
  <2> DEFINE n == N + k
  <2>1. DOMAIN epoch' = 0 .. n - 1 /\ n \in Nat
    BY <1>10
  <2>2. NumEpochs' = Cardinality(DOMAIN epoch')
    BY DEF NumEpochs
  <2> HIDE DEF n
  <2>3. NumEpochs' = n
    BY <2>1, <2>2, IntervalCount
  <2> QED
    BY <2>3 DEF n
<1>12. \A m \in Missing : Empty(m) \in EpochRecord
  <2> SUFFICES ASSUME NEW m \in Missing PROVE Empty(m) \in EpochRecord
    OBVIOUS
  <2>1. /\ m[1] \in Nat /\ m[2] \in 0 .. NumChips - 1
        /\ \E i \in DOMAIN epoch : epoch[i].temporal = m[1]
    BY MissingFacts
  <2>2. config.chips \in Seq(Nat) /\ NumChips \in Nat
    BY ConfigFacts DEF TypeInv, Pos
  <2>3. config.chips[m[2] + 1] \in Nat /\ m[2] \in Int
    BY <2>1, <2>2 DEF NumChips
  <2>4. PICK i \in DOMAIN epoch : TypeAt(m[1]) = epoch[i].type
    BY <2>1, TypeAtOk
  <2>5. TypeAt(m[1]) \in TypeName
    BY <2>4, <1>2 DEF EpochRecord
  <2>6. <<>> \in Seq(Placement)
    OBVIOUS
  <2> QED
    BY <2>1, <2>3, <2>5, <2>6, EpochTyped DEF Empty
<1>13. \A i \in DOMAIN epoch' : epoch'[i] \in EpochRecord
  <2> SUFFICES ASSUME NEW i \in DOMAIN epoch' PROVE epoch'[i] \in EpochRecord
    OBVIOUS
  <2>1. CASE i \in DOMAIN epoch
    BY <2>1, <1>2, <1>7
  <2>2. CASE i \in Ids
    <3>1. PICK m \in Missing : Id(m) = i
      BY <2>2, <1>20
    <3> QED
      BY <3>1, <1>9, <1>12
  <2> QED
    BY <2>1, <2>2, <1>6
<1>14. EpochInv'
  BY <1>10, <1>11, <1>13 DEF EpochInv
<1> QED
  BY <1>5, <1>6, <1>7, <1>8, <1>9, <1>14 DEF Ids

\* Inserting the empty epochs keeps the types.
LEMMA InsertTypes ==
  ASSUME TypeInv, InsertEmptyEpochs
  PROVE  TypeInv'
<1>1. phase = "summary" /\ phase' = "done" /\ UNCHANGED <<config, loads, placer, cursor>>
  BY DEF InsertEmptyEpochs
<1>2. EpochInv'
  BY InsertFacts
<1>3. LoadsInv' /\ NumChips' = NumChips
  BY <1>1, LoadsUnchanged
<1>4. PlacerInv'
  BY <1>1, PlacerUnchanged DEF TypeInv
<1>5. CursorInv'
  BY <1>1, <1>3, CursorFacts DEF CursorInv
<1> QED
  BY <1>1, <1>2, <1>3, <1>4, <1>5 DEF TypeInv

\* A step that changes nothing keeps the types.
LEMMA StutterTypes ==
  ASSUME TypeInv, UNCHANGED vars
  PROVE  TypeInv'
<1>1. UNCHANGED <<config, phase, loads, epoch, cursor, placer>>
  BY DEF vars
<1>2. NumEpochs' = NumEpochs /\ NumChips' = NumChips /\ LoadsDone' = LoadsDone
      /\ Loads(config)' = Loads(config)
  BY <1>1 DEF NumEpochs, NumChips, LoadsDone
<1>3. PlacerInv'
  BY <1>1, PlacerUnchanged DEF TypeInv
<1>4. LoadsInv'
  BY <1>1, <1>2 DEF TypeInv, LoadsInv
<1>5. EpochInv'
  BY <1>1, <1>2 DEF TypeInv, EpochInv
<1>6. CursorInv'
  BY <1>1, <1>2 DEF TypeInv, CursorInv
<1> QED
  BY <1>1, <1>3, <1>4, <1>5, <1>6 DEF TypeInv

\* What the placer, its solution and its cursors hold, in every reachable state.
THEOREM TypeCorrect == Spec => []TypeInv
<1>1. TypeInv /\ [Next]_vars => TypeInv'
  <2> SUFFICES ASSUME TypeInv, [Next]_vars PROVE TypeInv'
    OBVIOUS
  <2>1. CASE EpochBreak
    BY <2>1, CompleteTypes DEF EpochBreak, Placing
  <2>2. CASE TryGroup
    BY <2>2, TryGroupTypes
  <2>3. CASE PlacedOntoChip
    BY <2>3, OntoChipTypes
  <2>4. CASE NextLoad
    BY <2>4, NextLoadTypes
  <2>5. CASE AssignWormhole
    BY <2>5, WormholeTypes
  <2>6. CASE AssignGalaxy
    BY <2>6, GalaxyTypes
  <2>7. CASE SummarizeEpoch
    BY <2>7, SummarizeTypes
  <2>8. CASE InsertEmptyEpochs
    BY <2>8, InsertTypes
  <2>9. CASE UNCHANGED vars
    BY <2>9, StutterTypes
  <2> QED
    BY <2>1, <2>2, <2>3, <2>4, <2>5, <2>6, <2>7, <2>8, <2>9 DEF Next, PlacerStep
<1> QED
  BY <1>1, InitTypes, PTL DEF Spec

-----------------------------------------------------------------------------
(***************************************************************************)
(* The attempts of wormhole_placer reach every chip.                       *)
(***************************************************************************)
\* Fits is can_place_epoch_onto_chip for the chip at an index of the policy.
LEMMA FitsIs ==
  ASSUME NEW i, NEW chip
  PROVE  can_place_epoch_onto_chip(i, chip) <=> FitsOn(config, epoch[i].ops, chip)
BY DEF can_place_epoch_onto_chip, FitsOn, EpochOps, OpsOf, IsOutput, IsMmio, Override, HasOverride

\* Without an attempt no chip was tried, and 2 * chips attempts tried them all.
LEMMA NoneTried ==
  ASSUME NEW n \in Pos, NEW c, c.index \in 0 .. n - 1, c.attempt = 0, NEW up, NEW snake,
         NEW j \in 0 .. n - 1
  PROVE  ~Tried(c, up, snake, n, j)
<1>1. n \in Nat /\ n > 0
  BY DEF Pos
<1> DEFINE i == c.index
<1>2. i \in 0 .. n - 1
  OBVIOUS
<1> HIDE DEF i
<1>3. CASE up
  <2>1. ~(i - j > 0 /\ i - j <= 0) /\ ~(i + 1 + j <= 0) /\ ~((i - j) + n <= 0)
    BY <1>1, <1>2
  <2> QED
    BY <2>1, <1>3 DEF Tried, i
<1>4. CASE ~up
  <2>1. ~(j - i > 0 /\ j - i <= 0) /\ ~((n - i) + ((n - 1) - j) <= 0) /\ ~((j - i) + n <= 0)
    BY <1>1, <1>2
  <2> QED
    BY <2>1, <1>4 DEF Tried, i
<1> QED
  BY <1>3, <1>4

\* 2 * chips attempts leave no chip untried, in either direction of the snake.
LEMMA AllTried ==
  ASSUME NEW n \in Pos, NEW c, c.index \in 0 .. n - 1, c.attempt = 2 * n, NEW up,
         NEW snake, NEW j \in 0 .. n - 1
  PROVE  Tried(c, up, snake, n, j)
<1>1. n \in Nat /\ n > 0
  BY DEF Pos
<1> DEFINE i == c.index
<1>2. i \in 0 .. n - 1
  OBVIOUS
<1> HIDE DEF i
<1>3. CASE up
  <2>1. i - j <= 2 * n /\ i + 1 + j <= 2 * n /\ (i - j > 0 \/ (i - j) + n <= 2 * n)
        /\ (i - j > 0 \/ i - j <= 0)
    BY <1>1, <1>2
  <2> QED
    BY <2>1, <1>3 DEF Tried, i
<1>4. CASE ~up
  <2>1. j - i <= 2 * n /\ (n - i) + ((n - 1) - j) <= 2 * n /\ (j - i > 0 \/ (j - i) + n <= 2 * n)
        /\ (j - i > 0 \/ j - i <= 0)
    BY <1>1, <1>2
  <2> QED
    BY <2>1, <1>4 DEF Tried, i
<1> QED
  BY <1>3, <1>4

\* A failed attempt adds the chip it was made on.
\* The moves of advance_epoch: over the end of the row, or to the next chip.
Step(i, k, up, upAfter, snake, n) ==
    \/ /\ i = IF up THEN n - 1 ELSE 0
       /\ k = IF snake THEN i ELSE IF up THEN 0 ELSE n - 1
       /\ upAfter <=> IF snake THEN ~up ELSE up
    \/ /\ i # IF up THEN n - 1 ELSE 0
       /\ k = IF up THEN i + 1 ELSE i - 1
       /\ upAfter <=> up

\* The chips tried after one more attempt are those before it and the one it was made on.
LEMMA OneMoreTried ==
  ASSUME NEW n \in Pos, NEW c, NEW r, c.index \in 0 .. n - 1, c.attempt \in Nat,
         r.attempt = c.attempt + 1, NEW up \in BOOLEAN, NEW after \in BOOLEAN, NEW snake \in BOOLEAN,
         Step(c.index, r.index, up, after, snake, n),
         NEW j \in 0 .. n - 1, Tried(r, after, snake, n, j)
  PROVE  j = c.index \/ Tried(c, up, snake, n, j)
<1> DEFINE i == c.index
           a == c.attempt
           k == r.index
<1>1. n \in Nat /\ n > 0 /\ i \in 0 .. n - 1 /\ a \in Nat /\ j \in 0 .. n - 1
  BY DEF Pos
<1>2. /\ after => \/ k - j > 0 /\ k - j <= a + 1
                  \/ snake /\ k + 1 + j <= a + 1
                  \/ ~snake /\ k - j <= 0 /\ (k - j) + n <= a + 1
      /\ ~after => \/ j - k > 0 /\ j - k <= a + 1
                   \/ snake /\ (n - k) + ((n - 1) - j) <= a + 1
                   \/ ~snake /\ j - k <= 0 /\ (j - k) + n <= a + 1
  BY DEF Tried
<1>3. /\ up => (Tried(c, up, snake, n, j) <=>
                  \/ i - j > 0 /\ i - j <= a
                  \/ snake /\ i + 1 + j <= a
                  \/ ~snake /\ i - j <= 0 /\ (i - j) + n <= a)
      /\ ~up => (Tried(c, up, snake, n, j) <=>
                  \/ j - i > 0 /\ j - i <= a
                  \/ snake /\ (n - i) + ((n - 1) - j) <= a
                  \/ ~snake /\ j - i <= 0 /\ (j - i) + n <= a)
  BY DEF Tried
<1>4. Step(i, k, up, after, snake, n)
  OBVIOUS
<1> HIDE DEF i, a, k
<1>5. CASE up /\ i = n - 1
  <2>1. (snake => k = i /\ ~after) /\ (~snake => k = 0 /\ after)
    BY <1>1, <1>4, <1>5 DEF Step
  <2>2. j = i \/ (i - j > 0 /\ i - j <= a)
    BY <2>1, <1>1, <1>2, <1>5
  <2> QED
    BY <2>2, <1>3, <1>5 DEF i
<1>6. CASE up /\ i # n - 1
  <2>1. k = i + 1 /\ after
    BY <1>1, <1>4, <1>6 DEF Step
  <2>2. \/ j = i
        \/ i - j > 0 /\ i - j <= a
        \/ snake /\ i + 1 + j <= a
        \/ ~snake /\ i - j <= 0 /\ (i - j) + n <= a
    BY <2>1, <1>1, <1>2
  <2> QED
    BY <2>2, <1>3, <1>6 DEF i
<1>7. CASE ~up /\ i = 0
  <2>1. (snake => k = i /\ after) /\ (~snake => k = n - 1 /\ ~after)
    BY <1>1, <1>4, <1>7 DEF Step
  <2>2. j = i \/ (j - i > 0 /\ j - i <= a)
    BY <2>1, <1>1, <1>2, <1>7
  <2> QED
    BY <2>2, <1>3, <1>7 DEF i
<1>8. CASE ~up /\ i # 0
  <2>1. k = i - 1 /\ ~after
    BY <1>1, <1>4, <1>8 DEF Step
  <2>2. \/ j = i
        \/ j - i > 0 /\ j - i <= a
        \/ snake /\ (n - i) + ((n - 1) - j) <= a
        \/ ~snake /\ j - i <= 0 /\ (j - i) + n <= a
    BY <2>1, <1>1, <1>2
  <2> QED
    BY <2>2, <1>3, <1>8 DEF i
<1> QED
  BY <1>5, <1>6, <1>7, <1>8

\* What advance_epoch does to the direction.
LEMMA SnakeFacts ==
  ASSUME TypeInv
  PROVE  config.snake \in BOOLEAN /\ Up \in BOOLEAN
<1>1. config.snake \in BOOLEAN
  BY ConfigFacts DEF TypeInv, ConfigOk
<1>2. cursor.forward \in BOOLEAN
  BY CursorFacts
<1> QED
  BY <1>1, <1>2 DEF Up

\* A step of wormhole_placer keeps account of the chips that were tried.
LEMMA AttemptStep ==
  ASSUME TypeInv, TypeInv', TriedInv, AssignWormhole
  PROVE  TriedInv'
<1> DEFINE chip == apply_chip_placement_policy(config)[cursor.index + 1]
           n == NumChips
           snake == config.snake
<1>1. /\ phase = "assign" /\ config.arch = "wormhole" /\ cursor.epoch < NumEpochs /\ TryChip(chip)
  BY DEF AssignWormhole
<1>2. /\ n \in Pos /\ cursor.index \in 0 .. n - 1 /\ cursor.attempt \in Nat /\ n \in Nat
  BY CursorFacts DEF Pos
<1>3. /\ phase' = IF ~validate_epoch_placement(cursor.epoch) THEN "abort"
                  ELSE IF ~Valid(chip) /\ cursor.attempt + 1 = 2 * n + 1 THEN "no_chip" ELSE phase
      /\ ~Valid(chip) => epoch' = epoch
      /\ UNCHANGED <<config, loads>>
  BY <1>1 DEF TryChip, Valid, MaxAttempts
<1>4. n' = n /\ snake' = snake
  BY <1>3 DEF NumChips
<1>5. PICK move : \/ cursor' = Here(chip, move) /\ Valid(chip)
                  \/ Advanced(Here(chip, move), cursor', Up, snake)
  BY <1>1, TryChipCursor
<1> DEFINE h == Here(chip, move)
<1>6. /\ h.forward = cursor.forward /\ h.index = cursor.index
      /\ h.epoch = IF Valid(chip) THEN cursor.epoch + 1 ELSE cursor.epoch
      /\ h.attempt = IF Valid(chip) THEN 0 ELSE cursor.attempt + 1
  BY HereOk
<1> HIDE DEF h
<1>7. (cursor' = h /\ Valid(chip)) \/ Advanced(h, cursor', Up, snake)
  BY <1>5 DEF h
<1>8. cursor'.attempt = h.attempt /\ cursor'.epoch = h.epoch
  BY <1>7 DEF Advanced
<1>9. cursor'.index \in 0 .. n - 1
  <2>1. cursor' \in Cursor /\ cursor'.index < NumChips'
    BY DEF TypeInv, CursorInv
  <2>2. cursor'.index \in Nat
    BY <2>1 DEF Cursor
  <2> QED
    BY <2>1, <2>2, <1>2, <1>4
<1>10. Fits(cursor.index) <=> Valid(chip)
  BY FitsIs DEF Valid, Fits
<1> HIDE DEF chip, n, snake
<1>11. CASE Valid(chip)
  <2>1. cursor'.attempt = 0
    BY <1>6, <1>8, <1>11
  <2>2. \A j \in 0 .. n - 1 : ~Tried(cursor', Up', snake, n, j)
    BY <2>1, <1>2, <1>9, NoneTried
  <2>3. phase' # "no_chip"
    BY <1>1, <1>3, <1>11
  <2> QED
    BY <2>2, <2>3, <1>4 DEF TriedInv, n, snake
<1>12. CASE ~Valid(chip)
  <2>1. /\ cursor'.attempt = cursor.attempt + 1 /\ cursor'.epoch = cursor.epoch
        /\ epoch' = epoch /\ config' = config
    BY <1>3, <1>6, <1>8, <1>12
  <2>2. \A j : Fits(j)' <=> Fits(j)
    BY <2>1 DEF Fits
  <2>3. \A j \in 0 .. n - 1 : Tried(cursor, Up, snake, n, j) => ~Fits(j)
    BY <1>1 DEF TriedInv, n, snake
  <2>4. ~Fits(cursor.index)
    BY <1>10, <1>12
  <2>5. Step(cursor.index, cursor'.index, Up, Up', snake, n)
    <3>1. Advanced(h, cursor', Up, snake)
      BY <1>7, <1>12
    <3>2. Up = IF snake THEN cursor.forward ELSE loads[1].type # "bwd"
      BY DEF Up, snake
    <3>3. Up' = IF snake THEN cursor'.forward ELSE loads[1].type # "bwd"
      BY <1>3, <1>4 DEF Up, snake
    <3>4. \/ /\ h.index = IF Up THEN n - 1 ELSE 0
             /\ cursor'.index = IF snake THEN h.index ELSE IF Up THEN 0 ELSE n - 1
             /\ cursor'.forward = IF snake THEN ~h.forward ELSE h.forward
          \/ /\ h.index # IF Up THEN n - 1 ELSE 0
             /\ cursor'.forward = h.forward
             /\ cursor'.index = IF Up THEN h.index + 1 ELSE h.index - 1
      BY <3>1 DEF Advanced, n
    <3>5. snake \in BOOLEAN /\ cursor.forward \in BOOLEAN /\ Up \in BOOLEAN
      BY SnakeFacts, CursorFacts DEF snake
    <3>6. CASE snake
      BY <3>2, <3>3, <3>4, <3>5, <3>6, <1>6 DEF Step
    <3>7. CASE ~snake
      BY <3>2, <3>3, <3>4, <3>5, <3>7, <1>6 DEF Step
    <3> QED
      BY <3>6, <3>7
  <2>6. Up \in BOOLEAN /\ Up' \in BOOLEAN /\ snake \in BOOLEAN
    <3>1. Up \in BOOLEAN /\ snake \in BOOLEAN
      BY SnakeFacts DEF snake
    <3>2. cursor' \in Cursor
      BY DEF TypeInv, CursorInv
    <3>3. cursor'.forward \in BOOLEAN
      BY <3>2 DEF Cursor
    <3> QED
      BY <3>1, <3>3 DEF Up
  <2>7. ASSUME NEW j \in 0 .. n - 1, Tried(cursor', Up', snake, n, j)
        PROVE  ~Fits(j)
    <3>1. j = cursor.index \/ Tried(cursor, Up, snake, n, j)
      BY <2>1, <2>5, <2>6, <2>7, <1>2, OneMoreTried
    <3> QED
      BY <3>1, <2>3, <2>4
  <2>8. ASSUME phase' = "no_chip", NEW j \in 0 .. n - 1 PROVE ~Fits(j)
    <3>1. cursor.attempt = 2 * n
      <4>1. cursor.attempt + 1 = 2 * n + 1
        BY <2>8, <1>1, <1>3 DEF n
      <4> QED
        BY <4>1, <1>2
    <3>2. Tried(cursor, Up, snake, n, j)
      BY <3>1, <1>2, AllTried
    <3> QED
      BY <3>2, <2>3
  <2> QED
    BY <2>2, <2>7, <2>8, <1>4 DEF TriedInv, n, snake
<1> QED
  BY <1>11, <1>12

\* A new cursor has tried no chip.
LEMMA AttemptsStart ==
  ASSUME TypeInv, PlacedOntoChip
  PROVE  TriedInv'
<1>1. /\ UNCHANGED config /\ phase = "place" /\ phase' # "no_chip"
      /\ cursor' = NewCursor(NumEpochs, loads[1].type, cursor.temporal)
  BY DEF PlacedOntoChip
<1>2. NumEpochs \in Nat /\ cursor.temporal \in Nat /\ NumChips \in Pos
  BY CursorFacts DEF TypeInv, EpochInv
<1>3. Fresh(NewCursor(NumEpochs, loads[1].type, cursor.temporal), NumEpochs, loads[1].type,
            cursor.temporal)
  BY <1>2, NewCursorOk
<1>4. cursor'.attempt = 0 /\ cursor'.index \in 0 .. NumChips - 1
  <2>1. cursor'.attempt = 0 /\ cursor' \in Cursor /\ cursor'.index < NumChips
    BY <1>1, <1>3 DEF Fresh
  <2>2. cursor'.index \in Nat
    BY <2>1 DEF Cursor
  <2> QED
    BY <2>1, <2>2, <1>2 DEF Pos
<1>5. NumChips' = NumChips
  BY <1>1 DEF NumChips
<1>6. \A j \in 0 .. NumChips - 1 : ~Tried(cursor', Up', config'.snake, NumChips, j)
  BY <1>2, <1>4, NoneTried
<1> QED
  BY <1>1, <1>5, <1>6 DEF TriedInv

\* Every chip is tried before the placer gives up.
THEOREM ChipsAreTried == Spec => [](TypeInv /\ TriedInv)
<1>1. Init => TriedInv
  BY DEF Init, TriedInv
<1>2. TypeInv /\ TypeInv' /\ TriedInv /\ [Next]_vars => TriedInv'
  <2> SUFFICES ASSUME TypeInv, TypeInv', TriedInv, [Next]_vars PROVE TriedInv'
    OBVIOUS
  <2>1. CASE PlacedOntoChip
    BY <2>1, AttemptsStart
  <2>2. CASE AssignWormhole
    BY <2>2, AttemptStep
  <2>3. CASE UNCHANGED vars
    <3>1. UNCHANGED <<config, phase, loads, epoch, cursor>>
      BY <2>3 DEF vars
    <3>2. Up' = Up /\ NumChips' = NumChips /\ \A j : Fits(j)' <=> Fits(j)
      BY <3>1 DEF Up, NumChips, Fits
    <3> QED
      BY <3>1, <3>2 DEF TriedInv
  <2>4. CASE AssignGalaxy
    BY <2>4 DEF TriedInv, AssignGalaxy
  <2>5. CASE EpochBreak \/ TryGroup
    <3>1. phase' \in {"place", "abort"}
      BY <2>5 DEF EpochBreak, TryGroup, Placing, complete_epoch, PlaceGroup, NoRoom, Taken,
                  Conflict, Abort, Replay
    <3> QED
      BY <3>1 DEF TriedInv
  <2>6. CASE NextLoad \/ SummarizeEpoch \/ InsertEmptyEpochs
    <3>1. phase' \in {"place", "summary", "done"}
      BY <2>6 DEF NextLoad, SummarizeEpoch, InsertEmptyEpochs
    <3> QED
      BY <3>1 DEF TriedInv
  <2> QED
    BY <2>1, <2>2, <2>3, <2>4, <2>5, <2>6 DEF Next, PlacerStep
<1> QED
  BY <1>1, <1>2, TypeCorrect, PTL DEF Spec

\* 2 * chips + 1 attempts reach every chip from every place and in every direction
\* of the snake (wormhole_placer).
THEOREM GivesUpLast == Spec => []AttemptsSuffice
<1>1. TypeInv /\ TriedInv => AttemptsSuffice
  <2> SUFFICES ASSUME TypeInv, TriedInv, phase = "no_chip", NEW chip \in Range(config.chips)
               PROVE  ~can_place_epoch_onto_chip(cursor.epoch, chip)
    BY DEF AttemptsSuffice
  <2> DEFINE p == apply_chip_placement_policy(config)
  <2>1. config.chips \in Seq(Nat) /\ ConfigOk(config)
    BY ConfigFacts DEF TypeInv
  <2>2. p \in Seq(Nat) /\ Len(p) = NumChips /\ Range(p) = Range(config.chips)
    BY <2>1, PolicyHasAllChips DEF NumChips, ConfigOk
  <2> HIDE DEF p
  <2>3. PICK k \in DOMAIN p : p[k] = chip
    BY <2>2 DEF Range
  <2>4. k - 1 \in 0 .. NumChips - 1 /\ (k - 1) + 1 = k
    BY <2>2, <2>3
  <2>6. ~Fits(k - 1)
    BY <2>4 DEF TriedInv
  <2> QED
    BY <2>3, <2>4, <2>6, FitsIs DEF Fits, p
<1> QED
  BY <1>1, ChipsAreTried, PTL

-----------------------------------------------------------------------------
(***************************************************************************)
(* The temporal epochs.                                                    *)
(***************************************************************************)
\* What get_next_epoch leaves alone.
EpochsFrame == UNCHANGED <<config, loads, epoch, cursor>>

\* Placing ops leaves the temporal epochs alone.
LEMMA TemporalPlacing ==
  ASSUME TemporalInv, EpochsFrame, phase = "place", phase' \in {"place", "abort"}
  PROVE  TemporalInv'
<1>1. Assigned' = Assigned /\ NumEpochs' = NumEpochs /\ NumChips' = NumChips
  BY DEF Assigned, NumEpochs, NumChips, EpochsFrame
<1>2. phase' # "done"
  OBVIOUS
<1>3. TemporalEpochsComplete'
  BY <1>2 DEF TemporalEpochsComplete
<1>4. GalaxyInv => GalaxyInv'
  BY <1>1 DEF GalaxyInv, EpochsFrame
<1>5. OnChips => OnChips'
  BY <1>1 DEF OnChips, EpochsFrame
<1> QED
  BY <1>3, <1>4, <1>5 DEF TemporalInv, Running, EpochsFrame

\* What is asked of the temporal epochs on the other architectures.
LEMMA NotWormhole ==
  ASSUME UNCHANGED config, config.arch # "wormhole", \A i, j \in DOMAIN epoch' : PairOk(epoch', i, j)
  PROVE  TemporalEpochsComplete'
BY DEF TemporalEpochsComplete, PairOk

\* The end of place_onto_chip keeps the temporal epochs apart: on Grayskull each epoch is one.
LEMMA OntoChipTemporal ==
  ASSUME TypeInv, TypeInv', TemporalInv, PlacedOntoChip
  PROVE  TemporalInv'
<1>1. /\ phase = "place" /\ UNCHANGED config
      /\ phase' \in {"place", "done", "assign", "abort"}
      /\ phase' \in {"place", "done"} => config.arch = "grayskull"
      /\ phase' = "assign" => config.arch # "grayskull" /\ UNCHANGED loads
      /\ cursor' = NewCursor(NumEpochs, loads[1].type, cursor.temporal)
  BY DEF PlacedOntoChip
<1>2. /\ DOMAIN epoch = 0 .. NumEpochs - 1 /\ NumEpochs \in Nat
      /\ NumEpochs' = NumEpochs + Len(Done) /\ Len(Done) \in Nat
      /\ DOMAIN epoch' = 0 .. (NumEpochs + Len(Done)) - 1
      /\ \A i \in DOMAIN epoch : epoch'[i] = epoch[i]
      /\ \A i \in NewIds : epoch'[i] = NewEpoch(i)
      /\ NewIds = NumEpochs .. NumEpochs + (Len(Done) - 1)
  BY OntoChipFacts, DoneTypes DEF NewIds
<1>3. NumEpochs \in Nat /\ cursor.temporal \in Nat /\ NumChips \in Pos
  BY CursorFacts DEF TypeInv, EpochInv
<1>4. Fresh(cursor', NumEpochs, loads[1].type, cursor.temporal)
  <2>1. Fresh(NewCursor(NumEpochs, loads[1].type, cursor.temporal), NumEpochs, loads[1].type,
              cursor.temporal)
    BY <1>3, NewCursorOk
  <2> QED
    BY <2>1, <1>1
<1>5. \A i \in DOMAIN epoch' : i \in DOMAIN epoch \/ i \in NewIds
  BY <1>2
<1>6. \A i \in NewIds : NewEpoch(i).temporal = i /\ NewEpoch(i).type = loads[1].type
  BY DEF NewEpoch
<1>7. CASE phase' \in {"place", "done"}
  <2>1. config.arch = "grayskull" /\ config'.arch = "grayskull"
    BY <1>1, <1>7
  <2>2. \A i \in DOMAIN epoch : epoch[i].temporal = i
    BY <2>1, <1>1 DEF TemporalInv, Running
  <2>3. \A i \in DOMAIN epoch' : epoch'[i].temporal = i
    BY <2>2, <1>2, <1>5, <1>6
  <2>4. \A i, j \in DOMAIN epoch' : PairOk(epoch', i, j)
    BY <2>3 DEF PairOk
  <2>5. TemporalEpochsComplete'
    BY <2>1, <2>4, <1>1, NotWormhole
  <2> QED
    BY <2>1, <2>3, <2>5, <1>7 DEF TemporalInv
<1>8. CASE phase' = "assign"
  <2>1. /\ cursor'.epoch = NumEpochs /\ cursor'.first = NumEpochs /\ cursor'.spatial = 0
        /\ cursor'.temporal = cursor.temporal
        /\ cursor'.index = IF loads[1].type = "fwd" \/ (loads[1].type = "opt" /\ config.arch # "galaxy")
                           THEN 0 ELSE NumChips - 1
    BY <1>4 DEF Fresh
  <2>2. Assigned' = DOMAIN epoch /\ Assigned = DOMAIN epoch
    BY <2>1, <1>1, <1>2, <1>8 DEF Assigned
  <2>3. NumChips' = NumChips /\ loads' = loads /\ config'.arch # "grayskull"
    BY <1>1, <1>8 DEF NumChips
  <2>4. \A i \in cursor'.first .. NumEpochs' - 1 : epoch'[i].type = loads'[1].type
    <3> SUFFICES ASSUME NEW i \in NumEpochs .. (NumEpochs + Len(Done)) - 1
                 PROVE  epoch'[i].type = loads[1].type
      BY <2>1, <2>3, <1>2
    <3>1. i \in NewIds
      BY <1>2
    <3> QED
      BY <3>1, <1>2, <1>6
  <2>5. cursor'.first <= cursor'.epoch
    BY <2>1, <1>3
  <2>6. config.arch = "galaxy" => GalaxyInv'
    <3> SUFFICES ASSUME config.arch = "galaxy" PROVE GalaxyInv'
      OBVIOUS
    <3>1. /\ \A i, j \in DOMAIN epoch : PairOk(epoch, i, j)
          /\ \A i \in DOMAIN epoch : epoch[i].temporal < cursor.temporal
      BY <2>2, <1>1 DEF TemporalInv, GalaxyInv, Running
    <3>2. \A i, j \in DOMAIN epoch : PairOk(epoch', i, j)
      BY <3>1, <1>2 DEF PairOk
    <3>3. \A i \in DOMAIN epoch : epoch'[i].temporal < cursor'.temporal
      BY <3>1, <2>1, <1>2
    <3>4. \A i \in DOMAIN epoch : epoch'[i].temporal \in Nat
      <4>1. \A i \in DOMAIN epoch : epoch[i].temporal \in Nat
        BY DEF TypeInv, EpochInv, EpochRecord
      <4> QED
        BY <4>1, <1>2
    <3>5. cursor'.index = At(loads'[1].type, cursor'.spatial, NumChips')
      <4>1. cursor'.index = IF loads[1].type = "fwd" THEN 0 ELSE NumChips - 1
        BY <2>1
      <4>2. (NumChips - 1) - 0 = NumChips - 1
        BY <1>3 DEF Pos
      <4> QED
        BY <4>1, <4>2, <2>1, <2>3 DEF At
    <3>6. \A i \in DOMAIN epoch : epoch'[i].temporal <= cursor'.temporal
                                  /\ epoch'[i].temporal # cursor'.temporal
      BY <3>3, <3>4, <2>1, <1>3
    <3> QED
      BY <2>2, <3>2, <3>3, <3>5, <3>6 DEF GalaxyInv
  <2>7. config.arch = "wormhole" => OnChips'
    <3> SUFFICES ASSUME config.arch = "wormhole" PROVE OnChips'
      OBVIOUS
    <3>1. \A i \in DOMAIN epoch : epoch[i].chip \in Range(config.chips)
      BY <2>2, <1>1 DEF TemporalInv, OnChips, Running
    <3> QED
      BY <3>1, <2>2, <1>1, <1>2 DEF OnChips
  <2>8. TemporalEpochsComplete'
    BY <1>8 DEF TemporalEpochsComplete
  <2> QED
    BY <2>3, <2>4, <2>5, <2>6, <2>7, <2>8, <1>1, <1>8 DEF TemporalInv
<1>9. CASE phase' = "abort"
  BY <1>9 DEF TemporalInv, Running, TemporalEpochsComplete
<1> QED
  BY <1>1, <1>7, <1>8, <1>9

\* The next call keeps the temporal epochs apart.
LEMMA NextLoadTemporal ==
  ASSUME TypeInv, TemporalInv, NextLoad
  PROVE  TemporalInv'
<1>1. /\ phase = "assign" /\ cursor.epoch = NumEpochs /\ UNCHANGED <<config, epoch>>
      /\ \/ phase' = "place" /\ cursor' = cursor
         \/ phase' = "summary" /\ config.arch = "wormhole" /\ cursor' = NewCursor(0, "fwd", 0)
         \/ phase' = "done" /\ config.arch # "wormhole"
      /\ config.arch # "grayskull"
  BY DEF NextLoad, TemporalInv
<1>2. DOMAIN epoch = 0 .. NumEpochs - 1 /\ config.arch \in {"grayskull", "wormhole", "galaxy"}
  BY ConfigFacts DEF TypeInv, EpochInv, ConfigOk
<1>3. Assigned = DOMAIN epoch /\ Assigned' = DOMAIN epoch
  BY <1>1, <1>2 DEF Assigned
<1>4. config.arch = "galaxy" => /\ \A i, j \in DOMAIN epoch : PairOk(epoch, i, j)
                                /\ \A i \in DOMAIN epoch : epoch[i].temporal < cursor.temporal
  BY <1>1, <1>3 DEF TemporalInv, Running, GalaxyInv
<1>5. config.arch = "wormhole" => OnChips'
  BY <1>1, <1>3 DEF TemporalInv, Running, OnChips
<1>6. CASE phase' = "place"
  <2>1. config.arch = "galaxy" => GalaxyInv'
    BY <1>1, <1>3, <1>4, <1>6 DEF GalaxyInv
  <2> QED
    BY <2>1, <1>1, <1>5, <1>6 DEF TemporalInv, TemporalEpochsComplete
<1>7. CASE phase' = "summary"
  <2>1. config.arch = "wormhole" /\ cursor' = NewCursor(0, "fwd", 0)
    BY <1>1, <1>7
  <2>2. Fresh(NewCursor(0, "fwd", 0), 0, "fwd", 0)
    BY CursorFacts, NewCursorOk
  <2>3. cursor'.epoch = 0
    BY <2>1, <2>2 DEF Fresh
  <2>4. Summarized' = {}
    BY <2>3 DEF Summarized
  <2>5. SummaryInv'
    BY <2>4 DEF SummaryInv
  <2> QED
    BY <2>1, <2>5, <1>1, <1>5, <1>7 DEF TemporalInv, TemporalEpochsComplete
<1>8. CASE phase' = "done"
  <2>1. config.arch = "galaxy"
    BY <1>1, <1>2, <1>8
  <2>2. \A i, j \in DOMAIN epoch' : PairOk(epoch', i, j)
    BY <2>1, <1>1, <1>4
  <2>3. TemporalEpochsComplete'
    BY <2>1, <2>2, <1>1, NotWormhole
  <2> QED
    BY <2>3, <1>8 DEF TemporalInv, Running
<1> QED
  BY <1>1, <1>6, <1>7, <1>8

\* wormhole_placer gives the epochs chips of the device.
LEMMA WormholeTemporal ==
  ASSUME TypeInv, TemporalInv, AssignWormhole
  PROVE  TemporalInv'
<1> DEFINE chip == apply_chip_placement_policy(config)[cursor.index + 1]
           i == cursor.epoch
<1>1. /\ phase = "assign" /\ config.arch = "wormhole" /\ i < NumEpochs /\ TryChip(chip)
      /\ UNCHANGED <<config, loads>> /\ phase' \in {"assign", "abort", "no_chip"}
  BY DEF AssignWormhole, TryChip
<1>2. chip \in Nat /\ chip \in Range(config.chips)
  <2>1. config \in Configs /\ cursor.index \in Nat /\ cursor.index < Len(config.chips)
    BY CursorFacts DEF TypeInv, NumChips
  <2> QED
    BY <2>1, PolicyChip
<1> HIDE DEF chip
<1>3. /\ cursor'.first = cursor.first
      /\ cursor'.epoch = IF Valid(chip) THEN i + 1 ELSE i
      /\ \A j \in DOMAIN epoch : epoch'[j].type = epoch[j].type
      /\ DOMAIN epoch' = DOMAIN epoch
      /\ \A j \in DOMAIN epoch : j # i => epoch'[j] = epoch[j]
      /\ Valid(chip) => epoch'[i].chip = chip
      /\ NumEpochs' = NumEpochs
  BY <1>1, <1>2, TryChipTypes
<1>4. /\ i \in Nat /\ cursor.first \in Nat /\ NumEpochs \in Nat /\ DOMAIN epoch = 0 .. NumEpochs - 1
  BY CursorFacts DEF TypeInv, EpochInv
<1>5. /\ cursor.first <= i /\ \A j \in cursor.first .. NumEpochs - 1 : epoch[j].type = loads[1].type
      /\ \A j \in 0 .. i - 1 : epoch[j].chip \in Range(config.chips)
  BY <1>1 DEF TemporalInv, Running, OnChips, Assigned
<1> HIDE DEF i
<1>6. CASE phase' = "assign"
  <2>1. Assigned' = 0 .. cursor'.epoch - 1
    BY <1>6 DEF Assigned
  <2>2. ASSUME NEW j \in 0 .. cursor'.epoch - 1 PROVE epoch'[j].chip \in Range(config.chips)
    <3>1. CASE j = i
      <4>1. Valid(chip)
        BY <3>1, <1>3, <1>4
      <4> QED
        BY <4>1, <3>1, <1>2, <1>3
    <3>2. CASE j # i
      <4>1. j \in 0 .. i - 1 /\ j \in DOMAIN epoch
        BY <3>2, <1>1, <1>3, <1>4 DEF i
      <4> QED
        BY <4>1, <3>2, <1>3, <1>5
    <3> QED
      BY <3>1, <3>2
  <2>3. OnChips'
    BY <2>1, <2>2, <1>1 DEF OnChips
  <2>4. cursor'.first <= cursor'.epoch
    BY <1>3, <1>4, <1>5
  <2>5. \A j \in cursor'.first .. NumEpochs' - 1 : epoch'[j].type = loads'[1].type
    <3>1. \A j \in cursor.first .. NumEpochs - 1 : j \in DOMAIN epoch
      BY <1>4
    <3> QED
      BY <3>1, <1>1, <1>3, <1>5
  <2> QED
    BY <2>3, <2>4, <2>5, <1>1, <1>6 DEF TemporalInv, TemporalEpochsComplete
<1>7. CASE phase' # "assign"
  BY <1>1, <1>7 DEF TemporalInv, Running, TemporalEpochsComplete
<1> QED
  BY <1>6, <1>7

\* A cursor that goes on keeps to its row.
LEMMA RowKept ==
  ASSUME NumChips \in Pos, NEW c \in Cursor, NEW r, NEW type, c.index < NumChips,
         c.index = At(type, c.spatial, NumChips), Advanced(c, r, type = "fwd", FALSE)
  PROVE  r.index = At(type, r.spatial, NumChips)
<1>1. NumChips \in Nat /\ NumChips > 0 /\ c.index \in Nat /\ c.spatial \in Nat
  BY DEF Pos, Cursor
<1>2. CASE type = "fwd"
  BY <1>1, <1>2 DEF Advanced, At
<1>3. CASE type # "fwd"
  <2>1. \/ r.spatial = 0 /\ r.index = NumChips - 1
        \/ r.spatial = c.spatial + 1 /\ r.index = c.index - 1
    BY <1>3 DEF Advanced
  <2>2. c.index = (NumChips - 1) - c.spatial
    BY <1>3 DEF At
  <2>3. r.index = (NumChips - 1) - r.spatial
    BY <2>1, <2>2, <1>1
  <2> QED
    BY <2>3, <1>3 DEF At
<1> QED
  BY <1>2, <1>3

\* The chip index tells the spatial epoch, up and down the row.
LEMMA AtOk ==
  ASSUME NEW n \in Nat, NEW s \in Int, NEW type
  PROVE  /\ At(type, s, n) \in 0 .. n - 1 => s \in 0 .. n - 1
         /\ \A u \in Int : At(type, s, n) = At(type, u, n) => s = u
         /\ s \in 0 .. n - 1 => At(type, s, n) \in 0 .. n - 1
BY DEF At

\* galaxy_placer uses a chip once in a temporal epoch, and one type.
LEMMA GalaxyTemporal ==
  ASSUME TypeInv, TypeInv', TemporalInv, AssignGalaxy
  PROVE  TemporalInv'
<1> DEFINE i == cursor.epoch
           n == NumChips
           s == cursor.spatial
           ct == cursor.temporal
           ty == loads[1].type
           c == [cursor EXCEPT !.epoch = cursor.epoch + 1]
<1>1. /\ phase = "assign" /\ config.arch = "galaxy" /\ i < NumEpochs
      /\ UNCHANGED <<config, phase, loads>>
  BY DEF AssignGalaxy
<1>2. /\ i \in Nat /\ n \in Pos /\ n \in Nat /\ s \in Nat /\ ct \in Nat /\ cursor.index \in 0 .. n - 1
      /\ cursor.first \in Nat /\ NumEpochs \in Nat /\ DOMAIN epoch = 0 .. NumEpochs - 1
  BY CursorFacts DEF TypeInv, EpochInv, Pos
<1>3. /\ i \in DOMAIN epoch /\ NumEpochs' = NumEpochs /\ DOMAIN epoch' = DOMAIN epoch
      /\ \A j \in DOMAIN epoch : j # i => epoch'[j] = epoch[j]
      /\ epoch'[i].chip = config.chips[cursor.index + 1] /\ epoch'[i].temporal = ct
      /\ epoch'[i].spatial = s % n /\ epoch'[i].type = epoch[i].type
  BY GalaxyEpochs
<1>4. /\ c \in Cursor /\ c.index = cursor.index /\ c.epoch = i + 1
      /\ c.first = cursor.first /\ c.spatial = s /\ c.temporal = ct
      /\ \/ i < NumEpochs - 1 /\ Advanced(c, cursor', ty = "fwd", FALSE)
         \/ /\ i = NumEpochs - 1 /\ cursor'.index = cursor.index /\ cursor'.epoch = NumEpochs
            /\ cursor'.first = cursor.first /\ cursor'.temporal = ct + 1 /\ cursor'.spatial = s
  BY GalaxyCursor
<1>5. /\ cursor.first <= i /\ \A j \in cursor.first .. NumEpochs - 1 : epoch[j].type = ty
      /\ \A j, k \in 0 .. i - 1 : PairOk(epoch, j, k)
      /\ cursor.index = At(ty, s, n)
      /\ \A j \in 0 .. i - 1 : /\ epoch[j].temporal <= ct
                               /\ epoch[j].temporal = ct => Behind(epoch[j], cursor, ty, config.chips)
  BY <1>1 DEF TemporalInv, Running, GalaxyInv, Assigned
<1>6. config.chips \in Seq(Nat) /\ IsInjective(config.chips) /\ n = Len(config.chips)
  BY ConfigFacts DEF TypeInv, NumChips
<1>7. \A j \in DOMAIN epoch : epoch[j].temporal \in Nat
  BY DEF TypeInv, EpochInv, EpochRecord
<1>8. n' = n
  BY <1>1 DEF NumChips
<1> HIDE DEF i, n, s, ct, ty, c
<1>9. s \in 0 .. n - 1
  BY <1>2, <1>5, AtOk
<1>10. s % n = s
  BY <1>2, <1>9 DEF Pos
<1>11. epoch'[i].type = ty
  BY <1>1, <1>2, <1>3, <1>5
<1>12. \A j \in 0 .. i - 1 : j \in DOMAIN epoch /\ j # i /\ epoch'[j] = epoch[j]
  <2>1. \A j \in 0 .. i - 1 : j \in DOMAIN epoch /\ j # i
    BY <1>1, <1>2
  <2> QED
    BY <2>1, <1>3
<1>13. ASSUME NEW j \in 0 .. i - 1, epoch'[j].temporal = ct
       PROVE  /\ epoch'[j].chip # epoch'[i].chip /\ epoch'[j].spatial # epoch'[i].spatial
              /\ epoch'[j].type = epoch'[i].type
  <2>1. Behind(epoch[j], cursor, ty, config.chips) /\ epoch'[j] = epoch[j]
    BY <1>5, <1>12, <1>13
  <2> DEFINE u == epoch[j].spatial
  <2>2. /\ u \in 0 .. s - 1 /\ epoch[j].type = ty /\ epoch[j].chip = config.chips[At(ty, u, n) + 1]
    BY <2>1, <1>6 DEF Behind, s
  <2>3. u # s /\ u \in 0 .. n - 1 /\ u \in Int /\ s \in Int
    BY <2>2, <1>2, <1>9
  <2> HIDE DEF u
  <2>4. At(ty, u, n) # At(ty, s, n) /\ At(ty, u, n) \in 0 .. n - 1 /\ At(ty, s, n) \in 0 .. n - 1
    BY <2>3, <1>2, <1>9, AtOk
  <2>5. config.chips[At(ty, u, n) + 1] # config.chips[At(ty, s, n) + 1]
    <3> DEFINE a == At(ty, u, n)
               b == At(ty, s, n)
    <3>1. a \in 0 .. n - 1 /\ b \in 0 .. n - 1 /\ a # b
      BY <2>4
    <3> HIDE DEF a, b
    <3>2. a + 1 \in DOMAIN config.chips /\ b + 1 \in DOMAIN config.chips /\ a + 1 # b + 1
      BY <3>1, <1>2, <1>6
    <3>3. config.chips[a + 1] # config.chips[b + 1]
      BY <3>2, <1>6 DEF IsInjective
    <3> QED
      BY <3>3 DEF a, b
  <2>6. epoch'[i].chip = config.chips[At(ty, s, n) + 1] /\ epoch'[i].spatial = s
    BY <1>3, <1>5, <1>10
  <2> QED
    BY <2>1, <2>2, <2>3, <2>5, <2>6, <1>11 DEF u
<1>14. \A j, k \in 0 .. i : PairOk(epoch', j, k)
  <2> SUFFICES ASSUME NEW j \in 0 .. i, NEW k \in 0 .. i PROVE PairOk(epoch', j, k)
    OBVIOUS
  <2>1. (j = i \/ j \in 0 .. i - 1) /\ (k = i \/ k \in 0 .. i - 1)
    BY <1>2
  <2>2. CASE j \in 0 .. i - 1 /\ k \in 0 .. i - 1
    BY <2>2, <1>5, <1>12 DEF PairOk
  <2>3. CASE j = i /\ k \in 0 .. i - 1
    BY <2>3, <1>3, <1>13 DEF PairOk
  <2>4. CASE k = i /\ j \in 0 .. i - 1
    BY <2>4, <1>3, <1>13 DEF PairOk
  <2>5. CASE k = i /\ j = i
    BY <2>5 DEF PairOk
  <2> QED
    BY <2>1, <2>2, <2>3, <2>4, <2>5
<1>15. \A j \in 0 .. i : epoch'[j].temporal \in Nat /\ epoch'[j].temporal <= ct
  <2> SUFFICES ASSUME NEW j \in 0 .. i PROVE epoch'[j].temporal \in Nat /\ epoch'[j].temporal <= ct
    OBVIOUS
  <2>1. j = i \/ j \in 0 .. i - 1
    BY <1>2
  <2> QED
    BY <2>1, <1>2, <1>3, <1>5, <1>7, <1>12
<1>16. cursor'.epoch = i + 1 /\ cursor'.first = cursor.first
  BY <1>2, <1>4 DEF Advanced
<1>17. cursor'.index = At(ty, cursor'.spatial, n)
  <2>1. CASE i < NumEpochs - 1 /\ Advanced(c, cursor', ty = "fwd", FALSE)
    <3>1. NumChips \in Pos /\ c \in Cursor /\ c.index < NumChips /\ c.index = At(ty, c.spatial, NumChips)
      BY <1>2, <1>4, <1>5 DEF n
    <3>2. cursor'.index = At(ty, cursor'.spatial, NumChips)
      BY <3>1, <2>1, RowKept
    <3> QED
      BY <3>2 DEF n
  <2>2. CASE cursor'.index = cursor.index /\ cursor'.spatial = s
    BY <2>2, <1>5
  <2> QED
    BY <2>1, <2>2, <1>4
<1>18. \/ cursor'.temporal = ct + 1
       \/ cursor'.temporal = ct /\ cursor'.spatial = s + 1 /\ cursor'.epoch # NumEpochs
  BY <1>2, <1>4, <1>16 DEF Advanced
<1>19. \A j \in 0 .. i : epoch'[j].temporal <= cursor'.temporal
  BY <1>2, <1>15, <1>18
<1>20. cursor'.epoch = NumEpochs => \A j \in 0 .. i : epoch'[j].temporal < cursor'.temporal
  BY <1>2, <1>15, <1>18
<1>21. ASSUME NEW j \in 0 .. i, epoch'[j].temporal = cursor'.temporal
       PROVE  Behind(epoch'[j], cursor', ty, config.chips)
  <2>1. cursor'.temporal = ct /\ cursor'.spatial = s + 1
    BY <1>2, <1>15, <1>18, <1>21
  <2>2. CASE j = i
    <3>1. epoch'[j].spatial = s /\ epoch'[j].type = ty
          /\ epoch'[j].chip = config.chips[At(ty, s, Len(config.chips)) + 1]
      BY <2>2, <1>3, <1>5, <1>6, <1>10, <1>11
    <3>2. s \in 0 .. (s + 1) - 1
      BY <1>2
    <3> QED
      BY <2>1, <3>1, <3>2 DEF Behind
  <2>3. CASE j \in 0 .. i - 1
    <3>1. Behind(epoch[j], cursor, ty, config.chips) /\ epoch'[j] = epoch[j]
      BY <2>1, <2>3, <1>5, <1>12, <1>21
    <3>2. epoch[j].spatial \in 0 .. (s + 1) - 1
      BY <3>1, <1>2 DEF Behind, s
    <3> QED
      BY <2>1, <3>1, <3>2 DEF Behind
  <2> QED
    BY <2>2, <2>3, <1>2
<1>22. Assigned' = 0 .. i
  <2>1. (i + 1) - 1 = i
    BY <1>2
  <2> QED
    BY <2>1, <1>1, <1>16 DEF Assigned
<1>23. GalaxyInv'
  BY <1>1, <1>3, <1>8, <1>14, <1>17, <1>19, <1>20, <1>21, <1>22 DEF GalaxyInv, ty, n
<1>24. \A j \in cursor'.first .. NumEpochs' - 1 : epoch'[j].type = loads'[1].type
  <2>1. \A j \in cursor.first .. NumEpochs - 1 : j \in DOMAIN epoch
    BY <1>2
  <2> QED
    BY <2>1, <1>1, <1>3, <1>5, <1>11, <1>16 DEF ty
<1>25. cursor'.first <= cursor'.epoch
  BY <1>2, <1>5, <1>16
<1> QED
  BY <1>1, <1>23, <1>24, <1>25 DEF TemporalInv, TemporalEpochsComplete

\* The temporal epoch that the summary gives an epoch comes after that of every
\* epoch on its chip, and after every temporal epoch, if it must start a new one.
LEMMA NewTemporalOk ==
  ASSUME TypeInv, TemporalInv, phase = "summary", cursor.epoch < NumEpochs, NewTemporal \in Nat,
         NEW j \in 0 .. cursor.epoch - 1
  PROVE  /\ epoch[j].temporal <= NewTemporal
         /\ epoch[j].chip = epoch[cursor.epoch].chip => epoch[j].temporal < NewTemporal
         /\ TemporalBreak(cursor.epoch) => epoch[j].temporal < NewTemporal
         /\ epoch[j].temporal = NewTemporal => epoch[j].type = epoch[cursor.epoch].type
<1> DEFINE i == cursor.epoch
           ct == cursor.temporal
           T == NewTemporal
           F == NextFree
<1>1. /\ i \in Nat /\ ct \in Nat /\ NumEpochs \in Nat /\ DOMAIN epoch = 0 .. NumEpochs - 1
      /\ \A k \in DOMAIN epoch : epoch[k].temporal \in Nat
      /\ \A k \in 0 .. i - 1 : epoch[k].temporal <= ct
  BY CursorFacts DEF TypeInv, EpochInv, EpochRecord, CursorInv
<1>2. \A k \in 0 .. i - 1 : k \in DOMAIN epoch
  BY <1>1
<1>3. /\ F \in {ct, ct + 1}
      /\ \A k \in 0 .. i - 1 : epoch[k].chip = epoch[i].chip => epoch[k].temporal < F
  BY NextFreeOk
<1>4. T = IF TemporalBreak(i) /\ UsedAt(F) THEN F + 1 ELSE F
  BY DEF NewTemporal
<1>5. UsedAt(F) <=> \E k \in 0 .. i - 1 : epoch[k].temporal = F
  BY DEF UsedAt
<1>6. \A k, l \in 0 .. i - 1 : PairOk(epoch, k, l) /\ Ordered(config, epoch, k, l)
  BY DEF TemporalInv, SummaryInv, Summarized
<1>7. ~TemporalBreak(i) /\ i # 0 => epoch[i].type = epoch[i - 1].type
  BY DEF TemporalBreak
<1> HIDE DEF i, ct, T, F
<1>8. j \in 0 .. i - 1
  BY DEF i
<1>9. \A k \in 0 .. i - 1 : epoch[k].temporal \in Nat /\ epoch[k].temporal <= ct
  BY <1>1, <1>2
<1>10. F \in Nat /\ ct <= F /\ F <= T /\ T \in Nat
  BY <1>1, <1>3, <1>4
<1>11. epoch[j].temporal <= T
  <2>1. epoch[j].temporal \in Nat /\ epoch[j].temporal <= ct
    BY <1>8, <1>9
  <2> QED
    BY <2>1, <1>1, <1>10
<1>12. epoch[j].chip = epoch[i].chip => epoch[j].temporal < T
  <2>1. epoch[j].temporal \in Nat /\ (epoch[j].chip = epoch[i].chip => epoch[j].temporal < F)
    BY <1>3, <1>8, <1>9
  <2> QED
    BY <2>1, <1>10
<1>13. TemporalBreak(i) => epoch[j].temporal < T
  <2> SUFFICES ASSUME TemporalBreak(i) PROVE epoch[j].temporal < T
    OBVIOUS
  <2>1. epoch[j].temporal \in Nat /\ epoch[j].temporal <= F
    BY <1>1, <1>8, <1>9, <1>10
  <2>2. CASE UsedAt(F)
    BY <2>1, <2>2, <1>4, <1>10
  <2>3. CASE ~UsedAt(F)
    BY <2>1, <2>3, <1>4, <1>5, <1>8, <1>10
  <2> QED
    BY <2>2, <2>3
<1>14. epoch[j].temporal = T => epoch[j].type = epoch[i].type
  <2> SUFFICES ASSUME epoch[j].temporal = T PROVE epoch[j].type = epoch[i].type
    OBVIOUS
  <2>1. ~TemporalBreak(i) /\ i # 0
    BY <1>8, <1>10, <1>13
  <2>2. epoch[i].type = epoch[i - 1].type
    BY <2>1, <1>7
  <2>3. CASE j = i - 1
    BY <2>2, <2>3
  <2>4. CASE j # i - 1
    <3>1. i - 1 \in 0 .. i - 1 /\ j < i - 1
      BY <2>4, <1>1, <1>8 DEF i
    <3>2. epoch[j].temporal <= epoch[i - 1].temporal
      BY <3>1, <1>6, <1>8 DEF Ordered
    <3>3. epoch[i - 1].temporal \in Nat /\ epoch[i - 1].temporal <= ct
      BY <3>1, <1>9
    <3>4. epoch[i - 1].temporal = T
      BY <3>2, <3>3, <1>1, <1>10
    <3>5. PairOk(epoch, j, i - 1)
      BY <3>1, <1>6, <1>8
    <3> QED
      BY <3>4, <3>5, <2>2, <2>4 DEF PairOk
  <2> QED
    BY <2>3, <2>4
<1> QED
  BY <1>11, <1>12, <1>13, <1>14 DEF i, T

\* The summary keeps the temporal epochs apart and begins them where the user broke them.
LEMMA SummarizeTemporal ==
  ASSUME TypeInv, TemporalInv, SummarizeEpoch
  PROVE  TemporalInv'
<1> DEFINE i == cursor.epoch
           T == NewTemporal
           s == SpatialIndex(epoch[i].chip)
<1>1. /\ phase = "summary" /\ i < NumEpochs /\ UNCHANGED <<config, phase, loads>>
      /\ config.arch = "wormhole" /\ SummaryInv
  BY DEF SummarizeEpoch, TemporalInv
<1>2. /\ i \in DOMAIN epoch /\ DOMAIN epoch' = DOMAIN epoch
      /\ \A j \in DOMAIN epoch : j # i => epoch'[j] = epoch[j]
      /\ epoch'[i].chip = epoch[i].chip /\ epoch'[i].temporal = T
      /\ epoch'[i].spatial = s
      /\ epoch'[i].ops = epoch[i].ops /\ epoch'[i].type = epoch[i].type
      /\ cursor'.epoch = i + 1 /\ T \in Nat
  BY SummarizeFacts
<1>3. i \in Nat /\ NumEpochs \in Nat /\ DOMAIN epoch = 0 .. NumEpochs - 1
  BY CursorFacts DEF TypeInv, EpochInv
<1>4. \A j \in DOMAIN epoch : epoch[j].chip \in Range(config.chips)
  BY <1>1 DEF TemporalInv, OnChips, Running, Assigned
<1>5. /\ s \in 0 .. NumChips - 1 /\ config.chips[s + 1] = epoch[i].chip
      /\ NumChips = Len(config.chips)
  BY <1>2, <1>4, SpatialIndexOk DEF TypeInv, NumChips
<1>6. \A j \in 0 .. i - 1 :
         /\ epoch[j].temporal <= T
         /\ epoch[j].chip = epoch[i].chip => epoch[j].temporal < T
         /\ TemporalBreak(i) => epoch[j].temporal < T
         /\ epoch[j].temporal = T => epoch[j].type = epoch[i].type
  BY <1>1, <1>2, NewTemporalOk
<1>7. /\ \A j \in 0 .. i - 1 : OnItsChip(config, epoch[j])
      /\ \A j, k \in 0 .. i - 1 : PairOk(epoch, j, k) /\ Ordered(config, epoch, j, k)
  BY <1>1 DEF SummaryInv, Summarized
<1>8. Broken(config, epoch[i].ops) => TemporalBreak(i)
  BY DEF Broken, OpsOf, TemporalBreak, EpochOps
<1> HIDE DEF i, T, s
<1>9. \A j \in 0 .. i - 1 : j \in DOMAIN epoch /\ j # i /\ epoch'[j] = epoch[j]
  <2>1. \A j \in 0 .. i - 1 : j \in DOMAIN epoch /\ j # i
    BY <1>1, <1>3
  <2> QED
    BY <2>1, <1>2
<1>10. OnItsChip(config, epoch'[i])
  BY <1>2, <1>5 DEF OnItsChip
<1>11. ASSUME NEW j \in 0 .. i - 1, epoch[j].temporal = T
       PROVE  /\ epoch'[j].chip # epoch'[i].chip /\ epoch'[j].spatial # epoch'[i].spatial
              /\ epoch'[j].type = epoch'[i].type
  <2>1. epoch'[j] = epoch[j] /\ OnItsChip(config, epoch[j])
    BY <1>7, <1>9
  <2>2. epoch[j].chip # epoch[i].chip /\ epoch[j].type = epoch[i].type
    BY <1>2, <1>6, <1>11
  <2>3. epoch[j].spatial # s
    BY <2>1, <2>2, <1>5 DEF OnItsChip
  <2> QED
    BY <2>1, <2>2, <2>3, <1>2
<1>12. \A j, k \in 0 .. i : PairOk(epoch', j, k)
  <2> SUFFICES ASSUME NEW j \in 0 .. i, NEW k \in 0 .. i PROVE PairOk(epoch', j, k)
    OBVIOUS
  <2>1. (j = i \/ j \in 0 .. i - 1) /\ (k = i \/ k \in 0 .. i - 1)
    BY <1>3
  <2>2. CASE j \in 0 .. i - 1 /\ k \in 0 .. i - 1
    BY <2>2, <1>7, <1>9 DEF PairOk
  <2>3. CASE j = i /\ k \in 0 .. i - 1
    BY <2>3, <1>2, <1>9, <1>11 DEF PairOk
  <2>4. CASE k = i /\ j \in 0 .. i - 1
    BY <2>4, <1>2, <1>9, <1>11 DEF PairOk
  <2>5. CASE k = i /\ j = i
    BY <2>5 DEF PairOk
  <2> QED
    BY <2>1, <2>2, <2>3, <2>4, <2>5
<1>13. \A j, k \in 0 .. i : Ordered(config, epoch', j, k)
  <2> SUFFICES ASSUME NEW j \in 0 .. i, NEW k \in 0 .. i, k < j PROVE Ordered(config, epoch', j, k)
    BY DEF Ordered
  <2>1. k \in 0 .. i - 1 /\ (j = i \/ j \in 0 .. i - 1)
    BY <1>3
  <2>2. CASE j \in 0 .. i - 1
    BY <2>1, <2>2, <1>7, <1>9 DEF Ordered
  <2>3. CASE j = i
    <3>1. epoch'[k] = epoch[k] /\ epoch[k].temporal <= T
          /\ (Broken(config, epoch[i].ops) => epoch[k].temporal < T)
      BY <2>1, <1>6, <1>8, <1>9
    <3> QED
      BY <2>3, <3>1, <1>2 DEF Ordered
  <2> QED
    BY <2>1, <2>2, <2>3
<1>14. \A j \in 0 .. i : OnItsChip(config, epoch'[j])
  <2> SUFFICES ASSUME NEW j \in 0 .. i PROVE OnItsChip(config, epoch'[j])
    OBVIOUS
  <2>1. j = i \/ j \in 0 .. i - 1
    BY <1>3
  <2> QED
    BY <2>1, <1>7, <1>9, <1>10
<1>15. Summarized' = 0 .. i
  <2>1. (i + 1) - 1 = i
    BY <1>3
  <2> QED
    BY <2>1, <1>2 DEF Summarized
<1>16. SummaryInv'
  BY <1>1, <1>12, <1>13, <1>14, <1>15 DEF SummaryInv
<1>17. OnChips'
  <2>1. \A j \in DOMAIN epoch : epoch'[j].chip \in Range(config.chips)
    BY <1>2, <1>4
  <2> QED
    BY <2>1, <1>1, <1>2 DEF OnChips, Assigned
<1> QED
  BY <1>1, <1>16, <1>17 DEF TemporalInv, TemporalEpochsComplete

\* Have is the set of the pairs of temporal and spatial epoch in the solution.
LEMMA HaveFacts ==
  /\ \A i \in DOMAIN epoch : /\ <<epoch[i].temporal, epoch[i].spatial>> \in Have
                             /\ epoch[i].temporal \in Temporals
  /\ \A t, s : <<t, s>> \in Have => \E i \in DOMAIN epoch : epoch[i].temporal = t /\ epoch[i].spatial = s
<1>1. \A i \in DOMAIN epoch : <<epoch[i].temporal, epoch[i].spatial>> \in Have
  BY DEF Have
<1>2. \A i : <<epoch[i].temporal, epoch[i].spatial>>[1] = epoch[i].temporal
  OBVIOUS
<1>3. \A i \in DOMAIN epoch : epoch[i].temporal \in Temporals
  BY <1>1, <1>2 DEF Temporals
<1>4. ASSUME NEW t, NEW s, <<t, s>> \in Have
      PROVE  \E i \in DOMAIN epoch : epoch[i].temporal = t /\ epoch[i].spatial = s
  <2>1. PICK i \in DOMAIN epoch : <<t, s>> = <<epoch[i].temporal, epoch[i].spatial>>
    BY <1>4 DEF Have
  <2> QED
    BY <2>1
<1> QED
  BY <1>1, <1>3, <1>4

\* With the empty epochs every chip has an epoch in every temporal epoch, and only one.
LEMMA InsertTemporal ==
  ASSUME TypeInv, TemporalInv, InsertEmptyEpochs
  PROVE  TemporalInv'
<1>1. /\ phase = "summary" /\ phase' = "done" /\ config' = config /\ cursor.epoch = NumEpochs
      /\ config.arch = "wormhole" /\ SummaryInv
  BY DEF InsertEmptyEpochs, TemporalInv
<1>2. /\ DOMAIN epoch' = DOMAIN epoch \cup {Id(m) : m \in Missing}
      /\ \A i \in DOMAIN epoch : epoch'[i] = epoch[i]
      /\ \A m \in Missing : Id(m) \in DOMAIN epoch' /\ epoch'[Id(m)] = Empty(m)
      /\ \A i \in DOMAIN epoch, m \in Missing : i < Id(m)
  BY InsertFacts
<1>3. /\ Missing \subseteq Nat \X Nat
      /\ \A m \in Missing : m[2] \in 0 .. NumChips - 1 /\ \E i \in DOMAIN epoch : epoch[i].temporal = m[1]
  BY MissingFacts
<1>4. DOMAIN epoch = 0 .. NumEpochs - 1 /\ NumEpochs \in Nat
  BY DEF TypeInv, EpochInv
<1>5. /\ \A i \in DOMAIN epoch : OnItsChip(config, epoch[i])
      /\ \A i, j \in DOMAIN epoch : PairOk(epoch, i, j) /\ Ordered(config, epoch, i, j)
  BY <1>1, <1>4 DEF SummaryInv, Summarized
<1>6. config.chips \in Seq(Nat) /\ IsInjective(config.chips) /\ NumChips = Len(config.chips)
      /\ NumChips \in Nat
  BY ConfigFacts DEF TypeInv, NumChips, Pos
<1>7. \A m \in Missing : /\ m \notin Have /\ m = <<m[1], m[2]>>
                         /\ Empty(m).chip = config.chips[m[2] + 1] /\ Empty(m).type = TypeAt(m[1])
                         /\ Empty(m).temporal = m[1] /\ Empty(m).spatial = m[2] /\ Empty(m).ops = <<>>
  BY <1>3 DEF Missing, Empty
<1>8. ASSUME NEW i \in DOMAIN epoch'
      PROVE  i \in DOMAIN epoch \/ \E m \in Missing : i = Id(m) /\ epoch'[i] = Empty(m)
  BY <1>2, <1>8
<1>9. ASSUME NEW i \in DOMAIN epoch' PROVE OnItsChip(config, epoch'[i])
  <2>1. CASE i \in DOMAIN epoch
    BY <2>1, <1>2, <1>5
  <2>2. CASE \E m \in Missing : i = Id(m) /\ epoch'[i] = Empty(m)
    BY <2>2, <1>3, <1>6, <1>7 DEF OnItsChip
  <2> QED
    BY <2>1, <2>2, <1>8
<1>10. ASSUME NEW i \in DOMAIN epoch'
       PROVE  \E k \in DOMAIN epoch : epoch[k].temporal = epoch'[i].temporal /\ epoch[k].type = epoch'[i].type
  <2>1. CASE i \in DOMAIN epoch
    BY <2>1, <1>2
  <2>2. CASE \E m \in Missing : i = Id(m) /\ epoch'[i] = Empty(m)
    <3>1. PICK m \in Missing : epoch'[i] = Empty(m)
      BY <2>2
    <3>2. \E k \in DOMAIN epoch : epoch[k].temporal = m[1] /\ TypeAt(m[1]) = epoch[k].type
      BY <1>3, TypeAtOk
    <3> QED
      BY <3>1, <3>2, <1>7
  <2> QED
    BY <2>1, <2>2, <1>8
<1>11. ASSUME NEW i \in DOMAIN epoch', NEW j \in DOMAIN epoch', i # j,
              epoch'[i].temporal = epoch'[j].temporal
       PROVE  epoch'[i].spatial # epoch'[j].spatial
  <2>1. CASE i \in DOMAIN epoch /\ j \in DOMAIN epoch
    BY <2>1, <1>2, <1>5, <1>11 DEF PairOk
  <2>2. ASSUME NEW k \in DOMAIN epoch, NEW m \in Missing, epoch[k].temporal = m[1]
        PROVE  epoch[k].spatial # m[2]
    <3>1. <<epoch[k].temporal, epoch[k].spatial>> \in Have
      BY HaveFacts
    <3> QED
      BY <3>1, <2>2, <1>7
  <2>3. CASE i \in DOMAIN epoch /\ \E m \in Missing : j = Id(m) /\ epoch'[j] = Empty(m)
    BY <2>2, <2>3, <1>2, <1>7, <1>11
  <2>4. CASE j \in DOMAIN epoch /\ \E m \in Missing : i = Id(m) /\ epoch'[i] = Empty(m)
    BY <2>2, <2>4, <1>2, <1>7, <1>11
  <2>5. CASE /\ \E m \in Missing : i = Id(m) /\ epoch'[i] = Empty(m)
             /\ \E m \in Missing : j = Id(m) /\ epoch'[j] = Empty(m)
    <3>1. PICK m \in Missing : i = Id(m) /\ epoch'[i] = Empty(m)
      BY <2>5
    <3>2. PICK n \in Missing : j = Id(n) /\ epoch'[j] = Empty(n)
      BY <2>5
    <3>3. m # n
      BY <3>1, <3>2, <1>11
    <3>4. m[1] = n[1]
      BY <3>1, <3>2, <1>7, <1>11
    <3>5. m[2] # n[2]
      BY <3>3, <3>4, <1>7
    <3> QED
      BY <3>1, <3>2, <3>5, <1>7
  <2> QED
    BY <2>1, <2>3, <2>4, <2>5, <1>8
<1>12. ASSUME NEW i \in DOMAIN epoch', NEW j \in DOMAIN epoch' PROVE PairOk(epoch', i, j)
  <2> SUFFICES ASSUME i # j, epoch'[i].temporal = epoch'[j].temporal
               PROVE  /\ epoch'[i].chip # epoch'[j].chip /\ epoch'[i].spatial # epoch'[j].spatial
                      /\ epoch'[i].type = epoch'[j].type
    BY DEF PairOk
  <2>1. epoch'[i].spatial # epoch'[j].spatial
    BY <1>11
  <2>2. epoch'[i].chip # epoch'[j].chip
    <3> DEFINE a == epoch'[i].spatial
               b == epoch'[j].spatial
    <3>1. /\ a \in 0 .. NumChips - 1 /\ epoch'[i].chip = config.chips[a + 1]
          /\ b \in 0 .. NumChips - 1 /\ epoch'[j].chip = config.chips[b + 1] /\ a # b
      BY <2>1, <1>6, <1>9 DEF OnItsChip
    <3> HIDE DEF a, b
    <3>2. a + 1 \in DOMAIN config.chips /\ b + 1 \in DOMAIN config.chips /\ a + 1 # b + 1
      BY <3>1, <1>6
    <3> QED
      BY <3>1, <3>2, <1>6 DEF IsInjective
  <2>3. epoch'[i].type = epoch'[j].type
    <3>1. PICK k \in DOMAIN epoch : epoch[k].temporal = epoch'[i].temporal /\ epoch[k].type = epoch'[i].type
      BY <1>10
    <3>2. PICK l \in DOMAIN epoch : epoch[l].temporal = epoch'[j].temporal /\ epoch[l].type = epoch'[j].type
      BY <1>10
    <3>3. PairOk(epoch, k, l)
      BY <1>5
    <3> QED
      BY <3>1, <3>2, <3>3 DEF PairOk
  <2> QED
    BY <2>1, <2>2, <2>3
<1>13. ASSUME NEW i \in DOMAIN epoch'
       PROVE  {epoch'[j].chip : j \in {j \in DOMAIN epoch' : epoch'[j].temporal = epoch'[i].temporal}}
                = Range(config.chips)
  <2> DEFINE t == epoch'[i].temporal
             mine == {j \in DOMAIN epoch' : epoch'[j].temporal = t}
  <2>1. \A j \in DOMAIN epoch' : epoch'[j].chip \in Range(config.chips)
    <3> SUFFICES ASSUME NEW j \in DOMAIN epoch' PROVE epoch'[j].chip \in Range(config.chips)
      OBVIOUS
    <3>1. epoch'[j].spatial \in 0 .. NumChips - 1 /\ epoch'[j].chip = config.chips[epoch'[j].spatial + 1]
      BY <1>6, <1>9 DEF OnItsChip
    <3>2. epoch'[j].spatial + 1 \in DOMAIN config.chips
      BY <3>1, <1>6
    <3> QED
      BY <3>1, <3>2 DEF Range
  <2>2. t \in Temporals
    <3>1. PICK k \in DOMAIN epoch : epoch[k].temporal = t
      BY <1>10
    <3> QED
      BY <3>1, HaveFacts
  <2> HIDE DEF t
  <2>3. ASSUME NEW ch \in Range(config.chips) PROVE \E j \in mine : epoch'[j].chip = ch
    <3>1. PICK x \in DOMAIN config.chips : config.chips[x] = ch
      BY DEF Range
    <3> DEFINE s == x - 1
    <3>2. s \in 0 .. NumChips - 1 /\ config.chips[s + 1] = ch
      BY <3>1, <1>6
    <3> HIDE DEF s
    <3>3. CASE <<t, s>> \in Have
      <4>1. PICK j \in DOMAIN epoch : epoch[j].temporal = t /\ epoch[j].spatial = s
        BY <3>3, HaveFacts
      <4>2. OnItsChip(config, epoch[j]) /\ epoch'[j] = epoch[j] /\ j \in DOMAIN epoch'
        BY <1>2, <1>5
      <4>3. epoch'[j].chip = ch
        BY <3>2, <4>1, <4>2 DEF OnItsChip
      <4> QED
        BY <4>1, <4>2, <4>3
    <3>4. CASE <<t, s>> \notin Have
      <4>1. <<t, s>> \in Missing
        BY <2>2, <3>2, <3>4 DEF Missing
      <4> DEFINE m == <<t, s>>
      <4>2. m \in Missing /\ m[1] = t /\ m[2] = s
        BY <4>1
      <4> HIDE DEF m
      <4>3. Id(m) \in DOMAIN epoch' /\ epoch'[Id(m)] = Empty(m)
        BY <4>2, <1>2
      <4>4. epoch'[Id(m)].temporal = t /\ epoch'[Id(m)].chip = ch
        BY <3>2, <4>2, <4>3, <1>7
      <4> QED
        BY <4>3, <4>4
    <3> QED
      BY <3>3, <3>4
  <2>4. {epoch'[j].chip : j \in mine} = Range(config.chips)
    BY <2>1, <2>3
  <2> QED
    BY <2>4 DEF t
<1>14. ASSUME NEW i \in DOMAIN epoch', Broken(config, epoch'[i].ops), NEW j \in DOMAIN epoch',
              epoch'[j].temporal = epoch'[i].temporal, j < i
       PROVE  epoch'[j].ops = <<>>
  <2>1. CASE j \in DOMAIN epoch
    <3>1. i \in DOMAIN epoch
      <4>1. \A m \in Missing : ~Broken(config, Empty(m).ops)
        BY <1>7 DEF Broken, OpsOf
      <4> QED
        BY <4>1, <1>8, <1>14
    <3>2. epoch[j].temporal < epoch[i].temporal
      BY <2>1, <3>1, <1>2, <1>5, <1>14 DEF Ordered
    <3>3. epoch[j].temporal = epoch[i].temporal /\ epoch[i].temporal \in Nat
      BY <2>1, <3>1, <1>2, <1>14 DEF TypeInv, EpochInv, EpochRecord
    <3> QED
      BY <3>2, <3>3
  <2>2. CASE \E m \in Missing : epoch'[j] = Empty(m)
    BY <2>2, <1>7
  <2> QED
    BY <2>1, <2>2, <1>8
<1>15. TemporalEpochsComplete'
  <2>1. \A i \in DOMAIN epoch' : EpochOps(i)' = OpsOf(epoch'[i].ops)
    BY DEF EpochOps, OpsOf
  <2>2. \A i, j \in DOMAIN epoch' : PairOk(epoch', i, j)
    BY <1>12
  <2>3. \A i, j \in DOMAIN epoch' : i # j /\ epoch'[i].temporal = epoch'[j].temporal =>
              /\ epoch'[i].chip # epoch'[j].chip /\ epoch'[i].spatial # epoch'[j].spatial
              /\ epoch'[i].type = epoch'[j].type
    BY <2>2 DEF PairOk
  <2>4. \A i \in DOMAIN epoch' :
          LET mine == {j \in DOMAIN epoch' : epoch'[j].temporal = epoch'[i].temporal}
          IN  /\ {epoch'[j].chip : j \in mine} = Range(config.chips)
              /\ EpochOps(i)' \cap config.temporal_breaks # {} =>
                    \A j \in mine : j < i => epoch'[j].ops = <<>>
    BY <2>1, <1>13, <1>14 DEF Broken
  <2> QED
    BY <2>3, <2>4, <1>1 DEF TemporalEpochsComplete
<1> QED
  BY <1>1, <1>15 DEF TemporalInv, Running

\* There are no temporal epochs at the start.
LEMMA InitTemporal ==
  ASSUME Init
  PROVE  TemporalInv
<1>1. epoch = <<>> /\ DOMAIN epoch = {} /\ phase = "place"
  BY DEF Init
<1>2. Assigned = {}
  BY <1>1 DEF Assigned
<1>3. GalaxyInv /\ OnChips
  BY <1>1, <1>2 DEF GalaxyInv, OnChips
<1> QED
  BY <1>1, <1>3 DEF TemporalInv, TemporalEpochsComplete

\* A step that changes nothing keeps the temporal epochs.
LEMMA StutterTemporal ==
  ASSUME TemporalInv, UNCHANGED vars
  PROVE  TemporalInv'
<1>1. UNCHANGED <<config, phase, loads, epoch, cursor>>
  BY DEF vars
<1>2. NumEpochs' = NumEpochs /\ NumChips' = NumChips /\ Assigned' = Assigned /\ Running' = Running
      /\ Summarized' = Summarized
  BY <1>1 DEF NumEpochs, NumChips, Assigned, Running, Summarized
<1>3. GalaxyInv => GalaxyInv'
  BY <1>1, <1>2 DEF GalaxyInv
<1>4. (OnChips => OnChips') /\ (SummaryInv => SummaryInv')
  BY <1>1, <1>2 DEF OnChips, SummaryInv
<1>5. TemporalEpochsComplete => TemporalEpochsComplete'
  <2>1. \A i : EpochOps(i)' = EpochOps(i)
    BY <1>1 DEF EpochOps
  <2> QED
    BY <1>1, <2>1 DEF TemporalEpochsComplete
<1> QED
  BY <1>1, <1>2, <1>3, <1>4, <1>5 DEF TemporalInv

\* Temporal epochs run no chip twice and mix no types, in every solution, and on
\* Wormhole they lack no chip and begin where the user broke them (the placers of
\* each architecture and the summary of wormhole_placer).
THEOREM TemporalEpochsAreComplete == Spec => []TemporalEpochsComplete
<1>1. TypeInv /\ TypeInv' /\ TemporalInv /\ [Next]_vars => TemporalInv'
  <2> SUFFICES ASSUME TypeInv, TypeInv', TemporalInv, [Next]_vars PROVE TemporalInv'
    OBVIOUS
  <2>1. CASE EpochBreak \/ TryGroup
    <3>1. phase = "place" /\ phase' \in {"place", "abort"} /\ UNCHANGED <<config, loads, epoch, cursor>>
      BY <2>1 DEF EpochBreak, TryGroup, Placing, complete_epoch, PlaceGroup, NoRoom, Taken,
                  Conflict, Abort, Replay
    <3> QED
      BY <3>1, TemporalPlacing DEF EpochsFrame
  <2>2. CASE PlacedOntoChip
    BY <2>2, OntoChipTemporal
  <2>3. CASE NextLoad
    BY <2>3, NextLoadTemporal
  <2>4. CASE AssignWormhole
    BY <2>4, WormholeTemporal
  <2>5. CASE AssignGalaxy
    BY <2>5, GalaxyTemporal
  <2>6. CASE SummarizeEpoch
    BY <2>6, SummarizeTemporal
  <2>7. CASE InsertEmptyEpochs
    BY <2>7, InsertTemporal
  <2>8. CASE UNCHANGED vars
    BY <2>8, StutterTemporal
  <2> QED
    BY <2>1, <2>2, <2>3, <2>4, <2>5, <2>6, <2>7, <2>8 DEF Next, PlacerStep
<1>2. TemporalInv => TemporalEpochsComplete
  BY DEF TemporalInv
<1> QED
  BY <1>1, <1>2, InitTemporal, TypeCorrect, PTL DEF Spec

-----------------------------------------------------------------------------
(***************************************************************************)
(* Every scheduled op is placed.                                           *)
(***************************************************************************)
\* Filter keeps the order of the elements.
LEMMA FilterOrder ==
  ASSUME NEW X, NEW s \in Seq(X), IsInjective(s), NEW S, NEW x \in DOMAIN Filter(s, S),
         NEW y \in DOMAIN Filter(s, S), NEW p \in DOMAIN s, NEW q \in DOMAIN s,
         s[p] = Filter(s, S)[x], s[q] = Filter(s, S)[y], p < q
  PROVE  x <= y
<1> DEFINE f == Filter(s, S)
<1>1. f \in Seq(X) /\ \E at : Selects(f, at, s, S)
  BY FilterKeeps
<1>2. x \in DOMAIN f /\ y \in DOMAIN f /\ s[p] = f[x] /\ s[q] = f[y]
  OBVIOUS
<1> HIDE DEF f
<1>3. PICK at : Selects(f, at, s, S)
  BY <1>1
<1>4. /\ at[x] \in DOMAIN s /\ at[y] \in DOMAIN s /\ f[x] = s[at[x]] /\ f[y] = s[at[y]]
      /\ (y < x => at[y] < at[x])
  BY <1>2, <1>3 DEF Selects
<1>5. at[x] = p /\ at[y] = q
  BY <1>2, <1>4 DEF IsInjective
<1>6. x \in Nat /\ y \in Nat /\ p \in Nat /\ q \in Nat
  BY <1>1, <1>2
<1> QED
  BY <1>4, <1>5, <1>6

\* The calls hold every scheduled op once, in the order of the schedule.
CallsPartition(c) ==
    /\ \A l \in DOMAIN Loads(c) : /\ LoadOps(c, l) \in Seq(Op) /\ IsInjective(LoadOps(c, l))
                                  /\ Range(LoadOps(c, l)) \subseteq Range(c.schedule)
    /\ \A o \in Range(c.schedule) : \E l \in DOMAIN Loads(c) : o \in Range(LoadOps(c, l))
    /\ \A k, l \in DOMAIN Loads(c) : \A o \in Range(LoadOps(c, k)) \cap Range(LoadOps(c, l)) : k = l
    /\ \A k, l \in DOMAIN Loads(c) : \A o \in Range(LoadOps(c, k)), p \in Range(LoadOps(c, l)) :
          SameKind(c, o, p) /\ (c.arch = "grayskull" => Loads(c)[k].chip = Loads(c)[l].chip) => k = l
    /\ \A l \in DOMAIN Loads(c) : \A x, y \in DOMAIN LoadOps(c, l) : \A p, q \in DOMAIN c.schedule :
          c.schedule[p] = LoadOps(c, l)[x] /\ c.schedule[q] = LoadOps(c, l)[y] /\ p < q => x <= y

\* The calls hold every scheduled op once, on every architecture.
LEMMA LoadsPartition ==
  ASSUME NEW c, ConfigOk(c)
  PROVE  CallsPartition(c)
<1> DEFINE L == Loads(c)
           s == c.schedule
<1>1. s \in Seq(Op) /\ IsInjective(s)
  BY DEF ConfigOk
<1>2. PICK S : Divides(c, L, S)
  BY LoadsDivide
<1>3. \A l : LoadOps(c, l) = L[l].ops
  BY DEF LoadOps
<1> HIDE DEF L, s
<1>4. /\ \A k \in DOMAIN L : S[k] \subseteq Range(s) /\ L[k].ops = Filter(s, S[k])
      /\ \A o \in Range(s) : \E k \in DOMAIN L : o \in S[k]
      /\ \A k, l \in DOMAIN L : k # l => S[k] \cap S[l] = {}
      /\ \A k, l \in DOMAIN L : \A o \in S[k], p \in S[l] :
            SameKind(c, o, p) /\ (c.arch = "grayskull" => L[k].chip = L[l].chip) => k = l
  BY <1>2 DEF Divides, s
<1>5. \A l \in DOMAIN L : /\ LoadOps(c, l) = Filter(s, S[l])
                          /\ LoadOps(c, l) \in Seq(Op) /\ IsInjective(LoadOps(c, l))
                          /\ Range(LoadOps(c, l)) = S[l]
  <2> SUFFICES ASSUME NEW l \in DOMAIN L
               PROVE  /\ LoadOps(c, l) = Filter(s, S[l])
                      /\ LoadOps(c, l) \in Seq(Op) /\ IsInjective(LoadOps(c, l))
                      /\ Range(LoadOps(c, l)) = S[l]
    OBVIOUS
  <2>1. LoadOps(c, l) = Filter(s, S[l]) /\ S[l] \subseteq Range(s)
    BY <1>3, <1>4
  <2>2. /\ Filter(s, S[l]) \in Seq(Op) /\ Range(Filter(s, S[l])) = Range(s) \cap S[l]
        /\ IsInjective(Filter(s, S[l]))
    BY <1>1, FilterRange
  <2> QED
    BY <2>1, <2>2
<1>6. \A k, l \in DOMAIN L : \A o \in Range(LoadOps(c, k)) \cap Range(LoadOps(c, l)) : k = l
  BY <1>4, <1>5
<1>7. ASSUME NEW l \in DOMAIN L, NEW x \in DOMAIN LoadOps(c, l), NEW y \in DOMAIN LoadOps(c, l),
             NEW p \in DOMAIN s, NEW q \in DOMAIN s,
             s[p] = LoadOps(c, l)[x], s[q] = LoadOps(c, l)[y], p < q
      PROVE  x <= y
  BY <1>1, <1>5, <1>7, FilterOrder
<1> QED
  BY <1>4, <1>5, <1>6, <1>7 DEF CallsPartition, L, s

\* The calls of a reachable state.
LEMMA CallFacts ==
  ASSUME TypeInv, phase \in {"place", "assign"}
  PROVE  /\ CallsPartition(config) /\ LoadsDone \in Nat /\ LoadsDone + 1 \in DOMAIN Loads(config)
         /\ loads[1].ops = LoadOps(config, LoadsDone + 1)
         /\ loads[1].chip = Loads(config)[LoadsDone + 1].chip
         /\ \A l \in 1 .. LoadsDone + 1 : l \in DOMAIN Loads(config)
         /\ loads[1].ops \in Seq(Op) /\ IsInjective(loads[1].ops)
<1>1. loads # <<>>
  BY DEF TypeInv, LoadsInv
<1>2. CallsPartition(config)
  BY ConfigFacts, LoadsPartition DEF TypeInv
<1>3. /\ LoadsDone \in Nat /\ LoadsDone + 1 \in DOMAIN Loads(config)
      /\ loads[1] = Loads(config)[LoadsDone + 1] /\ loads[1].ops \in Seq(Op)
      /\ Loads(config) \in Seq(LoadRecord)
  BY <1>1, LoadFacts
<1>4. \A l \in 1 .. LoadsDone + 1 : l \in DOMAIN Loads(config)
  <2> DEFINE n == LoadsDone
             L == Loads(config)
  <2>1. n \in Nat /\ n + 1 \in DOMAIN L /\ L \in Seq(LoadRecord)
    BY <1>3
  <2> HIDE DEF n, L
  <2>2. \A l \in 1 .. n + 1 : l \in DOMAIN L
    BY <2>1
  <2> QED
    BY <2>2 DEF n, L
<1>5. loads[1].ops = LoadOps(config, LoadsDone + 1)
  BY <1>3 DEF LoadOps
<1> QED
  BY <1>2, <1>3, <1>4, <1>5 DEF CallsPartition

\* The solution is the same for the placer.
LEMMA SolvesSame ==
  ASSUME NEW c, NEW e, NEW f, NEW n, Solves(c, e, n), DOMAIN e \subseteq DOMAIN f,
         \A i \in DOMAIN e : f[i].ops = e[i].ops /\ (c.arch = "grayskull" => f[i].chip = e[i].chip),
         \A i \in DOMAIN f \ DOMAIN e : f[i].ops = <<>>
  PROVE  Solves(c, f, n)
<1>1. OpsOf(<<>>) = {} /\ Legal(c, <<>>)
  BY DEF OpsOf, Legal
<1>2. \A i \in DOMAIN f : i \in DOMAIN e \/ (OpsOf(f[i].ops) = {} /\ Legal(c, f[i].ops))
  BY <1>1
<1>3. \A i \in DOMAIN e : i \in DOMAIN f /\ f[i].ops = e[i].ops
  OBVIOUS
<1>4. \A i \in DOMAIN f : Legal(c, f[i].ops)
  BY <1>2, <1>3 DEF Solves
<1>5. \A i \in DOMAIN f : \A o \in OpsOf(f[i].ops) :
         i \in DOMAIN e /\ f[i].ops = e[i].ops /\ (c.arch = "grayskull" => f[i].chip = e[i].chip)
  BY <1>2
<1>6. \A i \in DOMAIN f : \A o \in OpsOf(f[i].ops) : \E l \in 1 .. n : o \in Range(LoadOps(c, l))
  BY <1>5 DEF Solves
<1>7. \A l \in 1 .. n : \A o \in Range(LoadOps(c, l)) : \E i \in DOMAIN f : o \in OpsOf(f[i].ops)
  BY <1>3 DEF Solves
<1>8. \A l \in 1 .. n : \A x, y \in DOMAIN LoadOps(c, l) : \A i, j \in DOMAIN f :
          x <= y /\ LoadOps(c, l)[x] \in OpsOf(f[i].ops) /\ LoadOps(c, l)[y] \in OpsOf(f[j].ops)
             => i <= j
  BY <1>5 DEF Solves
<1>9. ASSUME c.arch = "grayskull", NEW l \in 1 .. n, NEW i \in DOMAIN f,
             OpsOf(f[i].ops) \cap Range(LoadOps(c, l)) # {}
      PROVE  f[i].chip = Loads(c)[l].chip
  <2>1. i \in DOMAIN e /\ f[i].ops = e[i].ops /\ f[i].chip = e[i].chip
    BY <1>5, <1>9
  <2> QED
    BY <2>1, <1>9 DEF Solves
<1> QED
  BY <1>4, <1>6, <1>7, <1>8, <1>9 DEF Solves

-----------------------------------------------------------------------------
(***************************************************************************)
(* The open epoch and the call in progress.                                *)
(***************************************************************************)
\* What push_back adds.
LEMMA AppendIs ==
  ASSUME NEW X, NEW s \in Seq(X), NEW x \in X
  PROVE  /\ Append(s, x) \in Seq(X) /\ Len(s) \in Nat /\ Len(Append(s, x)) = Len(s) + 1
         /\ DOMAIN Append(s, x) = DOMAIN s \cup {Len(s) + 1} /\ Len(s) + 1 \notin DOMAIN s
         /\ \A k \in DOMAIN s : Append(s, x)[k] = s[k] /\ k < Len(s) + 1
         /\ Append(s, x)[Len(s) + 1] = x
OBVIOUS

\* The open epoch is completed.
LEMMA CloseOne ==
  ASSUME NEW c, NEW L \in Seq(Op), IsInjective(L), NEW es \in Seq(Seq(Placement)),
         NEW a \in Seq(Placement), NEW p \in Seq(Op), NEW n \in Nat, n + Len(p) <= Len(L),
         Len(a) = Len(p), \A k \in DOMAIN a : a[k].op = p[k],
         \A k \in DOMAIN p : p[k] = L[n + k], Legal(c, a), Holds(c, es, L, n)
  PROVE  Holds(c, Append(es, a), L, n + Len(p))
<1> DEFINE f == Append(es, a)
           z == Len(es) + 1
           m == Len(p)
<1>1. /\ DOMAIN f = DOMAIN es \cup {z} /\ z \notin DOMAIN es /\ f[z] = a
      /\ \A k \in DOMAIN es : f[k] = es[k] /\ k < z
      /\ \A k \in DOMAIN f : k \in Int /\ k <= z
  <2>1. Len(es) \in Nat /\ \A k \in DOMAIN es : k \in Nat
    OBVIOUS
  <2> QED
    BY <2>1, AppendIs
<1>2. m \in Nat /\ DOMAIN a = 1 .. m /\ DOMAIN p = 1 .. m /\ n + m <= Len(L) /\ Len(L) \in Nat
      /\ DOMAIN L = 1 .. Len(L)
  OBVIOUS
<1>3. OpsOf(a) = {L[n + k] : k \in 1 .. m}
  BY <1>2 DEF OpsOf
<1>4. \A x \in 1 .. n + m : x \in DOMAIN L /\ (x \in 1 .. n \/ (x - n \in 1 .. m /\ n + (x - n) = x))
  BY <1>2
<1>5. \A x, y \in DOMAIN L : L[x] = L[y] => x = y
  BY DEF IsInjective
<1>6. \A x \in 1 .. n : x \in 1 .. n + m
  BY <1>2
<1>17. \A x \in DOMAIN L : L[x] \in OpsOf(a) => n < x
  <2> SUFFICES ASSUME NEW x \in DOMAIN L, L[x] \in OpsOf(a) PROVE n < x
    OBVIOUS
  <2>1. PICK k \in 1 .. m : L[x] = L[n + k]
    BY <1>3
  <2>2. n + k \in DOMAIN L /\ n < n + k
    BY <1>2
  <2> QED
    BY <2>1, <2>2, <1>5
<1>7. \A i \in DOMAIN es, x \in DOMAIN L : L[x] \in OpsOf(es[i]) => x \in 1 .. n
  <2> SUFFICES ASSUME NEW i \in DOMAIN es, NEW x \in DOMAIN L, L[x] \in OpsOf(es[i]) PROVE x \in 1 .. n
    OBVIOUS
  <2>1. PICK y \in 1 .. n : L[x] = L[y]
    BY DEF Holds
  <2>2. y \in DOMAIN L
    BY <1>4, <1>6
  <2> QED
    BY <2>1, <2>2, <1>5
<1> HIDE DEF f, z, m
<1>8. \A i \in DOMAIN f : (i \in DOMAIN es /\ f[i] = es[i]) \/ (i = z /\ f[i] = a)
  BY <1>1
<1>9. \A i \in DOMAIN f : Legal(c, f[i])
  BY <1>8 DEF Holds
<1>10. \A i \in DOMAIN f : \A o \in OpsOf(f[i]) : \E x \in 1 .. n + m : o = L[x]
  <2> SUFFICES ASSUME NEW i \in DOMAIN f, NEW o \in OpsOf(f[i]) PROVE \E x \in 1 .. n + m : o = L[x]
    OBVIOUS
  <2>1. CASE i \in DOMAIN es /\ f[i] = es[i]
    BY <2>1, <1>6 DEF Holds
  <2>2. CASE f[i] = a
    <3>1. PICK k \in 1 .. m : o = L[n + k]
      BY <2>2, <1>3
    <3>2. n + k \in 1 .. n + m
      BY <1>2
    <3> QED
      BY <3>1, <3>2
  <2> QED
    BY <2>1, <2>2, <1>8
<1>11. \A x \in 1 .. n + m : \E i \in DOMAIN f : L[x] \in OpsOf(f[i])
  <2> SUFFICES ASSUME NEW x \in 1 .. n + m PROVE \E i \in DOMAIN f : L[x] \in OpsOf(f[i])
    OBVIOUS
  <2>1. CASE x \in 1 .. n
    <3>1. PICK i \in DOMAIN es : L[x] \in OpsOf(es[i])
      BY <2>1 DEF Holds
    <3> QED
      BY <3>1, <1>1
  <2>2. CASE x - n \in 1 .. m /\ n + (x - n) = x
    <3>1. L[x] \in OpsOf(a)
      BY <2>2, <1>3
    <3> QED
      BY <3>1, <1>1
  <2> QED
    BY <2>1, <2>2, <1>4
<1>12. ASSUME NEW x \in 1 .. n + m, NEW y \in 1 .. n + m, NEW i \in DOMAIN f, NEW j \in DOMAIN f,
              x <= y, L[x] \in OpsOf(f[i]), L[y] \in OpsOf(f[j])
       PROVE  i <= j
  <2>1. x \in DOMAIN L /\ y \in DOMAIN L
    BY <1>4
  <2>2. CASE f[j] = a /\ j = z
    BY <2>2, <1>1
  <2>3. CASE j \in DOMAIN es /\ f[j] = es[j]
    <3>1. y \in 1 .. n
      BY <2>1, <2>3, <1>7, <1>12
    <3>2. x \in 1 .. n
      BY <3>1, <1>2, <1>12
    <3>3. f[i] # a
      <4>1. ~(n < x)
        BY <3>2
      <4> QED
        BY <4>1, <2>1, <1>12, <1>17
    <3>4. i \in DOMAIN es /\ f[i] = es[i]
      BY <3>3, <1>8
    <3> QED
      BY <3>1, <3>2, <3>4, <2>3, <1>12 DEF Holds
  <2> QED
    BY <2>2, <2>3, <1>8
<1> QED
  BY <1>9, <1>10, <1>11, <1>12 DEF Holds, f, m

\* What the placer knows of the call in progress.
LEMMA PlaceFacts ==
  ASSUME TypeInv, PlaceInv, phase = "place"
  PROVE  LET L == loads[1].ops
         IN  /\ L \in Seq(Op) /\ IsInjective(L) /\ Len(L) \in Nat
             /\ remaining \in Seq(Op) /\ again \in Seq(Op) /\ placed \in Seq(Op)
             /\ active \in Seq(Placement) /\ epochs \in Seq(Seq(Placement))
             /\ Len(remaining) \in Nat /\ Len(again) \in Nat /\ Len(placed) \in Nat
             /\ InOrder(L, Completed) /\ OpenEpoch /\ Holds(config, epochs, L, Completed)
             /\ Completed \in Nat
<1>1. loads[1].ops \in Seq(Op) /\ IsInjective(loads[1].ops)
  BY CallFacts
<1>2. /\ remaining \in Seq(Op) /\ again \in Seq(Op) /\ placed \in Seq(Op)
      /\ active \in Seq(Placement) /\ epochs \in Seq(Seq(Placement))
  BY DEF TypeInv, PlacerInv
<1>3. /\ InOrder(loads[1].ops, Completed) /\ OpenEpoch
      /\ Holds(config, epochs, loads[1].ops, Completed)
  BY DEF PlaceInv
<1>4. Completed \in Nat
  BY <1>3 DEF InOrder
<1> QED
  BY <1>1, <1>2, <1>3, <1>4

\* In a step of get_next_epoch only the call in progress is at stake.
LEMMA PlaceFrame ==
  ASSUME PlaceInv, phase = "place", phase' = "place", UNCHANGED <<config, loads, epoch>>,
         InOrder(loads[1].ops, Completed)', OpenEpoch',
         Holds(config, epochs, loads[1].ops, Completed)'
  PROVE  PlaceInv'
<1>1. LoadsDone' = LoadsDone
  BY DEF LoadsDone
<1>2. Calls' = Calls
  BY <1>1 DEF Calls
<1>3. Solves(config, epoch, Calls)'
  BY <1>2 DEF PlaceInv
<1> QED
  BY <1>3 DEF PlaceInv

\* Nothing is asked of a placement that failed.
LEMMA AbortPlaces ==
  ASSUME phase' \in {"abort", "no_chip"}
  PROVE  PlaceInv'
BY DEF PlaceInv

\* A new epoch is empty.
LEMMA EmptyOpen ==
  ASSUME placed' = <<>>, active' = <<>>, grid' = EmptyGrid, UNCHANGED config
  PROVE  OpenEpoch'
<1>1. grid'.used = {}
  BY GridEmptied
<1>2. Legal(config', <<>>)
  BY DEF Legal
<1>3. UNION {CoresOf(<<>>[k]) : k \in DOMAIN <<>>} = {}
  OBVIOUS
<1>4. grid'.used = UNION {CoresOf(active'[k]) : k \in DOMAIN active'}
  BY <1>1, <1>3
<1> QED
  BY <1>2, <1>4 DEF OpenEpoch

\* complete_epoch moves the ops of the open epoch to the completed ones.
LEMMA CompletePlaces ==
  ASSUME TypeInv, PlaceInv, phase = "place", complete_epoch
  PROVE  PlaceInv'
<1> DEFINE L == loads[1].ops
           n == Completed
           lp == Len(placed)
           la == Len(again)
           lr == Len(remaining)
<1>1. /\ L \in Seq(Op) /\ IsInjective(L) /\ Len(L) \in Nat
      /\ active \in Seq(Placement) /\ epochs \in Seq(Seq(Placement)) /\ placed \in Seq(Op)
      /\ lr \in Nat /\ la \in Nat /\ lp \in Nat /\ n \in Nat
      /\ InOrder(L, n) /\ OpenEpoch /\ Holds(config, epochs, L, n)
  BY PlaceFacts
<1>2. /\ epochs' = Append(epochs, active) /\ placed' = <<>> /\ active' = <<>> /\ grid' = EmptyGrid
      /\ UNCHANGED <<config, phase, loads, remaining, again, epoch>>
  BY DEF complete_epoch
<1>3. n' = ((Len(L) - lr) - la) - 0
  BY <1>2 DEF Completed
<1> HIDE DEF L, n
<1>4. /\ Len(L) = n + lp + la + lr
      /\ \A k \in DOMAIN placed : placed[k] = L[n + k]
      /\ \A k \in DOMAIN again : again[k] = L[n + lp + k]
      /\ \A k \in DOMAIN remaining : remaining[k] = L[n + lp + la + k]
  BY <1>1 DEF InOrder
<1>5. /\ Len(active) = lp /\ \A k \in DOMAIN active : active[k].op = placed[k]
      /\ Legal(config, active)
  BY <1>1 DEF OpenEpoch
<1>6. n + lp <= Len(L)
  <2> HIDE DEF lp, la, lr
  <2> QED
    BY <1>1, <1>4
<1>7. Holds(config, Append(epochs, active), L, n + lp)
  BY <1>1, <1>4, <1>5, <1>6, CloseOne
<1>8. n' = n + lp
  <2> HIDE DEF lp, la, lr
  <2> QED
    BY <1>1, <1>3, <1>4
<1>9. L' = L
  BY <1>2 DEF L
<1>10. Holds(config', epochs', L', n')
  BY <1>2, <1>7, <1>8, <1>9
<1>11. InOrder(L, n)'
  <2>1. n + lp \in Nat /\ Len(L) = (n + lp) + 0 + la + lr
    <3> HIDE DEF lp, la, lr
    <3> QED
      BY <1>1, <1>4
  <2>2. \A k \in DOMAIN again : again[k] = L[(n + lp) + 0 + k]
    <3>1. n + lp + 0 = n + lp
      BY <1>1
    <3> QED
      BY <1>4, <3>1
  <2>3. \A k \in DOMAIN remaining : remaining[k] = L[(n + lp) + 0 + la + k]
    <3>1. n + lp + 0 = n + lp
      BY <1>1
    <3> QED
      BY <1>4, <3>1
  <2>4. Len(<<>>) = 0 /\ DOMAIN <<>> = {}
    OBVIOUS
  <2> QED
    BY <2>1, <2>2, <2>3, <2>4, <1>2, <1>8, <1>9 DEF InOrder
<1>12. OpenEpoch'
  BY <1>2, EmptyOpen
<1> QED
  BY <1>2, <1>10, <1>11, <1>12, PlaceFrame DEF L, n

\* Starting the epoch again moves the ops of the open epoch to those to place again.
LEMMA ReplayPlaces ==
  ASSUME TypeInv, PlaceInv, phase = "place", NEW op, NEW kept, Replay(op, kept)
  PROVE  PlaceInv'
<1> DEFINE L == loads[1].ops
           n == Completed
           lp == Len(placed)
           la == Len(again)
           lr == Len(remaining)
           both == placed \o again
<1>1. /\ Len(L) \in Nat /\ placed \in Seq(Op) /\ again \in Seq(Op)
      /\ lr \in Nat /\ la \in Nat /\ lp \in Nat /\ n \in Nat
      /\ InOrder(L, n) /\ Holds(config, epochs, L, n)
  BY PlaceFacts
<1>2. /\ again' = both /\ placed' = <<>> /\ active' = <<>> /\ grid' = EmptyGrid
      /\ UNCHANGED <<config, phase, loads, remaining, epochs, epoch>>
  BY DEF Replay
<1>3. /\ Len(both) = lp + la /\ DOMAIN both = 1 .. lp + la
      /\ \A k \in 1 .. lp + la : both[k] = IF k <= lp THEN placed[k] ELSE again[k - lp]
      /\ DOMAIN placed = 1 .. lp /\ DOMAIN again = 1 .. la
  BY <1>1
<1>4. n' = ((Len(L) - lr) - Len(both)) - 0 /\ n = ((Len(L) - lr) - la) - lp
  BY <1>2 DEF Completed
<1> HIDE DEF L, n, both
<1>5. /\ Len(L) = n + lp + la + lr
      /\ \A k \in DOMAIN placed : placed[k] = L[n + k]
      /\ \A k \in DOMAIN again : again[k] = L[n + lp + k]
      /\ \A k \in DOMAIN remaining : remaining[k] = L[n + lp + la + k]
  BY <1>1 DEF InOrder
<1> HIDE DEF lp, la, lr
<1>6. n' = n
  BY <1>1, <1>3, <1>4
<1>7. \A k \in DOMAIN both : both[k] = L[n + 0 + k]
  <2> SUFFICES ASSUME NEW k \in 1 .. lp + la PROVE both[k] = L[n + k]
    BY <1>1, <1>3
  <2>1. CASE k <= lp
    BY <2>1, <1>1, <1>3, <1>5
  <2>2. CASE ~(k <= lp)
    <3>1. k - lp \in 1 .. la /\ n + lp + (k - lp) = n + k
      BY <2>2, <1>1
    <3>2. again[k - lp] = L[n + lp + (k - lp)]
      BY <3>1, <1>3, <1>5
    <3> QED
      BY <3>1, <3>2, <2>2, <1>3
  <2> QED
    BY <2>1, <2>2
<1>8. \A k \in DOMAIN remaining : remaining[k] = L[n + 0 + Len(both) + k]
  <2>1. n + 0 + Len(both) = n + lp + la
    BY <1>1, <1>3
  <2> QED
    BY <2>1, <1>5
<1>9. Len(L) = n + 0 + Len(both) + Len(remaining)
  BY <1>1, <1>3, <1>5 DEF lr
<1>10. L' = L
  BY <1>2 DEF L
<1>11. InOrder(L, n)'
  <2>1. Len(<<>>) = 0 /\ DOMAIN <<>> = {}
    OBVIOUS
  <2> QED
    BY <2>1, <1>1, <1>2, <1>6, <1>7, <1>8, <1>9, <1>10 DEF InOrder
<1>12. OpenEpoch'
  BY <1>2, EmptyOpen
<1>13. Holds(config, epochs, L, n)'
  BY <1>1, <1>2, <1>6, <1>10
<1> QED
  BY <1>2, <1>11, <1>12, <1>13, PlaceFrame DEF L, n

\* An op on free cores, where its user wants it, keeps an epoch legal.
LEMMA LegalAppend ==
  ASSUME NEW c, NEW a \in Seq(Placement), NEW p \in Placement, Legal(c, a),
         CoresOf(p) \cap UNION {CoresOf(a[k]) : k \in DOMAIN a} = {},
         InGrid(create_empty_device_grid(c.rows, c.cols), p.start, p.shape),
         UserOf(c, p.op).start \in {NoCoord, p.start}, p.op \in c.epoch_breaks => a = <<>>
  PROVE  Legal(c, Append(a, p))
<1> DEFINE b == Append(a, p)
           z == Len(a) + 1
<1>1. /\ DOMAIN b = DOMAIN a \cup {z} /\ z \notin DOMAIN a /\ b[z] = p
      /\ \A k \in DOMAIN a : b[k] = a[k]
  BY AppendIs
<1>2. p.op \in c.epoch_breaks => z = 1
  OBVIOUS
<1> HIDE DEF b, z
<1>3. \A k \in DOMAIN b : (k \in DOMAIN a /\ b[k] = a[k]) \/ (k = z /\ b[k] = p)
  BY <1>1
<1>4. \A k \in DOMAIN a : CoresOf(p) \cap CoresOf(a[k]) = {}
  OBVIOUS
<1>5. \A k, l \in DOMAIN b : k # l => CoresOf(b[k]) \cap CoresOf(b[l]) = {}
  <2> SUFFICES ASSUME NEW k \in DOMAIN b, NEW l \in DOMAIN b, k # l
               PROVE  CoresOf(b[k]) \cap CoresOf(b[l]) = {}
    OBVIOUS
  <2>1. CASE k \in DOMAIN a /\ l \in DOMAIN a
    BY <2>1, <1>1 DEF Legal
  <2>2. CASE k \in DOMAIN a /\ l = z
    <3>1. CoresOf(p) \cap CoresOf(a[k]) = {}
      BY <2>2, <1>4
    <3>2. b[k] = a[k] /\ b[l] = p
      BY <2>2, <1>1
    <3> QED
      BY <3>1, <3>2
  <2>3. CASE l \in DOMAIN a /\ k = z
    <3>1. CoresOf(p) \cap CoresOf(a[l]) = {}
      BY <2>3, <1>4
    <3>2. b[l] = a[l] /\ b[k] = p
      BY <2>3, <1>1
    <3> QED
      BY <3>1, <3>2
  <2> QED
    BY <2>1, <2>2, <2>3, <1>3
<1>6. \A k \in DOMAIN b :
          /\ InGrid(create_empty_device_grid(c.rows, c.cols), b[k].start, b[k].shape)
          /\ UserOf(c, b[k].op).start \in {NoCoord, b[k].start}
          /\ b[k].op \in c.epoch_breaks => k = 1
  BY <1>2, <1>3 DEF Legal
<1> QED
  BY <1>5, <1>6 DEF Legal, b

\* The cores of the ops of an epoch, with one more.
LEMMA UnionAppend ==
  ASSUME NEW a \in Seq(Placement), NEW p \in Placement
  PROVE  UNION {CoresOf(Append(a, p)[k]) : k \in DOMAIN Append(a, p)}
           = CoresOf(p) \cup UNION {CoresOf(a[k]) : k \in DOMAIN a}
<1> DEFINE b == Append(a, p)
           z == Len(a) + 1
<1>1. /\ DOMAIN b = DOMAIN a \cup {z} /\ z \notin DOMAIN a /\ b[z] = p
      /\ \A k \in DOMAIN a : b[k] = a[k]
  BY AppendIs
<1> HIDE DEF b, z
<1>2. ASSUME NEW x PROVE (\E k \in DOMAIN b : x \in CoresOf(b[k]))
                           <=> (\E k \in DOMAIN a : x \in CoresOf(a[k])) \/ x \in CoresOf(p)
  BY <1>1
<1>4. \A x : x \in UNION {CoresOf(b[k]) : k \in DOMAIN b} <=> \E k \in DOMAIN b : x \in CoresOf(b[k])
  OBVIOUS
<1>5. \A x : x \in UNION {CoresOf(a[k]) : k \in DOMAIN a} <=> \E k \in DOMAIN a : x \in CoresOf(a[k])
  OBVIOUS
<1>3. UNION {CoresOf(b[k]) : k \in DOMAIN b} = CoresOf(p) \cup UNION {CoresOf(a[k]) : k \in DOMAIN a}
  <2> DEFINE U == UNION {CoresOf(b[k]) : k \in DOMAIN b}
             V == UNION {CoresOf(a[k]) : k \in DOMAIN a}
  <2>1. \A x : x \in U <=> x \in V \/ x \in CoresOf(p)
    BY <1>2, <1>4, <1>5
  <2> HIDE DEF U, V
  <2>2. U = CoresOf(p) \cup V
    BY <2>1
  <2> QED
    BY <2>2 DEF U, V
<1> QED
  BY <1>3 DEF b

\* The occupied cores of the epoch grid after an op.
LEMMA GridAfter ==
  ASSUME TypeInv, NEW start, NEW shape
  PROVE  fill_device_grid_with_placement(grid, start, shape).used = grid.used \cup Cores(start, shape)
<1>1. grid = [rows |-> config.rows, cols |-> config.cols, used |-> grid.used]
  BY DEF TypeInv, PlacerInv
<1>2. fill_device_grid_with_placement(grid, start, shape)
        = [rows |-> config.rows, cols |-> config.cols, used |-> grid.used \cup Cores(start, shape)]
  BY <1>1, GridFilled
<1> QED
  BY <1>2

\* Placing an op moves it from the ops to place to the open epoch.
LEMMA PlacePlaces ==
  ASSUME TypeInv, PlaceInv, Placing, ~Breaking, PlaceGroup(Answer)
  PROVE  PlaceInv'
<1> DEFINE op == OpGroupToPlace
           r == Answer
           p == [op |-> op, start |-> r.start, shape |-> r.shape, transposed |-> r.transposed]
<1>1. CASE op \in DOMAIN constraints /\ again # <<>>
  BY <1>1, AbortPlaces DEF PlaceGroup, Abort
<1>2. CASE ~(op \in DOMAIN constraints /\ again # <<>>)
  <2> DEFINE L == loads[1].ops
             n == Completed
             lp == Len(placed)
             la == Len(again)
             lr == Len(remaining)
  <2>1. /\ active' = Append(active, p) /\ placed' = Append(placed, op) /\ epochs' = epochs
        /\ grid' = fill_device_grid_with_placement(grid, r.start, r.shape)
        /\ \/ again = <<>> /\ remaining' = Tail(remaining) /\ again' = again /\ op = Head(remaining)
           \/ again # <<>> /\ again' = Tail(again) /\ remaining' = remaining /\ op = Head(again)
        /\ UNCHANGED <<config, phase, loads, epoch>>
    BY <1>2 DEF PlaceGroup, OpGroupToPlace
  <2>2. /\ op \in Op /\ r.start \in Nat \X Nat /\ r.shape \in Shapes /\ r.transposed \in BOOLEAN
        /\ InGrid(grid, r.start, r.shape) /\ Cores(r.start, r.shape) \cap grid.used = {}
        /\ Override(op).start \in {NoCoord, r.start}
    BY AnswerRight, OpToPlace DEF PlaceGroup, PlacedRight
  <2>3. /\ p \in Placement /\ p.op = op /\ p.start = r.start /\ p.shape = r.shape
        /\ CoresOf(p) = Cores(r.start, r.shape)
    BY <2>2 DEF Placement, CoresOf
  <2>4. grid = [rows |-> config.rows, cols |-> config.cols, used |-> grid.used]
    BY DEF TypeInv, PlacerInv
  <2>5. grid'.used = grid.used \cup CoresOf(p)
    BY <2>1, <2>3, GridAfter
  <2>6. InGrid(create_empty_device_grid(config.rows, config.cols), p.start, p.shape)
    <3>1. grid.rows = config.rows /\ grid.cols = config.cols
      BY <2>4
    <3> QED
      BY <3>1, <2>2, <2>3 DEF InGrid, create_empty_device_grid
  <2>7. UserOf(config, p.op).start \in {NoCoord, p.start}
    BY <2>2, <2>3 DEF UserOf, Override, HasOverride
  <2>8. p.op \in config.epoch_breaks => active = <<>>
    BY <2>3 DEF Breaking, increment_epoch
  <2>9. phase = "place"
    BY DEF Placing
  <2>10. /\ Len(L) \in Nat /\ remaining \in Seq(Op) /\ again \in Seq(Op) /\ placed \in Seq(Op)
         /\ active \in Seq(Placement)
         /\ lr \in Nat /\ la \in Nat /\ lp \in Nat /\ n \in Nat
         /\ InOrder(L, n) /\ OpenEpoch /\ Holds(config, epochs, L, n)
    BY <2>9, PlaceFacts
  <2>11. again = <<>> => remaining # <<>>
    BY OpToPlace
  <2> HIDE DEF op, r, p
  <2>12. OpenEpoch'
    <3>1. /\ Len(active) = lp /\ (\A k \in DOMAIN active : active[k].op = placed[k])
          /\ grid.used = UNION {CoresOf(active[k]) : k \in DOMAIN active} /\ Legal(config, active)
      BY <2>10 DEF OpenEpoch
    <3>2. Legal(config, Append(active, p))
      BY <2>2, <2>3, <2>6, <2>7, <2>8, <2>10, <3>1, LegalAppend
    <3>3. grid'.used = UNION {CoresOf(active'[k]) : k \in DOMAIN active'}
      <4>1. UNION {CoresOf(Append(active, p)[k]) : k \in DOMAIN Append(active, p)}
               = CoresOf(p) \cup UNION {CoresOf(active[k]) : k \in DOMAIN active}
        BY <2>3, <2>10, UnionAppend
      <4> QED
        BY <4>1, <2>1, <2>5, <3>1
    <3>4. /\ Len(active') = Len(placed')
          /\ \A k \in DOMAIN active' : active'[k].op = placed'[k]
      <4>1. /\ Len(active') = lp + 1 /\ DOMAIN active' = DOMAIN active \cup {lp + 1}
            /\ active'[lp + 1] = p /\ \A k \in DOMAIN active : active'[k] = active[k]
        BY <2>1, <2>3, <2>10, <3>1, AppendIs
      <4>2. /\ Len(placed') = lp + 1 /\ placed'[lp + 1] = op
            /\ \A k \in DOMAIN placed : placed'[k] = placed[k]
        <5>1. placed' = Append(placed, op) /\ placed \in Seq(Op) /\ op \in Op
          BY <2>1, <2>2, <2>10
        <5> QED
          BY <5>1, AppendIs
      <4>3. DOMAIN active = DOMAIN placed
        BY <2>10, <3>1
      <4> QED
        BY <4>1, <4>2, <4>3, <2>3, <3>1
    <3> QED
      BY <2>1, <3>2, <3>3, <3>4 DEF OpenEpoch
  <2>13. L' = L /\ n' = ((Len(L) - Len(remaining')) - Len(again')) - Len(placed')
    BY <2>1 DEF Completed
  <2> HIDE DEF L, n
  <2>14. /\ Len(L) = n + lp + la + lr
         /\ \A k \in DOMAIN placed : placed[k] = L[n + k]
         /\ \A k \in DOMAIN again : again[k] = L[n + lp + k]
         /\ \A k \in DOMAIN remaining : remaining[k] = L[n + lp + la + k]
    BY <2>10 DEF InOrder
  <2>15. /\ Len(placed') = lp + 1 /\ placed'[lp + 1] = op /\ DOMAIN placed' = DOMAIN placed \cup {lp + 1}
         /\ \A k \in DOMAIN placed : placed'[k] = placed[k]
    <3>1. /\ Len(Append(placed, op)) = Len(placed) + 1 /\ Append(placed, op)[Len(placed) + 1] = op
          /\ DOMAIN Append(placed, op) = DOMAIN placed \cup {Len(placed) + 1}
          /\ \A k \in DOMAIN placed : Append(placed, op)[k] = placed[k]
      BY <2>2, <2>10, AppendIs
    <3> QED
      BY <3>1, <2>1
  <2>16. n' = n /\ InOrder(L, n)'
    <3>1. CASE again = <<>>
      <4>1. /\ remaining' = Tail(remaining) /\ again' = again /\ op = remaining[1] /\ la = 0
            /\ Len(remaining') = lr - 1 /\ lr > 0 /\ DOMAIN remaining' = 1 .. lr - 1
            /\ \A k \in 1 .. lr - 1 : remaining'[k] = remaining[k + 1] /\ k + 1 \in DOMAIN remaining
            /\ 1 \in DOMAIN remaining
        <5>1. remaining \in Seq(Op) /\ remaining # <<>> /\ remaining' = Tail(remaining)
              /\ again' = again /\ op = Head(remaining)
          BY <3>1, <2>1, <2>10, <2>11
        <5> QED
          BY <3>1, <5>1
      <4> HIDE DEF lp, la, lr
      <4>2. n' = n /\ Len(L) = n + (lp + 1) + la + (lr - 1)
        <5>1. Len(again') = la /\ Len(remaining') = lr - 1 /\ Len(placed') = lp + 1
          BY <2>15, <4>1 DEF la
        <5>2. n' = ((Len(L) - (lr - 1)) - la) - (lp + 1)
          BY <2>13, <5>1
        <5> QED
          BY <2>10, <2>14, <5>2
      <4>3. op = L[n + (lp + 1)]
        <5>1. n + lp + la + 1 = n + (lp + 1)
          BY <2>10, <4>1
        <5> QED
          BY <5>1, <4>1, <2>14
      <4>4. \A k \in 1 .. lr - 1 : remaining'[k] = L[n + (lp + 1) + la + k]
        <5> SUFFICES ASSUME NEW k \in 1 .. lr - 1 PROVE remaining'[k] = L[n + (lp + 1) + la + k]
          OBVIOUS
        <5>1. n + lp + la + (k + 1) = n + (lp + 1) + la + k
          BY <2>10
        <5> QED
          BY <5>1, <4>1, <2>14
      <4>5. \A k \in DOMAIN placed' : placed'[k] = L[n + k]
        BY <2>14, <2>15, <4>3
      <4>6. DOMAIN again' = {}
        BY <3>1, <4>1
      <4> QED
        BY <2>10, <2>13, <2>15, <4>1, <4>2, <4>4, <4>5, <4>6 DEF InOrder, la
    <3>2. CASE again # <<>>
      <4>1. /\ again' = Tail(again) /\ remaining' = remaining /\ op = again[1]
            /\ Len(again') = la - 1 /\ la > 0 /\ DOMAIN again' = 1 .. la - 1
            /\ \A k \in 1 .. la - 1 : again'[k] = again[k + 1] /\ k + 1 \in DOMAIN again
            /\ 1 \in DOMAIN again
        <5>1. again \in Seq(Op) /\ again # <<>> /\ again' = Tail(again)
              /\ remaining' = remaining /\ op = Head(again)
          BY <3>2, <2>1, <2>10
        <5> QED
          BY <5>1
      <4> HIDE DEF lp, la, lr
      <4>2. n' = n /\ Len(L) = n + (lp + 1) + (la - 1) + lr
        <5>1. Len(again') = la - 1 /\ Len(remaining') = lr /\ Len(placed') = lp + 1
          BY <2>15, <4>1 DEF lr
        <5>2. n' = ((Len(L) - lr) - (la - 1)) - (lp + 1)
          BY <2>13, <5>1
        <5> QED
          BY <2>10, <2>14, <5>2
      <4>3. op = L[n + (lp + 1)]
        <5>1. n + lp + 1 = n + (lp + 1)
          BY <2>10
        <5> QED
          BY <5>1, <4>1, <2>14
      <4>4. \A k \in 1 .. la - 1 : again'[k] = L[n + (lp + 1) + k]
        <5> SUFFICES ASSUME NEW k \in 1 .. la - 1 PROVE again'[k] = L[n + (lp + 1) + k]
          OBVIOUS
        <5>1. n + lp + (k + 1) = n + (lp + 1) + k
          BY <2>10
        <5> QED
          BY <5>1, <4>1, <2>14
      <4>5. \A k \in DOMAIN placed' : placed'[k] = L[n + k]
        BY <2>14, <2>15, <4>3
      <4>6. \A k \in DOMAIN remaining : remaining[k] = L[n + (lp + 1) + (la - 1) + k]
        <5>1. n + lp + la = n + (lp + 1) + (la - 1)
          BY <2>10
        <5> QED
          BY <5>1, <2>14
      <4> QED
        BY <2>10, <2>13, <2>15, <4>1, <4>2, <4>4, <4>5, <4>6 DEF InOrder, lr
    <3> QED
      BY <3>1, <3>2
  <2>17. Holds(config, epochs, L, n)'
    BY <2>1, <2>10, <2>13, <2>16
  <2> QED
    BY <2>1, <2>9, <2>12, <2>16, <2>17, PlaceFrame DEF L, n
<1> QED
  BY <1>1, <1>2

\* A turn of the loop of get_next_epoch loses and doubles no op.
LEMMA TryGroupPlaces ==
  ASSUME TypeInv, PlaceInv, TryGroup
  PROVE  PlaceInv'
<1>1. Placing /\ ~Breaking /\ phase = "place"
  BY DEF TryGroup, Placing
<1>2. PlaceGroup(Answer) \/ NoRoom(Answer) \/ Taken(Answer) \/ Conflict(Answer)
  BY DEF TryGroup, Answer
<1>3. CASE PlaceGroup(Answer)
  BY <1>1, <1>3, PlacePlaces
<1>4. CASE NoRoom(Answer)
  BY <1>1, <1>4, CompletePlaces DEF NoRoom
<1>5. CASE Taken(Answer)
  <2>1. complete_epoch \/ phase' = "abort" \/ \E op, kept : Replay(op, kept)
    BY <1>5 DEF Taken, Abort
  <2> QED
    BY <2>1, <1>1, CompletePlaces, AbortPlaces, ReplayPlaces
<1>6. CASE Conflict(Answer)
  BY <1>6, AbortPlaces DEF Conflict, Abort
<1> QED
  BY <1>2, <1>3, <1>4, <1>5, <1>6

\* The epochs of a call hold its ops.
LEMMA DoneHolds ==
  ASSUME TypeInv, PlaceInv, phase = "place", remaining \o again = <<>>
  PROVE  remaining = <<>> /\ again = <<>> /\ Holds(config, Done, loads[1].ops, Len(loads[1].ops))
<1> DEFINE L == loads[1].ops
           n == Completed
<1>1. /\ L \in Seq(Op) /\ IsInjective(L) /\ Len(L) \in Nat
      /\ remaining \in Seq(Op) /\ again \in Seq(Op) /\ placed \in Seq(Op)
      /\ active \in Seq(Placement) /\ epochs \in Seq(Seq(Placement))
      /\ Len(placed) \in Nat /\ n \in Nat
      /\ InOrder(L, n) /\ OpenEpoch /\ Holds(config, epochs, L, n)
  BY PlaceFacts
<1>2. remaining = <<>> /\ again = <<>>
  BY <1>1
<1> HIDE DEF L, n
<1>3. /\ Len(L) = n + Len(placed)
      /\ \A k \in DOMAIN placed : placed[k] = L[n + k]
  <2>1. /\ Len(L) = n + Len(placed) + Len(again) + Len(remaining)
        /\ \A k \in DOMAIN placed : placed[k] = L[n + k]
    BY <1>1 DEF InOrder
  <2>2. Len(again) = 0 /\ Len(remaining) = 0
    BY <1>2
  <2> QED
    BY <2>1, <2>2, <1>1
<1>4. /\ Len(active) = Len(placed) /\ \A k \in DOMAIN active : active[k].op = placed[k]
      /\ Legal(config, active)
  BY <1>1 DEF OpenEpoch
<1>5. CASE active = <<>>
  <2>1. Len(placed) = 0
    BY <1>4, <1>5
  <2>2. n = Len(L) /\ Done = epochs
    BY <2>1, <1>1, <1>3, <1>5 DEF Done
  <2> QED
    BY <2>2, <1>1, <1>2 DEF L
<1>6. CASE active # <<>>
  <2>1. n + Len(placed) <= Len(L)
    BY <1>1, <1>3
  <2>2. Holds(config, Append(epochs, active), L, n + Len(placed))
    BY <2>1, <1>1, <1>3, <1>4, CloseOne
  <2>3. Done = Append(epochs, active)
    BY <1>6 DEF Done
  <2> QED
    BY <2>2, <2>3, <1>2, <1>3 DEF L
<1> QED
  BY <1>5, <1>6

\* The epochs d of one more call join the solution e.
Joined(e, f, N, d, chip) ==
    LET ids == N .. N + (Len(d) - 1)
    IN  /\ DOMAIN e = 0 .. N - 1 /\ DOMAIN f = DOMAIN e \cup ids
        /\ \A i \in DOMAIN e : f[i] = e[i]
        /\ \A i \in ids : f[i].ops = d[i - N + 1] /\ f[i].chip = chip

\* The solution holds the ops of one more call.
LEMMA SolvesMore ==
  ASSUME NEW c, CallsPartition(c), NEW n \in Nat, 1 .. n + 1 \subseteq DOMAIN Loads(c),
         NEW e, NEW f, NEW N \in Nat, NEW d \in Seq(Seq(Placement)),
         Solves(c, e, n), Holds(c, d, LoadOps(c, n + 1), Len(LoadOps(c, n + 1))),
         Joined(e, f, N, d, Loads(c)[n + 1].chip)
  PROVE  Solves(c, f, n + 1)
<1> DEFINE L == LoadOps(c, n + 1)
           ids == N .. N + (Len(d) - 1)
<1>20. /\ DOMAIN e = 0 .. N - 1 /\ DOMAIN f = DOMAIN e \cup ids
       /\ \A i \in DOMAIN e : f[i] = e[i]
       /\ \A i \in ids : f[i].ops = d[i - N + 1] /\ f[i].chip = Loads(c)[n + 1].chip
       /\ \A l \in 1 .. n + 1 : l \in DOMAIN Loads(c)
  BY DEF Joined
<1>21. ids = N .. N + (Len(d) - 1)
  OBVIOUS
<1> HIDE DEF ids
<1>1. /\ L \in Seq(Op) /\ DOMAIN L = 1 .. Len(L)
      /\ \A l \in 1 .. n + 1 : \A o \in Range(LoadOps(c, l)) \cap Range(L) : l = n + 1
  <2>1. n + 1 \in 1 .. n + 1
    OBVIOUS
  <2>2. n + 1 \in DOMAIN Loads(c) /\ \A l \in 1 .. n + 1 : l \in DOMAIN Loads(c)
    BY <2>1, <1>20
  <2>3. L \in Seq(Op)
    BY <2>2 DEF CallsPartition
  <2>4. \A k, l \in DOMAIN Loads(c) : \A o \in Range(LoadOps(c, k)) \cap Range(LoadOps(c, l)) : k = l
    BY DEF CallsPartition
  <2>5. DOMAIN L = 1 .. Len(L)
    <3> HIDE DEF L
    <3> QED
      BY <2>3
  <2> QED
    BY <2>2, <2>3, <2>4, <2>5
<1>2. /\ \A i \in ids : i - N + 1 \in DOMAIN d
      /\ \A m \in DOMAIN d : (N + m) - 1 \in ids /\ ((N + m) - 1) - N + 1 = m
      /\ \A i, j \in ids : i - N + 1 <= j - N + 1 => i <= j
      /\ ids \cap DOMAIN e = {}
  <2> DEFINE k == Len(d)
  <2>1. DOMAIN d = 1 .. k /\ k \in Nat /\ ids = N .. N + (k - 1)
    BY <1>21
  <2> HIDE DEF k
  <2> QED
    BY <2>1, <1>20
<1>3. /\ \A m \in DOMAIN d : Legal(c, d[m])
      /\ \A m \in DOMAIN d : \A o \in OpsOf(d[m]) : \E x \in DOMAIN L : o = L[x]
      /\ \A x \in DOMAIN L : \E m \in DOMAIN d : L[x] \in OpsOf(d[m])
      /\ \A x, y \in DOMAIN L : \A m, k \in DOMAIN d :
          x <= y /\ L[x] \in OpsOf(d[m]) /\ L[y] \in OpsOf(d[k]) => m <= k
  BY <1>1 DEF Holds
<1>4. \A m \in DOMAIN d : OpsOf(d[m]) \subseteq Range(L)
  BY <1>3 DEF Range
<1>5. \A i \in DOMAIN f : \/ i \in DOMAIN e /\ f[i] = e[i]
                          \/ i \in ids /\ i - N + 1 \in DOMAIN d /\ f[i].ops = d[i - N + 1]
                             /\ f[i].chip = Loads(c)[n + 1].chip
  BY <1>2, <1>20
<1>6. \A l \in 1 .. n : l \in 1 .. n + 1 /\ l # n + 1
  OBVIOUS
<1>7. \A l \in 1 .. n + 1 : l \in 1 .. n \/ l = n + 1
  OBVIOUS
\* The ops of an epoch tell its call.
<1>8. \A i \in DOMAIN e : \A o \in OpsOf(e[i].ops) : o \notin Range(L)
  <2> SUFFICES ASSUME NEW i \in DOMAIN e, NEW o \in OpsOf(e[i].ops), o \in Range(L) PROVE FALSE
    OBVIOUS
  <2>1. PICK l \in 1 .. n : o \in Range(LoadOps(c, l))
    BY DEF Solves
  <2> QED
    BY <2>1, <1>1, <1>6
<1>9. \A i \in DOMAIN f : \A o \in OpsOf(f[i].ops) :
         /\ o \in Range(L) => /\ i \in ids /\ i - N + 1 \in DOMAIN d /\ f[i].ops = d[i - N + 1]
                              /\ f[i].chip = Loads(c)[n + 1].chip
         /\ o \notin Range(L) => i \in DOMAIN e /\ f[i] = e[i]
  BY <1>4, <1>5, <1>8
<1>10. \A l \in 1 .. n : \A o \in Range(LoadOps(c, l)) : o \notin Range(L)
  BY <1>1, <1>6
<1> HIDE DEF L
<1>11. \A i \in DOMAIN f : Legal(c, f[i].ops)
  BY <1>3, <1>5 DEF Solves
<1>12. \A i \in DOMAIN f : \A o \in OpsOf(f[i].ops) : \E l \in 1 .. n + 1 : o \in Range(LoadOps(c, l))
  <2> SUFFICES ASSUME NEW i \in DOMAIN f, NEW o \in OpsOf(f[i].ops)
               PROVE  \E l \in 1 .. n + 1 : o \in Range(LoadOps(c, l))
    OBVIOUS
  <2>1. CASE o \in Range(L)
    <3>1. n + 1 \in 1 .. n + 1
      OBVIOUS
    <3> QED
      BY <2>1, <3>1 DEF L
  <2>2. CASE o \notin Range(L)
    <3>1. i \in DOMAIN e /\ f[i] = e[i]
      BY <2>2, <1>9
    <3>2. PICK l \in 1 .. n : o \in Range(LoadOps(c, l))
      BY <3>1 DEF Solves
    <3> QED
      BY <3>2, <1>6
  <2> QED
    BY <2>1, <2>2
<1>13. \A l \in 1 .. n + 1 : \A o \in Range(LoadOps(c, l)) : \E i \in DOMAIN f : o \in OpsOf(f[i].ops)
  <2> SUFFICES ASSUME NEW l \in 1 .. n + 1, NEW o \in Range(LoadOps(c, l))
               PROVE  \E i \in DOMAIN f : o \in OpsOf(f[i].ops)
    OBVIOUS
  <2>1. CASE l \in 1 .. n
    <3>1. PICK i \in DOMAIN e : o \in OpsOf(e[i].ops)
      BY <2>1 DEF Solves
    <3> QED
      BY <3>1, <1>20
  <2>2. CASE l = n + 1
    <3>1. PICK x \in DOMAIN L : o = L[x]
      BY <2>2 DEF Range, L
    <3>2. PICK m \in DOMAIN d : o \in OpsOf(d[m])
      BY <3>1, <1>3
    <3> DEFINE i == (N + m) - 1
    <3>3. i \in ids /\ i - N + 1 = m
      BY <1>2
    <3> HIDE DEF i
    <3>4. i \in DOMAIN f /\ f[i].ops = d[m]
      BY <3>3, <1>20
    <3> QED
      BY <3>2, <3>4
  <2> QED
    BY <2>1, <2>2, <1>7
<1>14. ASSUME NEW l \in 1 .. n + 1, NEW x \in DOMAIN LoadOps(c, l), NEW y \in DOMAIN LoadOps(c, l),
              NEW i \in DOMAIN f, NEW j \in DOMAIN f, x <= y,
              LoadOps(c, l)[x] \in OpsOf(f[i].ops), LoadOps(c, l)[y] \in OpsOf(f[j].ops)
       PROVE  i <= j
  <2> DEFINE o == LoadOps(c, l)[x]
             p == LoadOps(c, l)[y]
  <2>1. /\ o \in Range(LoadOps(c, l)) /\ o \in OpsOf(f[i].ops)
        /\ p \in Range(LoadOps(c, l)) /\ p \in OpsOf(f[j].ops)
    BY <1>14 DEF Range
  <2> HIDE DEF o, p
  <2>2. CASE l \in 1 .. n
    <3>1. i \in DOMAIN e /\ f[i] = e[i] /\ j \in DOMAIN e /\ f[j] = e[j]
      BY <2>1, <2>2, <1>9, <1>10
    <3> QED
      BY <3>1, <2>2, <1>14 DEF Solves
  <2>3. CASE l = n + 1
    <3>1. o \in Range(L) /\ p \in Range(L) /\ o = L[x] /\ p = L[y] /\ x \in DOMAIN L /\ y \in DOMAIN L
      BY <2>1, <2>3 DEF L, o, p
    <3>2. /\ i \in ids /\ i - N + 1 \in DOMAIN d /\ f[i].ops = d[i - N + 1]
          /\ j \in ids /\ j - N + 1 \in DOMAIN d /\ f[j].ops = d[j - N + 1]
      BY <2>1, <3>1, <1>9
    <3>3. i - N + 1 <= j - N + 1
      BY <2>1, <3>1, <3>2, <1>3, <1>14
    <3> QED
      BY <3>2, <3>3, <1>2
  <2> QED
    BY <2>2, <2>3, <1>7
<1>15. ASSUME c.arch = "grayskull", NEW l \in 1 .. n + 1, NEW i \in DOMAIN f,
              OpsOf(f[i].ops) \cap Range(LoadOps(c, l)) # {}
       PROVE  f[i].chip = Loads(c)[l].chip
  <2>1. PICK o : o \in OpsOf(f[i].ops) /\ o \in Range(LoadOps(c, l))
    BY <1>15
  <2>2. CASE l \in 1 .. n
    <3>1. i \in DOMAIN e /\ f[i] = e[i]
      BY <2>1, <2>2, <1>9, <1>10
    <3> QED
      BY <3>1, <2>2, <1>15 DEF Solves
  <2>3. CASE l = n + 1
    BY <2>1, <2>3, <1>9 DEF L
  <2> QED
    BY <2>2, <2>3, <1>7
<1> QED
  BY <1>11, <1>12, <1>13, <1>14, <1>15 DEF Solves

\* A call begins: nothing is placed yet.
LEMMA CallBegins ==
  ASSUME remaining' = loads'[1].ops, remaining' \in Seq(Op), again' = <<>>, placed' = <<>>,
         active' = <<>>, epochs' = <<>>, grid'.used = {}
  PROVE  InOrder(loads[1].ops, Completed)' /\ OpenEpoch'
         /\ Holds(config, epochs, loads[1].ops, Completed)'
<1> DEFINE L == loads'[1].ops
<1>1. L \in Seq(Op) /\ Len(L) \in Nat /\ remaining' = L
  OBVIOUS
<1>2. Len(<<>>) = 0 /\ DOMAIN <<>> = {}
  OBVIOUS
<1>3. Completed' = ((Len(L) - Len(L)) - 0) - 0
  BY <1>1, <1>2 DEF Completed
<1> HIDE DEF L
<1>4. Completed' = 0
  BY <1>1, <1>3
<1>5. Len(L) = 0 + 0 + 0 + Len(L)
  BY <1>1
<1>6. \A k \in DOMAIN L : L[k] = L[0 + 0 + 0 + k]
  <2>1. \A k \in DOMAIN L : 0 + 0 + 0 + k = k
    BY <1>1
  <2> QED
    BY <2>1
<1>7. InOrder(loads[1].ops, Completed)'
  BY <1>1, <1>2, <1>4, <1>5, <1>6 DEF InOrder, L
<1>8. Legal(config', <<>>)
  BY <1>2 DEF Legal
<1>9. UNION {CoresOf(<<>>[k]) : k \in DOMAIN <<>>} = {}
  OBVIOUS
<1>10. OpenEpoch'
  BY <1>2, <1>8, <1>9 DEF OpenEpoch
<1>11. Holds(config', <<>>, L, 0)
  BY <1>2 DEF Holds
<1> QED
  BY <1>4, <1>7, <1>10, <1>11 DEF L

\* The end of place_onto_chip moves the ops of the call to the solution.
LEMMA OntoChipPlaces ==
  ASSUME TypeInv, PlaceInv, PlacedOntoChip
  PROVE  PlaceInv'
<1> DEFINE n == LoadsDone
           ops == LoadOps(config, n + 1)
<1>1. /\ phase = "place" /\ UNCHANGED <<config, again>> /\ loads # <<>>
      /\ remaining \o again = <<>>
      /\ epochs' = <<>> /\ placed' = <<>> /\ active' = <<>> /\ grid' = EmptyGrid
      /\ \/ phase' = "abort"
         \/ /\ loads' = Tail(loads) /\ remaining' = Next1
            /\ phase' = IF Tail(loads) = <<>> THEN "done" ELSE "place"
         \/ phase' = "assign" /\ UNCHANGED loads
  BY DEF PlacedOntoChip, TypeInv, LoadsInv
<1>2. /\ CallsPartition(config) /\ n \in Nat /\ loads[1].ops = ops
      /\ loads[1].chip = Loads(config)[n + 1].chip
      /\ \A l \in 1 .. n + 1 : l \in DOMAIN Loads(config)
  BY <1>1, CallFacts
<1>3. again = <<>> /\ Holds(config, Done, ops, Len(ops))
  BY <1>1, <1>2, DoneHolds
<1>4. Solves(config, epoch, n)
  <2>1. Calls = n
    BY <1>1, <1>2 DEF Calls
  <2> QED
    BY <1>1, <2>1 DEF PlaceInv
<1>5. /\ DOMAIN epoch = 0 .. NumEpochs - 1 /\ NumEpochs \in Nat
      /\ DOMAIN epoch' = DOMAIN epoch \cup NewIds
      /\ \A i \in DOMAIN epoch : epoch'[i] = epoch[i]
      /\ \A i \in NewIds : epoch'[i] = NewEpoch(i)
      /\ Done \in Seq(Seq(Placement)) /\ NewIds = NumEpochs .. NumEpochs + (Len(Done) - 1)
  BY OntoChipFacts, DoneTypes DEF NewIds
<1>6. \A i \in NewIds : /\ epoch'[i].ops = Done[i - NumEpochs + 1]
                        /\ epoch'[i].chip = Loads(config)[n + 1].chip
  <2>1. \A i : NewEpoch(i).ops = Done[i - NumEpochs + 1] /\ NewEpoch(i).chip = loads[1].chip
    BY DEF NewEpoch
  <2> QED
    BY <2>1, <1>2, <1>5
<1> HIDE DEF n
<1>7. Solves(config, epoch', n + 1)
  <2>1. Joined(epoch, epoch', NumEpochs, Done, Loads(config)[n + 1].chip)
    BY <1>5, <1>6 DEF Joined
  <2>2. /\ CallsPartition(config) /\ n \in Nat /\ 1 .. n + 1 \subseteq DOMAIN Loads(config)
        /\ NumEpochs \in Nat /\ Done \in Seq(Seq(Placement)) /\ Solves(config, epoch, n)
        /\ Holds(config, Done, LoadOps(config, n + 1), Len(LoadOps(config, n + 1)))
    BY <1>2, <1>3, <1>4, <1>5
  <2> QED
    BY <2>1, <2>2, SolvesMore
<1>8. grid'.used = {}
  BY <1>1, GridEmptied
<1>9. CASE phase' = "abort"
  BY <1>9, AbortPlaces
<1>10. CASE /\ loads' = Tail(loads) /\ remaining' = Next1
            /\ phase' = IF Tail(loads) = <<>> THEN "done" ELSE "place"
  <2>1. /\ LoadsDone' = n + 1 /\ Next1 \in Seq(Op)
        /\ loads' # <<>> => Next1 = loads'[1].ops
    BY <1>1, <1>10, NextCall DEF n
  <2>2. Calls' = n + 1
    BY <1>2, <1>10, <2>1 DEF Calls
  <2>3. Solves(config, epoch, Calls)'
    BY <1>1, <1>7, <2>2
  <2>4. CASE loads' = <<>>
    BY <1>10, <2>3, <2>4 DEF PlaceInv
  <2>5. CASE loads' # <<>>
    <3>1. InOrder(loads[1].ops, Completed)' /\ OpenEpoch'
         /\ Holds(config, epochs, loads[1].ops, Completed)'
      BY <1>1, <1>3, <1>8, <1>10, <2>1, <2>5, CallBegins
    <3> QED
      BY <1>10, <2>3, <2>5, <3>1 DEF PlaceInv
  <2> QED
    BY <2>4, <2>5
<1>11. CASE phase' = "assign" /\ UNCHANGED loads
  <2>1. LoadsDone' = n
    BY <1>1, <1>11 DEF LoadsDone, n
  <2>2. Calls' = n + 1
    BY <1>11, <2>1 DEF Calls
  <2>3. Solves(config, epoch, Calls)'
    BY <1>1, <1>7, <2>2
  <2>4. Idle'
    BY <1>1, <1>3, <1>8 DEF Idle
  <2> QED
    BY <1>11, <2>3, <2>4 DEF PlaceInv
<1> QED
  BY <1>1, <1>9, <1>10, <1>11

\* The next call begins with all of its ops to place.
LEMMA NextLoadPlaces ==
  ASSUME TypeInv, PlaceInv, NextLoad
  PROVE  PlaceInv'
<1>1. /\ phase = "assign" /\ loads # <<>> /\ loads' = Tail(loads) /\ remaining' = Next1
      /\ phase' \in {"place", "summary", "done"}
      /\ phase' = "place" => loads' # <<>>
      /\ phase' # "place" => loads' = <<>>
      /\ UNCHANGED <<config, again, placed, active, grid, epochs, epoch>>
  BY DEF NextLoad, TypeInv, LoadsInv
<1>2. /\ LoadsDone \in Nat /\ LoadsDone' = LoadsDone + 1 /\ Next1 \in Seq(Op)
      /\ loads' # <<>> => Next1 = loads'[1].ops
  BY <1>1, NextCall, LoadFacts
<1>3. Calls = LoadsDone + 1 /\ Calls' = LoadsDone + 1
  BY <1>1, <1>2 DEF Calls
<1>4. Solves(config, epoch, Calls)'
  BY <1>1, <1>3 DEF PlaceInv
<1>5. again = <<>> /\ placed = <<>> /\ active = <<>> /\ epochs = <<>> /\ grid.used = {}
  BY <1>1 DEF PlaceInv, Idle
<1>6. CASE phase' = "place"
  <2>1. InOrder(loads[1].ops, Completed)' /\ OpenEpoch'
         /\ Holds(config, epochs, loads[1].ops, Completed)'
    BY <1>1, <1>2, <1>5, <1>6, CallBegins
  <2> QED
    BY <1>4, <1>6, <2>1 DEF PlaceInv
<1>7. CASE phase' # "place"
  BY <1>1, <1>4, <1>7 DEF PlaceInv
<1> QED
  BY <1>6, <1>7

\* The steps after the placing: chips, temporal epochs, empty epochs.
LEMMA AssignPlaces ==
  ASSUME PlaceInv, phase \in {"assign", "summary"},
         \/ phase' = phase
         \/ phase = "summary" /\ phase' = "done",
         UNCHANGED <<config, loads, placer>>,
         DOMAIN epoch \subseteq DOMAIN epoch',
         \A i \in DOMAIN epoch : /\ epoch'[i].ops = epoch[i].ops
                                 /\ config.arch = "grayskull" => epoch'[i].chip = epoch[i].chip,
         \A i \in DOMAIN epoch' \ DOMAIN epoch : epoch'[i].ops = <<>>
  PROVE  PlaceInv'
<1>1. LoadsDone' = LoadsDone
  BY DEF LoadsDone
<1>2. Calls' = Calls
  BY <1>1 DEF Calls
<1>3. Solves(config, epoch, Calls)
  BY DEF PlaceInv
<1>4. Solves(config, epoch', Calls)
  BY <1>3, SolvesSame
<1>5. Solves(config, epoch, Calls)'
  BY <1>2, <1>4
<1>6. Idle => Idle'
  BY DEF Idle, placer
<1> QED
  BY <1>5, <1>6 DEF PlaceInv

-----------------------------------------------------------------------------
(***************************************************************************)
(* The steps after the placing, and the solution.                          *)
(***************************************************************************)
\* wormhole_placer leaves the ops of the epochs alone.
LEMMA WormholePlaces ==
  ASSUME TypeInv, PlaceInv, AssignWormhole
  PROVE  PlaceInv'
<1> DEFINE chip == apply_chip_placement_policy(config)[cursor.index + 1]
<1>1. /\ phase = "assign" /\ config.arch = "wormhole" /\ cursor.epoch < NumEpochs /\ TryChip(chip)
      /\ UNCHANGED <<config, loads, placer>> /\ phase' \in {"assign", "abort", "no_chip"}
  BY DEF AssignWormhole, TryChip
<1>2. chip \in Nat
  <2>1. config \in Configs /\ cursor.index \in Nat /\ cursor.index < Len(config.chips)
    BY CursorFacts DEF TypeInv, NumChips
  <2> QED
    BY <2>1, PolicyChip
<1> HIDE DEF chip
<1>3. DOMAIN epoch' = DOMAIN epoch /\ \A j \in DOMAIN epoch : epoch'[j].ops = epoch[j].ops
  BY <1>1, <1>2, TryChipTypes
<1>4. CASE phase' = "assign"
  BY <1>1, <1>3, <1>4, AssignPlaces
<1>5. CASE phase' \in {"abort", "no_chip"}
  BY <1>5, AbortPlaces
<1> QED
  BY <1>1, <1>4, <1>5

\* So does galaxy_placer,
LEMMA GalaxyPlaces ==
  ASSUME TypeInv, PlaceInv, AssignGalaxy
  PROVE  PlaceInv'
<1>1. /\ phase = "assign" /\ phase' = phase /\ config.arch = "galaxy"
      /\ UNCHANGED <<config, loads, placer>>
  BY DEF AssignGalaxy
<1>2. /\ DOMAIN epoch' = DOMAIN epoch
      /\ \A j \in DOMAIN epoch : j # cursor.epoch => epoch'[j] = epoch[j]
      /\ epoch'[cursor.epoch].ops = epoch[cursor.epoch].ops
  BY GalaxyEpochs
<1>3. \A j \in DOMAIN epoch : epoch'[j].ops = epoch[j].ops
  BY <1>2
<1> QED
  BY <1>1, <1>2, <1>3, AssignPlaces

\* the summary,
LEMMA SummarizePlaces ==
  ASSUME TypeInv, PlaceInv, SummarizeEpoch
  PROVE  PlaceInv'
<1>1. phase = "summary" /\ phase' = phase /\ UNCHANGED <<config, loads, placer>>
  BY DEF SummarizeEpoch
<1>2. /\ DOMAIN epoch' = DOMAIN epoch
      /\ \A j \in DOMAIN epoch : j # cursor.epoch => epoch'[j] = epoch[j]
      /\ epoch'[cursor.epoch].ops = epoch[cursor.epoch].ops
      /\ epoch'[cursor.epoch].chip = epoch[cursor.epoch].chip
  BY SummarizeFacts
<1>3. \A j \in DOMAIN epoch : epoch'[j].ops = epoch[j].ops /\ epoch'[j].chip = epoch[j].chip
  BY <1>2
<1> QED
  BY <1>1, <1>2, <1>3, AssignPlaces

\* the empty epochs, which have no ops,
LEMMA InsertPlaces ==
  ASSUME TypeInv, PlaceInv, InsertEmptyEpochs
  PROVE  PlaceInv'
<1>1. phase = "summary" /\ phase' = "done" /\ UNCHANGED <<config, loads, placer>>
  BY DEF InsertEmptyEpochs
<1>2. /\ DOMAIN epoch' = DOMAIN epoch \cup {Id(m) : m \in Missing}
      /\ \A i \in DOMAIN epoch : epoch'[i] = epoch[i]
      /\ \A m \in Missing : epoch'[Id(m)] = Empty(m)
  BY InsertFacts
<1>3. \A m : Empty(m).ops = <<>>
  BY DEF Empty
<1>4. DOMAIN epoch \subseteq DOMAIN epoch' /\ \A i \in DOMAIN epoch' \ DOMAIN epoch : epoch'[i].ops = <<>>
  BY <1>2, <1>3
<1> QED
  BY <1>1, <1>2, <1>4, AssignPlaces

\* and a step that changes nothing.
LEMMA StutterPlaces ==
  ASSUME PlaceInv, UNCHANGED vars
  PROVE  PlaceInv'
<1>1. UNCHANGED <<config, phase, loads, remaining, again, placed, active, grid, epochs, epoch>>
  BY DEF vars, placer
<1>2. LoadsDone' = LoadsDone /\ Completed' = Completed
  BY <1>1 DEF LoadsDone, Completed
<1>3. Calls' = Calls
  BY <1>1, <1>2 DEF Calls
<1>4. Solves(config, epoch, Calls)' <=> Solves(config, epoch, Calls)
  BY <1>1, <1>3
<1>5. Holds(config, epochs, loads[1].ops, Completed)' <=> Holds(config, epochs, loads[1].ops, Completed)
  BY <1>1, <1>2
<1>6. InOrder(loads[1].ops, Completed)' <=> InOrder(loads[1].ops, Completed)
  BY <1>1, <1>2 DEF InOrder
<1>7. (OpenEpoch' <=> OpenEpoch) /\ (Idle' <=> Idle)
  BY <1>1 DEF OpenEpoch, Idle
<1> QED
  BY <1>1, <1>4, <1>5, <1>6, <1>7 DEF PlaceInv

\* At the start all ops of the first call are to be placed.
LEMMA InitPlaces ==
  ASSUME Init
  PROVE  PlaceInv
<1> DEFINE L == loads[1].ops
<1>1. /\ phase = "place" /\ loads = Loads(config) /\ remaining = L /\ again = <<>> /\ placed = <<>>
      /\ active = <<>> /\ grid = EmptyGrid /\ epochs = <<>> /\ epoch = <<>>
  BY DEF Init
<1>2. L \in Seq(Op) /\ Len(L) \in Nat /\ Len(Loads(config)) \in Nat
  <2>1. TypeInv
    BY InitTypes
  <2> QED
    BY <1>1, <2>1, LoadFacts DEF TypeInv, LoadsInv
<1>3. Len(<<>>) = 0 /\ DOMAIN <<>> = {}
  OBVIOUS
<1>4. Completed = ((Len(L) - Len(L)) - 0) - 0
  BY <1>1, <1>3 DEF Completed
<1>5. Calls = 0
  BY <1>1, <1>2 DEF Calls, LoadsDone
<1> HIDE DEF L
<1>6. Completed = 0
  BY <1>2, <1>4
<1>7. Len(L) = 0 + 0 + 0 + Len(L)
  BY <1>2
<1>8. \A k \in DOMAIN L : L[k] = L[0 + 0 + 0 + k]
  <2>1. \A k \in DOMAIN L : 0 + 0 + 0 + k = k
    BY <1>2
  <2> QED
    BY <2>1
<1>9. InOrder(L, Completed)
  BY <1>1, <1>2, <1>3, <1>6, <1>7, <1>8 DEF InOrder
<1>10. Legal(config, <<>>) /\ EmptyGrid.used = {}
  BY <1>3, EmptyGridOk DEF Legal
<1>11. UNION {CoresOf(<<>>[k]) : k \in DOMAIN <<>>} = {}
  OBVIOUS
<1>12. OpenEpoch
  BY <1>1, <1>3, <1>10, <1>11 DEF OpenEpoch
<1>13. Holds(config, <<>>, L, 0)
  BY <1>3 DEF Holds
<1>14. \A l \in 1 .. 0 : FALSE
  OBVIOUS
<1>15. Solves(config, <<>>, 0)
  BY <1>3, <1>14 DEF Solves
<1> QED
  BY <1>1, <1>5, <1>6, <1>9, <1>12, <1>13, <1>15 DEF PlaceInv, L

\* Whatever is taken back, the ops of a call are in its epochs, in the open one, among those
\* to be placed again and among those to be placed, in this order, in every reachable state.
LEMMA PlacedInOrder == Spec => []PlaceInv
<1>1. TypeInv /\ PlaceInv /\ [Next]_vars => PlaceInv'
  <2> SUFFICES ASSUME TypeInv, PlaceInv, [Next]_vars PROVE PlaceInv'
    OBVIOUS
  <2>1. CASE EpochBreak
    BY <2>1, CompletePlaces DEF EpochBreak, Placing
  <2>2. CASE TryGroup
    BY <2>2, TryGroupPlaces
  <2>3. CASE PlacedOntoChip
    BY <2>3, OntoChipPlaces
  <2>4. CASE NextLoad
    BY <2>4, NextLoadPlaces
  <2>5. CASE AssignWormhole
    BY <2>5, WormholePlaces
  <2>6. CASE AssignGalaxy
    BY <2>6, GalaxyPlaces
  <2>7. CASE SummarizeEpoch
    BY <2>7, SummarizePlaces
  <2>8. CASE InsertEmptyEpochs
    BY <2>8, InsertPlaces
  <2>9. CASE UNCHANGED vars
    BY <2>9, StutterPlaces
  <2> QED
    BY <2>1, <2>2, <2>3, <2>4, <2>5, <2>6, <2>7, <2>8, <2>9 DEF Next, PlacerStep
<1> QED
  BY <1>1, InitPlaces, TypeCorrect, PTL DEF Spec

\* The calls are all of them, and the solution holds their ops.
Solved(c, e, n) == /\ n \in Nat /\ DOMAIN Loads(c) = 1 .. n /\ CallsPartition(c)
                   /\ Solves(c, e, n) /\ DOMAIN e \subseteq Nat

\* The one epoch of an op.
OnlyIn(e, o, i) == \A j \in DOMAIN e : o \in OpsOf(e[j].ops) <=> j = i

\* Every op is in one epoch.
LEMMA InOneEpoch ==
  ASSUME NEW c, NEW e, NEW n, Solved(c, e, n), NEW o \in Range(c.schedule)
  PROVE  \E i \in DOMAIN e : OnlyIn(e, o, i)
<1>1. PICK l \in 1 .. n : o \in Range(LoadOps(c, l))
  BY DEF Solved, CallsPartition
<1>2. PICK x \in DOMAIN LoadOps(c, l) : o = LoadOps(c, l)[x]
  BY <1>1 DEF Range
<1>3. PICK i \in DOMAIN e : o \in OpsOf(e[i].ops)
  BY <1>1 DEF Solved, Solves
<1>4. x <= x
  <2>1. LoadOps(c, l) \in Seq(Op)
    BY <1>1 DEF Solved, CallsPartition
  <2> QED
    BY <1>2, <2>1
<1>5. \A j, k \in DOMAIN e : o \in OpsOf(e[j].ops) /\ o \in OpsOf(e[k].ops) => j <= k
  BY <1>1, <1>2, <1>4 DEF Solved, Solves
<1>6. ASSUME NEW j \in DOMAIN e, o \in OpsOf(e[j].ops) PROVE j = i
  <2>1. i <= j /\ j <= i
    BY <1>3, <1>5, <1>6
  <2>2. i \in Nat /\ j \in Nat
    BY DEF Solved
  <2> QED
    BY <2>1, <2>2
<1> QED
  BY <1>3, <1>6 DEF OnlyIn

\* The epochs of a pass over the schedule follow its order.
LEMMA InPassOrder ==
  ASSUME NEW c, NEW e, NEW n, Solved(c, e, n), NEW p \in DOMAIN c.schedule,
         NEW q \in DOMAIN c.schedule, p < q, SameKind(c, c.schedule[p], c.schedule[q]),
         NEW i \in DOMAIN e, NEW j \in DOMAIN e, c.schedule[p] \in OpsOf(e[i].ops),
         c.schedule[q] \in OpsOf(e[j].ops), c.arch = "grayskull" => e[i].chip = e[j].chip
  PROVE  i <= j
<1> DEFINE s == c.schedule
<1>1. s[p] \in Range(s) /\ s[q] \in Range(s)
  BY DEF Range
<1>2. PICK k \in 1 .. n : s[p] \in Range(LoadOps(c, k))
  BY <1>1 DEF Solved, CallsPartition
<1>3. PICK l \in 1 .. n : s[q] \in Range(LoadOps(c, l))
  BY <1>1 DEF Solved, CallsPartition
<1>4. c.arch = "grayskull" => Loads(c)[k].chip = Loads(c)[l].chip
  <2> SUFFICES ASSUME c.arch = "grayskull" PROVE Loads(c)[k].chip = Loads(c)[l].chip
    OBVIOUS
  <2>1. OpsOf(e[i].ops) \cap Range(LoadOps(c, k)) # {} /\ OpsOf(e[j].ops) \cap Range(LoadOps(c, l)) # {}
    BY <1>2, <1>3
  <2>2. e[i].chip = Loads(c)[k].chip /\ e[j].chip = Loads(c)[l].chip
    BY <2>1 DEF Solved, Solves
  <2> QED
    BY <2>2
<1>5. k = l
  BY <1>2, <1>3, <1>4 DEF Solved, CallsPartition
<1>6. PICK x \in DOMAIN LoadOps(c, k) : s[p] = LoadOps(c, k)[x]
  BY <1>2 DEF Range
<1>7. PICK y \in DOMAIN LoadOps(c, k) : s[q] = LoadOps(c, k)[y]
  BY <1>3, <1>5 DEF Range
<1>8. x <= y
  BY <1>6, <1>7 DEF Solved, CallsPartition
<1> QED
  BY <1>6, <1>7, <1>8 DEF Solved, Solves

\* The position of a scheduled op is where the schedule has it.
LEMMA PositionOk ==
  ASSUME config \in Configs, NEW op \in Range(config.schedule)
  PROVE  Position(op) \in DOMAIN config.schedule /\ config.schedule[Position(op)] = op
<1> DEFINE s == config.schedule
           I == {i \in 1 .. Len(s) : s[i] = op}
<1>1. Position(op) = IF I # {} THEN Min(I) ELSE 0
  BY DEF Position, SelectInSeq
<1>2. s \in Seq(Op)
  BY ConfigFacts, ScheduleTypes
<1>3. DOMAIN s = 1 .. Len(s) /\ Len(s) \in Nat
  BY <1>2
<1>4. I # {} /\ I \subseteq Nat
  BY <1>3 DEF Range
<1>5. Min(I) \in I
  BY <1>4, Smallest
<1> QED
  BY <1>1, <1>3, <1>4, <1>5

\* A solution that holds the ops of all calls is sound.
LEMMA DoneIsSound ==
  ASSUME TypeInv, PlaceInv
  PROVE  SolutionSound
<1> SUFFICES ASSUME phase = "done" PROVE SolutionSound
  BY DEF SolutionSound
<1> DEFINE n == Len(Loads(config))
           s == config.schedule
<1>1. config \in Configs /\ CallsPartition(config) /\ DOMAIN epoch \subseteq Nat
  <2>1. config \in Configs /\ DOMAIN epoch \subseteq Nat
    BY DEF TypeInv, EpochInv
  <2> QED
    BY <2>1, ConfigFacts, LoadsPartition
<1>2. n \in Nat /\ DOMAIN Loads(config) = 1 .. n
  BY LoadFacts
<1>3. Calls = n
  <2>1. loads = <<>>
    BY DEF PlaceInv
  <2> QED
    BY <1>2, <2>1 DEF Calls, LoadsDone
<1>4. Solves(config, epoch, n)
  BY <1>3 DEF PlaceInv
<1> HIDE DEF n
<1>5. Solved(config, epoch, n)
  BY <1>1, <1>2, <1>4 DEF Solved
<1>6. \A i : EpochOps(i) = OpsOf(epoch[i].ops)
  BY DEF EpochOps, OpsOf
<1>7. ASSUME NEW op \in Range(s)
      PROVE  /\ \E i \in DOMAIN epoch : \A j \in DOMAIN epoch : op \in EpochOps(j) <=> j = i
             /\ Cardinality({i \in DOMAIN epoch : op \in EpochOps(i)}) = 1
             /\ EpochOf(op) \in DOMAIN epoch /\ op \in EpochOps(EpochOf(op))
  <2>5. PICK i \in DOMAIN epoch : OnlyIn(epoch, op, i)
    BY <1>5, InOneEpoch
  <2>1. \A j \in DOMAIN epoch : op \in EpochOps(j) <=> j = i
    BY <2>5, <1>6 DEF OnlyIn
  <2>2. {j \in DOMAIN epoch : op \in EpochOps(j)} = {i}
    BY <2>1
  <2>3. Cardinality({i}) = 1
    BY FS_Singleton
  <2>4. EpochOf(op) \in DOMAIN epoch /\ op \in EpochOps(EpochOf(op))
    BY <2>1 DEF EpochOf
  <2> QED
    BY <2>1, <2>2, <2>3, <2>4
<1>8. ASSUME NEW i \in DOMAIN epoch
      PROVE  LET ops == epoch[i].ops
                 cores(k) == Cores(ops[k].start, ops[k].shape)
             IN  /\ \A k, l \in DOMAIN ops : k # l => cores(k) \cap cores(l) = {}
                 /\ \A k \in DOMAIN ops :
                       /\ InGrid(EmptyGrid, ops[k].start, ops[k].shape)
                       /\ Override(ops[k].op).start \in {NoCoord, ops[k].start}
                       /\ ops[k].op \in config.epoch_breaks => k = 1
  <2>1. Legal(config, epoch[i].ops)
    BY <1>4 DEF Solves
  <2>2. \A op : UserOf(config, op) = Override(op)
    BY DEF UserOf, Override, HasOverride
  <2>3. EmptyGrid = create_empty_device_grid(config.rows, config.cols)
    BY DEF EmptyGrid
  <2> QED
    BY <2>1, <2>2, <2>3 DEF Legal, CoresOf
<1>9. ASSUME NEW o \in Range(s), NEW p \in Range(s), Position(o) < Position(p), SamePass(o, p)
      PROVE  EpochOf(o) <= EpochOf(p)
  <2>1. /\ Position(o) \in DOMAIN s /\ s[Position(o)] = o
        /\ Position(p) \in DOMAIN s /\ s[Position(p)] = p
    BY <1>1, PositionOk
  <2>2. /\ EpochOf(o) \in DOMAIN epoch /\ o \in OpsOf(epoch[EpochOf(o)].ops)
        /\ EpochOf(p) \in DOMAIN epoch /\ p \in OpsOf(epoch[EpochOf(p)].ops)
    BY <1>6, <1>7
  <2>3. /\ SameKind(config, o, p)
        /\ config.arch = "grayskull" => epoch[EpochOf(o)].chip = epoch[EpochOf(p)].chip
    BY <1>9 DEF SamePass, SameKind
  <2> QED
    BY <2>1, <2>2, <2>3, <1>5, <1>9, InPassOrder
<1> QED
  BY <1>7, <1>8, <1>9 DEF SolutionSound

\* A finished placement holds every scheduled op in one epoch; ops of an epoch share no core, lie
\* on the grid and where their users put them, an op with an epoch break opens its epoch, and the
\* epochs of a pass follow the schedule (get_next_epoch, with all that it takes back, the callers of
\* place_onto_chip on the three architectures, and the empty epochs).
THEOREM SolutionIsSound == Spec => []SolutionSound
BY TypeCorrect, PlacedInOrder, DoneIsSound, PTL
=============================================================================
