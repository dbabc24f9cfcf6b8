------------------------------ MODULE SymTensor ------------------------------
(***************************************************************************)
(* Tensors whose elements record where they come from.                     *)
(*                                                                         *)
(* The op library of pybuda (pybuda/op/eval) is checked here for what it   *)
(* does with the POSITIONS of elements, not with their numbers.  A tensor  *)
(* is a shape and its elements in row-major order; an element is the set   *)
(* of the input elements its number is computed from.  The empty set is an *)
(* element known to be zero (padding, the gaps of a picker matrix), Unit   *)
(* stands for any constant that is not zero.  A product with zero is zero, *)
(* everything else takes the sources of both sides.                        *)
(*                                                                         *)
(* The operators below the line are the functions of torch the library is  *)
(* written with, by what the library uses of them.                         *)
(***************************************************************************)
EXTENDS Integers, Sequences, FiniteSets

Unit == <<"const", 0>>
Zero == {}
One  == {Unit}

(* The input elements an element is computed from.                         *)
Sources(e) == e \ One

Times(x, y) == IF x = Zero \/ y = Zero THEN Zero ELSE x \cup y

-----------------------------------------------------------------------------
(* Shapes and dimensions; a negative dimension counts from the end.        *)

Volume(s) == LET v[i \in 0..Len(s)] == IF i = 0 THEN 1 ELSE v[i - 1] * s[i] IN v[Len(s)]

(* Where dimension d of shape s is in the sequence s.                      *)
DimAt(s, d) == IF d < 0 THEN Len(s) + d + 1 ELSE d + 1
NegDim(s, d) == IF d >= 0 THEN d - Len(s) ELSE d
Dim(s, d) == s[DimAt(s, d)]
WithDim(s, d, n) == [s EXCEPT ![DimAt(s, d)] = n]
Ones(n) == <<>> \o [i \in 1..n |-> 1]
AsRank(s, n) == IF Len(s) < n THEN Ones(n - Len(s)) \o s ELSE s
Lead(s, n) == SubSeq(s, 1, Len(s) - n)
Tail_(s, n) == SubSeq(s, Len(s) - n + 1, Len(s))
InsertDim(s, d, n) ==
    LET k == IF d < 0 THEN Len(s) + d ELSE d IN SubSeq(s, 1, k) \o <<n>> \o SubSeq(s, k + 1, Len(s))
DropDim(s, d) == LET k == DimAt(s, d) IN SubSeq(s, 1, k - 1) \o SubSeq(s, k + 1, Len(s))
SwapDims(s, d0, d1) == [s EXCEPT ![DimAt(s, d0)] = Dim(s, d1), ![DimAt(s, d1)] = Dim(s, d0)]
DivUp(a, b) == (a + b - 1) \div b
AlignUp(a, b) == DivUp(a, b) * b
SumTo(F(_), n) == LET f[i \in 0..n] == IF i = 0 THEN 0 ELSE f[i - 1] + F(i) IN f[n]
Larger(a, b) == IF a > b THEN a ELSE b
Smaller(a, b) == IF a < b THEN a ELSE b

(* The place of index vector v (from 0) in row-major order, from 1.        *)
Place(s, v) ==
    1 + LET h[i \in 0..Len(s)] == IF i = 0 THEN 0 ELSE h[i - 1] * s[i] + v[i] IN h[Len(s)]

(* The tensor of shape s with element F(v) at index v.                     *)
Build(s, F(_)) ==
    LET stride == <<>> \o [i \in 1..Len(s) |-> Volume(SubSeq(s, i + 1, Len(s)))]
    IN  [shape |-> s,
         at |-> <<>> \o [p \in 1..Volume(s) |-> F(<<>> \o [i \in 1..Len(s) |-> ((p - 1) \div stride[i]) % s[i]])]]
At(t, v) == t.at[Place(t.shape, v)]

InputTensor(name, s) == [shape |-> s, at |-> [p \in 1..Volume(s) |-> {<<name, p>>}]]
Full(s, e) == [shape |-> s, at |-> [p \in 1..Volume(s) |-> e]]

-----------------------------------------------------------------------------
Reshape(t, s) == [shape |-> s, at |-> t.at]

Transpose(t, d0, d1) ==
    Build(SwapDims(t.shape, d0, d1), LAMBDA v : At(t, SwapDims(v, d0, d1)))

(* Element i of dimension d is element From(i) of t, or Zero where From is *)
(* negative.                                                               *)
Pick(t, d, n, From(_)) ==
    Build(WithDim(t.shape, d, n),
          LAMBDA v : LET i == From(Dim(v, d)) IN IF i < 0 THEN Zero ELSE At(t, WithDim(v, d, i)))

Narrow(t, d, start, n) == Pick(t, d, n, LAMBDA i : start + i)
PadDim(t, d, before, after) ==
    LET n == Dim(t.shape, d)
    IN  Pick(t, d, n + before + after, LAMBDA i : IF i - before \in 0..(n - 1) THEN i - before ELSE -1)

Concat(ts, d) ==
    LET start[k \in 1..Len(ts) + 1] == IF k = 1 THEN 0 ELSE start[k - 1] + Dim(ts[k - 1].shape, d)
    IN  Build(WithDim(ts[1].shape, d, start[Len(ts) + 1]),
              LAMBDA v : LET i == Dim(v, d)
                             k == CHOOSE j \in 1..Len(ts) : start[j] <= i /\ i < start[j + 1]
                         IN  At(ts[k], WithDim(v, d, i - start[k])))

BroadcastTo(t, s) ==
    LET r == AsRank(t.shape, Len(s))
    IN  Build(s, LAMBDA v : At(Reshape(t, r), [i \in 1..Len(s) |-> IF r[i] = 1 THEN 0 ELSE v[i]]))

BroadcastShape(s1, s2) ==
    LET n == Larger(Len(s1), Len(s2))
        a == AsRank(s1, n)
        b == AsRank(s2, n)
    IN  <<>> \o [i \in 1..n |-> IF a[i] = 1 THEN b[i] ELSE a[i]]

Map1(F(_), t) == [shape |-> t.shape, at |-> <<>> \o [p \in 1..Len(t.at) |-> F(t.at[p])]]
Map2(F(_, _), t, u) ==
    LET s == BroadcastShape(t.shape, u.shape)
        a == BroadcastTo(t, s).at
        b == BroadcastTo(u, s).at
    IN  [shape |-> s, at |-> <<>> \o [p \in 1..Volume(s) |-> F(a[p], b[p])]]
Plus(t, u) == Map2(LAMBDA x, y : x \cup y, t, u)
Mult(t, u) == Map2(Times, t, u)

(* Each group of n neighbours in dimension d becomes one element computed  *)
(* from all of them.                                                       *)
Combine(t, d, n) ==
    Build(WithDim(t.shape, d, Dim(t.shape, d) \div n),
          LAMBDA v : UNION {At(t, WithDim(v, d, Dim(v, d) * n + k)) : k \in 0..(n - 1)})
Reduce(t, d) == Combine(t, d, Dim(t.shape, d))

MatMul(t, u) ==
    LET n  == Larger(Len(t.shape), Len(u.shape))
        a  == AsRank(t.shape, n)
        b  == AsRank(u.shape, n)
        lead == BroadcastShape(Lead(a, 2), Lead(b, 2))
        A  == BroadcastTo(t, lead \o Tail_(a, 2))
        B  == BroadcastTo(u, lead \o Tail_(b, 2))
    IN  Build(lead \o <<a[n - 1], b[n]>>,
              LAMBDA v : UNION {Times(At(A, WithDim(v, -1, k)), At(B, WithDim(v, -2, k))) : k \in 0..(a[n] - 1)})

(* A picker matrix: row r of the product is row Col(r) of what it is       *)
(* multiplied with, or zero where Col is negative.                         *)
Picker(rows, cols, Col(_)) ==
    Build(<<rows, cols>>, LAMBDA v : IF Col(v[1]) = v[2] THEN One ELSE Zero)
=============================================================================
