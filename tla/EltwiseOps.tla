----------------------------- MODULE EltwiseOps ------------------------------
(***************************************************************************)
(* How elementwise ops, reductions, transposes, matrix products,           *)
(* normalisations and quantisation are taken apart: decompose() before the *)
(* gradients are made, decompose_post_autograd() after, and                *)
(* decompose_post_optimize() before lowering.  Each returns <<>> to leave  *)
(* the node alone or <<term>>.  env is the set of PYBUDA_... switches that *)
(* are on.                                                                 *)
(***************************************************************************)
EXTENDS SparsePickers

Mul(x, y) == Dc("multiply", <<>>, <<x, y>>)
Add(x, y) == Dc("add", <<>>, <<x, y>>)
Sub(x, y) == Dc("subtract", <<>>, <<x, y>>)
Un(op, x) == Dc(op, <<>>, <<x>>)
Tmo(op, attr, x) == Dc(op, attr, <<x>>)
TransposeXY(x) == Tmo("transpose", <<-2, -1>>, x)
PickRows(m, x) == Dc("sparse_matmul", <<>>, <<DcTensor(m), x>>)
PadTile2(x) == Tmo("pad_tile", <<-1, Dim(x.shape, -1)>>, Tmo("pad_tile", <<-2, Dim(x.shape, -2)>>, x))
NarrowTo(x, d, n) == Tmo("narrow", <<d, 0, n, Dim(x.shape, d)>>, x)
None == <<>>

(* Apply F n times.                                                        *)
Repeat(F(_), n, x) == LET f[i \in 0..Larger(n, 0)] == IF i = 0 THEN x ELSE F(f[i - 1]) IN f[Larger(n, 0)]

-----------------------------------------------------------------------------
(* argmax: the softmax of huge multiples is one at the maximum, and picks  *)
(* its index out of 0, 1, 2, ...                                           *)
ArgmaxDecompose(attr, x) ==
    LET flat == IF attr = <<>> THEN Tmo("reshape", <<1, Volume(x.shape)>>, x) ELSE x
        s == flat.shape
        axis == IF attr = <<>> THEN -1 ELSE NegDim(s, attr[1])
        index == DcTensor(Build(WithDim(Ones(Len(s)), axis, Dim(s, axis)),
                                LAMBDA v : IF Dim(v, axis) = 0 THEN Zero ELSE One))
        weight == Dc("softmax", <<axis, 1>>, <<Mul(flat, Const(s))>>)
    IN  Tmo("reduce_sum", <<axis>>, Mul(weight, index))

UnaryDecompose(op, attr, x, env) ==
    CASE op = "argmax" -> <<ArgmaxDecompose(attr, x)>>
      [] op = "sigmoid" /\ "DECOMPOSE_SIGMOID" \in env ->
            <<Un("reciprocal", Add(Const(<<1, 1>>), Un("exp", Mul(x, Const(<<1, 1>>)))))>>
      [] op = "gelu" /\ "DECOMPOSE_GELU" \in env ->
            LET c == Const(<<1>>)
                inner == Mul(Add(Mul(Mul(x, Mul(x, x)), c), x), c)
            IN  <<Mul(Mul(Add(Un("tanh", inner), c), x), c)>>
      [] OTHER -> None

-----------------------------------------------------------------------------
(* binary_stack along X: spread the columns of one operand over the even   *)
(* places and of the other over the odd ones, as rows of the transposed    *)
(* tensor, and add.                                                        *)
BinaryStack(x, y) ==
    LET z == Dim(x.shape, -3)
        n == Dim(x.shape, -1)
        Spread2(t, odd) ==
            LET m == Picker(2 * n, n, LAMBDA i : IF i % 2 = odd THEN i \div 2 ELSE -1)
            IN  Tmo("vslice", <<z>>, TransposeXY(PickRows(m, TransposeXY(Tmo("vstack", <<z>>, t)))))
    IN  Add(Spread2(x, 0), Spread2(y, 1))

(* An operand of five dimensions meets one of fewer: the smaller one is    *)
(* reshaped to the larger one's shape.                                     *)
BinaryRank5(op, x, y) ==
    CASE Len(x.shape) > Len(y.shape) /\ Len(x.shape) = 5 -> <<Dc(op, <<>>, <<x, Tmo("reshape", x.shape, y)>>)>>
      [] Len(y.shape) > Len(x.shape) /\ Len(y.shape) = 5 -> <<Dc(op, <<>>, <<Tmo("reshape", y.shape, x), y>>)>>
      [] OTHER -> None

BinaryDecompose(op, attr, x, y) ==
    CASE op = "binary_stack" ->
            IF Dim(x.shape, attr[1]) % TILE_DIM # 0 \/ Dim(y.shape, attr[1]) % TILE_DIM # 0 THEN None
            ELSE <<BinaryStack(x, y)>>
      [] op = "divide" -> <<Mul(x, Un("reciprocal", y))>>
      [] OTHER -> BinaryRank5(op, x, y)

(* maximum as a reduction over a stacked Z, if switched on.                *)
MaximumByReduce(x, y) ==
    LET n == Larger(Larger(Len(x.shape), Len(y.shape)), 3)
        Unsqueezed(t) == Repeat(LAMBDA u : Tmo("unsqueeze", <<0, Len(u.shape)>>, u), n - Len(t.shape), t)
        HasZ(t) == Len(t.shape) > 2 /\ Dim(t.shape, -3) # 1
        both == <<Unsqueezed(x), Unsqueezed(y)>>
    IN  IF HasZ(x) \/ HasZ(y)
        THEN Tmo("reduce_max", <<-3, 2>>, Dc("interleave", <<-3, 1>>, both))
        ELSE Tmo("reduce_max", <<-3>>, Dc("concatenate", <<-3>>, both))

BinaryPostAutograd(op, x, y, env) ==
    CASE op = "heaviside" ->
            LET zero == Zeros(x.shape)
            IN  <<Add(Mul(Dc("equal", <<>>, <<x, zero>>), y), Dc("greater", <<>>, <<x, zero>>))>>
      [] op = "maximum" /\ "ENABLE_MAXIMUM_DECOMPOSITION" \in env -> <<MaximumByReduce(x, y)>>
      [] OTHER -> BinaryRank5(op, x, y)

(* binary_stack of unaligned operands: stack the padded ones, remove the   *)
(* padding in whole tiles by a picker and the rest by narrowing.           *)
BinaryStackUnaligned(x, y) ==
    LET want == Dim(x.shape, -1) + Dim(y.shape, -1)
        wide == BinaryStack(PadTile2(x), PadTile2(y))
        z == Dim(x.shape, -3)
        m == Picker(AlignTile(want), Dim(wide.shape, -1), LAMBDA i : IF i < want THEN i ELSE -1)
        cut == Tmo("vslice", <<z>>, TransposeXY(PickRows(m, TransposeXY(Tmo("vstack", <<z>>, wide)))))
        r == IF Dim(wide.shape, -1) - want >= TILE_DIM THEN cut ELSE wide
    IN  NarrowTo(NarrowTo(r, -1, want), -2, Dim(y.shape, -2))

BinaryPostOptimize(op, attr, x, y) ==
    LET minus == Const(<<1>>)
    IN  CASE op = "minimum" -> <<Mul(Dc("maximum", <<>>, <<Mul(x, minus), Mul(y, minus)>>), minus)>>
          [] op = "binary_stack" -> <<BinaryStackUnaligned(x, y)>>
          [] OTHER -> None

-----------------------------------------------------------------------------
NaryDecompose(op, attr, in) ==
    CASE op = "stack" ->
            <<Dc("concatenate", attr, [k \in DOMAIN in |-> Tmo("reshape", InsertDim(in[k].shape, attr[1], 1), in[k])])>>
      [] op = "concatenate" /\ Len(in) = 1 -> <<Un("nop", in[1])>>
      [] OTHER -> None

(* More operands than the device takes: the first six, then five at a      *)
(* time behind the result so far.                                          *)
MAX_CONCAT_INPUTS == 8
RECURSIVE ConcatChain(_, _, _)
ConcatChain(acc, rest, axis) ==
    IF rest = <<>> THEN acc
    ELSE LET n == Smaller(5, Len(rest))
         IN  ConcatChain(Dc("concatenate", <<axis>>, <<acc>> \o SubSeq(rest, 1, n)), SubSeq(rest, n + 1, Len(rest)), axis)

(* Concatenation of whole tiles, and a picker that closes the gaps the     *)
(* tile padding left between the operands.  (The slicing of operands       *)
(* beyond 8192 elements and the environment's overrides are not modelled.) *)
ConcatTiles(axis, in) ==
    LET one == Len(in[1].shape) = 1
        args == IF one THEN [k \in DOMAIN in |-> Tmo("unsqueeze", <<0, 1>>, in[k])] ELSE in
        len == [k \in DOMAIN args |-> Dim(args[k].shape, axis)]
        Before(k) == SumTo(LAMBDA j : len[j], k - 1)
        PaddedBefore(k) == SumTo(LAMBDA j : AlignTile(len[j]), k - 1)
        total == Before(Len(args) + 1)
        gaps == \E k \in DOMAIN args : len[k] % TILE_DIM # 0
        padded == [k \in DOMAIN args |-> IF len[k] % TILE_DIM # 0 THEN Tmo("pad_tile", <<axis, len[k]>>, args[k]) ELSE args[k]]
        cat == DcKeep("concatenate", <<axis>>, padded)
        Col(i) == LET k == CHOOSE j \in DOMAIN args : Before(j) <= i /\ i < Before(j + 1)
                  IN  PaddedBefore(k) + i - Before(k)
        up == IF axis = -1 THEN TransposeXY(cat) ELSE cat
        wide == IF Len(up.shape) > 3 /\ Dim(up.shape, -4) # 1
                THEN Tmo("reshape", <<1, Dim(up.shape, -3) * Dim(up.shape, -4), Dim(up.shape, -2), Dim(up.shape, -1)>>, up)
                ELSE up
        m == Picker(AlignTile(total), PaddedBefore(Len(args) + 1), LAMBDA i : IF i < total THEN Col(i) ELSE -1)
        n == Len(wide.shape)
        stacked == IF n >= 3 THEN InRank(StackPicker(m, Dim(wide.shape, -3)), n) ELSE m
        closed == Tmo("narrow", <<-2, 0, total, AlignTile(total)>>, PickRows(stacked, wide))
        r == IF ~gaps THEN cat ELSE IF axis = -1 THEN TransposeXY(closed) ELSE closed
    IN  IF one THEN Tmo("squeeze", <<0>>, r) ELSE r

NaryPostOptimize(op, attr, in) ==
    CASE op = "concatenate" ->
            LET axis == NegDim(in[1].shape, attr[1])
            IN  CASE Len(in) = 1 -> <<Un("nop", in[1])>>
                  [] Len(in) > MAX_CONCAT_INPUTS ->
                        <<ConcatChain(Dc("concatenate", <<axis>>, SubSeq(in, 1, 6)), SubSeq(in, 7, Len(in)), axis)>>
                  [] OTHER -> IF axis > -3 THEN <<ConcatTiles(axis, in)>> ELSE None
      [] op = "where" -> <<Add(Mul(in[1], in[2]), Mul(Sub(Const(<<1>>), in[1]), in[3]))>>
      [] OTHER -> None

-----------------------------------------------------------------------------
(* Reducing W is reducing Z of the transposed tensor.                      *)
ReduceW(op, x) == Tmo("transpose", <<0, 1>>, Tmo(op, <<1>>, Tmo("transpose", <<0, 1>>, x)))

ReduceDecompose(op, attr, x) ==
    CASE Dim(x.shape, attr[1]) = 1 -> <<Un("nop", x)>>
      [] op \in {"reduce_sum", "reduce_avg"} /\ NegDim(x.shape, attr[1]) = -4 -> <<ReduceW(op, x)>>
      [] OTHER -> None
ReducePostAutograd(op, attr, x) ==
    IF op \in {"reduce_sum", "reduce_avg"} /\ NegDim(x.shape, attr[1]) = -4 THEN <<ReduceW(op, x)>> ELSE None

TransposeDecompose(attr, x) ==
    IF attr[1] >= 0 \/ attr[2] >= 0
    THEN <<Tmo("transpose", <<NegDim(x.shape, attr[1]), NegDim(x.shape, attr[2])>>, x)>> ELSE None

(* Z against X or Y: stack the slices, interleave their rows, slice again. *)
InterleaveRows(x, from) ==
    LET z == Dim(x.shape, -3)
        rows == IF z > 1 THEN Tmo("vstack", <<z>>, x) ELSE x
        picked == PickRows(create_sparse_interleave_picker_matrix(Dim(rows.shape, -2), from, z), rows)
    IN  IF from > 1 THEN Tmo("vslice", <<from>>, picked) ELSE picked

TransposePostOptimize(attr, x) ==
    LET s == x.shape
        n == Len(s)
    IN  CASE n > 2 /\ {attr[1], attr[2]} = {-3, -1} /\ (n < 4 \/ (n = 4 /\ Dim(s, -4) = 1)) ->
                LET r == TransposeXY(InterleaveRows(TransposeXY(PadTile2(x)), Dim(s, -1)))
                IN  <<NarrowTo(NarrowTo(r, -2, Dim(s, -2)), -1, Dim(s, -3))>>
          [] n > 2 /\ attr[1] = -3 /\ attr[2] = -2 /\ (n = 3 \/ (n = 4 /\ s[1] = 1)) ->
                LET r == InterleaveRows(PadTile2(x), Dim(s, -2))
                IN  <<NarrowTo(NarrowTo(r, -2, Dim(s, -3)), -1, Dim(s, -1))>>
          [] OTHER -> None

(* A picker for each Z of the result, and one slice of the operand: the    *)
(* pickers below each other, and the product sliced.                       *)
MatmulDecompose(op, attr, g, x, y) ==
    IF op = "sparse_matmul" /\ Len(x.shape) >= 3 /\ Dim(x.shape, -3) > 1 /\ Dim(y.shape, -3) = 1
    THEN LET m == g[RefOf(x)].data
             z == Dim(m.shape, -3)
             flat == Reshape(m, <<z * Dim(m.shape, -2), Dim(m.shape, -1)>>)
             acc == IF attr = <<>> THEN 0 ELSE attr[1]
         IN  <<Tmo("vslice", <<z>>, Dc("sparse_matmul", <<acc, z>>, <<DcTensor(flat), y>>))>>
    ELSE None
=============================================================================
