------------------------------- MODULE OpEval --------------------------------
(***************************************************************************)
(* eval(): what an op of the pybuda dialect computes, on tensors of        *)
(* sources (SymTensor).  The functions are those the golden model runs;    *)
(* they are the reference the decompositions, the gradients and the        *)
(* announced shapes (OpShapes) are held against.                           *)
(***************************************************************************)
EXTENDS OpShapes

(* Functions with f(0) = 0: padding stays padding.                         *)
ZeroPreserving == {"nop", "buffer", "sqrt", "relu", "leaky_relu", "gelu", "abs", "sine", "tanh",
                   "dropout", "pow", "cumsum"}

UnaryEval(op, attr, t) ==
    CASE op = "argmax" ->
            IF attr = <<>> THEN Full(Ones(Len(t.shape)), UNION {t.at[p] : p \in DOMAIN t.at} \cup One)
            ELSE Map1(LAMBDA x : x \cup One, Reduce(t, attr[1]))
      [] op = "cumsum" ->
            Build(t.shape, LAMBDA v : UNION {At(t, WithDim(v, attr[1], k)) : k \in 0..Dim(v, attr[1])})
      [] OTHER -> IF op \in ZeroPreserving THEN t ELSE Map1(LAMBDA x : x \cup One, t)

(* Comparisons and powers of zeros are constants, products vanish.         *)
BinaryEval(op, t, u) ==
    CASE op \in {"multiply", "logical_and"} -> Mult(t, u)
      [] op = "divide" -> Map2(LAMBDA x, y : Times(x, y \cup One), t, u)
      [] op \in {"add", "subtract", "maximum", "minimum", "heaviside"} -> Plus(t, u)
      [] OTHER -> Map2(LAMBDA x, y : x \cup y \cup One, t, u)

(* Elements of the operands in turn along a dimension.                     *)
InTurn(ts, d) ==
    LET n == Len(ts)
    IN  Build(WithDim(ts[1].shape, d, n * Dim(ts[1].shape, d)),
              LAMBDA v : At(ts[(Dim(v, d) % n) + 1], WithDim(v, d, Dim(v, d) \div n)))

(* interleave stacks on a new dimension in front of the last two and       *)
(* reshapes, binary_stack flattens its new dimension into the one before.  *)
NaryEval(op, attr, ts) ==
    CASE op = "concatenate" -> Concat(ts, attr[1])
      [] op = "interleave" ->
            LET n == Len(ts)
                stacked == Concat([k \in 1..n |-> Reshape(ts[k], InsertDim(ts[k].shape, Len(ts[k].shape) - 2, 1))], -3)
            IN  Reshape(stacked, NaryShape(op, attr, [k \in 1..n |-> ts[k].shape]))
      [] op = "stack" ->
            LET d == IF attr[1] < 0 THEN attr[1] + Len(ts[1].shape) + 1 ELSE attr[1]
            IN  Concat([k \in 1..Len(ts) |-> Reshape(ts[k], InsertDim(ts[k].shape, d, 1))], d)
      [] op = "where" -> Plus(Plus(ts[1], ts[2]), ts[3])

BinaryStackEval(attr, t, u) == InTurn(<<t, u>>, attr[1])

ReduceEval(op, attr, t) ==
    LET d == attr[1]
    IN  CASE op = "reduce_max" /\ Len(attr) = 2 /\ d = -3 -> Combine(t, d, attr[2])
          [] op = "grouped_reduce_avg" ->
                LET n == Dim(t.shape, d) \div attr[2]
                    g == Combine(t, d, n)
                IN  IF attr[3] = 1 THEN Pick(g, d, Dim(t.shape, d), LAMBDA i : i \div n) ELSE g
          [] OTHER -> Reduce(t, d)

(* A sparse picker is stacked over the Z of the other operand.             *)
MatmulEval(attr, t, u) ==
    LET p == MatMul(t, u)
    IN  IF attr # <<>> /\ attr[1] = 1 /\ Len(p.shape) >= 3 THEN Reduce(p, -3) ELSE p

-----------------------------------------------------------------------------
(* reshape, permute, reshape.                                              *)
SliceEval(op, f, t) ==
    LET s == t.shape
        y == Dim(s, -2)
        x == Dim(s, -1)
        out == SliceShape(op, f, s)
        rows == Volume(s) \div (y * x)
    IN  CASE op \in {"vslice", "vstack"} -> Reshape(t, out)
          [] op = "hslice" -> Reshape(Transpose(Reshape(t, <<rows, y, f, x \div f>>), 1, 2), out)
          [] op = "hstack" -> Reshape(Transpose(Reshape(t, <<rows \div f, f, y, x>>), 1, 2), out)

(* A missing dimension is added in front for a negative dimension and      *)
(* behind for the others.                                                  *)
BroadcastEval(d, n, t) ==
    LET s == t.shape
        r == IF d < 0 THEN AsRank(s, -d)
             ELSE IF d < Len(s) THEN s ELSE s \o Ones(d + 1 - Len(s))
    IN  BroadcastTo(Reshape(t, r), WithDim(r, d, n))

(* select takes length elements from begin on, again and again every       *)
(* stride elements, and zeros beyond the end; a plain slice is a select    *)
(* with the whole dimension as its stride.  gather spreads them again.     *)
SelectEval(op, attr, t) ==
    LET d == attr[1]
        n == Dim(t.shape, d)
    IN  CASE op = "narrow" -> Narrow(t, d, attr[2], attr[3])
          [] op = "index" ->
                LET start == IF attr[2] < 0 THEN n + attr[2] ELSE attr[2]
                    stop == Smaller(IF attr[3] < 0 THEN n + attr[3] ELSE attr[3], n)
                IN  Pick(t, d, DivUp(stop - start, attr[4]), LAMBDA i : start + i * attr[4])
          [] op = "select" ->
                Pick(t, d, attr[3] * DivUp(n - attr[2], attr[4]),
                     LAMBDA i : LET j == attr[2] + (i % attr[3]) + (i \div attr[3]) * attr[4]
                                IN  IF j < n THEN j ELSE -1)
          [] op = "gather" ->
                LET e == GatherDim(d)
                    In(i) == i >= attr[2] /\ (i - attr[2]) % attr[4] < attr[3]
                IN  Pick(Reshape(t, AsRank(t.shape, (IF e < 0 THEN -e ELSE e) + 1)), e, attr[5],
                         LAMBDA i : IF In(i) THEN Cardinality({j \in 0..(i - 1) : In(j)}) ELSE -1)

(* The element padding takes in a dimension of n elements: nothing, the    *)
(* nearest one, or the mirrored one.                                       *)
Mirrored(i, n) == LET a == IF i < 0 THEN -i ELSE i IN IF a < n THEN a ELSE 2 * (n - 1) - a
PadFrom(mode, i, n) ==
    CASE mode = 0 -> IF i \in 0..(n - 1) THEN i ELSE -1
      [] mode = 1 -> IF i < 0 THEN 0 ELSE Smaller(i, n - 1)
      [] mode = 2 -> Mirrored(i, n)

PadEval(attr, t) ==
    LET mode == attr[Len(attr) - 1]
        c == IF attr[Len(attr)] = 1 THEN -2 ELSE -1
        Padded(u, d, before, after) ==
            LET n == Dim(u.shape, d)
            IN  Pick(u, d, n + before + after, LAMBDA i : PadFrom(mode, i - before, n))
        wide == Padded(t, c, attr[1], attr[2])
    IN  IF Len(attr) = 6 THEN Padded(wide, c - 1, attr[3], attr[4]) ELSE wide

BudaPadEval(op, attr, t) ==
    IF op = "buda_unpad" THEN Narrow(Narrow(t, -2, 0, attr[3]), -1, 0, attr[4])
    ELSE LET After(d, tiles) == IF tiles > 0 THEN AlignTile(Dim(t.shape, d)) + tiles * TILE_DIM - Dim(t.shape, d) ELSE 0
         IN  PadDim(PadDim(t, -2, 0, After(-2, attr[1])), -1, 0, After(-1, attr[2]))

PixelShuffle(r, t) ==
    Build(TmShape("pixel_shuffle", <<r>>, t.shape),
          LAMBDA v : LET y == Dim(v, -2)
                         x == Dim(v, -1)
                     IN  At(t, Lead(v, 3) \o <<(Dim(v, -3) * r * r) + ((y % r) * r) + (x % r), y \div r, x \div r>>))

(* The weights of a kernel position on the diagonal of a tile.             *)
DepthwiseWeights(t) ==
    LET s == t.shape
    IN  Build(TmShape("conv2d_depthwise_weights", <<>>, s),
              LAMBDA v : LET k == v[3] \div TILE_DIM
                             r == v[3] % TILE_DIM
                         IN  IF v[4] % TILE_DIM = r /\ v[4] < s[4] THEN At(t, <<v[1], k, 0, v[4]>>) ELSE Zero)

(* Group g of the output channels uses rows g * cin and on; the            *)
(* five-attribute form puts the kernel positions side by side.             *)
GroupedWeights(attr, t) ==
    LET s == t.shape
        cin == s[3]
        per == s[4] \div attr[1]
        wide == AlignTile(s[4])
        Elem(w, z, row, col) ==
            LET g == col \div per
            IN  IF col < s[4] /\ row \div cin = g THEN At(t, <<w, z, row % cin, col>>) ELSE Zero
    IN  Build(<<s[1], 1, AlignTile(attr[1] * cin), s[2] * wide>>,
              LAMBDA v : Elem(v[1], v[4] \div wide, v[3], v[4] % wide))

GroupedWeightsBw(attr, t) ==
    LET groups == attr[1]
        cin == attr[3]
        cout == attr[4]
        per == cout \div groups
    IN  Build(<<1, attr[2], cin, cout>>,
              LAMBDA v : At(t, <<0, 0, ((v[4] \div per) * cin) + v[3], v[2] * AlignTile(cout) + v[4]>>))

(* The activations of each phase of the stride, one after the other in Z.  *)
PrestrideAct(attr, t) ==
    LET s == t.shape
        sh == attr[1]
        sw == attr[2]
        h == DivUp(s[3], sh)
        w == DivUp(s[4], sw)
    IN  Build(<<s[1], 1, s[2] * sh * sw, h * w>>,
              LAMBDA v : LET phase == v[3] \div s[2]
                             y == ((v[4] \div w) * sh) + (phase \div sw)
                             x == ((v[4] % w) * sw) + (phase % sw)
                         IN  IF y < s[3] /\ x < s[4] THEN At(t, <<v[1], v[3] % s[2], y, x>>) ELSE Zero)

TmEval(op, attr, t) ==
    CASE op = "reshape" -> Reshape(t, attr)
      [] op = "transpose" -> Transpose(t, attr[1], attr[2])
      [] op \in {"hslice", "vslice", "hstack", "vstack"} -> SliceEval(op, attr[1], t)
      [] op \in {"index", "select", "gather", "narrow"} -> SelectEval(op, attr, t)
      [] op = "broadcast" -> BroadcastEval(attr[1], attr[2], t)
      [] op = "repeat" -> Build(TmShape(op, attr, t.shape), LAMBDA v : At(t, [i \in 1..Len(v) |-> v[i] % t.shape[i]]))
      [] op = "repeat_dim" -> LET n == Dim(t.shape, attr[1]) IN Pick(t, attr[1], n * attr[2], LAMBDA i : i % n)
      [] op = "pad_tile" -> LET n == Dim(t.shape, attr[1]) IN PadDim(t, attr[1], 0, AlignTile(n) - n)
      [] op = "pad" -> PadEval(attr, t)
      [] op = "unsqueeze" -> Reshape(t, InsertDim(t.shape, IF attr[1] < 0 THEN attr[1] + Len(t.shape) + 1 ELSE attr[1], 1))
      [] op = "squeeze" -> Reshape(t, IF Dim(t.shape, attr[1]) = 1 THEN DropDim(t.shape, attr[1]) ELSE t.shape)
      [] op = "pixel_shuffle" -> PixelShuffle(attr[1], t)
      [] op \in {"buda_pad", "buda_unpad"} -> BudaPadEval(op, attr, t)
      [] op = "conv2d_depthwise_weights" -> DepthwiseWeights(t)
      [] op = "conv2d_grouped_weights" -> GroupedWeights(attr, t)
      [] op = "conv2d_grouped_weights_bw" -> GroupedWeightsBw(attr, t)
      [] op = "conv2d_prestride_act" -> PrestrideAct(attr, t)

-----------------------------------------------------------------------------
(* Every element of a line of dimension d from the whole line.             *)
Spread(t, d) == BroadcastTo(Reduce(t, d), t.shape)
WithOne(t) == Map1(LAMBDA x : x \cup One, t)

(* Sum over all dimensions but the last.                                   *)
SumRows(t) == LET s == t.shape IN Reduce(Reshape(t, <<Volume(Lead(s, 1)), Dim(s, -1)>>), -2)

(* softmax over a dimension, layernorm over the last one: mean and         *)
(* variance take in the whole line.  The gradients are torch's.  (The eval *)
(* of batchnorm uses names it does not define; this is torch's batch_norm  *)
(* with the statistics it is given.)                                       *)
NnEval(op, attr, ts) ==
    LET d == attr[1]
        x == ts[1]
        line == WithOne(Spread(x, -1))
        Column(v, r) == Reshape(v, <<Dim(v.shape, -1)>> \o Ones(r))
    IN  CASE op \in {"softmax", "log_softmax"} -> WithOne(Spread(x, d))
          [] op = "softmax_bw" -> Plus(Spread(x, d), Spread(ts[3], d))
          [] op = "layernorm" -> Plus(Mult(line, ts[2]), ts[3])
          [] op = "layernorm_bw" ->
                CASE attr[3] = 0 -> Plus(Spread(Mult(ts[4], ts[2]), -1), line)
                  [] attr[3] = 1 -> Reshape(SumRows(Mult(ts[4], line)), ts[2].shape)
                  [] OTHER -> Reshape(SumRows(ts[4]), ts[3].shape)
          [] op = "batchnorm" ->
                LET w == Mult(ts[2], WithOne(ts[5]))
                IN  Plus(Mult(x, Column(w, 2)), Column(Plus(Mult(w, ts[4]), ts[3]), 2))

(* The scale of one dimension belongs to the axis.                         *)
QuantizeEval(op, attr, ts) ==
    LET s == ts[1].shape
        axis == DimAt(s, attr[2])
        Scale(t) == IF Len(t.shape) = 1 THEN Reshape(t, Ones(axis - 1) \o t.shape \o Ones(Len(s) - axis)) ELSE t
        Scaled(t, u) == Map2(LAMBDA x, y : x \cup y \cup One, t, Scale(u))
    IN  IF op = "requantize" THEN Scaled(Scaled(ts[1], ts[2]), ts[3]) ELSE Scaled(ts[1], ts[2])

(* A row of the table chosen by an index: any row, as far as sources go.   *)
EmbeddingEval(ts) ==
    LET n == Dim(ts[1].shape, -1)
        rows == Reduce(Reshape(ts[1], <<Volume(ts[1].shape) \div n, n>>), -2)
    IN  Build(EmbeddingShape(<<ts[1].shape, ts[2].shape>>),
              LAMBDA v : At(rows, <<0, Dim(v, -1)>>) \cup At(ts[2], SubSeq(v, 1, Len(v) - 1)))

(* Kernel k of a depthwise matmul: section k of the columns times rows     *)
(* k * TILE_DIM and on, tile by tile.                                      *)
DepthwiseEval(attr, t, u) ==
    LET ratio == Dim(t.shape, -1) \div Dim(u.shape, -2)
    IN  Build(DepthwiseShape(<<t.shape, u.shape>>),
              LAMBDA v : LET tile == v[4] \div TILE_DIM
                         IN  UNION {Times(At(t, <<0, 0, v[3], (k * ratio + tile) * TILE_DIM + r>>),
                                          At(u, <<0, 0, k * TILE_DIM + r, v[4]>>))
                                    : k \in 0..(attr[1] - 1), r \in 0..(TILE_DIM - 1)})

(* get_f_pybuda_eval.                                                      *)
EvalOp(op, attr, ts) ==
    CASE op \in UnaryOps -> UnaryEval(op, attr, ts[1])
      [] op \in BinaryOps -> BinaryEval(op, ts[1], ts[2])
      [] op = "binary_stack" -> BinaryStackEval(attr, ts[1], ts[2])
      [] op \in NaryOps -> NaryEval(op, attr, ts)
      [] op \in ReduceOps -> ReduceEval(op, attr, ts[1])
      [] op \in MatmulOps -> MatmulEval(attr, ts[1], ts[2])
      [] op \in NnOps -> NnEval(op, attr, ts)
      [] op \in QuantizeOps -> QuantizeEval(op, attr, ts)
      [] op = "embedding" -> EmbeddingEval(ts)
      [] op = "depthwise" -> DepthwiseEval(attr, ts[1], ts[2])
      [] OTHER -> TmEval(op, attr, ts[1])
=============================================================================
