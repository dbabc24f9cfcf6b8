------------------------------ MODULE OpShapes -------------------------------
(***************************************************************************)
(* shape(): the shape an op of the pybuda dialect announces for given      *)
(* operand shapes, and the broadcasts it asks for on its operand edges.    *)
(* The compiler never runs an op to learn its shape; every later pass      *)
(* trusts these functions.  One operator per op family, as in              *)
(* pybuda/op/eval/pybuda; attributes are sequences in the order the code   *)
(* unpacks them (booleans as 0 and 1, transpose as <<dim0, dim1>>).        *)
(***************************************************************************)
EXTENDS SymTensor

CONSTANT TILE_DIM      \* side of a tile

ASSUME TileAssumption == TILE_DIM \in Nat \ {0}

AlignTile(n) == AlignUp(n, TILE_DIM)

-----------------------------------------------------------------------------
(* Families of ops, op_to_module_map.                                      *)
UnaryOps == {"exp", "reciprocal", "nop", "buffer", "sqrt", "relu", "leaky_relu", "gelu",
             "gelu_derivative", "log", "sigmoid", "clip", "cosine", "abs", "sine", "tanh",
             "cumsum", "argmax", "dropout", "pow"}
BinaryOps == {"add", "divide", "subtract", "multiply", "maximum", "minimum", "heaviside",
              "power", "greater", "greater_equal", "less", "less_equal", "equal", "not_equal",
              "logical_and"}
ReduceOps == {"reduce_avg", "reduce_sum", "reduce_max", "grouped_reduce_avg"}

UnaryShape(op, attr, s) ==
    IF op # "argmax" THEN s
    ELSE IF attr = <<>> THEN Ones(Len(s)) ELSE WithDim(s, attr[1], 1)

(* An operand of lower rank gets leading ones; a dimension of one is       *)
(* broadcast to the other operand's.                                       *)
BinaryShape(s1, s2) == BroadcastShape(s1, s2)

(* The broadcasts <<dim, size>> asked for on the edge of an operand of     *)
(* shape s, outer dimensions first, as negative dimensions.                *)
EdgeBroadcasts(s, out) ==
    LET a == AsRank(s, Len(out))
        Asked(i) == IF a[i] = out[i] THEN <<>> ELSE << <<i - Len(out) - 1, out[i]>> >>
        acc[i \in 0..Len(out)] == IF i = 0 THEN <<>> ELSE acc[i - 1] \o Asked(i)
    IN  acc[Len(out)]

(* get_eltwise_shape_and_broadcast: the largest of each dimension.         *)
EltwiseNaryShape(ss) ==
    LET n == CHOOSE m \in {Len(ss[k]) : k \in DOMAIN ss} : \A k \in DOMAIN ss : Len(ss[k]) <= m
    IN  <<>> \o [i \in 1..n |-> CHOOSE m \in {AsRank(ss[k], n)[i] : k \in DOMAIN ss} :
                           \A k \in DOMAIN ss : AsRank(ss[k], n)[i] <= m]

NaryShape(op, attr, ss) ==
    CASE op \in {"concatenate", "interleave"} ->
            WithDim(ss[1], attr[1], SumTo(LAMBDA k : Dim(ss[k], attr[1]), Len(ss)))
      [] op \in {"where", "index_copy"} -> EltwiseNaryShape(ss)
      \* list.insert with a negative place counts before the last element
      [] op = "stack" -> InsertDim(ss[1], attr[1], Len(ss))

BinaryStackShape(attr, s) == WithDim(s, attr[1], 2 * Dim(s, attr[1]))

ReduceShape(op, attr, s) ==
    CASE op = "grouped_reduce_avg" -> IF attr[3] = 1 THEN s ELSE WithDim(s, attr[1], attr[2])
      [] op = "reduce_max" /\ Len(attr) = 2 -> WithDim(s, attr[1], Dim(s, attr[1]) \div attr[2])
      [] OTHER -> WithDim(s, attr[1], 1)

(* Dimensions beyond the third must agree; Z of one is broadcast; with     *)
(* accumulate the Z dimension is summed.                                   *)
MatmulShape(attr, s1, s2) ==
    LET n == Larger(Len(s1), Len(s2))
        a == AsRank(s1, n)
        b == AsRank(s2, n)
        z == IF n < 3 THEN <<>> ELSE <<IF a[n - 2] = 1 THEN b[n - 2] ELSE a[n - 2]>>
        out == Lead(a, IF n < 3 THEN n ELSE 3) \o z \o <<a[n - 1], b[n]>>
    IN  IF attr # <<>> /\ attr[1] = 1 THEN WithDim(out, -3, 1) ELSE out

(* The edge of operand k of a matmul: its Z is broadcast, counted from the *)
(* front of the padded shape.                                              *)
MatmulBroadcasts(op, k, s1, s2) ==
    LET n == Larger(Len(s1), Len(s2))
        z(s) == AsRank(s, n)[n - 2]
    IN  IF n < 3 \/ z(s1) = z(s2) THEN <<>>
        ELSE IF k = 1 /\ z(s1) = 1 THEN << <<n - 3, z(s2)>> >>
        ELSE IF k = 2 /\ z(s1) # 1 /\ op # "sparse_matmul" THEN << <<n - 3, z(s1)>> >>
        ELSE <<>>

-----------------------------------------------------------------------------
(* Tensor manipulations.                                                   *)

SliceShape(op, f, s) ==
    CASE op = "hslice" -> LET r == AsRank(s, 4) IN [r EXCEPT ![Len(r)] = @ \div f, ![Len(r) - 2] = @ * f]
      [] op = "vslice" -> LET r == AsRank(s, 3) IN [r EXCEPT ![Len(r) - 1] = @ \div f, ![Len(r) - 2] = @ * f]
      [] op = "hstack" -> [s EXCEPT ![Len(s)] = @ * f, ![Len(s) - 2] = @ \div f]
      [] op = "vstack" -> [s EXCEPT ![Len(s) - 1] = @ * f, ![Len(s) - 2] = @ \div f]

(* A missing dimension is added in front.                                  *)
BroadcastTmShape(d, n, s) ==
    LET r == AsRank(s, IF d < 0 THEN -d ELSE d + 1) IN WithDim(r, d, n)

(* Dimension of gather counted from the end of a shape of rank four.       *)
GatherDim(d) == IF d > 0 THEN d - 4 ELSE d

(* Plausible bug: an incomplete last stride of a select is not counted.    *)
SelectShapeFloored(op, attr, s) ==
    LET d == attr[1]
    IN  CASE op = "index"  -> WithDim(s, d, DivUp(attr[3] - (IF attr[2] < 0 THEN Dim(s, d) + attr[2] ELSE attr[2]), attr[4]))
          [] op = "select" -> WithDim(s, d, attr[3] * ((Dim(s, d) - attr[2]) \div attr[4]))
          [] op = "narrow" -> WithDim(s, d, attr[3])

SelectShape(op, attr, s) ==
    LET d == attr[1]
    IN  CASE op = "index"  -> WithDim(s, d, DivUp(attr[3] - (IF attr[2] < 0 THEN Dim(s, d) + attr[2] ELSE attr[2]), attr[4]))
          [] op = "select" -> WithDim(s, d, attr[3] * DivUp(Dim(s, d) - attr[2], attr[4]))
          [] op = "gather" -> LET e == GatherDim(d)
                              IN  WithDim(AsRank(s, (IF e < 0 THEN -e ELSE e) + 1), e, attr[5])
          [] op = "narrow" -> WithDim(s, d, attr[3])

(* pad: <<left, right, (top, bottom,) mode, channel_last>>.                *)
PadShape(attr, s) ==
    LET c == IF attr[Len(attr)] = 1 THEN Len(s) - 1 ELSE Len(s)
        w == [s EXCEPT ![c] = @ + attr[1] + attr[2]]
    IN  IF Len(attr) = 6 THEN [w EXCEPT ![c - 1] = @ + attr[3] + attr[4]] ELSE w

BudaPadShape(op, attr, s) ==
    IF op = "buda_unpad" THEN Lead(s, 2) \o <<attr[3], attr[4]>>
    ELSE LET Padded(n, t) == IF t > 0 THEN AlignTile(n) + t * TILE_DIM ELSE n
         IN  Lead(s, 2) \o <<Padded(Dim(s, -2), attr[1]), Padded(Dim(s, -1), attr[2])>>

ConvWeightsShape(op, attr, s) ==
    CASE op = "conv2d_depthwise_weights" -> <<s[1], 1, s[2] * TILE_DIM, AlignTile(s[4])>>
      [] op = "conv2d_grouped_weights" ->
            CASE Len(attr) = 4 -> [s EXCEPT ![3] = TILE_DIM]
              [] Len(attr) = 5 -> <<s[1], 1, AlignTile(attr[1] * s[3]), s[2] * AlignTile(s[4])>>
              [] OTHER -> s
      [] op = "conv2d_grouped_weights_bw" ->
            CASE Len(attr) = 4 -> [s EXCEPT ![3] = 1]
              [] Len(attr) = 5 -> <<s[1], attr[2], attr[3], attr[4]>>
              [] OTHER -> s
      [] op = "conv2d_prestride_act" ->
            <<s[1], 1, s[2] * attr[1] * attr[2], DivUp(s[3], attr[1]) * DivUp(s[4], attr[2])>>

TmShape(op, attr, s) ==
    CASE op = "reshape" -> attr
      [] op = "transpose" -> SwapDims(s, attr[1], attr[2])
      [] op \in {"hslice", "vslice", "hstack", "vstack"} -> SliceShape(op, attr[1], s)
      [] op \in {"index", "select", "gather", "narrow"} -> SelectShape(op, attr, s)
      [] op = "broadcast" -> BroadcastTmShape(attr[1], attr[2], s)
      [] op = "repeat" -> <<>> \o [i \in 1..Len(s) |-> s[i] * attr[i]]
      [] op = "repeat_dim" -> WithDim(s, attr[1], Dim(s, attr[1]) * attr[2])
      [] op = "pad_tile" -> WithDim(s, attr[1], AlignTile(Dim(s, attr[1])))
      [] op = "pad" -> PadShape(attr, s)
      [] op = "unsqueeze" -> InsertDim(s, attr[1], 1)
      [] op = "squeeze" -> DropDim(s, attr[1])
      [] op = "pixel_shuffle" ->
            Lead(s, 3) \o <<Dim(s, -3) \div (attr[1] * attr[1]), Dim(s, -2) * attr[1], Dim(s, -1) * attr[1]>>
      [] op \in {"buda_pad", "buda_unpad"} -> BudaPadShape(op, attr, s)
      [] OTHER -> ConvWeightsShape(op, attr, s)

-----------------------------------------------------------------------------
NnOps == {"softmax", "log_softmax", "softmax_bw", "layernorm", "layernorm_bw", "batchnorm"}
QuantizeOps == {"quantize", "buda_quantize", "dequantize", "buda_dequantize", "requantize", "buda_requantize"}
NaryOps == {"concatenate", "interleave", "stack", "where", "index_copy"}
MatmulOps == {"matmul", "sparse_matmul"}

(* layernorm_bw has the shape of the operand it is the gradient of.        *)
NnShape(op, attr, ss) == IF op = "layernorm_bw" THEN ss[attr[3] + 1] ELSE ss[1]

EmbeddingShape(ss) == Append(ss[2], Dim(ss[1], -1))
DepthwiseShape(ss) == <<1, 1, ss[1][3], ss[2][4]>>

(* get_f_pybuda_shape: the shape, and the broadcasts on the edge of        *)
(* operand k.  quantize.py collects broadcasts and returns none.           *)
OpShape(op, attr, ss) ==
    CASE op \in UnaryOps -> UnaryShape(op, attr, ss[1])
      [] op \in BinaryOps -> BinaryShape(ss[1], ss[2])
      [] op = "binary_stack" -> BinaryStackShape(attr, ss[1])
      [] op \in NaryOps -> NaryShape(op, attr, ss)
      [] op \in ReduceOps -> ReduceShape(op, attr, ss[1])
      [] op \in MatmulOps -> MatmulShape(attr, ss[1], ss[2])
      [] op \in NnOps -> NnShape(op, attr, ss)
      [] op \in QuantizeOps -> ss[1]
      [] op = "embedding" -> EmbeddingShape(ss)
      [] op = "depthwise" -> DepthwiseShape(ss)
      [] OTHER -> TmShape(op, attr, ss[1])

OpBroadcasts(op, attr, ss, k) ==
    CASE op \in BinaryOps \cup {"where", "index_copy"} -> EdgeBroadcasts(ss[k], OpShape(op, attr, ss))
      [] op \in MatmulOps -> MatmulBroadcasts(op, k, ss[1], ss[2])
      [] OTHER -> <<>>
=============================================================================
