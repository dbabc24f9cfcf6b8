----------------------------- MODULE OpBackward ------------------------------
(***************************************************************************)
(* backward(): the gradient of an op with respect to operand k, as a term  *)
(* of ops of the backward graph, and the optimizers' update of a           *)
(* parameter.                                                              *)
(*                                                                         *)
(* An operand is known twice: as the node the new ops use (in[k]) and by   *)
(* the shape it has behind the TMs of its edge (ss[k]).                    *)
(***************************************************************************)
EXTENDS TmReshape

One1 == Const(<<1>>)
Nop(x) == Un("nop", x)

(* The gradient summed over the dimensions the operand was broadcast in.   *)
SumBroadcast(grad, s) ==
    LET n == Larger(Len(grad.shape), Len(s))
        own == AsRank(s, n)
        f[i \in 0..n] ==
            IF i = 0 THEN grad
            ELSE IF own[i] < AsRank(grad.shape, n)[i] THEN Tmo("reduce_sum", <<i - n - 1>>, f[i - 1]) ELSE f[i - 1]
    IN  f[n]

BinaryBackward(op, k, in, ss, out, grad) ==
    CASE op = "add" -> Nop(SumBroadcast(grad, ss[k]))
      [] op = "subtract" -> IF k = 1 THEN Nop(SumBroadcast(grad, ss[k])) ELSE Mul(SumBroadcast(grad, ss[k]), One1)
      [] op = "multiply" -> SumBroadcast(Mul(grad, in[3 - k]), ss[k])
      [] op = "maximum" -> Nop(grad)
      [] op = "power" ->
            LET dx == Mul(in[2], Mul(out, Un("reciprocal", in[1])))
                dy == Mul(out, Un("log", in[1]))
            IN  Mul(IF k = 1 THEN dx ELSE dy, grad)

-----------------------------------------------------------------------------
ExpBackward(out, grad) == Mul(out, grad)
ReciprocalBackward(out, grad) == Mul(Mul(Mul(out, out), One1), grad)
SqrtBackward(out, grad) == Mul(Mul(Un("reciprocal", out), One1), grad)
LogBackward(x, grad) == Mul(Un("reciprocal", x), grad)
TanhBackward(out, grad) == Mul(Sub(One1, Mul(out, out)), grad)
AbsBackward(x, grad) == Mul(Mul(Sub(Dc("heaviside", <<>>, <<x, One1>>), One1), One1), grad)
ClipBackward(x, s, grad) ==
    LET bound == Const(s)
    IN  Mul(Mul(Dc("greater_equal", <<>>, <<x, bound>>), Dc("less_equal", <<>>, <<x, bound>>)), grad)

(* relu: mode 1 is "max".                                                  *)
ReluMask(attr, x, s) ==
    IF Len(attr) > 1 /\ attr[2] = 1
    THEN Mul(Dc("less", <<>>, <<x, Const(s)>>), Dc("greater_equal", <<>>, <<x, Zeros(s)>>))
    ELSE Dc("greater_equal", <<>>, <<x, Const(s)>>)

UnaryBackward(op, attr, x, s, out, grad) ==
    LET zero == Zeros(<<1>>)
        slope == Add(Dc("heaviside", <<>>, <<out, zero>>),
                     Mul(Dc("heaviside", <<>>, <<Mul(out, One1), zero>>), One1))
    IN  CASE op \in {"nop", "buffer"} -> Un(op, grad)
          [] op = "exp" -> ExpBackward(out, grad)
          [] op = "reciprocal" -> ReciprocalBackward(out, grad)
          [] op = "sqrt" -> SqrtBackward(out, grad)
          [] op = "log" -> LogBackward(x, grad)
          [] op = "tanh" -> TanhBackward(out, grad)
          [] op = "abs" -> AbsBackward(x, grad)
          [] op = "clip" -> ClipBackward(x, s, grad)
          [] op = "relu" -> Mul(ReluMask(attr, x, s), grad)
          [] op = "leaky_relu" -> Mul(slope, grad)
          [] op = "gelu" -> Mul(Tmo("gelu_derivative", attr, x), grad)
          [] op = "sigmoid" -> Mul(Mul(out, Sub(One1, out)), grad)
          [] op = "dropout" -> Tmo("dropout", attr, grad)
          [] op = "pow" -> Mul(Mul(Const(s), Mul(out, Un("reciprocal", x))), grad)

-----------------------------------------------------------------------------
(* concatenate: the operand's part of the gradient.  interleave: the       *)
(* slices of all operands side by side, and the operand's columns.         *)
NaryBackward(op, attr, k, ss, grad) ==
    LET n == Dim(grad.shape, -1)
        side == Tmo("hstack", <<Len(ss)>>, PadTileIfNeeded(PadTileIfNeeded(grad, -1), -2))
        rows == NarrowIfNeeded(side, -2, Dim(grad.shape, -2))
        cols == Tmo("select", <<-1, (k - 1) * AlignTile(n), AlignTile(n), Dim(rows.shape, -1)>>, rows)
    IN  CASE op = "concatenate" ->
                Tmo("select", <<attr[1], SumTo(LAMBDA j : Dim(ss[j], attr[1]), k - 1), Dim(ss[k], attr[1]),
                                Dim(grad.shape, attr[1])>>, grad)
          [] op = "interleave" -> NarrowIfNeeded(cols, -1, n)

(* The first maximum of a line: one where the operand is the maximum,      *)
(* times N ... 1, and one where that is the maximum.                       *)
FirstMaxMask(attr, x, s, out) ==
    LET d == attr[1]
        one == Const(Ones(Len(s)))
        stride == IF Len(attr) = 2 THEN attr[2] ELSE Dim(s, d)
        AtMax(v, max) == Tmo("relu", <<1>>, Add(Sub(v, max), one))
        ranked == Mul(AtMax(x, out), Const(WithDim(Ones(Len(s)), d, Dim(s, d))))
    IN  AtMax(ranked, Tmo("reduce_max", <<d, stride>>, ranked))

(* Each group's gradient to all of its members.                            *)
GroupedBackward(attr, s, grad) ==
    LET d == NegDim(grad.shape, attr[1])
        groups == attr[2]
        size == Dim(s, attr[1]) \div groups
        n == groups * size
        pairs == IF attr[3] = 0 THEN {<<i, i \div size>> : i \in 0..(n - 1)}
                 ELSE {p \in (0..(n - 1)) \X (0..(n - 1)) : p[1] \div size = p[2] \div size}
        m == InRank(StackPicker(PickPairs(n, Dim(grad.shape, d), pairs), Dim(grad.shape, -3)), 4)
    IN  Mul(IF d = -1 THEN PickCols(m, grad) ELSE PickRows(m, grad), One1)

ReduceBackward(op, attr, x, s, out, grad) ==
    CASE op = "reduce_max" -> Mul(grad, FirstMaxMask(attr, x, s, out))
      [] op = "reduce_sum" -> Nop(grad)
      [] op = "reduce_avg" -> Mul(grad, One1)
      [] op = "grouped_reduce_avg" -> GroupedBackward(attr, x.shape, grad)

MatmulBackward(op, k, gr, in, grad) ==
    CASE op = "sparse_matmul" -> PickRows(transpose_sparse_picker_matrix(gr[RefOf(in[1])].data), grad)
      [] OTHER -> IF k = 1 THEN Dc("matmul", <<>>, <<grad, TransposeXY(in[2])>>)
                  ELSE Dc("matmul", <<>>, <<TransposeXY(in[1]), grad>>)

NnBackward(op, attr, k, in, out, grad) ==
    CASE op = "softmax" -> Dc("softmax_bw", <<attr[1]>>, <<in[1], out, grad>>)
      [] op = "layernorm" -> Dc("layernorm_bw", attr \o <<k - 1>>, in \o <<grad, out>>)

-----------------------------------------------------------------------------
(* select: what was selected, with zeros before, between and behind.       *)
SelectBackward(attr, s, grad) ==
    LET d == attr[1]
        begin == attr[2]
        length == attr[3]
        stride == attr[4]
        size == Dim(s, d)
        Zero0(n) == <<Zeros(WithDim(s, d, n))>>
        Slice(j) == <<Tmo("select", <<d, j * length, length, Dim(grad.shape, d)>>, grad)>>
        Part(j) ==
            LET offset == j * stride
                gap == stride - length - begin
            IN  (IF begin > 0 THEN Zero0(Smaller(begin, size - offset)) ELSE <<>>)
                \o (IF offset + begin < size THEN Slice(j) ELSE <<>>)
                \o (IF offset + begin + length < size /\ gap > 0 THEN Zero0(gap) ELSE <<>>)
        parts == FlattenSeq([j \in 1..DivUp(size, stride) |-> Part(j - 1)])
        f[i \in 1..Len(parts)] == IF i = 1 THEN parts[1] ELSE Dc("concatenate", <<d>>, <<f[i - 1], parts[i]>>)
    IN  f[Len(parts)]

PadBackward(attr, grad) ==
    LET Cut(x, d, before, after) == Tmo("narrow", <<d, before, Dim(x.shape, d) - before - after, Dim(x.shape, d)>>, x)
    IN  IF Len(attr) = 6 THEN Cut(Cut(grad, -2, attr[3], attr[4]), -1, attr[1], attr[2])
        ELSE Cut(grad, -1, attr[1], attr[2])

(* narrow is undone by padding, defined where no tile falls away.          *)
NarrowBackward(attr, s, grad) ==
    LET after == attr[4] - attr[3] - attr[2]
    IN  IF NegDim(s, attr[1]) = -1 THEN Tmo("pad", <<attr[2], after, 0, 0>>, grad)
        ELSE Tmo("pad", <<0, 0, attr[2], after, 0, 0>>, grad)

TmBackward(op, attr, s, grad) ==
    CASE op = "hstack" -> Tmo("hslice", attr, grad)
      [] op = "hslice" -> Tmo("hstack", attr, grad)
      [] op = "vstack" -> Tmo("vslice", attr, grad)
      [] op = "vslice" -> Tmo("vstack", attr, grad)
      [] op = "transpose" -> Tmo("transpose", attr, grad)
      [] op = "reshape" -> Tmo("reshape", s, grad)
      [] op = "select" -> SelectBackward(attr, s, grad)
      [] op = "pad_tile" -> Tmo("narrow", <<attr[1], 0, Dim(s, attr[1]), attr[2]>>, grad)
      [] op = "narrow" -> NarrowBackward(attr, s, grad)
      [] op = "pad" -> PadBackward(attr, grad)
      [] op = "unsqueeze" -> IF Len(s) = Len(grad.shape) THEN grad ELSE Tmo("squeeze", <<attr[1]>>, grad)
      [] op = "squeeze" -> IF Len(s) = Len(grad.shape) THEN grad
                           ELSE IF Len(grad.shape) = 4 THEN Nop(grad)
                           ELSE Tmo("unsqueeze", <<attr[1], Len(grad.shape)>>, grad)

(* insert_backward for operand k of node n whose gradient is node gid.     *)
BackwardRule(gr, n, k, gid) ==
    LET op == gr[n].op
        attr == gr[n].attr
        in == [p \in DOMAIN gr[n].in |-> RefTerm(gr[n].in[p].n, gr[gr[n].in[p].n].shape)]
        ss == [p \in DOMAIN gr[n].in |-> ShapeOfOperand(gr, n, gr[n].in[p].n)]
        out == RefTerm(n, gr[n].shape)
        grad == RefTerm(gid, gr[gid].shape)
    IN  CASE op \in BinaryOps -> BinaryBackward(op, k, in, ss, out, grad)
          [] op \in UnaryOps -> UnaryBackward(op, attr, in[1], ss[1], out, grad)
          [] op \in NaryOps -> NaryBackward(op, attr, k, ss, grad)
          [] op \in ReduceOps -> ReduceBackward(op, attr, in[1], ss[1], out, grad)
          [] op \in MatmulOps -> MatmulBackward(op, k, gr, in, grad)
          [] op \in NnOps -> NnBackward(op, attr, k, in, out, grad)
          [] OTHER -> TmBackward(op, attr, ss[1], grad)

-----------------------------------------------------------------------------
(* generate_op_trace: the new parameter and the new state of the           *)
(* optimizer, as pairs of the name of the state and its term.              *)
SGD(p, grad) ==
    [param |-> Sub(p, Mul(grad, DcInput("lr", <<1>>))), state |-> <<>>]

(* The flags are those of Adam.__init__: "weight_decay", "adam_w",         *)
(* "bias_correction".                                                      *)
Adam(flags, p, gradient) ==
    LET copy == Un("buffer", gradient)
        decayed == Mul(One1, p)
        grad == IF "weight_decay" \in flags /\ "adam_w" \notin flags THEN Add(copy, decayed) ELSE copy
        mean == Add(Mul(DcInput("mean", p.shape), One1), Mul(grad, One1))
        variance == Add(Mul(DcInput("variance", p.shape), One1), Mul(Mul(grad, grad), One1))
        pow1 == Mul(DcInput("beta1_pow", <<1>>), One1)
        pow2 == Mul(DcInput("beta2_pow", <<1>>), One1)
        biased == "bias_correction" \in flags
        deviation == IF biased THEN Mul(Un("sqrt", variance), Un("reciprocal", Un("sqrt", Sub(One1, pow2))))
                     ELSE Un("sqrt", variance)
        step == Mul(IF biased THEN Mul(mean, Un("reciprocal", Sub(One1, pow1))) ELSE mean,
                    Un("reciprocal", Add(deviation, One1)))
        delta == IF {"weight_decay", "adam_w"} \subseteq flags THEN Add(step, decayed) ELSE step
    IN  [param |-> Sub(p, Mul(delta, DcInput("lr", <<1>>))),
         state |-> << <<"mean", mean>>, <<"variance", variance>> >>
                   \o (IF biased THEN << <<"beta1_pow", pow1>>, <<"beta2_pow", pow2>> >> ELSE <<>>)]

(* The length of a tensor as a vector: summed over Y, then over X.         *)
Norm(x) ==
    LET square == Mul(x, x)
        rows == IF Len(x.shape) > 1 THEN Tmo("reduce_sum", <<-2>>, square) ELSE square
    IN  Un("sqrt", Tmo("reduce_sum", <<-1>>, rows))

(* ratio where v is not zero, one where it is.                             *)
OneIfZero(v, zero, ratio) ==
    Add(Mul(ratio, Dc("not_equal", <<>>, <<v, zero>>)), Dc("equal", <<>>, <<v, zero>>))

LAMB(flags, p, gradient) ==
    LET c == Const(p.shape)
        grad == Un("buffer", gradient)
        mean == Add(Mul(c, DcInput("mean", p.shape)), Mul(c, grad))
        variance == Add(Mul(c, DcInput("variance", p.shape)), Mul(c, Mul(grad, grad)))
        step == Mul(mean, Un("reciprocal", Add(Un("sqrt", variance), c)))
        r == IF "weight_decay" \in flags THEN Add(step, Mul(p, c)) ELSE step
        zero == Zeros(p.shape)
        clipped == Tmo("clip", <<0, 1>>, Mul(Norm(p), Un("reciprocal", Norm(r))))
        trust == OneIfZero(Norm(p), zero, OneIfZero(Norm(r), zero, clipped))
    IN  [param |-> Sub(p, Mul(Mul(trust, r), c)), state |-> << <<"mean", mean>>, <<"variance", variance>> >>]

LARS(flags, p, gradient) ==
    LET c == Const(p.shape)
        grad == Un("buffer", gradient)
        zero == Zeros(p.shape)
        rate == Mul(c, Mul(Norm(p), Un("reciprocal", Add(c, Add(Norm(grad), Mul(c, Norm(p)))))))
        local == OneIfZero(Norm(p), zero, OneIfZero(Norm(grad), zero, rate))
        decayed == IF "weight_decay" \in flags THEN Add(grad, Mul(c, p)) ELSE grad
        momentum == Add(Mul(c, Mul(local, decayed)), Mul(DcInput("momentum", p.shape), c))
    IN  [param |-> Sub(p, momentum), state |-> << <<"momentum", momentum>> >>]

OptimizerTrace(kind, flags, p, grad) ==
    CASE kind = "sgd" -> SGD(p, grad)
      [] kind = "adam" -> Adam(flags, p, grad)
      [] kind = "lamb" -> LAMB(flags, p, grad)
      [] kind = "lars" -> LARS(flags, p, grad)
=============================================================================
