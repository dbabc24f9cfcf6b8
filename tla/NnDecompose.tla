----------------------------- MODULE NnDecompose -----------------------------
(***************************************************************************)
(* Decompositions of normalisations (nn.py) and of quantisation            *)
(* (quantize.py).  softmax and layernorm stay whole until the gradients    *)
(* are made; their gradients are ops of their own that are taken apart     *)
(* afterwards, and that of layernorm reuses what the forward op became.    *)
(***************************************************************************)
EXTENDS EltwiseOps

UnsqueezeAt1(x) == Tmo("unsqueeze", <<1, Len(x.shape)>>, x)

NnDecompose(op, attr, in) ==
    CASE op = "log_softmax" -> <<Un("log", Dc("softmax", attr, <<in[1]>>))>>
      [] op = "batchnorm" ->
            LET recip == Un("reciprocal", Un("sqrt", Add(in[5], Const(in[5].shape))))
                weighted == Mul(recip, in[2])
                bias == Add(Mul(weighted, Mul(Const(in[4].shape), in[4])), in[3])
            IN  <<Add(Mul(in[1], UnsqueezeAt1(UnsqueezeAt1(weighted))), UnsqueezeAt1(UnsqueezeAt1(bias)))>>
      [] OTHER -> None

SoftmaxParts(d, stable, x) ==
    LET e == Un("exp", IF stable THEN Sub(x, Tmo("reduce_max", <<d>>, x)) ELSE x)
        sum == Tmo("reduce_sum", <<d>>, e)
    IN  Mul(e, Un("reciprocal", Add(sum, Const(sum.shape))))

SoftmaxBwParts(d, output, grad) ==
    Mul(Sub(grad, Tmo("reduce_sum", <<d>>, Mul(grad, output))), output)

LayernormParts(d, x, gamma, beta) ==
    LET mu == Mul(Const(x.shape), Tmo("reduce_sum", <<d>>, x))
        xmu == Sub(x, mu)
        sq == Tmo("reduce_sum", <<d>>, Mul(xmu, xmu))
        var == Mul(Const(sq.shape), sq)
        ivar == Un("reciprocal", Un("sqrt", Add(var, Const(var.shape))))
    IN  Add(Mul(Mul(xmu, ivar), gamma), beta)

(* dc.get_operands: the operands of a node of the graph, here of what the  *)
(* forward layernorm was decomposed into.                                  *)
OperandOf(g, ref, k) == LET n == g[RefOf(ref)].in[k].n IN RefTerm(n, g[n].shape)

LayernormBwParts(g, attr, in) ==
    LET gamma == in[2]
        grad == in[4]
        xhat == OperandOf(g, OperandOf(g, in[5], 1), 1)
        ivar == OperandOf(g, xhat, 2)
        d == attr[1]
        dxhat == Mul(grad, gamma)
        sums == Add(Tmo("reduce_sum", <<d>>, dxhat), Mul(xhat, Tmo("reduce_sum", <<d>>, Mul(dxhat, xhat))))
    IN  CASE attr[3] = 2 -> Tmo("reduce_sum", <<-2>>, grad)
          [] attr[3] = 1 -> Tmo("reduce_sum", <<-2>>, Mul(xhat, grad))
          [] attr[3] = 0 -> Mul(ivar, Sub(dxhat, Mul(Const(sums.shape), sums)))

NnPostAutograd(op, attr, g, in, env) ==
    CASE op = "softmax" -> <<SoftmaxParts(attr[1], attr[2] = 1 /\ "stable_softmax" \in env, in[1])>>
      [] op = "softmax_bw" -> <<SoftmaxBwParts(attr[1], in[2], in[3])>>
      [] op = "layernorm" -> <<LayernormParts(attr[1], in[1], in[2], in[3])>>
      [] op = "layernorm_bw" -> <<LayernormBwParts(g, attr, in)>>

-----------------------------------------------------------------------------
(* A scale of one dimension goes to the axis of the activations and is     *)
(* broadcast to them, one dimension at a time.                             *)
ScaleToAct(scale, act, axis) ==
    LET n == Len(act.shape)
        a == DimAt(act.shape, axis)
        left == Repeat(LAMBDA t : Tmo("unsqueeze", <<0, Len(t.shape)>>, t), a - 1, scale)
        both == Repeat(LAMBDA t : Tmo("unsqueeze", <<Len(t.shape), Len(t.shape)>>, t), n - a, left)
        s == IF Len(scale.shape) = 1 THEN both ELSE scale
        wide[i \in 0..n] == IF i = 0 THEN s
                            ELSE IF s.shape[i] = act.shape[i] THEN wide[i - 1]
                            ELSE Tmo("broadcast", <<i - 1 - n, act.shape[i]>>, wide[i - 1])
    IN  wide[n]

QuantizeDecompose(op, attr, in) ==
    LET act == in[1]
        Scale(t) == ScaleToAct(t, act, attr[2])
    IN  CASE op = "quantize" -> <<Dc("buda_quantize", <<attr[1], -1>>, <<act, Scale(Un("reciprocal", in[2]))>>)>>
          [] op = "requantize" ->
                <<Dc("buda_requantize", <<attr[1], -1>>, <<act, Mul(Scale(in[2]), Un("reciprocal", Scale(in[3])))>>)>>
          [] op = "dequantize" -> <<Dc("buda_dequantize", <<attr[1], -1>>, <<act, Scale(in[2])>>)>>
          [] OTHER -> None
=============================================================================
