------------------------------ MODULE Autograd ------------------------------
(***************************************************************************)
(* autograd.cpp: the backward graph and the optimizer graph, added to the  *)
(* forward graph node by node.                                             *)
(***************************************************************************)
EXTENDS OpBackward

(* propagate_requires_grad: the nodes whose output edges require it.       *)
RequiresGrad(gr) ==
    LET Visited(acc, n) ==
            IF (gr[n].op \in InputOps /\ gr[n].grad)
               \/ (IsOp(gr[n]) /\ Operands(gr, n) \cap acc # {}) THEN acc \cup {n} ELSE acc
    IN  FoldLeft(Visited, {}, TopologicalSort(gr))

AppendGrad(gs, n, id) == (n :> IF n \in DOMAIN gs THEN Append(gs[n], id) ELSE <<id>>) @@ gs

(* An output gets the gradient of its operand from outside; that of a loss *)
(* is the constant one.                                                    *)
LossTensor(n, s) == [shape |-> s, at |-> [p \in 1..Volume(s) |-> {<<"loss", n, p>>}]]
IsLossOutput(gr, n) == gr[n].attr # <<>>
WithLosses(st) ==
    LET needs == RequiresGrad(st.g)
        outs == Ascending({n \in DOMAIN st.g : st.g[n].op = "output" /\ st.g[n].in[1].n \in needs})
        Loss(n) == IF IsLossOutput(st.g, n) THEN InputNode("constant", Full(st.g[n].shape, One), "bwd", FALSE)
                   ELSE InputNode("loss", LossTensor(n, st.g[n].shape), "bwd", FALSE)
        WithLoss(acc, n) == [g |-> AddNode(acc.g, Loss(n)),
                             grads |-> AppendGrad(acc.grads, st.g[n].in[1].n, NewId(acc.g))]
    IN  FoldLeft(WithLoss, st, outs)

(* combine_incoming_gradients.                                             *)
NodeTerm(gr, n) == RefTerm(n, gr[n].shape)
(* Plausible bug: of a fork's gradients the last one is kept.              *)
LastGradient(st, n) == [g |-> st.g, id |-> st.grads[n][Len(st.grads[n])]]

CombinedGradient(st, n) ==
    LET Plus1(acc, id) == Insert(acc.g, 0, "bwd", Dc("add", <<>>, <<NodeTerm(acc.g, acc.id), NodeTerm(acc.g, id)>>))
    IN  FoldLeft(Plus1, [g |-> st.g, id |-> Head(st.grads[n])], Tail(st.grads[n]))

(* Shape::broadcast_dims, last dimension first; as negative dimensions.    *)
BroadcastDims(s, t) ==
    IF Volume(s) = Volume(t) THEN <<>>
    ELSE LET d == SelectSeq([i \in 1..Smaller(Len(s), Len(t)) |-> -i], LAMBDA i : Dim(s, i) < Dim(t, i))
         IN  [k \in DOMAIN d |-> BroadcastTm(d[k], Dim(t, d[k]))]

(* A gradient smaller than its node (of a reduction) is broadcast by a nop.*)
BroadcastGradient(c, n) ==
    LET tms == BroadcastDims(c.g[c.id].shape, c.g[n].shape)
        nop == OpNode("nop", <<>>, <<[n |-> c.id, tms |-> tms]>>, c.g[n].shape, "bwd")
    IN  IF tms = <<>> THEN c ELSE [g |-> AddNode(c.g, nop), id |-> NewId(c.g)]

(* A parameter's gradient is accumulated in a queue, an activation's is an *)
(* output.                                                                 *)
GradientSink(c, n) ==
    LET op == IF c.g[n].op = "parameter" THEN "queue" ELSE "output"
    IN  AddNode(c.g, OpNode(op, <<n>>, <<Edge(c.id)>>, c.g[n].shape, "bwd"))

(* One operand: its gradient, summed where its edge broadcasts.            *)
OperandGradient(st, n, k, gid) ==
    LET e == st.g[n].in[k]
        SumDim(acc, tm) == Insert(acc.g, 0, "bwd", Tmo("reduce_sum", <<tm.attr[1]>>, NodeTerm(acc.g, acc.id)))
        r == FoldLeft(SumDim, Insert(st.g, 0, "bwd", BackwardRule(st.g, n, k, gid)),
                      SelectSeq(e.tms, LAMBDA tm : tm.op = "broadcast"))
    IN  [g |-> r.g, grads |-> AppendGrad(st.grads, e.n, r.id)]

(* One node of create_backward_graph.                                      *)
NodeGradients(st, n, needs) ==
    LET c == BroadcastGradient(CombinedGradient(st, n), n)
        ports == SelectSeq([k \in DOMAIN st.g[n].in |-> k], LAMBDA k : st.g[n].in[k].n \in needs)
    IN  CASE n \notin DOMAIN st.grads -> st
          [] st.g[n].op \in InputOps -> IF st.g[n].grad THEN [st EXCEPT !.g = GradientSink(c, n)] ELSE st
          [] OTHER -> FoldLeft(LAMBDA acc, k : OperandGradient(acc, n, k, c.id), [st EXCEPT !.g = c.g], ports)

(* One parameter of create_optimizer_graph.  The loopback edges are sinks  *)
(* here: what is written back into the input node attr[1].                 *)
OptimizedParameter(gr, n, optimizer, flags) ==
    LET q == CHOOSE i \in DOMAIN gr : gr[i].op = "queue" /\ gr[i].attr = <<n>>
        t == OptimizerTrace(optimizer, flags, NodeTerm(gr, n), NodeTerm(gr, q))
        all == MergeTerms(<<t.param>> \o [k \in DOMAIN t.state |-> t.state[k][2]])
        base == NewId(gr) - 1
        r == Insert(gr, 0, "opt", TermOf(all.ops, all.at[1]))
        Input(k) == base + CHOOSE p \in DOMAIN all.ops :
                        all.ops[p] = DcInput(t.state[k][1], all.ops[p].shape).ops[1]
        Loopback(acc, input, id) == AddNode(acc, OpNode("loopback", <<input>>, <<Edge(id)>>, acc[input].shape, "opt"))
    IN  FoldLeft(LAMBDA acc, k : Loopback(acc, Input(k), base + all.at[k + 1]), Loopback(r.g, n, r.id),
                 [k \in DOMAIN t.state |-> k])
=============================================================================
