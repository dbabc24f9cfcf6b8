------------------------------- MODULE OpGraph -------------------------------
(***************************************************************************)
(* Graphs of pybuda ops, and what a decomposition or a gradient may do to  *)
(* one: DecomposingContext, the edge helpers of graph_lib and the          *)
(* evaluation of a graph.                                                  *)
(*                                                                         *)
(* A graph is a function from ids to nodes.  A node has an op, attributes, *)
(* operand edges in port order, the announced shape, the epoch type and    *)
(* the tag dont_decompose; inputs carry their tensor.  An edge is a        *)
(* producer and the tensor manipulations (TMs) on the way.                 *)
(***************************************************************************)
EXTENDS OpEval, SequencesExt

InputOps == {"activation", "parameter", "constant", "loss", "opt_param"}
SinkOps == {"output", "queue", "loopback"}

Tm(op, attr) == [op |-> op, attr |-> attr]
BroadcastTm(d, n) == Tm("broadcast", <<d, n>>)
Edge(n) == [n |-> n, tms |-> <<>>]

OpNode(op, attr, edges, shape, ep) ==
    [op |-> op, attr |-> attr, in |-> edges, shape |-> shape, ep |-> ep, keep |-> FALSE,
     grad |-> FALSE, data |-> Full(<<0>>, Zero)]
InputNode(op, t, ep, grad) ==
    [op |-> op, attr |-> <<>>, in |-> <<>>, shape |-> t.shape, ep |-> ep, keep |-> FALSE,
     grad |-> grad, data |-> t]

IsOp(node) == node.op \notin InputOps \cup SinkOps

-----------------------------------------------------------------------------
NewId(g) == 1 + CHOOSE m \in DOMAIN g : \A i \in DOMAIN g : i <= m
AddNode(g, node) == [i \in DOMAIN g \cup {NewId(g)} |-> IF i \in DOMAIN g THEN g[i] ELSE node]
RemoveNodes(g, ids) == [i \in DOMAIN g \ ids |-> g[i]]

Users(g, n) == {c \in DOMAIN g : \E p \in DOMAIN g[c].in : g[c].in[p].n = n}
Operands(g, n) == {g[n].in[p].n : p \in DOMAIN g[n].in}

TmsShape(tms, s) == FoldLeft(LAMBDA acc, tm : TmShape(tm.op, tm.attr, acc), s, tms)
TmsEval(tms, t) == FoldLeft(LAMBDA acc, tm : TmEval(tm.op, tm.attr, acc), t, tms)

(* shape_of_operand: by the producer, so of two edges from one producer    *)
(* the last one speaks for both.                                           *)
EdgeFrom(g, n, producer) ==
    LET ports == {p \in DOMAIN g[n].in : g[n].in[p].n = producer}
    IN  g[n].in[CHOOSE p \in ports : \A q \in ports : q <= p]
ShapeOfOperand(g, n, producer) == TmsShape(EdgeFrom(g, n, producer).tms, g[producer].shape)
UnbroadcastShape(g, n, producer) ==
    TmsShape(SelectSeq(EdgeFrom(g, n, producer).tms, LAMBDA tm : tm.op # "broadcast"), g[producer].shape)

(* The ids of a set, smallest first.                                       *)
Ascending(ids) == [k \in 1..Cardinality(ids) |-> CHOOSE i \in ids : Cardinality({j \in ids : j < i}) = k - 1]

(* topological_sort: depth first from each node in order of ids, operands  *)
(* in port order, a node after its operands.                               *)
RECURSIVE Visit(_, _, _)
Visit(g, order, n) ==
    IF n \in Range(order) THEN order
    ELSE Append(FoldLeft(LAMBDA acc, e : Visit(g, acc, e.n), order, g[n].in), n)
TopologicalSort(g) ==
    FoldLeft(LAMBDA acc, n : Visit(g, acc, n), <<>>, Ascending(DOMAIN g))

(* The tensor of every node: eval_graph over the golden model.  A queue is *)
(* read in its own shape.                                                  *)
ReadFrom(g, values, n) == IF g[n].op = "queue" THEN [values[n] EXCEPT !.shape = g[n].shape] ELSE values[n]
NodeValue(g, values, n) ==
    LET node == g[n]
        args == [p \in DOMAIN node.in |-> TmsEval(node.in[p].tms, ReadFrom(g, values, node.in[p].n))]
    IN  CASE node.op \in InputOps -> node.data
          [] node.op \in SinkOps -> args[1]
          [] OTHER -> EvalOp(node.op, node.attr, args)
RECURSIVE ValuesFrom(_, _, _)
ValuesFrom(g, values, order) ==
    IF DOMAIN values = DOMAIN g THEN values
    ELSE ValuesFrom(g, (Head(order) :> NodeValue(g, values, Head(order))) @@ values, Tail(order))
Values(g) == ValuesFrom(g, [i \in {} |-> 0], TopologicalSort(g))

-----------------------------------------------------------------------------
(* What a decomposition returns is a term over the operands of the node:   *)
(* the ops it adds, operands first, and which of them is the result.  An   *)
(* op names its operands by their place in the term.  Dc is dc.op, DcKeep  *)
(* the same with dont_decompose, DcTensor dc.tensor.  The same op on the   *)
(* same operands is one op of the term.                                    *)
NoData == Full(<<0>>, Zero)
TermOp(op, attr, in, shape, data) == [op |-> op, attr |-> attr, in |-> in, shape |-> shape, keep |-> FALSE, data |-> data]
TermOf(ops, root) == [ops |-> ops, root |-> root, shape |-> ops[root].shape]

RefTerm(n, s) == TermOf(<<TermOp("ref", <<n>>, <<>>, s, NoData)>>, 1)
DcTensor(t) == TermOf(<<TermOp("constant", <<>>, <<>>, t.shape, t)>>, 1)
DcInput(name, s) == TermOf(<<TermOp("opt_param", <<>>, <<>>, s, InputTensor(name, s))>>, 1)

(* The operand a term without ops stands for.                              *)
RefOf(t) == t.ops[t.root].attr[1]

(* ops with those of term t added; to says where the ops of t went.        *)
MergeTerm(ops, t) ==
    LET Put(acc, o) ==
            LET new == [o EXCEPT !.in = [k \in DOMAIN o.in |-> acc.to[o.in[k]]]]
                same == {p \in DOMAIN acc.ops : acc.ops[p] = new}
            IN  IF same = {} THEN [ops |-> Append(acc.ops, new), to |-> Append(acc.to, Len(acc.ops) + 1)]
                ELSE [acc EXCEPT !.to = Append(@, CHOOSE p \in same : TRUE)]
        f[i \in 0..Len(t.ops)] == IF i = 0 THEN [ops |-> ops, to |-> <<>>] ELSE Put(f[i - 1], t.ops[i])
    IN  f[Len(t.ops)]

(* The terms args in one list of ops; at says where their results are.     *)
(* The longest comes first.                                                *)
MergeTerms(args) ==
    LET long == CHOOSE k \in DOMAIN args : \A j \in DOMAIN args : Len(args[j].ops) <= Len(args[k].ops)
        f[k \in 0..Len(args)] ==
            IF k = 0 THEN [ops |-> args[long].ops, at |-> <<>>]
            ELSE IF k = long THEN [f[k - 1] EXCEPT !.at = Append(@, args[k].root)]
            ELSE LET prev == f[k - 1]
                     m == MergeTerm(prev.ops, args[k])
                 IN  [ops |-> m.ops, at |-> Append(prev.at, m.to[args[k].root])]
    IN  f[Len(args)]

Dc(op, attr, args) ==
    LET all == MergeTerms(args)
        shape == OpShape(op, attr, [k \in DOMAIN args |-> args[k].shape])
    IN  TermOf(Append(all.ops, TermOp(op, attr, all.at, shape, NoData)), Len(all.ops) + 1)
(* Plausible bug: the tag is not set.                                      *)
DcKeepUntagged(op, attr, args) == Dc(op, attr, args)

DcKeep(op, attr, args) == LET t == Dc(op, attr, args) IN [t EXCEPT !.ops[t.root].keep = TRUE]

(* The node an op of a term becomes.  An operand of the decomposed node n  *)
(* brings the TMs of its edge along (copy_tms); the broadcasts that        *)
(* shape() asks for follow.  With n = 0 there is nothing to copy:          *)
(* autograd's create_op.                                                   *)
TermNode(g, n, ep, ops, o, IdOf(_)) ==
    LET shapes == [k \in DOMAIN o.in |-> ops[o.in[k]].shape]
        Copied(id) == IF n # 0 /\ id \in Operands(g, n) THEN EdgeFrom(g, n, id).tms ELSE <<>>
        Asked(k) == LET b == OpBroadcasts(o.op, o.attr, shapes, k)
                    IN  [j \in DOMAIN b |-> BroadcastTm(b[j][1], b[j][2])]
        EdgeOf(k) == [n |-> IdOf(o.in[k]), tms |-> Copied(IdOf(o.in[k])) \o Asked(k)]
    IN  IF o.op \in InputOps THEN InputNode(o.op, o.data, ep, FALSE)
        ELSE [OpNode(o.op, o.attr, <<>> \o [k \in DOMAIN o.in |-> EdgeOf(k)], o.shape, ep) EXCEPT !.keep = o.keep]

(* The graph with the ops of a term added, and the id of its result.       *)
Insert(g, n, ep, t) ==
    LET base == NewId(g) - 1
        IdOf(p) == IF t.ops[p].op = "ref" THEN t.ops[p].attr[1] ELSE base + p
        new == {p \in DOMAIN t.ops : t.ops[p].op # "ref"}
    IN  [g |-> [i \in DOMAIN g \cup {base + p : p \in new} |->
                  IF i \in DOMAIN g THEN g[i] ELSE TermNode(g, n, ep, t.ops, t.ops[i - base], IdOf)],
         id |-> IdOf(t.root)]

(* fuse: the users of n use id instead, through the same TMs.              *)
Redirect(g, n, id) ==
    [c \in DOMAIN g |-> [g[c] EXCEPT !.in = [p \in DOMAIN @ |-> IF @[p].n = n THEN [@[p] EXCEPT !.n = id] ELSE @[p]]]]

(* decompose_pybuda_graph for one node: its ops in, the node out, and the  *)
(* operands nobody uses any more.                                          *)
ReplaceByTerm(g, n, t) ==
    LET made == Insert(g, n, g[n].ep, t)
        without == RemoveNodes(Redirect(made.g, n, made.id), {n})
    IN  [g |-> RemoveNodes(without, {o \in Operands(g, n) : Users(without, o) = {}}), id |-> made.id]

InputsOf(g, n) == [p \in DOMAIN g[n].in |-> RefTerm(g[n].in[p].n, ShapeOfOperand(g, n, g[n].in[p].n))]

-----------------------------------------------------------------------------
(* insert_node_on_edge of an op of one operand; the edge keeps its TMs on  *)
(* the side of the producer.                                               *)
InsertOnEdge(g, c, p, op, attr, shape) ==
    LET id == NewId(g)
        e == g[c].in[p]
    IN  [AddNode(g, OpNode(op, attr, <<e>>, shape, g[c].ep)) EXCEPT ![c].in[p] = Edge(id)]

(* handle_change_rank: unsqueezes or squeezes between a producer and a     *)
(* consumer of another rank; the TMs of the edge move behind them, their   *)
(* dimensions from the front shifted.                                      *)
ConsumerRank(g, c, rank) ==
    CASE g[c].op = "reshape" -> rank
      [] g[c].op = "squeeze" -> Len(g[c].shape) + 1
      [] g[c].op = "unsqueeze" -> Len(g[c].shape) - 1
      [] OTHER -> Len(g[c].shape)

RECURSIVE ChangeRank(_, _, _, _)
ChangeRank(g, c, p, want) ==
    LET s == g[g[c].in[p].n].shape
        have == Len(s)
    IN  CASE have < want -> ChangeRank(InsertOnEdge(g, c, p, "unsqueeze", <<0, have>>, <<1>> \o s), c, p, want)
          [] have > want -> ChangeRank(InsertOnEdge(g, c, p, "squeeze", <<0>>, Tail(s)), c, p, want)
          [] OTHER -> g

HandleChangeRank(g, c, p) ==
    LET e == g[c].in[p]
        have == Len(g[e.n].shape)
        want == ConsumerRank(g, c, have)
        Shift(tm) == IF tm.op = "broadcast" /\ tm.attr[1] >= 0
                     THEN [tm EXCEPT !.attr[1] = @ + want - have] ELSE tm
        bare == ChangeRank([g EXCEPT ![c].in[p].tms = <<>>], c, p, want)
    IN  IF have = want \/ g[c].op = "embedding" THEN g
        ELSE [bare EXCEPT ![c].in[p].tms = [k \in DOMAIN e.tms |-> Shift(e.tms[k])]]

(* The same on every user edge of a node.                                  *)
HandleRankOfUsers(g, n) ==
    IF n \notin DOMAIN g THEN g
    ELSE LET Ports(c) == Ascending({p \in DOMAIN g[c].in : g[c].in[p].n = n})
             Adapt(acc, c) == FoldLeft(LAMBDA a, p : HandleChangeRank(a, c, p), acc, Ports(c))
         IN  FoldLeft(Adapt, g, Ascending(Users(g, n)))
=============================================================================
