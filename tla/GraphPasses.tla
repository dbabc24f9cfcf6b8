----------------------------- MODULE GraphPasses -----------------------------
(***************************************************************************)
(* The compiler's passes over the graph of pybuda ops, from the graph the  *)
(* front end made to the one that is lowered, each followed by do_verify,  *)
(* which evaluates the graph again and compares its outputs.               *)
(*                                                                         *)
(* A decomposing pass sweeps the graph in topological order, one node      *)
(* after the other, until a sweep replaces nothing; then the ranks of the  *)
(* replacements are adapted to their users.  Autograd visits the forward   *)
(* nodes in reverse order and adds the gradients of their operands, then   *)
(* the update of every parameter.                                          *)
(*                                                                         *)
(* The rules of the op library are constants here, so that the machine     *)
(* does not depend on how many there are.                                  *)
(***************************************************************************)
EXTENDS NnDecompose, Autograd

CONSTANTS
    Graphs,                      \* graphs to compile: [g, flags, training, optimizer]
    Decomposed(_, _, _, _),      \* what a pass replaces a node by: Rule
    Gradients(_, _, _),          \* the backward graph of a node: NodeGradients
    Evaluated(_),                \* the tensors of a graph: Values
    Optimized(_, _, _, _)        \* the optimizer graph of a parameter: OptimizedParameter

(* More sweeps than the deepest chain of replacements needs.              *)
MaxSweeps == 4

VARIABLES
    g,        \* the graph
    config,   \* the case without its graph
    at,       \* number of passes started
    phase,    \* "sweep", "ranks", "backward", "optimizer" or "verify"
    todo,     \* nodes still to do in this phase
    again,    \* a node was replaced in this sweep
    sweeps,   \* sweeps of this pass so far
    made,     \* replacements of this pass
    grads,    \* fwd_to_out_gradient_map
    was       \* the graph as last verified

vars == <<g, config, at, phase, todo, again, sweeps, made, grads, was>>

Passes == <<"decompose", "post_optimize", "autograd", "post_autograd">>

NoMap == [i \in {} |-> 0]

-----------------------------------------------------------------------------
(* get_f_pybuda_decompose, ..._post_optimize, ..._post_autograd.           *)
DecomposeOp(gr, n, e) ==
    LET op == gr[n].op
        attr == gr[n].attr
        in == InputsOf(gr, n)
    IN  CASE op \in UnaryOps -> UnaryDecompose(op, attr, in[1], e)
          [] op \in BinaryOps \cup {"binary_stack"} -> BinaryDecompose(op, attr, in[1], in[2])
          [] op \in NaryOps -> NaryDecompose(op, attr, in)
          [] op \in ReduceOps -> ReduceDecompose(op, attr, in[1])
          [] op = "transpose" -> TransposeDecompose(attr, in[1])
          [] op \in MatmulOps -> MatmulDecompose(op, attr, gr, in[1], in[2])
          [] op \in NnOps -> NnDecompose(op, attr, in)
          [] op \in QuantizeOps -> QuantizeDecompose(op, attr, in)
          [] op \in {"embedding", "depthwise"} -> None
          [] OTHER -> TmDecompose(op, attr, in[1])

PostOptimizeOp(gr, n) ==
    LET op == gr[n].op
        attr == gr[n].attr
        in == InputsOf(gr, n)
    IN  CASE op \in BinaryOps \cup {"binary_stack"} -> BinaryPostOptimize(op, attr, in[1], in[2])
          [] op \in NaryOps -> NaryPostOptimize(op, attr, in)
          [] op = "transpose" -> TransposePostOptimize(attr, in[1])
          [] op \in UnaryOps \cup ReduceOps \cup MatmulOps \cup NnOps \cup QuantizeOps \cup {"embedding", "depthwise"} -> None
          [] OTHER -> TmPostOptimize(op, attr, in[1], UnbroadcastShape(gr, n, gr[n].in[1].n))

PostAutogradOp(gr, n, e) ==
    LET op == gr[n].op
        attr == gr[n].attr
        in == InputsOf(gr, n)
    IN  CASE op \in BinaryOps -> BinaryPostAutograd(op, in[1], in[2], e)
          [] op \in ReduceOps -> ReducePostAutograd(op, attr, in[1])
          [] op \in NnOps -> NnPostAutograd(op, attr, gr, in, e)
          [] op \in {"select", "reshape"} -> TmPostAutograd(op, attr, in[1])
          [] OTHER -> None

Rule(pass, gr, n, e) ==
    IF ~IsOp(gr[n]) \/ gr[n].keep THEN None
    ELSE CASE pass = "decompose" -> DecomposeOp(gr, n, e)
           [] pass = "post_optimize" -> PostOptimizeOp(gr, n)
           [] pass = "post_autograd" -> PostAutogradOp(gr, n, e)

-----------------------------------------------------------------------------
Init ==
    \E c \in Graphs :
        /\ g = c.g
        /\ config = [flags |-> c.flags, training |-> c.training, optimizer |-> c.optimizer]
        /\ at = 0
        /\ phase = "verify"
        /\ todo = <<>>
        /\ again = FALSE
        /\ sweeps = 0
        /\ made = {}
        /\ grads = NoMap
        /\ was = c.g

(* decompose_pybuda_graph, one node of a sweep.                            *)
DecomposeNode ==
    /\ phase = "sweep"
    /\ todo # <<>>
    /\ LET n == Head(todo)
           t == Decomposed(Passes[at], g, n, config.flags)
           r == ReplaceByTerm(g, n, t[1])
       IN  IF t = None
           THEN UNCHANGED <<g, again, made>>
           ELSE /\ g' = r.g
                /\ again' = TRUE
                /\ made' = made \cup {r.id}
    /\ todo' = Tail(todo)
    /\ UNCHANGED <<config, at, phase, sweeps, grads, was>>

(* The end of a sweep: another one, or the ranks.                          *)
EndSweep ==
    /\ phase = "sweep"
    /\ todo = <<>>
    /\ again' = FALSE
    /\ IF again
       THEN todo' = TopologicalSort(g) /\ sweeps' = sweeps + 1 /\ UNCHANGED phase
       ELSE todo' = Ascending(made \cap DOMAIN g) /\ phase' = "ranks" /\ UNCHANGED sweeps
    /\ UNCHANGED <<g, config, at, made, grads, was>>

AdaptRank ==
    /\ phase = "ranks"
    /\ todo # <<>>
    /\ g' = HandleRankOfUsers(g, Head(todo))
    /\ todo' = Tail(todo)
    /\ UNCHANGED <<config, at, phase, again, sweeps, made, grads, was>>

(* create_backward_graph, one forward node.                                *)
BackwardNode ==
    /\ phase = "backward"
    /\ todo # <<>>
    /\ LET st == Gradients([g |-> g, grads |-> grads], Head(todo), RequiresGrad(g))
       IN  g' = st.g /\ grads' = st.grads
    /\ todo' = Tail(todo)
    /\ UNCHANGED <<config, at, phase, again, sweeps, made, was>>

StartOptimizer ==
    /\ phase = "backward"
    /\ todo = <<>>
    /\ phase' = "optimizer"
    /\ todo' = IF config.optimizer = "none" THEN <<>>
               ELSE SelectSeq(TopologicalSort(g), LAMBDA n : g[n].op = "parameter" /\ g[n].grad)
    /\ UNCHANGED <<g, config, at, again, sweeps, made, grads, was>>

OptimizeParameter ==
    /\ phase = "optimizer"
    /\ todo # <<>>
    /\ g' = Optimized(g, Head(todo), config.optimizer, config.flags)
    /\ todo' = Tail(todo)
    /\ UNCHANGED <<config, at, phase, again, sweeps, made, grads, was>>

(* A pass is followed by do_verify.                                        *)
EndPass ==
    /\ phase \in {"ranks", "optimizer"}
    /\ todo = <<>>
    /\ phase' = "verify"
    /\ UNCHANGED <<g, config, at, todo, again, sweeps, made, grads, was>>

(* The next pass; a graph that is not trained has no autograd.             *)
Verified == phase = "verify"
FollowingPass == IF at + 1 \in DOMAIN Passes /\ Passes[at + 1] = "autograd" /\ ~config.training THEN at + 2 ELSE at + 1

StartPass ==
    /\ Verified
    /\ FollowingPass \in DOMAIN Passes
    /\ Passes[FollowingPass] # "autograd"
    /\ at' = FollowingPass
    /\ phase' = "sweep"
    /\ todo' = TopologicalSort(g)
    /\ sweeps' = 1
    /\ made' = {}
    /\ was' = g
    /\ UNCHANGED <<g, config, again, grads>>

StartAutograd ==
    /\ Verified
    /\ FollowingPass \in DOMAIN Passes
    /\ Passes[FollowingPass] = "autograd"
    /\ at' = FollowingPass
    /\ phase' = "backward"
    /\ LET st == WithLosses([g |-> g, grads |-> NoMap])
       IN  g' = st.g /\ grads' = st.grads
    /\ todo' = Reverse(SelectSeq(TopologicalSort(g), LAMBDA n : g[n].op \notin SinkOps))
    /\ was' = g
    /\ UNCHANGED <<config, again, sweeps, made>>

Finished == Verified /\ at = Len(Passes)
Done == Finished /\ UNCHANGED vars

Next == \/ DecomposeNode \/ EndSweep \/ AdaptRank
        \/ BackwardNode \/ StartOptimizer \/ OptimizeParameter
        \/ EndPass \/ StartPass \/ StartAutograd
        \/ Done

Spec == Init /\ [][Next]_vars

-----------------------------------------------------------------------------
(* The tensors of the sinks of the graph, by what they are made of.        *)
SinkValues(gr) ==
    LET v == Evaluated(gr)
    IN  [n \in {i \in DOMAIN gr : gr[i].op \in SinkOps} |->
            [v[n] EXCEPT !.at = [p \in DOMAIN v[n].at |-> Sources(v[n].at[p])]]]

(* The shape a node announces is the shape of what it computes.  Every     *)
(* pass after the front end trusts shape(); eval() is never asked.         *)
(* (A gradient or an update may have leading dimensions of one that the    *)
(* parameter does not have.)                                               *)
ShapesAgree ==
    Verified =>
        LET v == Evaluated(g)
        IN  \A n \in DOMAIN g :
                IF g[n].ep # "fwd" /\ g[n].op \in SinkOps
                THEN AsRank(v[n].shape, 4) = AsRank(g[n].shape, 4)
                ELSE v[n].shape = g[n].shape

(* No pass changes what an output, a gradient or a parameter's update is   *)
(* computed from, element by element: what do_verify compares after every  *)
(* stage, here for all values of the elements at once.                     *)
SameOutputs ==
    Verified =>
        LET new == SinkValues(g)
            old == SinkValues(was)
        IN  \A n \in DOMAIN old : n \in DOMAIN new /\ new[n] = old[n]

(* The gradient of an input at element q is made of the losses of exactly  *)
(* those output elements that are computed from element q.                 *)
GradsAdjoint ==
    Verified =>
        LET v == Evaluated(g)
            outs == {o \in DOMAIN g : g[o].ep = "fwd" /\ g[o].op = "output" /\ ~IsLossOutput(g, o)}
            From(x, q) == UNION {{<<"loss", o, p>> : p \in {i \in DOMAIN v[o].at : v[x].at[q] \subseteq v[o].at[i]}} : o \in outs}
        IN  \A n \in {i \in DOMAIN g : g[i].ep = "bwd" /\ g[i].op \in {"output", "queue"}} :
                \A q \in DOMAIN v[n].at : {e \in v[n].at[q] : e[1] = "loss"} = From(g[n].attr[1], q)

(* Every pass reaches its fixpoint, and soon: no replacement of a node      *)
(* brings back, in however many steps, an op that is replaced again.       *)
PassesEnd == sweeps <= MaxSweeps
=============================================================================
