----------------------------- MODULE GraphSolver -----------------------------
(***************************************************************************)
(* The graph solver of the balancer (balancer/legalizer/graph_solver.cpp): *)
(* every op of the graph has a set of legal op models, every data edge     *)
(* allows some pairs of them, and a policy selects one model per op.  The  *)
(* solver keeps, for every node, the models that are still possible (its   *)
(* bitset) and, for every edge, the pairs that are (its path set), prunes  *)
(* them after every call, and cuts edges, by itself if it may, where no    *)
(* pair is left.                                                           *)
(*                                                                         *)
(* A model is a number, EdgeCost one number per pair, with one limit on    *)
(* the sum over the operands of a node and over its users; a cut edge has  *)
(* a queue that takes every model, so it leaves the graph.  The legalizer  *)
(* computes models for a node anew (recompute_legal_op_models): it yields  *)
(* the same numbers, none of them disabled.                                *)
(***************************************************************************)
EXTENDS Integers, FiniteSets, Sequences, SequencesExt, FiniteSetsExt

CONSTANTS
    Order,      \* all nodes, the NOPs that buffer() may insert among them, producers first
    Edges,      \* the data edges between ops, pairs <<producer, consumer>>
    Nop,        \* the NOP that buffer() puts on an edge, for the edges it is used on
    Models,     \* the legal op models
    Cost,       \* the cost of a pair of models on an edge
    MaxCost,    \* what the costs over the operands, or over the users, may add up to
    Problems,   \* which pairs the edges allow, the way to self-cut, the models that stream into
                \* an output and those that are suboptimal for the first and the second tier,
                \* the edges between epoch types, the calls the policy makes besides set()
    MaxRetry    \* default_resolve_retry_count_self_cutting

Nodes == Range(Order)
NopEdges == UNION {{<<e[1], Nop[e]>>, <<Nop[e], e[2]>>} : e \in DOMAIN Nop}
Unbuffered == Nodes \ Range(Nop)

ASSUME SolverAssumption ==
    /\ Order \in Seq(Nodes) /\ Models \subseteq Nat
    /\ Edges \cup NopEdges \subseteq Nodes \X Nodes
    /\ \A p \in Problems : p.switch \subseteq Edges
    /\ DOMAIN Nop \subseteq Edges /\ Range(Nop) \cap UNION {{e[1], e[2]} : e \in Edges} = {}
    /\ \A d, e \in DOMAIN Nop : Nop[d] = Nop[e] => d = e
    /\ MaxRetry \in Nat \ {0} /\ MaxCost \in Nat /\ Cost \in [Edges \cup NopEdges -> [Models \X Models -> Nat]]

VARIABLES
    problem,    \* [fits, self_cut, streaming, suboptimal, switch, calls]
    strategy,   \* has the policy asked for suboptimal models to be invalidated?
    live,       \* the edges in the graph the solver traverses
    cut_edges,
    selected,   \* selected_op_models
    disabled,   \* op_disabled_bitset_cache
    bitset,     \* bitsets
    paths,      \* path_sets, for the edges that have one
    phase,      \* what the solver is doing
    pass,       \* the resolve_step in progress
    todo,       \* the nodes resolve_step has yet to update or to invalidate models of
    needs_update, \* the stack of update_solver
    by_set      \* invoked_by_set

vars == <<problem, strategy, live, cut_edges, selected, disabled, bitset, paths, phase, pass, todo,
          needs_update, by_set>>

NoPass == [retry |-> 0, agenda |-> <<>>, consumer |-> 0, queue |-> <<>>, fast |-> FALSE]

\* The ops, and the NOPs inserted so far.
Visible == Unbuffered \cup UNION {{e[1], e[2]} : e \in live \cup cut_edges}

\* The elements of s that are in S, in their order.
Only(s, S) ==
    LET upTo[i \in 0 .. Len(s)] ==
            IF i = 0 THEN <<>> ELSE upTo[i - 1] \o (IF s[i] \in S THEN <<s[i]>> ELSE <<>>)
    IN  upTo[Len(s)]

\* The function f, with y at x.
With(f, x, y) == [z \in DOMAIN f \cup {x} |-> IF z = x THEN y ELSE f[z]]

OperandEdges(edges, n) ==
    LET ps == Only(Order, {p \in Nodes : <<p, n>> \in edges})
    IN  [i \in DOMAIN ps |-> <<ps[i], n>>]

UserEdges(edges, n) ==
    LET cs == Only(Order, {c \in Nodes : <<n, c>> \in edges})
    IN  [i \in DOMAIN cs |-> <<n, cs[i]>>]

EdgesOf(edges, n) == OperandEdges(edges, n) \o UserEdges(edges, n)

operands_and_users(n) ==
    LET es == EdgesOf(live, n)
    IN  [i \in DOMAIN es |-> IF es[i][1] = n THEN es[i][2] ELSE es[i][1]]

(***************************************************************************)
(* Path sets.  Work on them is a record of the bitsets and path sets so    *)
(* far, the edges whose bitsets shrank, whether cumulative costs shrank    *)
(* some, and why it stopped short.                                         *)
(***************************************************************************)
Work(bs, ps) == [bs |-> bs, ps |-> ps, changed |-> {}, path_changed |-> FALSE, stop |-> "none"]

Valid(w, e) == {q \in w.ps[e] : q[1] \in w.bs[e[1]] /\ q[2] \in w.bs[e[2]]}
Producers(ps) == {q[1] : q \in ps}
Consumers(ps) == {q[2] : q \in ps}

\* op over the edges in turn; the set makes a value of the work so far.
EachEdge(op(_, _), w, es) ==
    LET after[i \in 0 .. Len(es)] ==
            IF i = 0 THEN w
            ELSE CHOOSE x \in {op(u, e) : u \in {after[i - 1]}, e \in {es[i]}} : TRUE
    IN  after[Len(es)]

\* The path set of e is keep: the ends lose what no path is left for.
Keep(w, e, keep) ==
    LET bs == [w.bs EXCEPT ![e[1]] = @ \cap Producers(keep)]
    IN  [w EXCEPT !.ps[e] = keep, !.bs = [bs EXCEPT ![e[2]] = @ \cap Consumers(keep)]]

Shrinks(w, e, keep) ==
    ~(w.bs[e[1]] \subseteq Producers(keep) /\ w.bs[e[2]] \subseteq Consumers(keep))

\* PathSet::update, and empty after it.
update(w, e) ==
    LET keep == Valid(w, e)
    IN  IF w.stop # "none" THEN w
        ELSE [Keep(w, e, keep) EXCEPT
                 !.changed = IF Shrinks(w, e, keep) THEN @ \cup {e} ELSE @,
                 !.stop = IF keep = {} THEN "no paths" ELSE "none"]

\* The paths in the order max_cost prefers them.
Above(cost, q, r) ==
    \/ cost[q] > cost[r]
    \/ cost[q] = cost[r] /\ q[1] < r[1]
    \/ cost[q] = cost[r] /\ q[1] = r[1] /\ q[2] <= r[2]

\* The sum of a sequence of costs.
SumOf(costs) ==
    LET upTo[i \in 0 .. Len(costs)] == IF i = 0 THEN 0 ELSE upTo[i - 1] + costs[i]
    IN  upTo[Len(costs)]

\* Mutant: the dearest paths of the other edges are counted.
AffordableWorst(w, es, e, side, q) ==
    LET Same(f) == {r \in w.ps[f] : r[side] = q[side]}
        dearest(f) == IF f = e THEN Cost[e][q] ELSE Max({Cost[f][r] : r \in Same(f)})
    IN  /\ \A f \in Range(es) \ {e} : Same(f) # {}
        /\ SumOf([i \in DOMAIN es |-> dearest(es[i])]) <= MaxCost

\* With the cheapest paths of the other edges, path q stays within the limit.
Affordable(w, es, e, side, q) ==
    LET Same(f) == {r \in w.ps[f] : r[side] = q[side]}
        cheapest(f) == IF f = e THEN Cost[e][q] ELSE Min({Cost[f][r] : r \in Same(f)})
    IN  /\ \A f \in Range(es) \ {e} : Same(f) # {}
        /\ SumOf([i \in DOMAIN es |-> cheapest(es[i])]) <= MaxCost

\* One path set in apply_cumulative_costs: from the dearest path down, paths are erased until
\* one is affordable.
CumulativeEdge(w, es, e, side) ==
    LET first == CHOOSE q \in w.ps[e] : \A r \in w.ps[e] : Above(Cost[e], q, r)
        rest == Valid(w, e) \ {first}
        keep == {q \in rest : \E r \in rest : Affordable(w, es, e, side, r) /\ Above(Cost[e], r, q)}
    IN  IF w.stop # "none" \/ (w.ps[e] # {} /\ Affordable(w, es, e, side, first)) THEN w
        ELSE [Keep(w, e, keep) EXCEPT
                 !.path_changed = @ \/ Shrinks(w, e, keep),
                 !.stop = IF keep = {} THEN "cost" ELSE "none"]

apply_cumulative_costs(w, es, side) ==
    EachEdge(LAMBDA v, e : CumulativeEdge(v, es, e, side), w, es)

\* One round of update_solver, at a node with these edges.
UpdatedAt(w, ins, outs) ==
    LET w1 == apply_cumulative_costs(EachEdge(update, w, ins), ins, 2)
    IN  apply_cumulative_costs(EachEdge(update, w1, outs), outs, 1)

\* Mutant: what changed is followed to the users alone.
RevisitsUsers(w, n, ins, outs) ==
    FlattenSeq([i \in DOMAIN outs |-> IF outs[i] \in w.changed THEN <<outs[i][2]>> ELSE <<>>])

\* What a round adds to the stack.
Revisits(w, n, ins, outs) ==
    LET es == ins \o outs
        Far(e) == IF e[1] = n THEN e[2] ELSE e[1]
        Visit(e) ==
            CASE e \in w.changed ->
                    <<Far(e)>> \o Only(operands_and_users(Far(e)), Nodes \ {n})
              [] w.path_changed /\ e \notin w.changed -> <<Far(e)>>
              [] OTHER -> <<>>
    IN  FlattenSeq([i \in DOMAIN es |-> Visit(es[i])])

\* The start of update_solver with expand_root: the path sets of n are updated unchecked.
refresh(w, e) == Keep(w, e, Valid(w, e))

Expand(n, bs) ==
    /\ LET w == EachEdge(refresh, Work(bs, paths), EdgesOf(live, n))
       IN  bitset' = w.bs /\ paths' = w.ps
    /\ needs_update' = <<n>> \o operands_and_users(n)

-----------------------------------------------------------------------------
Init ==
    /\ problem \in Problems
    /\ strategy = FALSE
    /\ live = Edges /\ cut_edges = {}
    /\ selected = <<>>
    /\ disabled = [n \in Nodes |-> {}]
    /\ bitset = [n \in Nodes |-> Models]
    /\ paths = <<>>
    /\ phase = "new" /\ pass = NoPass
    /\ todo = <<>> /\ needs_update = <<>> /\ by_set = FALSE

\* reset(), and the agenda of a resolve_step over the given edges.
Resolve(edges, off, retry) ==
    /\ phase' = "edges"
    /\ bitset' = [n \in Nodes |-> Models \ off[n]]
    /\ paths' = <<>>
    /\ pass' = [NoPass EXCEPT !.retry = retry,
                   !.agenda = FlattenSeq([i \in DOMAIN Order |-> OperandEdges(edges, Order[i])])]
    /\ todo' = <<>> /\ needs_update' = <<>> /\ by_set' = FALSE

\* recompute_legal_op_models forgets which models of a node are disabled.
Recomputed(ns) == [n \in Nodes |-> IF n \in ns THEN {} ELSE disabled[n]]

Unset(es) == (UNION {{e[1], e[2]} : e \in es}) \ DOMAIN selected

\* GraphSolver(...): the edges between epoch types are cut, then the graph is resolved.
Construct ==
    /\ phase = "new"
    /\ \E es \in {{}, problem.switch} :
          /\ live' = live \ es /\ cut_edges' = es
          /\ Resolve(live \ es, disabled, 1)
    /\ UNCHANGED <<problem, strategy, selected, disabled>>

\* The edges self_cut takes out for a failing edge.
SelfCutEdges(e) ==
    IF problem.self_cut = "producer" THEN {f \in live : f[1] = e[1]} ELSE {f \in live : f[2] = e[2]}

\* self_cut: a cut edge with both ends set is a failed assertion.
self_cut(e) ==
    LET es == SelfCutEdges(e)
    IN  IF \E f \in es : {f[1], f[2]} \subseteq DOMAIN selected
        THEN /\ phase' = "asserted"
             /\ UNCHANGED <<live, cut_edges, disabled, bitset, paths, pass, todo, needs_update, by_set>>
        ELSE /\ live' = live \ es /\ cut_edges' = cut_edges \cup es
             /\ disabled' = Recomputed(Unset(es))
             /\ IF problem.self_cut = "fast"
                THEN /\ pass' = [pass EXCEPT !.fast = TRUE, !.consumer = e[2],
                                    !.agenda = Only(@, {f \in live : f[2] # e[2]})]
                     /\ bitset' = [bitset EXCEPT ![e[2]] = Models]
                     /\ UNCHANGED <<paths, phase, todo, needs_update, by_set>>
                ELSE Resolve(live \ es, disabled', pass.retry + 1)

MayCut == problem.self_cut # "none" /\ pass.retry < MaxRetry

Throw ==
    /\ phase' = "thrown"
    /\ UNCHANGED <<live, cut_edges, disabled, bitset, paths, pass, todo, needs_update, by_set>>

\* One operand edge of the loop of resolve_step.
ResolveEdge ==
    /\ phase = "edges" /\ pass.agenda # <<>>
    /\ LET e == Head(pass.agenda)
           found == problem.fits[e] \cap (bitset[e[1]] \X bitset[e[2]])
           w == Keep(Work(bitset, With(paths, e, found)), e, found)
           add == ~pass.fast /\ bitset[e[1]] # w.bs[e[1]] /\ e[1] \notin Range(pass.queue)
       IN  /\ e[2] = pass.consumer \/ pass.queue = <<>> \/ pass.fast
           /\ CASE found # {} ->
                      /\ bitset' = w.bs /\ paths' = w.ps
                      /\ pass' = [pass EXCEPT !.agenda = Tail(@), !.consumer = e[2],
                                     !.queue = IF add THEN Append(@, e[1]) ELSE @]
                      /\ UNCHANGED <<live, cut_edges, disabled, phase, todo, needs_update, by_set>>
                [] found = {} /\ MayCut -> self_cut(e)
                [] OTHER -> Throw
    /\ UNCHANGED <<problem, strategy, selected>>

\* PathSet::update_node_processor; the queue of nodes is in the work record.
update_node_processor(w, e) ==
    LET keep == Valid(w, e)
        Added(q, ns) == q \o Only(ns, Nodes \ Range(q))
        c1 == ~(w.bs[e[1]] \subseteq Producers(keep))
        c2 == ~(w.bs[e[2]] \subseteq Consumers(keep))
    IN  [Keep(w, e, keep) EXCEPT
            !.queue = CASE c1 -> Added(@, <<e[2], e[1]>>)
                        [] ~c1 /\ c2 -> Added(@, <<e[1], e[2]>>)
                        [] OTHER -> @]

\* Mutant: the node stays on the queue.
ProcessNodeStays ==
    /\ phase = "edges" /\ pass.queue # <<>> /\ ~pass.fast
    /\ pass.agenda # <<>> => Head(pass.agenda)[2] # pass.consumer
    /\ LET n == Last(pass.queue)
           es == Only(EdgesOf(live, n), DOMAIN paths)
           w == EachEdge(update_node_processor,
                         [bs |-> bitset, ps |-> paths, queue |-> pass.queue], es)
       IN  bitset' = w.bs /\ paths' = w.ps /\ pass' = [pass EXCEPT !.queue = w.queue]
    /\ UNCHANGED <<problem, strategy, live, cut_edges, selected, disabled, phase, todo, needs_update, by_set>>

\* One node of NodePathsProcessor::process, which runs when a consumer is done.
ProcessNode ==
    /\ phase = "edges" /\ pass.queue # <<>> /\ ~pass.fast
    /\ pass.agenda # <<>> => Head(pass.agenda)[2] # pass.consumer
    /\ LET n == Last(pass.queue)
           es == Only(EdgesOf(live, n), DOMAIN paths)
           w == EachEdge(update_node_processor,
                         [bs |-> bitset, ps |-> paths, queue |-> Front(pass.queue)], es)
       IN  bitset' = w.bs /\ paths' = w.ps /\ pass' = [pass EXCEPT !.queue = w.queue]
    /\ UNCHANGED <<problem, strategy, live, cut_edges, selected, disabled, phase, todo, needs_update, by_set>>

Over(what, ns) == [i \in DOMAIN ns |-> <<what, ns[i]>>]

\* The end of the loop: after a fast cut another pass, else all nodes are updated.
EdgesDone ==
    /\ phase = "edges" /\ pass.agenda = <<>> /\ (pass.queue = <<>> \/ pass.fast)
    /\ IF pass.fast
       THEN Resolve(live, disabled, pass.retry + 1)
       ELSE LET ns == Only(Order, Visible)
            IN  /\ phase' = "update"
                /\ todo' = Over("update", ns) \o Over("streaming", ns)
                           \o IF strategy THEN Over("first", ns) \o Over("second", ns) ELSE <<>>
                /\ UNCHANGED <<bitset, paths, pass, needs_update, by_set>>
    /\ UNCHANGED <<problem, strategy, live, cut_edges, selected, disabled>>

\* Models are only discarded at a node that is not set, and if others are left.
Discarded(n, models) ==
    LET drop == bitset[n] \cap models
    IN  IF n \in DOMAIN selected \/ drop = bitset[n] THEN {} ELSE drop

\* The models of an operand of an output that stream.
invalidate_streaming_into_output(n) == Discarded(n, problem.streaming[n])

invalidate_suboptimal_op_models_for_op(n, tier) == Discarded(n, problem.suboptimal[tier][n])

\* The next node that resolve_step updates, or that a pass of resolve_step_postprocess looks at.
NextRoot ==
    /\ phase = "update" /\ needs_update = <<>> /\ todo # <<>>
    /\ todo' = Tail(todo)
    /\ LET what == Head(todo)[1]
           n == Head(todo)[2]
           drop == CASE what = "update" -> {}
                     [] what = "streaming" -> invalidate_streaming_into_output(n)
                     [] OTHER -> invalidate_suboptimal_op_models_for_op(n, what)
       IN  CASE what = "update" ->
                   needs_update' = <<n>> /\ UNCHANGED <<bitset, paths, disabled>>
             [] what # "update" /\ drop # {} ->
                   /\ disabled' = [disabled EXCEPT ![n] = @ \cup drop]
                   /\ Expand(n, [bitset EXCEPT ![n] = @ \ drop])
             [] OTHER -> UNCHANGED <<bitset, paths, disabled, needs_update>>
    /\ UNCHANGED <<problem, strategy, live, cut_edges, selected, phase, pass, by_set>>

\* One round of the loop of update_solver, and handle_no_paths_left_on_update.
UpdateNode ==
    /\ phase = "update" /\ needs_update # <<>>
    /\ LET n == Last(needs_update)
       IN  \E ins \in {OperandEdges(live, n)}, outs \in {UserEdges(live, n)} :
           \E w \in {UpdatedAt(Work(bitset, paths), ins, outs)} :
              CASE w.stop = "none" ->
                      /\ bitset' = w.bs /\ paths' = w.ps
                      /\ LET more == Revisits(w, n, ins, outs)
                         IN  needs_update' = IF more = <<>> THEN Front(needs_update)
                                             ELSE needs_update \o more
                      /\ UNCHANGED <<live, cut_edges, disabled, phase, pass, todo, by_set>>
                [] w.stop = "no paths" /\ by_set ->
                      Resolve(live, disabled, 1) /\ UNCHANGED <<live, cut_edges, disabled>>
                [] OTHER -> Throw
    /\ UNCHANGED <<problem, strategy, selected>>

\* The call returns to the policy.
Return ==
    /\ phase = "update" /\ needs_update = <<>> /\ todo = <<>>
    /\ phase' = "idle" /\ pass' = NoPass /\ by_set' = FALSE
    /\ UNCHANGED <<problem, strategy, live, cut_edges, selected, disabled, bitset, paths, todo, needs_update>>

-----------------------------------------------------------------------------
\* invalidate_suboptimal_op_models: the policies ask for it before they set the first model.
invalidate_suboptimal_op_models ==
    /\ phase = "idle" /\ "invalidate" \in problem.calls /\ ~strategy /\ selected = <<>>
    /\ strategy' = TRUE
    /\ LET ns == Only(Order, Visible)
       IN  todo' = Over("first", ns) \o Over("second", ns)
    /\ phase' = "update"
    /\ UNCHANGED <<problem, live, cut_edges, selected, disabled, bitset, paths, pass, needs_update, by_set>>

\* Mutant: the choice is not kept for the next resolve.
SetUncached(n, m) ==
    /\ phase = "idle" /\ n \in Visible \ DOMAIN selected
    /\ \A e \in live \cup cut_edges : e[2] = n => e[1] \in DOMAIN selected
    /\ m \in bitset[n]
    /\ selected' = With(selected, n, m)
    /\ Expand(n, [bitset EXCEPT ![n] = {m}])
    /\ phase' = "update" /\ by_set' = TRUE
    /\ UNCHANGED <<problem, strategy, live, cut_edges, disabled, pass, todo>>

\* set(): the policies select models in the order of the schedule, producers first.
Set(n, m) ==
    /\ phase = "idle" /\ n \in Visible \ DOMAIN selected
    /\ \A e \in live \cup cut_edges : e[2] = n => e[1] \in DOMAIN selected
    /\ m \in bitset[n]
    /\ selected' = With(selected, n, m)
    /\ disabled' = [disabled EXCEPT ![n] = Models \ {m}]
    /\ Expand(n, [bitset EXCEPT ![n] = {m}])
    /\ phase' = "update" /\ by_set' = TRUE
    /\ UNCHANGED <<problem, strategy, live, cut_edges, pass, todo>>

\* cut(): nodes that are not set are legalized again, and the graph is resolved.
Cut(es) ==
    /\ es # {}
    /\ live' = live \ es /\ cut_edges' = cut_edges \cup es
    /\ disabled' = Recomputed(Unset(es))
    /\ Resolve(live \ es, disabled', 1)
    /\ UNCHANGED <<problem, strategy, selected>>

\* cut_graph_solver_epoch: what is set is cut from what is not.
CutEpoch ==
    /\ phase = "idle" /\ "epoch" \in problem.calls
    /\ Cut({e \in live : e[1] \in DOMAIN selected /\ e[2] \notin DOMAIN selected})

\* cut_graph_solver_ribbon: the next op is cut from its operands.
CutRibbon(n) ==
    /\ phase = "idle" /\ "ribbon" \in problem.calls /\ n \notin DOMAIN selected
    /\ Cut({e \in live : e[2] = n /\ e[1] \in DOMAIN selected})

\* buffer(): a NOP on an edge; the ends keep the models that were set for them.
buffer(e) ==
    /\ phase = "idle" /\ "buffer" \in problem.calls /\ e \in live \cap DOMAIN Nop
    /\ LET edges == (live \ {e}) \cup {<<e[1], Nop[e]>>, <<Nop[e], e[2]>>}
       IN  /\ live' = edges
           /\ disabled' = Recomputed(Unset({e}) \cup {Nop[e]})
           /\ Resolve(edges, disabled', 1)
    /\ UNCHANGED <<problem, strategy, cut_edges, selected>>

\* set_filter_grid_size: only models like the preferred one stay; a failure here is final.
set_filter_grid_size(n, role) ==
    /\ phase = "idle" /\ "filter" \in problem.calls
    /\ n \in Visible \ DOMAIN selected /\ role \in bitset[n] /\ bitset[n] # {role}
    /\ disabled' = [disabled EXCEPT ![n] = @ \cup (bitset[n] \ {role})]
    /\ Expand(n, [bitset EXCEPT ![n] = {role}])
    /\ phase' = "update"
    /\ UNCHANGED <<problem, strategy, live, cut_edges, selected, pass, todo, by_set>>

\* finish() checks that every selected node has one model that is not disabled.
finish ==
    /\ phase = "idle" /\ DOMAIN selected = Visible
    /\ phase' = IF \A n \in DOMAIN selected : Cardinality(Models \ disabled[n]) = 1
                THEN "finished" ELSE "asserted"
    /\ UNCHANGED <<problem, strategy, live, cut_edges, selected, disabled, bitset, paths, pass, todo,
                   needs_update, by_set>>

Done == phase \in {"finished", "thrown", "asserted"} /\ UNCHANGED vars

SolverStep == ResolveEdge \/ ProcessNode \/ EdgesDone \/ NextRoot \/ UpdateNode \/ Return

Next ==
    \/ Construct \/ SolverStep \/ invalidate_suboptimal_op_models \/ CutEpoch \/ finish \/ Done
    \/ \E n \in Nodes : CutRibbon(n) \/ \E m \in Models : Set(n, m) \/ set_filter_grid_size(n, m)
    \/ \E e \in Edges : buffer(e)

Spec == Init /\ [][Next]_vars /\ WF_vars(SolverStep)

-----------------------------------------------------------------------------
AtRest == phase \in {"idle", "finished"}

\* f gives every node a model that is not disabled, every edge a pair it allows, and every
\* node costs within the limit.
Solves(f) ==
    /\ \A n \in DOMAIN f : f[n] \notin disabled[n]
    /\ \A e \in live : <<f[e[1]], f[e[2]]>> \in problem.fits[e]
    /\ \A n \in DOMAIN f :
          LET Total(es) == SumOf([i \in DOMAIN es |-> Cost[es[i]][<<f[es[i][1]], f[es[i][2]]>>]])
          IN  Total(UserEdges(live, n)) <= MaxCost /\ Total(OperandEdges(live, n)) <= MaxCost

\* Between calls every model that a node is offered has, on each edge, a partner that is
\* offered too, and no node is left without models: at() would assert, and a policy would
\* select a model that update_solver then finds no paths for on a neighbouring edge.
Reconciled ==
    AtRest => \A e \in live :
                 /\ paths[e] # {} /\ paths[e] \subseteq problem.fits[e]
                 /\ bitset[e[1]] = Producers(paths[e]) /\ bitset[e[2]] = Consumers(paths[e])

\* Pruning takes no solution away: every choice of models that the constraints allow, with
\* what is set and what is disabled, is still on offer, however many calls, self-cuts and
\* passes led here.
NothingLost ==
    AtRest => \A f \in [Visible -> Models] :
                 Solves(f) => \A n \in DOMAIN f : f[n] \in bitset[n]

\* What set() selected is never changed by the cuts, the buffering and the passes after it.
SelectionKept == AtRest => \A n \in DOMAIN selected : bitset[n] = {selected[n]}

\* The assertion of finish() holds whenever a policy may call it.
FinishPasses == AtRest => \A n \in DOMAIN selected : Cardinality(Models \ disabled[n]) = 1

\* What finish() hands over is a solution: allowed on every edge and within the cost of each node.
FinishedSolves == phase = "finished" => Solves(selected)

\* A policy that has come through set(), cut(), buffer() and all the passes they start gets what
\* it selected, and that is a solution.
SolutionLegal == SelectionKept /\ FinishPasses /\ FinishedSolves

\* Every call returns or throws: the passes of resolve() are bounded, the work list of
\* update_solver runs dry, although a round may put back more than it takes off.
CallsEnd == phase \in {"edges", "update"} ~> phase \notin {"edges", "update"}
=============================================================================
