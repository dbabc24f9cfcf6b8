------------------------------- MODULE FuseOps -------------------------------
(***************************************************************************)
(* Op fusion (passes/fuse_ops.cpp).  The pass grows groups of ops from     *)
(* each op in topological order, prunes a group until it has one output,   *)
(* replaces tile-broadcast matmuls by TMs on the edges, and puts a fused   *)
(* op in the place of every group.  A fused op is a list of schedules that *)
(* run its ops over a few intermediate buffers and the dest register.      *)
(*                                                                         *)
(* An op is its position in the topological order the pass computes once,  *)
(* and a fused op takes the position of its output; 0 is a queue or a      *)
(* constant.  A TM is a broadcast "r" or "c", a "tile" broadcast, or       *)
(* "other".  The kind of an op is what the pass tells apart: "reduce_r"    *)
(* and "reduce_c" are reducing matmuls, "bcast" a matmul with one tile,    *)
(* "none" whatever is never fused.                                         *)
(***************************************************************************)
EXTENDS Integers, FiniteSets, Sequences, SequencesExt, FiniteSetsExt, Functions

CONSTANTS
    Graphs,         \* [operands, kind, epoch, amp, outs, loops], over ops 1 .. n
    MaxInputs,      \* kMaxNumInputs
    MaxDramInputs,  \* kMaxNumDRAMInputs
    NumBuffers,     \* of the BufferAllocator
    SrcAOnly        \* the values of reuse_dest_on_srcA_only

ASSUME FuseAssumption == {MaxInputs, MaxDramInputs, NumBuffers} \subseteq Nat \ {0}

MaxConnections == MaxInputs + 1

VARIABLES
    g,              \* the graph the pass was called with
    operands,       \* op -> its operand edges, a sequence of [src, tms]
    phase,
    at,             \* the op, or the group, the loop of this phase is at
    group,          \* the FusionGroup that is being grown: [nodes, reduce, amp]
    calls,          \* the calls of expand_search that are still to be made
    cleared,        \* cleared_nodes
    fused_nodes,    \* op -> number of its group, 0 where fusing it failed
    groups,         \* fused_ops: [nodes, output]
    sched,          \* create_schedules in progress
    fused           \* output op -> FusedOp

vars == <<g, operands, phase, at, group, calls, cleared, fused_nodes, groups, sched, fused>>
growing == <<group, calls, cleared, fused_nodes, groups>>

-----------------------------------------------------------------------------
(* The graph.                                                              *)
Count == Len(g.kind)
Ops == DOMAIN operands

\* User edges <<consumer, port>>, by port and then by age.
UserEdges(n) ==
    LET all == [i \in 1 .. 2 * Count |-> <<((i - 1) % Count) + 1, ((i - 1) \div Count) + 1>>]
    IN  SelectSeq(all, LAMBDA e : /\ e[1] \in Ops /\ e[2] \in DOMAIN operands[e[1]]
                                  /\ operands[e[1]][e[2]].src = n)

Users(n) == {u \in Ops : \E k \in DOMAIN operands[u] : operands[u][k].src = n}

IsMatmul(n) == g.kind[n] \in {"reduce_r", "reduce_c", "bcast"}
IsReduce(n) == g.kind[n] \in {"reduce_r", "reduce_c"}

\* Edges from outside a set of ops, the ones from queues among them, and edges to the outside.
EdgesInto(S) == {<<n, k>> \in S \X (1 .. 2) : k \in DOMAIN operands[n] /\ operands[n][k].src \notin S}
DramEdges(S) == {e \in EdgesInto(S) : operands[e[1]][e[2]].src = 0}
EdgesOut(S) == {<<n, k>> \in (Ops \ S) \X (1 .. 2) : k \in DOMAIN operands[n] /\ operands[n][k].src \in S}
get_connection_count(S) ==
    Cardinality(EdgesInto(S)) + Cardinality(EdgesOut(S)) + Cardinality(S \cap g.outs)

\* get_input_cone: what op n is computed from within S, up to base ops if it is to stop there.
get_input_cone(S, n, stop) ==
    FoldLeft(LAMBDA cone, i :
                IF /\ n - i \in S /\ Users(n - i) \cap cone # {}
                   /\ ~(stop /\ IsMatmul(n - i))
                THEN cone \cup {n - i} ELSE cone,
             {n}, [i \in 1 .. n - 1 |-> i])

are_allowed_tms(tms, matmul) ==
    /\ "other" \notin Range(tms)
    /\ Len(SelectSeq(tms, LAMBDA t : t \in {"r", "c"})) <= 1
    /\ matmul => "r" \notin Range(tms)

-----------------------------------------------------------------------------
EmptyGroup == [nodes |-> {}, reduce |-> "none", amp |-> 0]
NoSched == [bases |-> {}, order |-> <<>>]

Init ==
    /\ g \in Graphs
    /\ operands = g.operands
    /\ phase = "topo" /\ at = 1
    /\ group = EmptyGroup /\ calls = <<>> /\ cleared = {}
    /\ fused_nodes = <<>> /\ groups = <<>>
    /\ sched = NoSched /\ fused = <<>>

should_fuse_node(n) ==
    LET S == group.nodes \cup {n}
    IN  /\ n \notin DOMAIN fused_nodes
        /\ {g.amp[n], group.amp} \subseteq {0, Max({g.amp[n], group.amp})}
        /\ Cardinality(EdgesInto(S)) <= MaxInputs
        /\ Cardinality(DramEdges(S)) <= MaxDramInputs
        /\ get_connection_count(S) < MaxConnections
        /\ g.kind[n] # "none"
        /\ \A m \in group.nodes : g.epoch[m] = g.epoch[n]
        /\ IsReduce(n) => group.reduce \in {"none", g.kind[n]}
        /\ \A k \in DOMAIN operands[n] :
              operands[n][k].src \in group.nodes =>
                 ~(IsReduce(n) /\ k = 2) /\ are_allowed_tms(operands[n][k].tms, IsMatmul(n))

\* The calls that expand_search makes from an op it has added.
Neighbours(n) ==
    LET es == operands[n]
        ks == SelectSeq([k \in DOMAIN es |-> k],
                        LAMBDA k : /\ es[k].src # 0 /\ ~(IsReduce(n) /\ k = 2)
                                   /\ are_allowed_tms(es[k].tms, IsMatmul(n)))
        us == IF g.kind[n] = "exp" THEN <<>> ELSE UserEdges(n)
    IN  [i \in DOMAIN ks |-> es[ks[i]].src] \o [i \in DOMAIN us |-> us[i][1]]

\* The loop of fuse_ops over the ops.
Visit ==
    /\ phase = "topo" /\ at <= Count
    /\ IF should_fuse_node(at)
       THEN phase' = "expand" /\ calls' = <<at>> /\ UNCHANGED at
       ELSE at' = at + 1 /\ UNCHANGED <<phase, calls>>
    /\ UNCHANGED <<g, operands, group, cleared, fused_nodes, groups, sched, fused>>

expand_search ==
    /\ phase = "expand" /\ calls # <<>>
    /\ LET n == Head(calls)
       IN  IF should_fuse_node(n)
           THEN /\ group' = [nodes |-> group.nodes \cup {n},
                             reduce |-> IF IsReduce(n) THEN g.kind[n] ELSE group.reduce,
                             amp |-> Max({g.amp[n], group.amp})]
                /\ fused_nodes' = (n :> Len(groups) + 1) @@ fused_nodes
                /\ calls' = Neighbours(n) \o Tail(calls)
           ELSE calls' = Tail(calls) /\ UNCHANGED <<group, fused_nodes>>
    /\ UNCHANGED <<g, operands, phase, at, cleared, groups, sched, fused>>

ExpandDone ==
    /\ phase = "expand" /\ calls = <<>>
    /\ phase' = "wraps" /\ cleared' = {}
    /\ UNCHANGED <<g, operands, at, group, calls, fused_nodes, groups, sched, fused>>

-----------------------------------------------------------------------------
(* legalize: the group loses ops until it has one output.                  *)

\* converge_back_on_fused_op: the ops of the group found below op u outside it.
ConvergeBack(u) ==
    LET below == FoldLeft(LAMBDA seen, i :
                             IF \E m \in seen : u + i \in Users(m) \ group.nodes
                                                /\ g.epoch[m] = g.epoch[u + i]
                             THEN seen \cup {u + i} ELSE seen,
                          {u}, [i \in 1 .. Count - u |-> i])
    IN  UNION {Users(m) : m \in below} \cap group.nodes

\* remove_op_and_below.
Below(n) ==
    FoldLeft(LAMBDA S, i : IF n + i \in UNION {Users(m) : m \in S} \cap group.nodes
                           THEN S \cup {n + i} ELSE S,
             {n}, [i \in 1 .. Count - n |-> i])

RemoveOps(S) ==
    /\ group' = [group EXCEPT !.nodes = @ \ S]
    /\ fused_nodes' = Restrict(fused_nodes, DOMAIN fused_nodes \ S)

Converging(n) == UNION {ConvergeBack(u) : u \in Users(n) \ group.nodes}

\* One op of the loop of remove_fork_wraps, which takes them in any order.
RemoveForkWraps ==
    /\ phase = "wraps" /\ Cardinality(group.nodes) > 1
    /\ \E n \in group.nodes \ cleared :
          IF Converging(n) = {}
          THEN cleared' = cleared \cup {n} /\ UNCHANGED <<group, fused_nodes>>
          ELSE /\ \E c \in Converging(n) : RemoveOps(Below(c))
               /\ UNCHANGED cleared
    /\ UNCHANGED <<g, operands, phase, at, calls, groups, sched, fused>>

WrapsDone ==
    /\ phase = "wraps" /\ (Cardinality(group.nodes) <= 1 \/ group.nodes \subseteq cleared)
    /\ phase' = "output"
    /\ UNCHANGED <<g, operands, at, growing, sched, fused>>

\* What pick_first_output takes for an output.
IsOutput(n, S) == n \in g.loops \cup g.outs \/ Users(n) \ S # {}

\* The group is done with, and the loop goes on.
NextOp == phase' = "topo" /\ at' = at + 1 /\ cleared' = {}

\* Mutant: the search is not repeated when ops were removed.
PickFirstOutputOnce ==
    /\ phase = "output" /\ Cardinality(group.nodes) > 1
    /\ LET first == Min({n \in group.nodes : IsOutput(n, group.nodes)})
           cone == get_input_cone(group.nodes, first, FALSE)
       IN  /\ groups' = Append(groups, [nodes |-> cone, output |-> first])
           /\ fused_nodes' = Restrict(fused_nodes, DOMAIN fused_nodes \ (group.nodes \ cone))
           /\ group' = EmptyGroup
           /\ NextOp
    /\ UNCHANGED <<g, operands, calls, sched, fused>>

\* pick_first_output; the last time round nothing is removed, and the group is complete.
PickFirstOutput ==
    /\ phase = "output" /\ Cardinality(group.nodes) > 1
    /\ LET first == Min({n \in group.nodes : IsOutput(n, group.nodes)})
           cone == get_input_cone(group.nodes, first, FALSE)
       IN  IF cone # group.nodes
           THEN RemoveOps(group.nodes \ cone) /\ UNCHANGED <<phase, at, cleared, groups>>
           ELSE /\ groups' = Append(groups, [nodes |-> cone, output |-> first])
                /\ group' = EmptyGroup
                /\ NextOp
                /\ UNCHANGED fused_nodes
    /\ UNCHANGED <<g, operands, calls, sched, fused>>

\* Fewer than two ops are left: clear().  The group is used again, with the reduce dimension
\* and the overrides of the ops it had.
LegalizeFails ==
    /\ phase = "output" /\ Cardinality(group.nodes) <= 1
    /\ group' = [group EXCEPT !.nodes = {}]
    /\ fused_nodes' = [n \in group.nodes |-> 0] @@ fused_nodes
    /\ NextOp
    /\ UNCHANGED <<g, operands, calls, groups, sched, fused>>

GrowthDone ==
    /\ phase = "topo" /\ at > Count
    /\ phase' = "replace" /\ at' = 1
    /\ UNCHANGED <<g, operands, growing, sched, fused>>

-----------------------------------------------------------------------------
(* replace_tile_broadcasts.                                                *)
InGroup(n) == n \in DOMAIN fused_nodes /\ fused_nodes[n] # 0

HasTile(e) == "tile" \in Range(e.tms)

\* is_tile_broadcast_replaceable for the edge from op n at port k of u, the source edge being e.
\* The TM can only be on port 2: on port 1 the operands must be swapped.
Swappable(w, u) ==
    Len(w.operands[u]) = 2 /\ g.kind[u] # "sub" /\ ~IsMatmul(u) /\ ~HasTile(w.operands[u][2])

IsReplaceable(w, u, k, e) ==
    /\ InGroup(u) /\ Len(w.operands[u]) <= 2 /\ ~IsMatmul(u)
    /\ k = 1 => Swappable(w, u)
    /\ ~HasTile(w.operands[u][k])
    /\ InGroup(e.src) => are_allowed_tms(w.operands[u][k].tms \o e.tms, FALSE)

\* One user edge; the swap stays even if the edge cannot be replaced after all.
ReplaceEdge(w, edge, e) ==
    LET u == edge[1]
        swap == edge[2] = 1 /\ InGroup(u) /\ Swappable(w, u)
        ports == IF swap THEN Reverse(w.operands[u]) ELSE w.operands[u]
        merged == [src |-> e.src, tms |-> Reverse(e.tms) \o <<"tile">> \o ports[2].tms]
    IN  IF ~w.ok THEN w
        ELSE IF IsReplaceable(w, u, edge[2], e)
             THEN [w EXCEPT !.operands[u] = [ports EXCEPT ![2] = merged]]
             ELSE [w EXCEPT !.operands[u] = ports, !.ok = FALSE]

\* The broadcast op at this position, unless it is the output of its group: its users read its
\* source through a TM, and if all do it leaves its group and the graph.  An output and a
\* loopback edge go to a node that is no op, and stay.
Replace ==
    /\ phase = "replace" /\ at <= Count /\ at' = at + 1
    /\ LET w == FoldLeft(LAMBDA v, e : ReplaceEdge(v, e, operands[at][1]),
                         [operands |-> operands, ok |-> TRUE], UserEdges(at))
           i == fused_nodes[at]
       IN  IF g.kind[at] # "bcast" \/ (InGroup(at) /\ groups[i].output = at)
           THEN UNCHANGED <<operands, groups, fused_nodes>>
           ELSE IF ~w.ok \/ at \in g.outs \cup g.loops
           THEN operands' = w.operands /\ UNCHANGED <<groups, fused_nodes>>
           ELSE /\ operands' = Restrict(w.operands, Ops \ {at})
                /\ groups' = IF InGroup(at) THEN [groups EXCEPT ![i].nodes = @ \ {at}] ELSE groups
                /\ fused_nodes' = IF InGroup(at)
                                  THEN Restrict(fused_nodes, DOMAIN fused_nodes \ {at})
                                  ELSE fused_nodes
    /\ UNCHANGED <<g, phase, group, calls, cleared, sched, fused>>

ReplaceDone ==
    /\ phase = "replace" /\ at > Count
    /\ phase' = "fuse" /\ at' = 1
    /\ UNCHANGED <<g, operands, growing, sched, fused>>

-----------------------------------------------------------------------------
(* fuse and create_schedules, for one group after the other.               *)
Nodes == groups[at].nodes

AssertFails == phase' = "asserted" /\ UNCHANGED sched

\* fuse looks for the output: after it, in topological order, no op may have a user.
StartFuse ==
    /\ phase = "fuse" /\ at <= Len(groups)
    /\ LET outputs == {n \in Nodes : IsOutput(n, Nodes)}
           output == Min(outputs)
       IN  CASE Nodes = {} -> at' = at + 1 /\ UNCHANGED <<phase, sched>>
             [] Nodes # {} /\ \/ outputs = {}
                              \/ \E n \in Nodes : n > output /\ (Users(n) # {} \/ IsOutput(n, Nodes)) ->
                   AssertFails /\ UNCHANGED at
             [] OTHER ->
                   /\ phase' = "order"
                   /\ \E srcA \in SrcAOnly :
                         sched' = [bases |-> {n \in Nodes : IsMatmul(n)}, order |-> <<>>,
                                   output |-> output, srcA |-> srcA]
                   /\ UNCHANGED at
    /\ UNCHANGED <<g, operands, growing, fused>>

\* A base op whose dependencies are scheduled comes next; the output has the last schedule.
OrderSchedules ==
    /\ phase = "order"
    /\ LET left == sched.bases \ Range(sched.order)
           Ready(n) == get_input_cone(Nodes, n, FALSE) \cap left = {n}
           all == IF sched.order # <<>> /\ Last(sched.order) = sched.output THEN sched.order
                  ELSE Append(sched.order, sched.output)
           cone(i) == get_input_cone(Nodes, all[i], TRUE)
           topos == [i \in DOMAIN all |-> SetToSortSeq(cone(i), LAMBDA a, b : a < b)]
       IN  CASE \E n \in left : Ready(n) ->
                   /\ \E n \in left : Ready(n) /\ sched' = [sched EXCEPT !.order = Append(@, n)]
                   /\ UNCHANGED phase
             [] left # {} /\ \A n \in left : ~Ready(n) -> AssertFails
             [] left = {} ->
                   /\ phase' = "emit"
                   /\ sched' = [topos |-> topos, output |-> sched.output, srcA |-> sched.srcA,
                                now |-> 1, pos |-> 1, buffers |-> <<>>, owner |-> <<>>,
                                black |-> {}, prev |-> 0, inputs |-> <<>>,
                                schedules |-> [i \in DOMAIN all |-> <<>>]]
    /\ UNCHANGED <<g, operands, at, growing, fused>>

\* How often the ops of each schedule read op n.
Readers(n) ==
    [i \in DOMAIN sched.topos |->
        Cardinality({e \in Range(sched.topos[i]) \X (1 .. 2) :
                        e[2] \in DOMAIN operands[e[1]] /\ operands[e[1]][e[2]].src = n})]

\* BufferAllocator::allocate: the first buffer that is free and may be used; 0 if there is none.
Free(w) == (1 .. NumBuffers) \ (DOMAIN w.buffers \cup w.black)

allocate(w, n) ==
    LET b == Min(Free(w))
        users == IF IsMatmul(n) THEN Readers(n)
                 ELSE [i \in DOMAIN sched.topos |-> IF i = sched.now THEN Readers(n)[i] ELSE 0]
    IN  IF Free(w) = {} THEN [w EXCEPT !.ok = FALSE]
        ELSE [w EXCEPT !.buffers = (b :> [users |-> users, in |-> sched.now]) @@ @,
                       !.owner = (n :> b) @@ @, !.out = b]

\* BufferAllocator::deallocate.
deallocate(w, b) ==
    LET left == [w.buffers[b].users EXCEPT ![sched.now] = @ - 1]
        done == left[sched.now] = 0 /\ \A i \in DOMAIN left : i > sched.now => left[i] = 0
        late == w.buffers[b].in # sched.now
    IN  IF ~done THEN [w EXCEPT !.buffers[b].users = left]
        ELSE [w EXCEPT !.buffers = Restrict(@, DOMAIN @ \ {b}),
                       !.pops = IF late THEN @ ELSE Append(@, b),
                       !.last = IF late THEN Append(@, b) ELSE @,
                       !.black = IF late THEN @ \cup {b} ELSE @]

\* Operand k of op n: an input of the fused op, or a buffer.
TakeOperand(w, n, k) ==
    LET e == operands[n][k]
        b == w.owner[e.src]
    IN  IF e.src \notin Nodes
        THEN [w EXCEPT !.inputs = Append(@, e),
                       !.args = Append(@, [type |-> "INPUT", index |-> Len(w.inputs) + 1])]
        ELSE IF ~(e.src \in DOMAIN w.owner /\ b \in DOMAIN w.buffers /\ w.buffers[b].users[sched.now] > 0)
        THEN [w EXCEPT !.asserted = TRUE]
        ELSE [deallocate(w, b) EXCEPT !.args = Append(@, [type |-> "INTERMED", index |-> b])]

\* reuse_dest_if_possible: the argument that dest can be used for, as a set.
DestArgs(w, n) ==
    LET ks == {k \in DOMAIN w.args : w.args[k] = [type |-> "INTERMED", index |-> sched.prev]}
        Usable(k) == /\ Range(operands[n][k].tms) \cap {"r", "c"} = {}
                     /\ ~(HasTile(operands[n][k]) /\ k > 1)
                     /\ sched.srcA => k = 1
    IN  IF /\ sched.prev \in Range(w.pops) /\ ~IsMatmul(n) /\ g.kind[n] # "maximum"
           /\ Cardinality(ks) = 1 /\ \A k \in ks : Usable(k)
        THEN ks ELSE {}

\* Mutant: the buffer of a reduce is allocated when its operands have been released.
SubOpReduceInPlace(n) ==
    LET w0 == [buffers |-> sched.buffers, owner |-> sched.owner, black |-> sched.black,
               inputs |-> sched.inputs, args |-> <<>>, pops |-> <<>>, last |-> <<>>, out |-> 0,
               ok |-> TRUE, asserted |-> FALSE]
        w2 == FoldLeft(LAMBDA w, k : IF w.asserted THEN w ELSE TakeOperand(w, n, k), w0,
                       [k \in DOMAIN operands[n] |-> k])
    IN  IF n = sched.output \/ ~w2.ok \/ w2.asserted THEN w2 ELSE allocate(w2, n)

\* One op: a reduce accumulates in a buffer of its own, the others may write to one they
\* have just released.
SubOp(n) ==
    LET w0 == [buffers |-> sched.buffers, owner |-> sched.owner, black |-> sched.black,
               inputs |-> sched.inputs, args |-> <<>>, pops |-> <<>>, last |-> <<>>, out |-> 0,
               ok |-> TRUE, asserted |-> FALSE]
        inner == n # sched.output
        w1 == IF IsReduce(n) /\ inner THEN allocate(w0, n) ELSE w0
        w2 == FoldLeft(LAMBDA w, k : IF w.asserted THEN w ELSE TakeOperand(w, n, k), w1,
                       [k \in DOMAIN operands[n] |-> k])
    IN  IF IsReduce(n) \/ ~inner \/ ~w2.ok \/ w2.asserted THEN w2 ELSE allocate(w2, n)

\* The sub-op is added to the schedule, and the one before it is told to leave its result in
\* dest if this one takes it from there.
EmitSubOp ==
    /\ phase = "emit" /\ sched.now <= Len(sched.topos)
    /\ LET n == sched.topos[sched.now][sched.pos]
           last == sched.pos = Len(sched.topos[sched.now])
       IN  \E w \in {SubOp(n)} :
             LET dest == DestArgs(w, n)
                 so_far == sched.schedules[sched.now]
                 before == IF dest = {} THEN so_far
                           ELSE [so_far EXCEPT ![Len(so_far)].type = "DEST"]
                 op == [op |-> n,
                        args |-> [k \in DOMAIN w.args |->
                                     IF k \in dest THEN [w.args[k] EXCEPT !.type = "DEST"] ELSE w.args[k]],
                        type |-> IF n = sched.output THEN "OUTPUT" ELSE "INTERMED", buffer |-> w.out,
                        pops |-> IF dest = {} THEN Range(w.pops) ELSE Range(w.pops) \ {sched.prev},
                        last |-> Range(w.last)]
             IN  CASE w.asserted -> AssertFails
                   [] ~w.ok /\ ~w.asserted -> phase' = "thrown" /\ UNCHANGED sched
                   [] OTHER ->
                      /\ sched' = [sched EXCEPT
                            !.buffers = w.buffers, !.owner = w.owner, !.inputs = w.inputs,
                            !.black = IF last THEN {} ELSE w.black,
                            !.prev = IF last \/ w.out = 0 \/ g.kind[n] = "maximum" THEN 0 ELSE w.out,
                            !.now = IF last THEN @ + 1 ELSE @,
                            !.pos = IF last THEN 1 ELSE @ + 1,
                            !.schedules[sched.now] = Append(before, op)]
                      /\ UNCHANGED phase
    /\ UNCHANGED <<g, operands, at, growing, fused>>

\* The end of fuse: the fused op reads the inputs in the order of the schedules, and the users
\* of the output read the fused op.  The overrides of its ops are merged.
FinishFuse ==
    /\ phase = "emit" /\ sched.now > Len(sched.topos)
    /\ IF Cardinality({g.amp[n] : n \in Nodes} \ {0}) > 1
       THEN AssertFails /\ UNCHANGED <<operands, at, fused>>
       ELSE /\ fused' = (sched.output :> [nodes |-> Nodes, operands |-> Restrict(operands, Nodes),
                                          inputs |-> sched.inputs, schedules |-> sched.schedules]) @@ fused
            /\ operands' = (sched.output :> sched.inputs) @@ Restrict(operands, Ops \ Nodes)
            /\ phase' = "fuse" /\ at' = at + 1 /\ sched' = NoSched
    /\ UNCHANGED <<g, growing>>

FuseDone ==
    /\ phase = "fuse" /\ at > Len(groups)
    /\ phase' = "done"
    /\ UNCHANGED <<g, operands, at, growing, sched, fused>>

Done == phase \in {"done", "thrown", "asserted"} /\ UNCHANGED vars

PassStep ==
    \/ Visit \/ expand_search \/ ExpandDone \/ RemoveForkWraps \/ WrapsDone
    \/ PickFirstOutput \/ LegalizeFails \/ GrowthDone \/ Replace \/ ReplaceDone
    \/ StartFuse \/ OrderSchedules \/ EmitSubOp \/ FinishFuse \/ FuseDone

Next == PassStep \/ Done

Spec == Init /\ [][Next]_vars /\ WF_vars(PassStep)

-----------------------------------------------------------------------------
(* What the backend does with the schedules of a fused op: an op reads its *)
(* arguments, buffers it pops are empty from then on, those it pops last   *)
(* when the schedule ends, and its result goes to dest or to a buffer that *)
(* must be empty, for a reduce before it reads anything.                   *)
RunSubOp(f, s, q) ==
    LET Right(k) == LET a == q.args[k]
                        e == f.operands[q.op][k]
                    IN  CASE a.type = "INPUT" -> f.inputs[a.index] = e /\ e.src \notin f.nodes
                          [] a.type = "INTERMED" -> a.index \in DOMAIN s.full /\ s.full[a.index] = e.src
                          [] a.type = "DEST" -> s.dest = e.src
        left == Restrict(s.full, DOMAIN s.full \ q.pops)
        taken == IF IsReduce(q.op) THEN DOMAIN s.full ELSE DOMAIN left
    IN  [full |-> IF q.type = "INTERMED" THEN (q.buffer :> q.op) @@ left ELSE left,
         dest |-> IF q.type = "DEST" THEN q.op ELSE 0,
         late |-> s.late \cup q.last,
         ok |-> /\ s.ok /\ q.pops \cup q.last \subseteq DOMAIN s.full
                /\ Len(q.args) = Len(f.operands[q.op]) /\ \A k \in DOMAIN q.args : Right(k)
                /\ q.type = "INTERMED" => q.buffer \notin taken]

RunSchedule(f, s, ops) ==
    LET t == FoldLeft(LAMBDA v, q : RunSubOp(f, v, q), s, ops)
        left == Restrict(t.full, DOMAIN t.full \ t.late)
    IN  [full |-> left, dest |-> 0, late |-> {},
         ok |-> t.ok /\ \A b \in DOMAIN left : IsMatmul(left[b])]

Computes(f, output) ==
    LET end == FoldLeft(LAMBDA s, ops : RunSchedule(f, s, ops),
                        [full |-> <<>>, dest |-> 0, late |-> {}, ok |-> TRUE], f.schedules)
    IN  /\ end.ok /\ end.full = <<>>
        /\ Last(Last(f.schedules)).op = output /\ Last(Last(f.schedules)).type = "OUTPUT"

\* Run like that, every op of a fused op reads the values of its own operands, whatever was
\* put in the same buffer or left in dest before, in this schedule or an earlier one, and all
\* buffers end up empty.
SchedulesCompute == \A n \in DOMAIN fused : Computes(fused[n], n)

\* Fusion keeps the graph: no op reads one that is gone, no op reads one that comes after it (a
\* fused op being where its output was, so there is no cycle through a group), every op is left,
\* or in one fused op, or a broadcast that became a TM, and the assertions of the pass hold.
FusedGraphSound ==
    /\ phase # "asserted"
    /\ phase = "done" =>
          /\ \A n \in Ops : \A k \in DOMAIN operands[n] :
                LET s == operands[n][k].src IN s = 0 \/ (s \in Ops /\ s < n)
          /\ \A n \in 1 .. Count :
                Cardinality({m \in DOMAIN fused : n \in fused[m].nodes}) =
                   IF n \in Ops \ DOMAIN fused \/ (n \notin Ops /\ g.kind[n] = "bcast"
                       /\ \A m \in DOMAIN fused : n \notin fused[m].nodes) THEN 0 ELSE 1
=============================================================================
