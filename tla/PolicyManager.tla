---------------------------- MODULE PolicyManager ----------------------------
(***************************************************************************)
(* The policy manager (balancer/policies/policy_manager.cpp): it walks the *)
(* schedule for a balancer policy, places every op with the interactive    *)
(* placer and selects its op model in the graph solver, binds a sparse     *)
(* matmul to the dense one it feeds, cuts the graph where an epoch ends or *)
(* the ribbon changes, and takes an epoch back when the fork-joins in it   *)
(* have to be buffered or the buffered epoch no longer fits.               *)
(*                                                                         *)
(* It composes the scheduler (operators of Scheduler), the interactive     *)
(* placer (P, whose place_op and rewind_to take several steps, so that an  *)
(* action of the manager ends where it calls the placer) and what the      *)
(* manager sees of the graph solver: the graph with the buffers and cuts   *)
(* of this solver instance, and which ops are set.  What op models there   *)
(* are to select, which ribbon size is picked and which buffers            *)
(* insert_fork_join_buffering asks for are nondeterministic choices.       *)
(***************************************************************************)
EXTENDS Scheduler, TLC

CONSTANTS Configs, MaxTemporalEpochs,
          MaxNops,          \* bound on the NOPs of one buffering instruction
          MaxInstructions   \* bound on the instructions for one epoch

VARIABLES
    config, valid, sorted_chip_ids, remaining_chip_ids, current_chip_id,
    current_epoch_index, current_temporal_epoch_id, current_spatial_epoch_id,
    placed_ops, visited_ops, name_to_op_placement, epoch, num_epochs, call, replay, assign,
                  \* of the placer
    pc,           \* what the policy does next
    m,            \* the members of the manager
    epoch_types   \* the type next_epoch gave each temporal epoch

placer == <<valid, sorted_chip_ids, remaining_chip_ids, current_chip_id, current_epoch_index,
            current_temporal_epoch_id, current_spatial_epoch_id, placed_ops, visited_ops,
            name_to_op_placement, epoch, num_epochs, call, replay, assign>>
vars == <<config, placer, pc, m, epoch_types>>

P == INSTANCE InteractivePlacer WITH Op <- {}

epoch_empty == placed_ops = <<>>
Placed(op) == op \in DOMAIN name_to_op_placement

-----------------------------------------------------------------------------
(***************************************************************************)
(* The graph solver: [graph, selected, cuts], and ok, whether its          *)
(* assertions held.                                                        *)
(***************************************************************************)
NoSolver == <<>>

Set(s, op) == [s EXCEPT !.selected = @ \cup {op}, !.ok = @ /\ op \notin s.selected]

WithNode(g, n, attributes) ==
    [g EXCEPT !.node = [x \in DOMAIN @ \cup {n} |-> IF x = n THEN attributes ELSE @[x]]]

\* The edge gives way to one to the node and one from it.
Through(g, e, n) ==
    [g EXCEPT !.data = SelectSeq(@, LAMBDA x : x # e) \o <<<<e[1], n, 0>>, <<n, e[2], e[3]>>>>]

queue_id(e) == 100000 * e[1] + 100 * e[2] + e[3]

\* A virtual queue on every edge; an edge is cut once, and not between ops
\* that are both set.
cut(s, edges, epoch_cut) ==
    LET queue(e) == [s.graph.node[e[2]] EXCEPT !.sparse = FALSE, !.origin = 0, !.dim = 0, !.dp = FALSE,
                           !.top = FALSE, !.bottom = FALSE, !.frac = 0,
                           !.kind = IF epoch_cut THEN "e2e_queue" ELSE "buffering_queue"]
        one(g, e) == Through(WithNode(g, queue_id(e), queue(e)), e, queue_id(e))
    IN  [s EXCEPT !.graph = FoldLeft(one, @, edges),
                  !.cuts = @ \cup {<<e, epoch_cut>> : e \in Range(edges)},
                  !.ok = @ /\ \A e \in Range(edges) :
                              /\ \A c \in s.cuts : c[1] # e
                              /\ ~({e[1], e[2]} \subseteq s.selected)]

\* insert_node_on_edge: the NOP takes the control and fwd-to-bwd edges of the
\* consumer, or else the fwd-to-bwd edges of a backward producer.
AdjustEdges(g, e, n) ==
    LET to(edges, x) == Mapped(SelectSeq(edges, LAMBDA y : y[2] = x), LAMBDA y : <<y[1], n>>)
        none == to(g.control, e[2]) = <<>> /\ to(g.grad, e[2]) = <<>>
        producers == IF none /\ g.node[e[1]].type # Forward THEN to(g.grad, e[1]) ELSE <<>>
    IN  [g EXCEPT !.control = @ \o to(@, e[2]), !.grad = @ \o to(@, e[2]) \o producers,
                  !.recompute = @ \o to(@, e[2])]

nop_id(s, d, k) == 1000 * k + 10 * s + d

\* buffer: NOPs between two ops, the later one nearer to the producer.
buffer(g, src, dest, count) ==
    LET one(h, k) ==
            LET to == IF k = 1 THEN dest ELSE nop_id(src, dest, k - 1)
                e == SelectSeq(h.data, LAMBDA x : x[1] = src /\ x[2] = to)[1]
                n == nop_id(src, dest, k)
                nop == [h.node[src] EXCEPT !.kind = "nop", !.sparse = FALSE, !.origin = 0,
                                           !.dim = 0, !.top = FALSE, !.bottom = FALSE,
                                           !.frac = 0, !.dp = FALSE]
            IN  AdjustEdges(Through(WithNode(h, n, nop), e, n), e, n)
    IN  FoldLeft(one, g, [k \in 1 .. count |-> k])

\* buffer_graph: the NOPs of the instructions, then a cut for every queue.
\* An instruction is [src, dest, nops]; without NOPs it asks for a queue.
buffer_graph(s, inst) ==
    LET between(i) == SelectSeq(s.graph.data, LAMBDA e : e[1] = i.src /\ e[2] = i.dest)
        nops == SetToSeq({i \in inst : i.nops > 0})
        queues == SetToSeq({i \in inst : i.nops = 0})
        buffered == [s EXCEPT !.graph = FoldLeft(LAMBDA g, i : buffer(g, i.src, i.dest, i.nops), @, nops),
                              !.ok = @ /\ \A i \in Range(nops) : Len(between(i)) = 1]
    IN  IF queues = <<>> THEN buffered
        ELSE Of(buffered, LAMBDA b : cut(b, Mapped(queues, LAMBDA i : between(i)[1]), FALSE))

-----------------------------------------------------------------------------
(***************************************************************************)
(* The schedule and its breaks.  A break is a set of ops: the one that is  *)
(* scheduled first starts an epoch or a chip.                              *)
(***************************************************************************)
tag_ops_for_epoch_or_chip_break(g, breaks, schedule) ==
    LET first(names) == schedule[SelectInSeq(schedule, LAMBDA o : o \in names)]
        dp(i) == i > 0 /\ g.node[schedule[i]].dp
    IN  {first(names) : names \in Range(breaks)}
        \cup {schedule[i] : i \in {j \in DOMAIN schedule : dp(j) # dp(j - 1)}}

tag_ops_for_epoch_break(g, epoch_breaks, chip_breaks, schedule) ==
    IF config.single_op_epochs THEN Range(schedule)
    ELSE tag_ops_for_epoch_or_chip_break(g, epoch_breaks \o
             (IF config.pipelined THEN chip_breaks ELSE <<>>) \o
             (IF config.pipelined /\ config.nebula THEN SetToSeq({{o} : o \in config.output}) ELSE <<>>),
             schedule)

\* policy_run_scheduler: reschedule what is not processed yet and tag it again;
\* a break with a processed op is dropped.
policy_run_scheduler(mm, processed_schedule) ==
    LET g == mm.solver.graph
        processed == Range(processed_schedule)
        constraints == config.constraints \o IF processed = {} THEN <<>> ELSE <<processed_schedule>>
        open(breaks) == SelectSeq(breaks, LAMBDA names : names \cap processed = {})
        e == open(mm.op_names_to_epoch_break)
        c == open(mm.op_names_to_chip_break)
        ok(schedule) ==
            /\ schedule # <<>> /\ Cardinality(processed) = Len(processed_schedule)
            /\ \A names \in Range(e \o c) : names \subseteq Range(schedule)
        rescheduled(schedule) ==
            [mm EXCEPT !.scheduled_ops = schedule,
                       !.op_names_to_epoch_break = e, !.op_names_to_chip_break = c,
                       !.epoch_break_ops = tag_ops_for_epoch_break(g, e, c, schedule),
                       !.chip_break_ops = tag_ops_for_epoch_or_chip_break(g, c, schedule),
                       !.op_nodes_to_process = Len(schedule) + Cardinality(processed)]
    IN  Of(run_scheduler(g, config, constraints, processed), LAMBDA schedule :
            IF ok(schedule) THEN rescheduled(schedule) ELSE [mm EXCEPT !.ok = FALSE])

\* The index of the next matmul with another row dimension, or of the sparse
\* matmul that feeds it, and the dimension the search started with.
RECURSIVE get_next_ribbon_change_op(_, _, _, _)
get_next_ribbon_change_op(g, i, schedule, dim) ==
    LET op == schedule[i + 1]
        through(o) == IF g.node[o].kind = "buffering_queue" THEN data_operands(g, o)[1] ELSE o
        feeding == SelectSeq(Mapped(data_operands(g, op), through),
                             LAMBDA p : can_schedule_node(g, p))
        sparse == IF g.node[feeding[1]].sparse
                  THEN SelectLastInSubSeq(schedule, 1, i, LAMBDA x : x = feeding[1]) ELSE 0
    IN  IF i >= Len(schedule) THEN <<Len(schedule), dim>>
        ELSE IF g.node[op].dim \in {0, dim} \/ (dim # 0 /\ feeding = <<>>)
             THEN get_next_ribbon_change_op(g, i + 1, schedule, dim)
        ELSE IF dim = 0 THEN get_next_ribbon_change_op(g, i + 1, schedule, g.node[op].dim)
        ELSE IF sparse # 0 THEN <<sparse - 1, dim>> ELSE <<i, dim>>

next_ribbon(mm, index, dim) ==
    Of(get_next_ribbon_change_op(mm.solver.graph, index, mm.scheduled_ops, dim),
       LAMBDA r : [mm EXCEPT !.next_ribbon_change = r[1], !.current_matmul_dim_r = r[2]])

\* cut_graph_solver_ribbon: the op that comes next from the ops that are placed.
cut_graph_solver_ribbon(s, op) ==
    LET edges == SelectSeq(ByPort(s.graph.data), LAMBDA e : e[2] = op /\ Placed(e[1]))
    IN  IF edges = <<>> THEN s ELSE cut(s, edges, FALSE)

update_ribbon_size(mm, size) ==
    LET due == mm.op_index = mm.next_ribbon_change /\ mm.op_index \in 1 .. Len(mm.scheduled_ops) - 1
        next == next_ribbon(mm, mm.op_index, 0)
    IN  IF ~due THEN mm
        ELSE IF size = mm.current_ribbon_size \/ epoch_empty THEN next
        ELSE [next EXCEPT !.current_ribbon_size = size,
                          !.solver = cut_graph_solver_ribbon(@, mm.scheduled_ops[mm.op_index + 1])]

-----------------------------------------------------------------------------
(***************************************************************************)
(* The manager.                                                            *)
(***************************************************************************)
UsesSnapshots == config.fj \/ config.ribbon
NoOp == 0
NoBuffered == [op |-> NoOp, shape |-> <<>>]

Type(op) == m.solver.graph.node[op].type
Shapes(op) == IF m.solver.graph.node[op].kind = "nop" THEN {<<1, 1>>} ELSE config.shapes[op]

InitialManager(c) ==
    [solver |-> [graph |-> c.graph, selected |-> {}, cuts |-> {}, ok |-> TRUE],
     epoch_snapshot |-> NoSolver, buffering_snapshot |-> NoSolver, pairing_checkpoint |-> NoSolver,
     scheduled_ops |-> <<>>, epoch_break_ops |-> {}, chip_break_ops |-> {},
     op_names_to_epoch_break |-> c.epoch_breaks, op_names_to_chip_break |-> c.chip_break_list,
     op_nodes_to_process |-> 0, op_index |-> 0, last_epoch_start |-> 0, current_op |-> NoOp,
     current_epoch_ops |-> {}, epoch_schedule |-> <<>>, processed_schedule |-> <<>>,
     pre_buffering_epoch_ops |-> {}, overflow_set |-> FALSE, current_epoch_type |-> Forward,
     current_ribbon_size |-> 0, current_matmul_dim_r |-> 0, next_ribbon_change |-> 0,
     epoch_start_ribbon_size |-> 0, epoch_start_matmul_dim_r |-> 0,
     shape |-> <<>>, buffered |-> NoBuffered, transposed |-> FALSE, ok |-> TRUE]

Init ==
    /\ P!Init
    /\ m = InitialManager(config)
    /\ pc = "construct"
    /\ epoch_types = <<Forward>>

\* An action that changes the manager goes on at `to` unless an assertion fails.
Becomes(mm, to) == \E v \in {mm} : m' = v /\ pc' = IF v.ok /\ v.solver.ok THEN to ELSE "aborted"

\* The constructor: the schedule, the first ribbon and the first snapshot.
PolicyManager ==
    LET first(mm) == IF config.ribbon /\ mm.ok THEN next_ribbon(mm, 0, 0) ELSE mm
        ribboned(mm, size) ==
            IF ~config.ribbon THEN mm
            ELSE [mm EXCEPT !.current_ribbon_size = size, !.epoch_start_ribbon_size = size,
                            !.epoch_start_matmul_dim_r = mm.current_matmul_dim_r]
        snapshot(mm) == [mm EXCEPT !.epoch_snapshot = IF UsesSnapshots THEN mm.solver ELSE NoSolver]
    IN  /\ pc = "construct"
        /\ \E size \in config.ribbons :
              Becomes(Of(Of(policy_run_scheduler(m, <<>>), first),
                         LAMBDA mm : snapshot(ribboned(mm, size))), "next")
        /\ UNCHANGED <<config, placer, epoch_types>>

get_next_op ==
    /\ pc = "next"
    /\ IF m.op_index >= Len(m.scheduled_ops)
       THEN Becomes([m EXCEPT !.current_op = NoOp], "commit_solution")
       ELSE Becomes([m EXCEPT !.current_op = m.scheduled_ops[m.op_index + 1], !.op_index = @ + 1],
                    "commit_op")
    /\ UNCHANGED <<config, placer, epoch_types>>

register_op_in_current_epoch(mm, op) ==
    [mm EXCEPT !.current_epoch_ops = @ \cup {op}, !.epoch_schedule = Append(@, op)]

-----------------------------------------------------------------------------
(***************************************************************************)
(* commit_op, up to its call of the placer.  The choice of a shape is the  *)
(* policy's.                                                               *)
(***************************************************************************)
Call(ops, shapes, chip_break) ==
    /\ call' = [ops |-> ops, shapes |-> shapes, transpose |-> config.auto_transpose,
                chip_break |-> chip_break]
    /\ UNCHANGED <<valid, sorted_chip_ids, remaining_chip_ids, current_chip_id,
                   current_epoch_index, current_temporal_epoch_id, current_spatial_epoch_id,
                   placed_ops, visited_ops, name_to_op_placement, epoch, num_epochs, replay, assign>>

ForcedEpoch == m.current_op \in m.epoch_break_ops \/ Type(m.current_op) # m.current_epoch_type

\* A transposed op that has the ribbon's number of rows.
ForceTranspose(shape) ==
    /\ config.ribbon /\ ~m.solver.graph.node[m.current_op].sparse /\ m.buffered = NoBuffered
    /\ shape[1] # m.current_ribbon_size /\ shape[2] = m.current_ribbon_size
    /\ shape[2] <= config.rows /\ shape[1] <= config.cols
    /\ m.current_op \notin DOMAIN config.override

\* A sparse matmul that is kept back to be placed with the op that follows.
Pairable ==
    /\ config.ribbon /\ m.solver.graph.node[m.current_op].sparse
    /\ m.op_index < Len(m.scheduled_ops)
    /\ \E next \in {m.scheduled_ops[m.op_index + 1]} :
          /\ next \notin m.epoch_break_ops \cup m.chip_break_ops
          /\ should_pair_with_sparse(m.solver.graph, next, m.current_op)

\* can_fit_on_single_epoch of policy_utils.cpp, on the placer that is kept empty.
FitTogether(op1, shape1, op2, shape2) ==
    LET empty == P!GridOf(sorted_chip_ids[1])
        place(op, shape, g) == P!place_one_op(op, shape, g, P!Override(op), config.auto_transpose)
        r == place(op1, shape1, empty)
    IN  \/ Len(sorted_chip_ids) > 1
        \/ place(op2, shape2, P!fill_device_grid_with_placement(empty, r.start, r.shape)).res = "placed"

ChipBreak(op) == op \in m.chip_break_ops

\* The epoch has to end before the op.
CommitInNewEpoch ==
    /\ pc = "commit_op" /\ ForcedEpoch /\ ~epoch_empty
    /\ pc' = "finish"
    /\ UNCHANGED <<config, placer, m, epoch_types>>

CommitHere == pc = "commit_op" /\ ~(ForcedEpoch /\ ~epoch_empty)

CommitBuffered ==
    /\ CommitHere /\ Pairable
    /\ \E shape \in Shapes(m.current_op) :
          Becomes([m EXCEPT !.pairing_checkpoint = m.solver, !.solver = Set(@, m.current_op),
                            !.buffered = [op |-> m.current_op, shape |-> shape],
                            !.ok = @ /\ m.buffered = NoBuffered], "next")
    /\ UNCHANGED <<config, placer, epoch_types>>

CommitAlone ==
    /\ CommitHere /\ ~Pairable /\ m.buffered = NoBuffered
    /\ \E shape \in Shapes(m.current_op) :
          /\ Becomes([m EXCEPT !.shape = shape, !.transposed = ForceTranspose(shape)], "placed")
          /\ config' = IF ~ForceTranspose(shape) THEN config
                       ELSE [config EXCEPT !.override =
                               (m.current_op :> [P!NoOverride EXCEPT !.transpose = TRUE]) @@ @]
          /\ Call(<<m.current_op>>, <<shape>>, ChipBreak(m.current_op))
    /\ UNCHANGED epoch_types

\* The op and the sparse matmul before it: as one block, one after the other,
\* or, if no epoch holds both, the sparse matmul by itself.
CommitPair ==
    LET b == m.buffered
        op == m.current_op
    IN  /\ CommitHere /\ ~Pairable /\ b # NoBuffered
        /\ \E shape \in Shapes(op) :
              LET fit == FitTogether(b.op, b.shape, op, shape)
                  block == /\ fit /\ shape[1] = b.shape[1]
                           /\ P!can_fit_on_single_epoch(<<shape[1], b.shape[2] + shape[2]>>)
              IN  /\ Becomes([m EXCEPT !.shape = shape],
                             IF block THEN "pair_placed" ELSE IF fit THEN "first_placed"
                             ELSE "sparse_placed")
                  /\ IF block THEN Call(<<b.op, op>>, <<b.shape, shape>>, ChipBreak(op))
                     ELSE Call(<<b.op>>, <<b.shape>>, ChipBreak(op))
        /\ UNCHANGED <<config, epoch_types>>

-----------------------------------------------------------------------------
(***************************************************************************)
(* commit_op, once the placer has answered.                                *)
(***************************************************************************)
Answered(at) == pc = at /\ P!Idle

\* The policy finishes an epoch that is complete, or every op's if it gives
\* each op an epoch.
Committed(mm) ==
    IF config.single_op_policy \/ mm.op_index >= Len(mm.scheduled_ops) THEN "finish" ELSE "next"

\* An op that is placed is set, and the ribbon is checked.
SetPlaced(mm, op, size) ==
    LET ribboned(set) == IF config.ribbon THEN update_ribbon_size(set, size) ELSE set
    IN  register_op_in_current_epoch(Of([mm EXCEPT !.solver = Set(@, op)], ribboned), op)

OverrideExpired ==
    config' = IF ~m.transposed THEN config
              ELSE [config EXCEPT !.override =
                       [o \in DOMAIN @ \ {m.current_op} |-> @[o]]]

OpPlaced ==
    /\ Answered("placed") /\ Placed(m.current_op)
    /\ \E size \in config.ribbons :
          \E mm \in {SetPlaced([m EXCEPT !.transposed = FALSE], m.current_op, size)} :
              Becomes(mm, Committed(mm))
    /\ OverrideExpired
    /\ UNCHANGED <<placer, epoch_types>>

\* There is no room: a new epoch, unless this one is empty already.
NoRoom == IF epoch_empty THEN "failed" ELSE "finish"

OpNotPlaced ==
    /\ Answered("placed") /\ ~Placed(m.current_op)
    /\ Becomes([m EXCEPT !.transposed = FALSE], NoRoom)
    /\ OverrideExpired
    /\ UNCHANGED <<placer, epoch_types>>

Unpaired(mm) == [mm EXCEPT !.buffered = NoBuffered, !.pairing_checkpoint = NoSolver]

PairPlaced ==
    /\ Answered("pair_placed") \/ Answered("second_placed")
    /\ Placed(m.current_op)
    /\ \E size \in config.ribbons :
          \E mm \in {SetPlaced(register_op_in_current_epoch(m, m.buffered.op), m.current_op, size)} :
              Becomes(Unpaired(mm), Committed(mm))
    /\ UNCHANGED <<config, placer, epoch_types>>

FirstPlaced ==
    /\ Answered("first_placed") /\ Placed(m.buffered.op)
    /\ pc' = "second_placed"
    /\ Call(<<m.current_op>>, <<m.shape>>, FALSE)
    /\ UNCHANGED <<config, m, epoch_types>>

\* The second op of the pair found no room: the first one is taken back.
SecondNotPlaced ==
    /\ Answered("second_placed") /\ ~Placed(m.current_op)
    /\ P!rewind_to(m.buffered.op)
    /\ pc' = "undone"
    /\ UNCHANGED <<m, epoch_types>>

SparsePlaced ==
    /\ Answered("sparse_placed") /\ Placed(m.buffered.op)
    /\ Becomes(Unpaired(register_op_in_current_epoch(m, m.buffered.op)), "placed")
    /\ Call(<<m.current_op>>, <<m.shape>>, ChipBreak(m.current_op))
    /\ UNCHANGED <<config, epoch_types>>

\* Mutant: the schedule goes on behind the sparse matmul.
RevertPairStay ==
    /\ \/ Answered("undone")
       \/ (Answered("pair_placed") \/ Answered("first_placed") \/ Answered("sparse_placed"))
          /\ ~Placed(m.buffered.op)
    /\ Becomes(Unpaired([m EXCEPT !.solver = m.pairing_checkpoint]), NoRoom)
    /\ UNCHANGED <<config, placer, epoch_types>>

\* Back to before the sparse matmul.
RevertPair ==
    /\ \/ Answered("undone")
       \/ (Answered("pair_placed") \/ Answered("first_placed") \/ Answered("sparse_placed"))
          /\ ~Placed(m.buffered.op)
    /\ Becomes(Unpaired([m EXCEPT !.solver = m.pairing_checkpoint, !.op_index = @ - 1]), NoRoom)
    /\ UNCHANGED <<config, placer, epoch_types>>

-----------------------------------------------------------------------------
(***************************************************************************)
(* finish_current_epoch.                                                   *)
(***************************************************************************)
balancing_complete == m.op_index >= Len(m.scheduled_ops) /\ m.current_op \in m.current_epoch_ops

\* "Cannot finish empty epoch!"
FinishBecomes(mm, to) == pc = "finish" /\ Becomes([mm EXCEPT !.ok = @ /\ ~epoch_empty], to)

\* The ops of the epoch as it was before it was buffered that are not in it now.
Overflowed == IF config.fj /\ ~balancing_complete
              THEN m.pre_buffering_epoch_ops \ m.current_epoch_ops ELSE {}

\* Mutant: the schedule of the epoch is kept.
ForgottenOps(mm) == [mm EXCEPT !.current_epoch_ops = {}]

Forgotten(mm) == [mm EXCEPT !.current_epoch_ops = {}, !.epoch_schedule = <<>>]

\* Where the schedule is taken up again: a new one from its start, the old one
\* from where the epoch started; and the ribbon of the epoch's start.
Resumed(mm, reschedule) ==
    LET back(r) == IF ~config.ribbon \/ ~r.ok THEN r
                   ELSE [next_ribbon(r, r.op_index, r.epoch_start_matmul_dim_r) EXCEPT
                            !.current_ribbon_size = r.epoch_start_ribbon_size]
    IN  Of(IF reschedule THEN [policy_run_scheduler(mm, mm.processed_schedule) EXCEPT
                                  !.op_index = 0, !.last_epoch_start = 0]
           ELSE [mm EXCEPT !.op_index = mm.last_epoch_start], back)

\* rewind_epoch: back to the snapshot of the epoch's start, unbuffered.
RewindEpoch(mm) ==
    LET reset == [Unpaired(Forgotten(mm)) EXCEPT !.solver = mm.epoch_snapshot,
                      !.pre_buffering_epoch_ops = {}, !.ok = @ /\ mm.epoch_snapshot # NoSolver]
    IN  Of(reset, LAMBDA r :
            [Resumed(r, mm.buffering_snapshot # NoSolver \/ mm.overflow_set) EXCEPT
                !.buffering_snapshot = NoSolver])

\* Mutant: a break of the user's goes with the one an overflow added.
PopBreakAlways(mm) == [mm EXCEPT !.op_names_to_epoch_break = IF @ = <<>> THEN @ ELSE Front(@)]

\* The break of the last overflow goes.
PopBreak(mm) == IF mm.overflow_set THEN [mm EXCEPT !.op_names_to_epoch_break = Front(@)] ELSE mm

\* Mutant: the overflowed ops get no epoch break.
OverflowUnbroken ==
    /\ Overflowed # {}
    /\ FinishBecomes(RewindEpoch([m EXCEPT !.overflow_set = TRUE]), "next")
    /\ P!rewind_epoch
    /\ UNCHANGED epoch_types

handle_epoch_buffering_overflow ==
    /\ Overflowed # {}
    /\ FinishBecomes(RewindEpoch([PopBreak(m) EXCEPT !.op_names_to_epoch_break = Append(@, Overflowed),
                                               !.overflow_set = TRUE]), "next")
    /\ P!rewind_epoch
    /\ UNCHANGED epoch_types

\* Whether another path leads from s to d in the epoch: s and d are the fork
\* and the join of a fork-join whose one branch is the edge between them.
RECURSIVE Leads(_, _, _)
Leads(edges, from, d) ==
    LET next == {e[2] : e \in {x \in edges : x[1] \in from}}
    IN  d \in next \/ (next # {} /\ Leads(edges, next, d))
ForkJoins ==
    LET edges == {e \in Range(m.solver.graph.data) : {e[1], e[2]} \subseteq m.current_epoch_ops}
        other(e) == {x[2] : x \in {y \in edges : y[1] = e[1]}} \ {e[2]}
    IN  {e \in edges : other(e) # {} /\ Leads(edges, other(e), e[2])}

\* What insert_fork_join_buffering may ask for.
InstructionSets ==
    LET on(e) == {[src |-> e[1], dest |-> e[2], nops |-> n] : n \in 0 .. MaxNops}
    IN  {inst \in SUBSET UNION {on(e) : e \in {f \in ForkJoins : {f[1], f[2]} \subseteq Nodes(config.graph)}} :
            /\ Cardinality(inst) \in 1 .. MaxInstructions
            /\ \A i, j \in inst : i.src = j.src /\ i.dest = j.dest => i = j}

\* buffer_epoch: the epoch again, with the buffers in it.
buffer_epoch(inst) ==
    LET from == IF m.buffering_snapshot # NoSolver THEN m.buffering_snapshot ELSE m.epoch_snapshot
        buffered == [Forgotten(m) EXCEPT !.solver = buffer_graph(from, inst),
                         !.pre_buffering_epoch_ops = IF @ = {} THEN m.current_epoch_ops ELSE @]
        again == Of(buffered, LAMBDA b : Resumed(b, \E i \in inst : i.nops > 0))
    IN  /\ FinishBecomes(Of(again, LAMBDA r : [r EXCEPT !.buffering_snapshot = r.solver]), "next")
        /\ P!rewind_epoch
        /\ UNCHANGED epoch_types

BufferEpoch ==
    /\ pc = "finish" /\ config.fj /\ Overflowed = {}
    /\ \E inst \in InstructionSets : buffer_epoch(inst)

\* Nothing (more) to buffer: the epoch is finished as it is.
EpochFinished(mm) ==
    /\ Overflowed = {}
    /\ FinishBecomes([mm EXCEPT !.ok = @ /\ Cardinality(m.current_epoch_ops) = Len(m.epoch_schedule)],
                     "next")

\* cut_graph_solver_epoch: the placed ops of the epoch from the ops after it.
cut_graph_solver_epoch(s) ==
    LET users(op) == SelectSeq(ByPort(s.graph.data), LAMBDA e :
                        /\ e[1] = op /\ can_schedule_node(s.graph, e[2])
                        /\ e[2] \notin Range(placed_ops))
        edges == FlattenSeq(Mapped(placed_ops, users))
    IN  IF edges = <<>> THEN s ELSE cut(s, edges, TRUE)

\* The ops of the epoch that ends are processed.
Processed(mm) ==
    Forgotten([mm EXCEPT !.processed_schedule = @ \o mm.epoch_schedule])

\* Mutant: the snapshot is of the solver before the cut.
SnapshotUncut(mm) ==
    [Processed(mm) EXCEPT !.overflow_set = FALSE, !.epoch_snapshot = m.solver,
         !.buffering_snapshot = NoSolver, !.pre_buffering_epoch_ops = {},
         !.epoch_start_ribbon_size = mm.current_ribbon_size,
         !.epoch_start_matmul_dim_r = mm.current_matmul_dim_r]

\* The epoch starts with the snapshot that a rewind goes back to.
Snapshot(mm) ==
    LET popped == PopBreak(mm)
        tagged == IF ~mm.overflow_set THEN mm
                  ELSE [popped EXCEPT !.epoch_break_ops =
                          tag_ops_for_epoch_break(mm.solver.graph, popped.op_names_to_epoch_break,
                              mm.op_names_to_chip_break, mm.scheduled_ops)]
    IN  [Processed(tagged) EXCEPT !.overflow_set = FALSE, !.epoch_snapshot = mm.solver,
             !.buffering_snapshot = NoSolver, !.pre_buffering_epoch_ops = {},
             !.epoch_start_ribbon_size = mm.current_ribbon_size,
             !.epoch_start_matmul_dim_r = mm.current_matmul_dim_r]

start_new_epoch ==
    LET started == [m EXCEPT !.last_epoch_start = m.op_index - 1,
                             !.solver = cut_graph_solver_epoch(@),
                             !.current_epoch_type = Type(m.current_op),
                             !.op_index = IF m.current_op \in m.current_epoch_ops THEN @ ELSE @ - 1]
    IN  /\ pc = "finish" /\ ~balancing_complete
        /\ EpochFinished(Of(started, LAMBDA mm : IF UsesSnapshots THEN Snapshot(mm) ELSE mm))
        /\ P!next_epoch
        /\ epoch_types' = Append(epoch_types, Type(m.current_op))

BalancingComplete ==
    LET done == Processed(m)
    IN  /\ pc = "finish" /\ balancing_complete
        /\ EpochFinished([done EXCEPT !.ok = @ /\
               Cardinality(Range(done.processed_schedule)) = m.op_nodes_to_process])
        /\ UNCHANGED <<config, placer, epoch_types>>

\* commit_solution: the whole schedule again, and all of it must be placed.
commit_solution ==
    LET mm == IF ~UsesSnapshots THEN m
              ELSE policy_run_scheduler(
                       [m EXCEPT !.op_names_to_epoch_break = config.epoch_breaks,
                                 !.op_names_to_chip_break = config.chip_break_list], <<>>)
    IN  /\ pc = "commit_solution" /\ P!Idle
        /\ Becomes([mm EXCEPT !.ok = @ /\
                       Cardinality(DOMAIN name_to_op_placement) >= Len(mm.scheduled_ops)], "committing")
        /\ P!commit \/ P!commit_pipelined
        /\ UNCHANGED epoch_types

SolutionCommitted ==
    /\ pc = "committing" /\ valid = "committed"
    /\ pc' = "done"
    /\ UNCHANGED <<config, placer, m, epoch_types>>

PlacerSteps ==
    /\ P!PlacerSteps
    /\ pc' = IF valid' = "aborted" THEN "aborted" ELSE pc
    /\ UNCHANGED <<m, epoch_types>>

Ended == pc \in {"done", "failed", "aborted"}

Balance ==
    \/ PolicyManager \/ get_next_op \/ CommitInNewEpoch \/ CommitBuffered \/ CommitAlone \/ CommitPair
    \/ OpPlaced \/ OpNotPlaced \/ PairPlaced \/ FirstPlaced \/ SecondNotPlaced \/ SparsePlaced
    \/ RevertPair \/ handle_epoch_buffering_overflow \/ BufferEpoch \/ start_new_epoch
    \/ BalancingComplete \/ commit_solution \/ SolutionCommitted \/ PlacerSteps

Next == Balance \/ (Ended /\ UNCHANGED vars)

\* The policy is one thread that runs until it has ended.  This is WF_vars(Balance)
\* written out, with Ended for "Balance is disabled" (a run that checks for
\* deadlock shows that Balance is enabled in every other state).
Runs == []<>Ended \/ []<><<TRUE>>_vars

Spec == Init /\ [][Next]_vars /\ Runs

-----------------------------------------------------------------------------
(***************************************************************************)
(* Properties.                                                             *)
(***************************************************************************)
TemporalEpoch(op) == epoch[name_to_op_placement[op].epoch].temporal

\* Whenever the policy asks for the next op, the three records of the work done
\* agree, whatever was buffered, rewound, overflowed or unpaired before: an op is
\* set in the solver iff it is placed (or waits for its pair), the manager's epoch
\* is the placer's, and what is left of the schedule is every op that is not set.
EpochStateAgrees ==
    LET left == SubSeq(m.scheduled_ops, m.op_index + 1, Len(m.scheduled_ops))
        waiting == {m.buffered.op} \ {NoOp}
    IN  pc = "next" /\ left # <<>> =>
            /\ m.solver.selected = DOMAIN name_to_op_placement \cup waiting
            /\ Range(left) = Schedulable(m.solver.graph) \ m.solver.selected
            /\ Len(left) = Cardinality(Range(left))
            /\ UsesSnapshots =>
                  /\ m.current_epoch_ops = Range(placed_ops)
                  /\ Range(m.processed_schedule) = DOMAIN name_to_op_placement \ Range(placed_ops)

\* In the solution no op reads an op of another temporal epoch but through a
\* queue, a queue between epochs leads to a later one, and every op is of the type
\* its epoch was opened for.
CutsSeparateEpochs ==
    LET g == m.solver.graph
    IN  pc = "done" =>
            /\ \A e \in Range(g.data) : {e[1], e[2]} \subseteq Schedulable(g) =>
                  TemporalEpoch(e[1]) = TemporalEpoch(e[2])
            /\ \A c \in m.solver.cuts :
                  IF c[2] THEN TemporalEpoch(c[1][1]) < TemporalEpoch(c[1][2])
                  ELSE TemporalEpoch(c[1][1]) <= TemporalEpoch(c[1][2])
            /\ \A op \in Schedulable(g) : g.node[op].type = epoch_types[TemporalEpoch(op) + 1]

\* In the solution every epoch break of the user starts a temporal epoch and every
\* chip break a chip, although overflows add and drop breaks on the way.
BreaksHonoured ==
    LET order == m.processed_schedule
        at(op) == SelectInSeq(order, LAMBDA o : o = op)
        earlier(op) == {order[i] : i \in 1 .. at(op) - 1}
    IN  pc = "done" =>
            /\ \A names \in Range(config.epoch_breaks) : \E op \in names :
                  \A o \in earlier(op) : TemporalEpoch(o) # TemporalEpoch(op)
            /\ \A names \in Range(config.chip_break_list) : \E op \in names :
                  \A o \in earlier(op) :
                      name_to_op_placement[o].epoch # name_to_op_placement[op].epoch

\* No assertion of the manager, the scheduler, the solver's cut and set or the
\* placer fails: no op is set or cut from twice, the rescheduled ops are all the
\* ops that are left, no empty epoch is finished, every op is processed at the end.
NoAssertionFails == pc # "aborted"

\* Rewinding to buffer an epoch, or because the buffered epoch overflows, does not
\* go on forever: balancing ends, with a solution or with an op no epoch can hold.
BalancingEnds == <>Ended
=============================================================================
