-------------------------- MODULE InteractivePlacer --------------------------
(***************************************************************************)
(* The interactive placer (placer/interactive_placer.cpp): a balancer      *)
(* policy places one op after the other; the placer spreads them over the  *)
(* chips of a temporal epoch, one spatial epoch per chip, starts temporal  *)
(* epochs, takes an epoch back and commits the solution.                   *)
(*                                                                         *)
(* place_one_op and the chip assignment of a pipelined commit are loops    *)
(* that advance the epoch; each of their iterations is a step (PlaceOneOp, *)
(* AssignChip).  The four maps over epochs (chip, epoch info, op           *)
(* placements, device grid) are one function, `epoch`.                     *)
(***************************************************************************)
EXTENDS DeviceGrid

CONSTANTS Op,                 \* the ops of the graph
          Configs,            \* the device and balancer configurations considered
          MaxTemporalEpochs   \* bound on the temporal epochs opened

\* What the policies hand in: the chips, and the order of a galaxy, are listed once,
\* and every op has a shape.
ConfigOk(c) ==
    /\ c.chips \in Seq(Nat) /\ c.chips # <<>> /\ IsInjective(c.chips)
    /\ c.galaxy \in Seq(Nat) /\ IsInjective(c.galaxy)
    /\ c.mmio \in Seq(Nat)
    /\ {c.rows, c.cols, c.harvested_rows} \subseteq Nat
    /\ {c.pipelined, c.nebula, c.snake, c.output_queues_on_host, c.auto_transpose} \subseteq BOOLEAN
    /\ Op \subseteq DOMAIN c.shape
    /\ \A o \in DOMAIN c.shape : c.shape[o] \in (Nat \ {0}) \X (Nat \ {0})
    /\ \A o \in DOMAIN c.override :
          /\ c.override[o].start \in {NoCoord} \cup (Nat \X Nat)
          /\ c.override[o].transpose \in BOOLEAN /\ c.override[o].chip \in Int
ASSUME ConfigsAssumption == \A c \in Configs : ConfigOk(c)

VARIABLES
    config,       \* chips, mmio, shapes, overrides and environment flags; the placer never changes it
    valid,        \* "open"; "assigning" chips in a pipelined commit; "committed"; "aborted"
    sorted_chip_ids,
    remaining_chip_ids,   \* chips of the temporal epoch that were not used yet
    current_chip_id,
    current_epoch_index, current_temporal_epoch_id, current_spatial_epoch_id,
    placed_ops,   \* ops placed in the current temporal epoch, in order
    visited_ops,  \* ops that were moved on from some chip of the temporal epoch
    name_to_op_placement,
    epoch,        \* epoch id -> [chip, temporal, spatial, ops, grid]
    num_epochs,   \* of the committed solution
    call,         \* the place_op in progress: [ops, shapes, transpose, chip_break]
    replay,       \* what rewind_to still has to place again: <<op, placement>>
    assign        \* the pipelined assignment: [epoch, chip_index, count]

placing == <<sorted_chip_ids, remaining_chip_ids, current_chip_id, current_epoch_index,
             current_temporal_epoch_id, current_spatial_epoch_id, placed_ops, visited_ops,
             name_to_op_placement, epoch>>
vars == <<config, valid, placing, num_epochs, call, replay, assign>>

NoCall == [ops |-> <<>>, shapes |-> <<>>, transpose |-> FALSE, chip_break |-> FALSE]
Idle == valid = "open" /\ call = NoCall /\ replay = <<>>

IsMmio(chip) == chip \in Range(config.mmio)

Override(op) == IF op \in DOMAIN config.override THEN config.override[op] ELSE NoOverride

GridOf(chip) ==
    IF config.nebula /\ IsMmio(chip)
    THEN create_empty_device_grid(config.harvested_rows, config.cols)
    ELSE create_empty_device_grid(config.rows, config.cols)

-----------------------------------------------------------------------------
(***************************************************************************)
(* Starting an epoch.  st holds the position the new epoch starts from:    *)
(* [epoch, index, remaining].                                              *)
(***************************************************************************)
\* insert_empty_graphs: one empty epoch for every chip that is left.
insert_empty_graphs(st, spatial, temporal) ==
    LET n == Len(st.remaining)
        old(i) == IF i \in DOMAIN st.epoch THEN st.epoch[i].grid ELSE create_empty_device_grid(0, 0)
    IN  [epoch |-> [i \in DOMAIN st.epoch \cup (st.index .. st.index + n - 1) |->
                      IF i \in st.index .. st.index + n - 1
                      THEN [chip |-> st.remaining[i - st.index + 1], temporal |-> temporal,
                            spatial |-> spatial + i - st.index, ops |-> <<>>, grid |-> old(i)]
                      ELSE st.epoch[i]],
         index |-> st.index + n, remaining |-> <<>>]

\* Mutant: chips left when an epoch is broken off get no empty graph.
StartTemporalEpochUnfilled(st, new, temporal) ==
    [st EXCEPT !.remaining =
        IF config.snake /\ temporal % 2 = 1 THEN Reverse(sorted_chip_ids) ELSE sorted_chip_ids]

\* next_chip_id, the first part: the chips of a temporal epoch that starts.
StartTemporalEpoch(st, new, temporal) ==
    LET filled == IF new /\ st.remaining # <<>>
                  THEN insert_empty_graphs(st, st.epoch[st.index - 1].spatial + 1, temporal - 1)
                  ELSE st
    IN  [filled EXCEPT !.remaining =
            IF config.snake /\ temporal % 2 = 1 THEN Reverse(sorted_chip_ids) ELSE sorted_chip_ids]

\* next_chip_id, the second part: a requested chip that is left (removed
\* wherever it is), else the first one of the pool.
next_chip_id(remaining, requested) ==
    LET wanted == Filter(requested, Range(remaining))
    IN  IF wanted # <<>> THEN [chip |-> wanted[1],
                               left |-> Filter(remaining, Range(remaining) \ {wanted[1]})]
        ELSE [chip |-> remaining[1], left |-> Tail(remaining)]

\* init_epoch for position st in temporal epoch `temporal`, spatial epoch `spatial`.
init_epoch(st, temporal, spatial, requested) ==
    LET pick == next_chip_id(st.remaining, requested)
        chip == pick.chip
        info == [chip |-> chip, temporal |-> temporal, spatial |-> spatial,
                 ops |-> <<>>, grid |-> GridOf(chip)]
    IN  /\ current_chip_id' = chip
        /\ remaining_chip_ids' = pick.left
        /\ current_epoch_index' = st.index
        /\ current_temporal_epoch_id' = temporal
        /\ current_spatial_epoch_id' = spatial
        /\ epoch' = [i \in DOMAIN st.epoch \cup {st.index} |->
                        IF i = st.index THEN info ELSE st.epoch[i]]

Position(index, remaining) == [epoch |-> epoch, index |-> index, remaining |-> remaining]

Init ==
    /\ config \in Configs
    /\ valid = "open"
    /\ sorted_chip_ids = IF config.pipelined THEN <<0>> ELSE apply_chip_placement_policy(config)
    /\ current_chip_id = sorted_chip_ids[1]
    /\ remaining_chip_ids = Tail(sorted_chip_ids)
    /\ current_epoch_index = 0 /\ current_temporal_epoch_id = 0 /\ current_spatial_epoch_id = 0
    /\ epoch = [i \in {0} |-> [chip |-> current_chip_id, temporal |-> 0, spatial |-> 0,
                               ops |-> <<>>, grid |-> GridOf(current_chip_id)]]
    /\ placed_ops = <<>> /\ visited_ops = {} /\ name_to_op_placement = <<>>
    /\ num_epochs = 0 /\ call = NoCall /\ replay = <<>>
    /\ assign = [epoch |-> 0, chip_index |-> 0, count |-> 0]

-----------------------------------------------------------------------------
(***************************************************************************)
(* Placing an op.                                                          *)
(***************************************************************************)
IsOutput(op) == config.output_queues_on_host /\ op \in config.output

\* A chip break, or the break before an output op, moves on once.
BreakHere(op) == placed_ops # <<>> /\ op \notin visited_ops

\* can_place_op_onto_chip, for the chip `chip`
can_place_op_onto_chip(op, chip, chip_break, override) ==
    /\ ~(IsOutput(op) /\ ~IsMmio(chip))
    /\ ~(chip_break /\ BreakHere(op))
    /\ override.chip \in {NoChip, chip}
    /\ ~(config.nebula /\ ~IsOutput(op) /\ IsMmio(chip) /\ Len(sorted_chip_ids) # 1)
    /\ ~(config.nebula /\ config.pipelined /\ IsOutput(op) /\ BreakHere(op))

requested_chip_ids(op, override) ==
    IF override.chip \notin {NoChip, current_chip_id} THEN <<override.chip>>
    ELSE IF IsOutput(op) /\ ~IsMmio(current_chip_id) THEN config.mmio
    ELSE <<>>

can_fit_on_single_epoch(shape) ==
    \/ shape[1] <= config.rows /\ shape[2] <= config.cols
    \/ /\ config.auto_transpose /\ shape[1] > shape[2]
       /\ shape[1] <= config.cols /\ shape[2] <= config.rows

\* place_op and place_two_ops_rowwise: the two ops are placed as one block.
PlaceOp(op, chip_break) ==
    /\ Idle /\ op \notin DOMAIN name_to_op_placement
    /\ call' = [ops |-> <<op>>, shapes |-> <<config.shape[op]>>,
                transpose |-> config.auto_transpose, chip_break |-> chip_break]
    /\ UNCHANGED <<config, valid, placing, num_epochs, replay, assign>>

PlaceTwoOpsRowwise(op1, op2, chip_break) ==
    LET s1 == config.shape[op1]
        s2 == config.shape[op2]
    IN  /\ Idle /\ op1 # op2 /\ {op1, op2} \cap DOMAIN name_to_op_placement = {}
        /\ s1[1] = s2[1] /\ can_fit_on_single_epoch(<<s1[1], s1[2] + s2[2]>>)
        /\ call' = [ops |-> <<op1, op2>>, shapes |-> <<s1, s2>>,
                    transpose |-> config.auto_transpose, chip_break |-> chip_break]
        /\ UNCHANGED <<config, valid, placing, num_epochs, replay, assign>>

\* While rewind_to replays, an override pins the op to where it was.
CallOverride ==
    IF replay = <<>> THEN Override(call.ops[1])
    ELSE [start |-> replay[1][2].start, transpose |-> replay[1][2].transpose,
          chip |-> replay[1][2].chip]

BlockShape ==
    <<call.shapes[1][1],
      call.shapes[1][2] + IF Len(call.shapes) = 2 THEN call.shapes[2][2] ELSE 0>>

TryPlace ==
    IF can_place_op_onto_chip(call.ops[1], current_chip_id, call.chip_break, CallOverride)
    THEN place_one_op(call.ops[1], BlockShape, epoch[current_epoch_index].grid,
                      CallOverride, call.transpose)
    ELSE Failed("no_room")

\* Where the ops of the call end up: the first at the block's start, the second
\* at its end.
OpPlacements(r) ==
    LET ext(i) == IF r.transposed THEN Transposed(call.shapes[i]) ELSE call.shapes[i]
        start(i) == IF i = 1 THEN r.start
                    ELSE <<r.start[1] + r.shape[1] - ext(i)[1], r.start[2] + r.shape[2] - ext(i)[2]>>
    IN  [i \in DOMAIN call.ops |->
            [chip |-> current_chip_id, epoch |-> current_epoch_index, start |-> start(i),
             shape |-> ext(i), transpose |-> r.transposed]]

\* Mutant: a transposed op is placed again with its transposed shape.
ReturnTransposed(left) ==
    /\ replay' = left
    /\ call' = IF left = <<>> THEN NoCall
               ELSE [ops |-> <<left[1][1]>>, shapes |-> <<left[1][2].shape>>,
                     transpose |-> FALSE, chip_break |-> FALSE]

\* The end of a call, and the next one when rewind_to replays.
Return(left) ==
    /\ replay' = left
    /\ call' = IF left = <<>> THEN NoCall
               ELSE LET p == left[1][2]
                    IN  [ops |-> <<left[1][1]>>,
                         shapes |-> <<IF p.transpose THEN Transposed(p.shape) ELSE p.shape>>,
                         transpose |-> FALSE, chip_break |-> FALSE]

\* The loop of place_one_op ends with a place on the current chip.
Placed(r) ==
    LET names == call.ops
    IN  /\ r.res = "placed"
        /\ \E p \in {OpPlacements(r)} :
            /\ placed_ops' = placed_ops \o names
            /\ name_to_op_placement' =
                  [o \in DOMAIN name_to_op_placement \cup Range(names) |->
                      IF o \in Range(names) THEN p[CHOOSE i \in DOMAIN names : names[i] = o]
                      ELSE name_to_op_placement[o]]
            /\ epoch' = [epoch EXCEPT
                  ![current_epoch_index].ops = @ \o [i \in DOMAIN names |-> <<names[i], p[i]>>],
                  ![current_epoch_index].grid.used =
                        @ \cup UNION {Cores(p[i].start, p[i].shape) : i \in DOMAIN names}]
        /\ Return(IF replay = <<>> THEN <<>> ELSE Tail(replay))
        /\ UNCHANGED <<config, valid, sorted_chip_ids, remaining_chip_ids, current_chip_id,
                       current_epoch_index, current_temporal_epoch_id,
                       current_spatial_epoch_id, visited_ops, num_epochs, assign>>

\* No chip is left in the temporal epoch: nullopt.  A replay that fails aborts.
NotPlaced(r) ==
    /\ r.res # "placed" /\ remaining_chip_ids = <<>>
    /\ valid' = IF replay = <<>> THEN "open" ELSE "aborted"
    /\ call' = NoCall /\ replay' = <<>>
    /\ UNCHANGED <<config, placing, num_epochs, assign>>

\* How often the current chip goes back to the pool: once for every requested
\* chip that is in the pool, while the temporal epoch holds no op.
PutBack(requested) ==
    IF placed_ops = <<>> THEN Len(Filter(requested, Range(remaining_chip_ids))) ELSE 0

\* The loop goes on with a new spatial epoch on another chip.
NextChip(r) ==
    LET op == call.ops[1]
        requested == requested_chip_ids(op, CallOverride)
        n == PutBack(requested)
        back == [i \in 1 .. n |-> current_chip_id]
    IN  /\ r.res # "placed" /\ remaining_chip_ids # <<>>
        /\ visited_ops' = visited_ops \cup {op}
        /\ init_epoch(Position(current_epoch_index + 1 - n, back \o remaining_chip_ids),
                      current_temporal_epoch_id, current_spatial_epoch_id + 1 - n, requested)
        /\ UNCHANGED <<config, valid, sorted_chip_ids, placed_ops, name_to_op_placement,
                       num_epochs, call, replay, assign>>

\* One turn of the loop of place_one_op.
PlaceOneOp ==
    /\ valid = "open" /\ call # NoCall
    /\ \E r \in {TryPlace} : Placed(r) \/ NotPlaced(r) \/ NextChip(r)

-----------------------------------------------------------------------------
(***************************************************************************)
(* Epochs.                                                                 *)
(***************************************************************************)
next_epoch ==
    LET temporal == current_temporal_epoch_id + 1
    IN  /\ Idle /\ temporal < MaxTemporalEpochs
        /\ init_epoch(StartTemporalEpoch(Position(current_epoch_index + 1, remaining_chip_ids),
                                         TRUE, temporal),
                      temporal, 0, <<>>)
        /\ placed_ops' = <<>> /\ visited_ops' = {}
        /\ UNCHANGED <<config, valid, sorted_chip_ids, name_to_op_placement, num_epochs, call,
                       replay, assign>>

\* rewind_epoch: forget the ops of the temporal epoch, back to its first chip.
Rewind ==
    /\ init_epoch(StartTemporalEpoch(Position(current_epoch_index - current_spatial_epoch_id,
                                              remaining_chip_ids), FALSE, current_temporal_epoch_id),
                  current_temporal_epoch_id, 0, <<>>)
    /\ name_to_op_placement' =
          [o \in DOMAIN name_to_op_placement \ Range(placed_ops) |-> name_to_op_placement[o]]
    /\ placed_ops' = <<>> /\ visited_ops' = {}
    /\ UNCHANGED <<config, valid, sorted_chip_ids, num_epochs, assign>>

rewind_epoch == Idle /\ Rewind /\ UNCHANGED <<call, replay>>

\* rewind_to: rewind and place again what was placed before the op.
rewind_to(op) ==
    LET before == (CHOOSE i \in DOMAIN placed_ops : placed_ops[i] = op) - 1
    IN  /\ Idle /\ op \in Range(placed_ops)
        /\ Rewind
        /\ Return([i \in 1 .. before |-> <<placed_ops[i], name_to_op_placement[placed_ops[i]]>>])

(***************************************************************************)
(* Commit.  An epoch that holds an op counts; then the chips that are left *)
(* get an empty epoch, or a pipelined placement gets its chips.            *)
(***************************************************************************)
CommitIndex == current_epoch_index + IF epoch[current_epoch_index].ops # <<>> THEN 1 ELSE 0

commit ==
    LET st == insert_empty_graphs(Position(CommitIndex, remaining_chip_ids),
                                  current_spatial_epoch_id + 1, current_temporal_epoch_id)
    IN  /\ Idle /\ ~config.pipelined
        /\ num_epochs' = CommitIndex
        /\ epoch' = st.epoch /\ current_epoch_index' = st.index
        /\ remaining_chip_ids' = st.remaining
        /\ valid' = "committed"
        /\ UNCHANGED <<config, sorted_chip_ids, current_chip_id, current_temporal_epoch_id,
                       current_spatial_epoch_id, placed_ops, visited_ops, name_to_op_placement,
                       call, replay, assign>>

commit_pipelined ==
    /\ Idle /\ config.pipelined
    /\ num_epochs' = CommitIndex /\ current_epoch_index' = CommitIndex
    /\ valid' = "assigning"
    /\ placed_ops' = <<>> /\ visited_ops' = {}
    /\ sorted_chip_ids' = apply_chip_placement_policy(config)
    /\ remaining_chip_ids' = sorted_chip_ids'
    /\ current_temporal_epoch_id' = 0 /\ current_spatial_epoch_id' = 0
    /\ current_chip_id' = sorted_chip_ids'[1]
    /\ UNCHANGED <<config, name_to_op_placement, epoch, call, replay, assign>>

\* std::ceil(float(num_epochs) / sorted_chip_ids.size())
num_epochs_per_chip == (num_epochs + Len(sorted_chip_ids) - 1) \div Len(sorted_chip_ids)

EpochOps(i) == {epoch[i].ops[k][1] : k \in DOMAIN epoch[i].ops}

\* One turn of the loop of assign_chip_ids_for_pipelined_placement: the epoch
\* goes to the current chip, alone in its temporal epoch, or to no chip yet.
AssignChip ==
    LET e == assign.epoch
        fits == \A o \in EpochOps(e) :
                   can_place_op_onto_chip(o, current_chip_id, o \in config.chip_breaks, Override(o))
        count == assign.count + IF fits THEN 1 ELSE 0
        full == count = num_epochs_per_chip
        move == ~fits \/ full
        onChip(p) == [p EXCEPT !.chip = current_chip_id]
        mine == [epoch EXCEPT ![e].chip = current_chip_id, ![e].spatial = 0,
                              ![e].temporal = current_temporal_epoch_id,
                              ![e].ops = [k \in DOMAIN @ |-> <<@[k][1], onChip(@[k][2])>>]]
        st == insert_empty_graphs([epoch |-> mine, index |-> current_epoch_index, remaining |->
                     Filter(remaining_chip_ids, Range(remaining_chip_ids) \ {current_chip_id})],
                 1, current_temporal_epoch_id)
        names == [k \in DOMAIN epoch[e].ops |-> epoch[e].ops[k][1]]
    IN  /\ valid = "assigning" /\ e < num_epochs
        /\ IF fits THEN /\ epoch' = st.epoch /\ current_epoch_index' = st.index
                        /\ current_temporal_epoch_id' = current_temporal_epoch_id + 1
                        /\ name_to_op_placement' =
                              [o \in DOMAIN name_to_op_placement |->
                                 IF o \in EpochOps(e) THEN onChip(name_to_op_placement[o])
                                 ELSE name_to_op_placement[o]]
                   ELSE UNCHANGED <<epoch, current_epoch_index, current_temporal_epoch_id,
                                    name_to_op_placement>>
        /\ placed_ops' = IF fits /\ full THEN <<>> ELSE IF fits THEN placed_ops \o names
                         ELSE placed_ops
        /\ visited_ops' = visited_ops \cup EpochOps(e)
        /\ assign' = [epoch |-> IF fits THEN e + 1 ELSE e, count |-> IF move THEN 0 ELSE count,
                      chip_index |-> (assign.chip_index + IF move THEN 1 ELSE 0)
                                        % Len(sorted_chip_ids)]
        /\ current_chip_id' = sorted_chip_ids[assign'.chip_index + 1]
        /\ UNCHANGED <<config, valid, sorted_chip_ids, remaining_chip_ids,
                       current_spatial_epoch_id, num_epochs, call, replay>>

AssignEnds ==
    /\ valid = "assigning" /\ assign.epoch = num_epochs
    /\ valid' = "committed"
    /\ UNCHANGED <<config, placing, num_epochs, call, replay, assign>>

PlacerSteps == PlaceOneOp \/ AssignChip \/ AssignEnds

(***************************************************************************)
(* A policy: any order of ops, pairs, epoch breaks and rewinds, with ops   *)
(* left to place when it opens a temporal epoch and none when it commits.  *)
(***************************************************************************)
Breaks(op) == op \in config.chip_breaks
AllPlaced == Op = DOMAIN name_to_op_placement

Next ==
    \/ \E op \in Op : PlaceOp(op, Breaks(op)) \/ rewind_to(op)
    \/ \E op1, op2 \in Op : PlaceTwoOpsRowwise(op1, op2, Breaks(op1) \/ Breaks(op2))
    \/ placed_ops # <<>> /\ ~AllPlaced /\ next_epoch
    \/ placed_ops # <<>> /\ rewind_epoch
    \/ AllPlaced /\ (commit \/ commit_pipelined)
    \/ PlacerSteps
    \/ valid \in {"committed", "aborted"} /\ UNCHANGED vars

Spec == Init /\ [][Next]_vars /\ WF_vars(PlacerSteps)

-----------------------------------------------------------------------------
(***************************************************************************)
(* Properties.                                                             *)
(***************************************************************************)
Epochs == IF valid = "open" THEN 0 .. current_epoch_index ELSE DOMAIN epoch

\* The four records of a placement agree: an op placed by name is listed in the
\* one epoch it names, on that epoch's chip, no two ops of an epoch share a core,
\* and the cores in use are theirs.  Rewinding, moving on to another chip and the
\* late chip assignment of a pipelined commit leave nothing stale behind.
PlacementsAgree ==
    /\ \A o \in DOMAIN name_to_op_placement :
          LET p == name_to_op_placement[o]
          IN  {i \in Epochs : o \in EpochOps(i)} = {p.epoch} /\ epoch[p.epoch].chip = p.chip
    /\ \A i \in Epochs :
          LET ops == epoch[i].ops
              cores(k) == Cores(ops[k][2].start, ops[k][2].shape)
          IN  /\ \A k \in DOMAIN ops :
                    /\ ops[k][1] \in DOMAIN name_to_op_placement
                    /\ ops[k][2] = name_to_op_placement[ops[k][1]]
                    /\ InGrid(epoch[i].grid, ops[k][2].start, ops[k][2].shape)
              /\ \A k, l \in DOMAIN ops : k # l => cores(k) \cap cores(l) = {}
              /\ ops # <<>> => epoch[i].grid.used = UNION {cores(k) : k \in DOMAIN ops}

\* In a committed solution every temporal epoch runs every chip once, with
\* spatial ids counted from 0: the chips that were skipped, and the ones left
\* when an epoch was broken off, have their empty graph.
CommittedEpochsComplete ==
    valid = "committed" =>
        \A t \in {epoch[i].temporal : i \in DOMAIN epoch} :
            LET mine == {i \in DOMAIN epoch : epoch[i].temporal = t}
                n == Len(config.chips)
            IN  /\ Cardinality(mine) = n
                /\ {epoch[i].chip : i \in mine} = Range(config.chips)
                /\ {epoch[i].spatial : i \in mine} = 0 .. n - 1

\* "Re-placing in same order, on the same epoch, same grid start and size -> it
\* should always fit": the replay of rewind_to never fails its assertion.
ReplayFits == valid # "aborted"

\* Both: the records agree after a rewind_to too, whose replay never aborts.
PlacementsHold == PlacementsAgree /\ ReplayFits

\* "The requirement for picking a chip_id is not to repeat chip_ids in a temporal
\* epoch", while it is being placed.
ChipsNotRepeated ==
    valid = "open" =>
        \A i, j \in Epochs : epoch[i].temporal = epoch[j].temporal /\ i # j =>
            epoch[i].chip # epoch[j].chip
=============================================================================
