----------------------------- MODULE EpochPlacer -----------------------------
(***************************************************************************)
(* The list placer (placer/placer.cpp, grid_placer.cpp): it fills epochs   *)
(* with the scheduled ops, taking an epoch back when an op with a user's   *)
(* grid_start finds its place taken, and then deals the epochs to chips    *)
(* and temporal epochs, one way for each architecture.                     *)
(*                                                                         *)
(* One turn of the loop of EpochDevicePlacer::get_next_epoch is a step,    *)
(* and so is one attempt to give an epoch a chip.  Op groups hold one op,  *)
(* as all the generators of lowering_utils.cpp make them.                  *)
(***************************************************************************)
EXTENDS DeviceGrid

CONSTANTS Op, Configs

\* What the callers of the placer hand in: chips and scheduled ops are listed once,
\* every op has a type and a shape, and on Grayskull a backward or optimizer op
\* belongs to a forward op.
OfType(c, type) == {o \in Range(c.schedule) : c.type[o] = type}
OverrideOk(o) ==
    o.start \in {NoCoord} \cup (Nat \X Nat) /\ o.transpose \in BOOLEAN /\ o.chip \in Int
Owned(c, o, of) == \E p \in OfType(c, "fwd") \cap DOMAIN of : o \in of[p]
AllOwned(c) == /\ \A o \in OfType(c, "bwd") : Owned(c, o, c.fwd_to_bwd)
               /\ \A o \in OfType(c, "opt") : Owned(c, o, c.fwd_to_opt)
ConfigOk(c) ==
    /\ c.arch \in {"grayskull", "wormhole", "galaxy"}
    /\ c.chips \in Seq(Nat) /\ c.chips # <<>> /\ IsInjective(c.chips)
    /\ c.galaxy \in Seq(Nat) /\ IsInjective(c.galaxy)
    /\ c.rows \in Nat \ {0} /\ c.cols \in Nat \ {0}
    /\ c.snake \in BOOLEAN
    /\ c.schedule \in Seq(Op) /\ c.schedule # <<>> /\ IsInjective(c.schedule)
    /\ c.type \in [Op -> {"fwd", "bwd", "opt"}]
    /\ c.shape \in [Op -> (Nat \ {0}) \X (Nat \ {0})]
    /\ \A o \in DOMAIN c.override : OverrideOk(c.override[o])
    /\ c.arch = "grayskull" => AllOwned(c)
ASSUME ConfigsAssumption == \A c \in Configs : ConfigOk(c)

VARIABLES
    config,      \* the graph, the device, the user's overrides; never changes
    phase,       \* "place", "assign", "summary", "done", "no_chip", or "abort"
    loads,       \* the calls of place_onto_chip to come, the one in progress first
    remaining, again,       \* remaining_op_groups, op_groups_to_place_again
    placed, active, grid,   \* placed_op_groups, active_op_placements, active_device_grid
    constraints,            \* op_to_device_grid_constraint
    epochs,      \* the epochs the call in progress completed, each a list of placements
    epoch,       \* the solution: epoch id -> [chip, type, temporal, spatial, ops]
    cursor       \* the loops over epochs: see NewCursor

placer == <<remaining, again, placed, active, grid, constraints, epochs>>
vars == <<config, phase, loads, placer, epoch, cursor>>

Types == <<"fwd", "bwd", "opt">>
IsMmio(chip) == chip \in Range(config.mmio)
HasOverride(op) == op \in DOMAIN config.override
Override(op) == IF HasOverride(op) THEN config.override[op] ELSE NoOverride
NumChips == Len(config.chips)
CeilDiv(n, d) == (n + d - 1) \div d

-----------------------------------------------------------------------------
(***************************************************************************)
(* The chips of the ops of a Grayskull device (chip_id_assignment.cpp).    *)
(***************************************************************************)
\* The k-th scheduled op moves the chip index and, if it is a forward op, gets a
\* chip.  With chip breaks (or one chip) every break moves on, if the current chip
\* has an op; without, every chip gets its share of the forward ops.
Turn(c, t, k) ==
    LET n == Len(c.chips)
        fwd == OfType(c, "fwd")
        user_defined == c.chip_breaks # {} \/ n = 1
        ops_per_device == CeilDiv(Cardinality(fwd), n)
        o == c.schedule[k]
        move == user_defined /\ o \in c.chip_breaks /\ DOMAIN t.chip # {}
        at == (t.index + IF move THEN 1 ELSE 0) % n
        full == (Cardinality(DOMAIN t.chip) + 1) % ops_per_device = 0
    IN  IF o \notin fwd THEN [index |-> at, chip |-> t.chip]
        ELSE [index |-> IF ~user_defined /\ full THEN (at + 1) % n ELSE at,
              chip |-> [p \in DOMAIN t.chip \cup {o} |->
                           IF p = o THEN c.chips[at + 1] ELSE t.chip[p]]]

fwd_op_to_chip_id_placement(c) ==
    LET turn[k \in 0 .. Len(c.schedule)] ==
            IF k = 0 THEN [index |-> 0, chip |-> <<>>] ELSE Turn(c, turn[k - 1], k)
    IN  turn[Len(c.schedule)].chip

\* A backward op goes with the first forward op it belongs to, an optimizer op
\* with the last.
get_op_to_chip_id_assignment(c) ==
    LET chip == fwd_op_to_chip_id_placement(c)
        owners(o, of) == {k \in DOMAIN c.schedule :
                             /\ c.schedule[k] \in OfType(c, "fwd") \cap DOMAIN of
                             /\ o \in of[c.schedule[k]]}
        owner(o) == IF c.type[o] = "fwd" THEN o
                    ELSE IF c.type[o] = "bwd" THEN c.schedule[Min(owners(o, c.fwd_to_bwd))]
                    ELSE c.schedule[Max(owners(o, c.fwd_to_opt))]
    IN  [o \in Range(c.schedule) |-> chip[owner(o)]]

(***************************************************************************)
(* The calls of place_onto_chip, in order: per type and chip (backward     *)
(* from the last chip), per type, or per kind of op (galaxy_placer).       *)
(***************************************************************************)
\* map<ChipId, workload>: by increasing chip id.
get_chip_id_order(c, type) ==
    LET ids == Sorted(Range(get_op_to_chip_id_assignment(c)))
    IN  IF type = "bwd" THEN Reverse(ids) ELSE ids

Load(type, chip, ops) == [type |-> type, chip |-> chip, ops |-> ops]

grayskull_loads(c) ==
    LET chip_of == get_op_to_chip_id_assignment(c)
        of(t, chip) == Filter(c.schedule, {o \in OfType(c, t) : chip_of[o] = chip})
        per(t) == [i \in DOMAIN get_chip_id_order(c, t) |->
                     Load(t, get_chip_id_order(c, t)[i], of(t, get_chip_id_order(c, t)[i]))]
    IN  per("fwd") \o per("bwd") \o per("opt")

wormhole_loads(c) ==
    [i \in 1 .. 3 |-> Load(Types[i], 0, Filter(c.schedule, OfType(c, Types[i])))]

galaxy_loads(c) ==
    LET load(t, ops) == Load(t, 0, Filter(c.schedule, ops))
        all == << load("fwd", OfType(c, "fwd")), load("bwd", OfType(c, "bwd") \ c.grad),
                  load("bwd", OfType(c, "bwd") \cap c.grad), load("opt", OfType(c, "opt")) >>
    IN  Filter(all, {l \in Range(all) : l.ops # <<>>})

Loads(c) == CASE c.arch = "grayskull" -> grayskull_loads(c)
              [] c.arch = "wormhole" -> wormhole_loads(c)
              [] c.arch = "galaxy" -> galaxy_loads(c)

increment_epoch(op) == op \in config.epoch_breaks

EmptyGrid == create_empty_device_grid(config.rows, config.cols)

\* Round robin over the chips: the epoch, the chip index and direction, the
\* temporal and spatial epoch, the epochs on this chip, the attempts.
NewCursor(e, type, temporal) ==
    [epoch |-> e, first |-> e, temporal |-> temporal, spatial |-> 0, forward |-> TRUE,
     count |-> 0, attempt |-> 0, index |->
        IF type = "fwd" \/ (type = "opt" /\ config.arch # "galaxy") THEN 0 ELSE NumChips - 1]

Init ==
    /\ config \in Configs
    /\ phase = "place"
    /\ loads = Loads(config)
    /\ remaining = loads[1].ops /\ again = <<>>
    /\ placed = <<>> /\ active = <<>> /\ constraints = <<>>
    /\ grid = EmptyGrid
    /\ epochs = <<>> /\ epoch = <<>>
    /\ cursor = NewCursor(0, "fwd", 0)

-----------------------------------------------------------------------------
(***************************************************************************)
(* EpochDevicePlacer::get_next_epoch                                       *)
(***************************************************************************)
Placing == phase = "place" /\ remaining \o again # <<>>
OpGroupToPlace == IF again # <<>> THEN Head(again) ELSE Head(remaining)

complete_epoch ==
    /\ epochs' = Append(epochs, active)
    /\ placed' = <<>> /\ active' = <<>> /\ constraints' = <<>>
    /\ grid' = EmptyGrid
    /\ UNCHANGED <<config, phase, loads, remaining, again, epoch, cursor>>

Abort == phase' = "abort" /\ UNCHANGED <<config, loads, placer, epoch, cursor>>

Breaking == increment_epoch(OpGroupToPlace) /\ active # <<>>
EpochBreak == Placing /\ Breaking /\ complete_epoch

\* An op that had a constraint must not be replaced: it is the last one tried.
PlaceGroup(r) ==
    LET op == OpGroupToPlace
    IN  /\ r.res = "placed"
        /\ IF op \in DOMAIN constraints /\ again # <<>> THEN Abort
           ELSE /\ constraints' = [o \in DOMAIN constraints \ {op} |-> constraints[o]]
                /\ grid' = fill_device_grid_with_placement(grid, r.start, r.shape)
                /\ active' = Append(active, [op |-> op, start |-> r.start, shape |-> r.shape,
                                             transposed |-> r.transposed])
                /\ placed' = Append(placed, op)
                /\ IF again = <<>> THEN remaining' = Tail(remaining) /\ UNCHANGED again
                   ELSE again' = Tail(again) /\ UNCHANGED remaining
                /\ UNCHANGED <<config, phase, loads, epochs, epoch, cursor>>

NoRoom(r) == r.res = "no_room" /\ complete_epoch

ShapeOf(op) == IF Override(op).transpose THEN Transposed(config.shape[op]) ELSE config.shape[op]

\* Mutants: the ops to place again are queued last first, or nothing is held back.
ReplayReversed(op, kept) ==
    /\ constraints' = (op :> kept) @@ constraints
    /\ again' = Reverse(placed) \o again
    /\ placed' = <<>> /\ active' = <<>> /\ grid' = EmptyGrid
    /\ UNCHANGED <<config, phase, loads, remaining, epochs, epoch, cursor>>
ReplayUnconstrained(op, kept) ==
    /\ again' = placed \o again
    /\ placed' = <<>> /\ active' = <<>> /\ grid' = EmptyGrid
    /\ UNCHANGED <<config, phase, loads, remaining, constraints, epochs, epoch, cursor>>

\* Start the epoch again with the cores of the grid `kept` held back for the op.
Replay(op, kept) ==
    /\ constraints' = [o \in DOMAIN constraints \cup {op} |->
                          IF o = op THEN kept ELSE constraints[o]]
    /\ again' = placed \o again
    /\ placed' = <<>> /\ active' = <<>>
    /\ grid' = EmptyGrid
    /\ UNCHANGED <<config, phase, loads, remaining, epochs, epoch, cursor>>

\* The place of the user's override is taken: start the epoch again with the place
\* kept free, unless an op with an override of its own holds it.
Taken(r) ==
    LET op == OpGroupToPlace
        kept == fill_device_grid_with_placement(EmptyGrid, Override(op).start, ShapeOf(op))
        overridden == {k \in DOMAIN active : HasOverride(active[k].op)}
        unset == {k \in overridden : Override(active[k].op).start = NoCoord}
        conflicts(k) == ~can_place_on_device_grid(kept, Override(active[k].op).start,
                                                  ShapeOf(active[k].op))
    IN  /\ r.res = "taken"
        /\ IF \E k \in overridden \ unset : conflicts(k) /\ \A u \in unset : k < u
           THEN complete_epoch
           ELSE IF unset # {} THEN Abort
           ELSE Replay(op, kept)

Conflict(r) == r.res \in {"conflict", "abort"} /\ Abort

TryGroup ==
    /\ Placing /\ ~Breaking
    /\ \E r \in {get_placed_coordinate(OpGroupToPlace, config.shape[OpGroupToPlace], grid,
                       Override(OpGroupToPlace), config.auto_transpose, constraints)} :
          PlaceGroup(r) \/ NoRoom(r) \/ Taken(r) \/ Conflict(r)

-----------------------------------------------------------------------------
(***************************************************************************)
(* The end of place_onto_chip: the epochs get their global ids.  An empty  *)
(* epoch is missing from the solution, and the callers refuse that.        *)
(***************************************************************************)
NumEpochs == Cardinality(DOMAIN epoch)
Next1 == IF Len(loads) > 1 THEN loads[2].ops ELSE <<>>

PlacedOntoChip ==
    LET done == IF active = <<>> THEN epochs ELSE Append(epochs, active)
        ids == NumEpochs .. NumEpochs + Len(done) - 1
        load == loads[1]
        new(i) == [chip |-> load.chip, type |-> load.type, temporal |-> i, spatial |-> 0,
                   ops |-> done[i - NumEpochs + 1]]
    IN  /\ phase = "place" /\ remaining \o again = <<>>
        /\ epochs' = <<>> /\ placed' = <<>> /\ active' = <<>> /\ constraints' = <<>>
        /\ grid' = EmptyGrid
        /\ epoch' = [i \in DOMAIN epoch \cup ids |-> IF i \in ids THEN new(i) ELSE epoch[i]]
        /\ cursor' = NewCursor(NumEpochs, load.type, cursor.temporal)
        /\ IF <<>> \in Range(done) THEN phase' = "abort" /\ UNCHANGED <<loads, remaining>>
           ELSE IF config.arch = "grayskull"
           THEN /\ loads' = Tail(loads) /\ remaining' = Next1
                /\ phase' = IF Tail(loads) = <<>> THEN "done" ELSE "place"
           ELSE phase' = "assign" /\ UNCHANGED <<loads, remaining>>
        /\ UNCHANGED <<config, again>>

\* The chips of a call's epochs are assigned: the next call, or the summary.
NextLoad ==
    /\ phase = "assign" /\ cursor.epoch = NumEpochs
    /\ loads' = Tail(loads) /\ remaining' = Next1
    /\ phase' = IF Tail(loads) # <<>> THEN "place"
                ELSE IF config.arch = "wormhole" THEN "summary" ELSE "done"
    /\ cursor' = IF Tail(loads) # <<>> THEN cursor ELSE NewCursor(0, "fwd", 0)
    /\ UNCHANGED <<config, again, placed, active, grid, constraints, epochs, epoch>>

(***************************************************************************)
(* wormhole_placer: the chips in the order of the placement policy, until  *)
(* one may run the epoch.                                                  *)
(***************************************************************************)
EpochOps(i) == {epoch[i].ops[k].op : k \in DOMAIN epoch[i].ops}
IsOutput(op) == config.output_queues_on_host /\ op \in config.output

can_place_epoch_onto_chip(i, chip) ==
    \A op \in EpochOps(i) :
        /\ IsOutput(op) => IsMmio(chip)
        /\ op \in DOMAIN config.assigned => config.assigned[op] = chip
        /\ Override(op).chip \in {NoChip, chip}
        /\ config.nebula /\ IsMmio(chip) => IsOutput(op)

\* The user's chips of an epoch: more than one, or one that cannot be, is fatal.
validate_epoch_placement(i) ==
    LET chips == ({Override(op).chip : op \in EpochOps(i)} \ {NoChip})
                 \cup {config.assigned[op] : op \in EpochOps(i) \cap DOMAIN config.assigned}
    IN  /\ Cardinality(chips) <= 1
        /\ (\E op \in EpochOps(i) : IsOutput(op)) => \A c \in chips : IsMmio(c)

\* Snaking, the direction turns at either end and the chip stays.
advance_epoch(c, fwd_direction, snake) ==
    LET up == IF snake THEN c.forward ELSE fwd_direction
        last == c.index = IF up THEN NumChips - 1 ELSE 0
        step == IF up THEN 1 ELSE -1
    IN  IF last THEN [c EXCEPT !.spatial = 0, !.temporal = @ + 1,
                         !.index = IF snake THEN @ ELSE IF up THEN 0 ELSE NumChips - 1,
                         !.forward = IF snake THEN ~@ ELSE @]
        ELSE [c EXCEPT !.spatial = @ + 1, !.index = @ + step]

\* Mutant: one attempt for every chip.
OneAttemptPerChip == NumChips

MaxAttempts == 2 * NumChips + 1

TryChip(chip) ==
    LET i == cursor.epoch
        valid == can_place_epoch_onto_chip(i, chip)
        count == cursor.count + IF valid THEN 1 ELSE 0
        full == count >= CeilDiv(NumEpochs - cursor.first, NumChips)
        move == ~config.pipelined \/ ~valid \/ full
        here == [cursor EXCEPT !.count = IF config.pipelined /\ move THEN 0 ELSE count,
                               !.epoch = IF valid THEN i + 1 ELSE i,
                               !.attempt = IF valid THEN 0 ELSE @ + 1]
    IN  /\ cursor' = IF move THEN advance_epoch(here, loads[1].type # "bwd", config.snake)
                     ELSE here
        /\ epoch' = IF valid THEN [epoch EXCEPT ![i].chip = chip,
                                     ![i].temporal = cursor.temporal,
                                     ![i].spatial = cursor.spatial % NumChips]
                    ELSE epoch
        /\ phase' = IF ~validate_epoch_placement(i) THEN "abort"
                    ELSE IF ~valid /\ cursor.attempt + 1 = MaxAttempts THEN "no_chip" ELSE phase
        /\ UNCHANGED <<config, loads, placer>>

AssignWormhole ==
    /\ phase = "assign" /\ config.arch = "wormhole" /\ cursor.epoch < NumEpochs
    /\ \E chip \in {apply_chip_placement_policy(config)[cursor.index + 1]} : TryChip(chip)

\* galaxy_placer: round robin, a new temporal epoch on every wrap and every call.
AssignGalaxy ==
    LET i == cursor.epoch
        up == loads[1].type = "fwd"
        moved == advance_epoch([cursor EXCEPT !.epoch = @ + 1], up, FALSE)
    IN  /\ phase = "assign" /\ config.arch = "galaxy" /\ i < NumEpochs
        /\ epoch' = [epoch EXCEPT ![i].chip = config.chips[cursor.index + 1],
                        ![i].temporal = cursor.temporal,
                        ![i].spatial = cursor.spatial % NumChips]
        /\ cursor' = IF i < NumEpochs - 1 THEN moved
                     ELSE [cursor EXCEPT !.epoch = @ + 1, !.temporal = @ + 1]
        /\ UNCHANGED <<config, phase, loads, placer>>

(***************************************************************************)
(* wormhole_placer, the summary: temporal epochs anew, from the chips that *)
(* were assigned.  A chip that comes again, a temporal epoch break and a   *)
(* new epoch type start one; then every chip without an epoch gets an      *)
(* empty one.                                                              *)
(***************************************************************************)
SpatialIndex(chip) == SelectInSeq(config.chips, LAMBDA c : c = chip) - 1

\* Mutant: a new epoch type does not end the temporal epoch.
TemporalBreakOps(i) == EpochOps(i) \cap config.temporal_breaks # {}

TemporalBreak(i) ==
    \/ EpochOps(i) \cap config.temporal_breaks # {}
    \/ epoch[i].type # IF i = 0 THEN "fwd" ELSE epoch[i - 1].type

SummarizeEpoch ==
    LET i == cursor.epoch
        before == 0 .. i - 1
        again_at == {epoch[j].temporal + 1 : j \in {k \in before : epoch[k].chip = epoch[i].chip}}
        t == Max({cursor.temporal} \cup again_at)
        used == \E j \in before : epoch[j].temporal = t
        temporal == IF TemporalBreak(i) /\ used THEN t + 1 ELSE t
    IN  /\ phase = "summary" /\ i < NumEpochs
        /\ epoch' = [epoch EXCEPT ![i].temporal = temporal,
                                  ![i].spatial = SpatialIndex(epoch[i].chip)]
        /\ cursor' = [cursor EXCEPT !.epoch = i + 1, !.temporal = temporal]
        /\ UNCHANGED <<config, phase, loads, placer>>

InsertEmptyEpochs ==
    LET have == {<<epoch[i].temporal, epoch[i].spatial>> : i \in DOMAIN epoch}
        temporals == {h[1] : h \in have}
        missing == (temporals \X (0 .. NumChips - 1)) \ have
        id(m) == NumEpochs + Cardinality({n \in missing : Before(n, m)})
        typeOf(t) == epoch[Max({i \in DOMAIN epoch : epoch[i].temporal = t})].type
        empty(m) == [chip |-> config.chips[m[2] + 1], type |-> typeOf(m[1]), temporal |-> m[1],
                     spatial |-> m[2], ops |-> <<>>]
    IN  /\ phase = "summary" /\ cursor.epoch = NumEpochs
        /\ epoch' = [i \in DOMAIN epoch \cup {id(m) : m \in missing} |->
                        IF i \in DOMAIN epoch THEN epoch[i]
                        ELSE empty(CHOOSE m \in missing : id(m) = i)]
        /\ phase' = "done"
        /\ UNCHANGED <<config, loads, placer, cursor>>

Stopped == phase \in {"done", "abort", "no_chip"}

PlacerStep == \/ EpochBreak \/ TryGroup \/ PlacedOntoChip \/ NextLoad
              \/ AssignWormhole \/ AssignGalaxy \/ SummarizeEpoch \/ InsertEmptyEpochs

Next == PlacerStep \/ (Stopped /\ UNCHANGED vars)

Spec == Init /\ [][Next]_vars /\ WF_vars(PlacerStep)

-----------------------------------------------------------------------------
(***************************************************************************)
(* Properties.                                                             *)
(***************************************************************************)
Position(op) == SelectInSeq(config.schedule, LAMBDA o : o = op)
EpochOf(op) == CHOOSE i \in DOMAIN epoch : op \in EpochOps(i)
SamePass(o, p) == /\ config.type[o] = config.type[p]
                  /\ config.arch = "grayskull" => epoch[EpochOf(o)].chip = epoch[EpochOf(p)].chip
                  /\ config.arch = "galaxy" => (o \in config.grad) = (p \in config.grad)

\* Whatever was taken back on the way, the solution holds every scheduled op in
\* one epoch, ops of an epoch share no core, a user's grid_start is where the op
\* starts, an op with an epoch break opens its epoch, and within a pass no op comes
\* in an epoch before that of an op scheduled earlier.
SolutionSound ==
    phase = "done" =>
        /\ \A op \in Range(config.schedule) :
              Cardinality({i \in DOMAIN epoch : op \in EpochOps(i)}) = 1
        /\ \A i \in DOMAIN epoch :
              LET ops == epoch[i].ops
                  cores(k) == Cores(ops[k].start, ops[k].shape)
              IN  /\ \A k, l \in DOMAIN ops : k # l => cores(k) \cap cores(l) = {}
                  /\ \A k \in DOMAIN ops :
                        /\ InGrid(EmptyGrid, ops[k].start, ops[k].shape)
                        /\ Override(ops[k].op).start \in {NoCoord, ops[k].start}
                        /\ ops[k].op \in config.epoch_breaks => k = 1
        /\ \A o, p \in Range(config.schedule) :
              Position(o) < Position(p) /\ SamePass(o, p) => EpochOf(o) <= EpochOf(p)

\* No chip runs twice in a temporal epoch and a temporal epoch has one type; on
\* Wormhole every chip has an epoch in each, and an op with a temporal epoch break
\* has no earlier epoch in its own.
TemporalEpochsComplete ==
    phase = "done" =>
        /\ \A i, j \in DOMAIN epoch : i # j /\ epoch[i].temporal = epoch[j].temporal =>
              /\ epoch[i].chip # epoch[j].chip /\ epoch[i].spatial # epoch[j].spatial
              /\ epoch[i].type = epoch[j].type
        /\ config.arch = "wormhole" =>
              \A i \in DOMAIN epoch :
                 LET mine == {j \in DOMAIN epoch : epoch[j].temporal = epoch[i].temporal}
                 IN  /\ {epoch[j].chip : j \in mine} = Range(config.chips)
                     /\ EpochOps(i) \cap config.temporal_breaks # {} =>
                           \A j \in mine : j < i => epoch[j].ops = <<>>

\* 2 * chips + 1 attempts reach every chip from every place and in every
\* direction of the snake: the placer gives up only if no chip may run the epoch.
AttemptsSuffice ==
    phase = "no_chip" =>
        \A chip \in Range(config.chips) : ~can_place_epoch_onto_chip(cursor.epoch, chip)

\* Every placement ends, in a solution or because no chip may run an epoch.
PlacementEnds == <>(phase \in {"done", "no_chip"})

\* "Given {op_groups, constraints on grid-location of ops}, just return a
\* fully-populated device-grid epoch": no epoch is completed without an op.
EpochsPopulated == <<>> \notin Range(epochs)
=============================================================================
