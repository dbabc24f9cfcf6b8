----------------------------- MODULE DeviceGrid -----------------------------
(***************************************************************************)
(* The grid of cores of one chip in one epoch and the search for a place   *)
(* on it (grid_placer.cpp, EpochIdToDeviceGrid of placer.cpp).             *)
(*                                                                         *)
(* A device grid is a record [rows, cols, used]: used is the set of cores  *)
(* <<row, col>> that an op occupies.  Coordinates and shapes are pairs,    *)
(* rows first, counted from 0 as in the code.  An exception of the code is *)
(* the field res of the result: "no_room" is FailToPlaceOnCurrentEpoch,    *)
(* "taken" FailToSatisfyPlacementConstraint, "conflict"                    *)
(* FailToSatisfyConflictingConstraint, "abort" a failed assertion.         *)
(***************************************************************************)
EXTENDS Integers, FiniteSets, Sequences, SequencesExt

NoCoord == <<>>

\* An op override: where to start, whether to transpose, on which chip.
NoChip == -1
NoOverride == [start |-> NoCoord, transpose |-> FALSE, chip |-> NoChip]

\* A finite set of numbers in increasing order (the keys of a std::map), and the
\* elements of s that are in S, in their order (a loop with push_back).
Nth(S, i) == CHOOSE x \in S : Cardinality({y \in S : y <= x}) = i
Sorted(S) == [i \in 1 .. Cardinality(S) |-> Nth(S, i)]

Filter(s, S) ==
    LET kept == Sorted({k \in DOMAIN s : s[k] \in S})
    IN  [i \in DOMAIN kept |-> s[kept[i]]]

\* lowering::apply_chip_placement_policy: galaxy chips in snake order and then
\* the others, or, without a galaxy order, chips without mmio first.
apply_chip_placement_policy(c) ==
    LET first == IF c.galaxy # <<>> THEN Filter(c.galaxy, Range(c.chips))
                 ELSE Filter(c.chips, Range(c.chips) \ Range(c.mmio))
    IN  first \o Filter(c.chips, Range(c.chips) \ Range(first))

create_empty_device_grid(rows, cols) == [rows |-> rows, cols |-> cols, used |-> {}]

Cores(start, shape) ==
    (start[1] .. start[1] + shape[1] - 1) \X (start[2] .. start[2] + shape[2] - 1)

Transposed(shape) == <<shape[2], shape[1]>>

InGrid(g, start, shape) ==
    start[1] + shape[1] <= g.rows /\ start[2] + shape[2] <= g.cols

can_place_on_device_grid(g, start, shape) ==
    InGrid(g, start, shape) /\ Cores(start, shape) \cap g.used = {}

fill_device_grid_with_placement(g, start, shape) ==
    [g EXCEPT !.used = @ \cup Cores(start, shape)]

\* The grid with the constraint grids of the other ops laid over it.
superposition(g, op, constraints) ==
    [g EXCEPT !.used = @ \cup UNION {constraints[c].used : c \in DOMAIN constraints \ {op}}]

satisfies_constraints(op, start, shape, constraints) ==
    \A c \in DOMAIN constraints \ {op} : can_place_on_device_grid(constraints[c], start, shape)

\* Coord::operator<
Before(a, b) == a[1] < b[1] \/ (a[1] = b[1] /\ a[2] < b[2])

\* The first free location, row by row.
get_next_grid_coordinate(g, shape) ==
    LET free == {s \in (0 .. g.rows - 1) \X (0 .. g.cols - 1) :
                    can_place_on_device_grid(g, s, shape)}
    IN  IF free = {} THEN NoCoord
        ELSE CHOOSE s \in free : \A t \in free : s = t \/ Before(s, t)

\* The height of the block to the left of the candidate: the rows below the
\* candidate's that its nearest occupied column fills without a gap.
get_active_placement_row_height(g, candidate) ==
    LET i == candidate[1]
        left == {c \in 0 .. candidate[2] - 1 : <<i, c>> \in g.used}
        filled == {h \in 1 .. g.rows - i :
                      \A r \in i .. i + h - 1 : <<r, Max(left)>> \in g.used}
    IN  IF left # {} THEN Max(filled) ELSE IF g.rows > g.cols THEN g.rows - i ELSE 0

Transposable(g, shape) == shape[2] <= g.rows /\ shape[1] <= g.cols

should_try_auto_transpose_op(g, shape, enable, manual) ==
    Transposable(g, shape) /\ enable /\ shape[1] > shape[2] /\ ~manual

\* A square op is never reported as transposed.
PlacedAt(start, shape, transposed) ==
    [res |-> "placed", start |-> start,
     shape |-> IF transposed THEN Transposed(shape) ELSE shape,
     transposed |-> transposed /\ shape[1] # shape[2]]
Failed(res) == [res |-> res]

(***************************************************************************)
(* The search of get_placed_coordinate, without an epoch increment: the    *)
(* first core of the grid, else the first free location, else (or when     *)
(* that one lies beside a block lower than the op) the first free location *)
(* of the transposed op.  g is the epoch's grid, over the grid with the    *)
(* constraints laid over it.                                               *)
(***************************************************************************)
SearchGrid(g, over, shape, manual, auto) ==
    LET local == IF manual THEN Transposed(shape) ELSE shape
        next == get_next_grid_coordinate(over, local)
        nextT == get_next_grid_coordinate(over, Transposed(local))
        apply_auto_transpose ==
            /\ should_try_auto_transpose_op(g, shape, auto, manual)
            /\ next = NoCoord \/ get_active_placement_row_height(g, next) < shape[1]
        transpose ==
            /\ ~can_place_on_device_grid(over, <<0, 0>>, local)
            /\ apply_auto_transpose /\ nextT # NoCoord
            /\ next = NoCoord \/ nextT = next \/ Before(nextT, next)
    IN  IF transpose THEN PlacedAt(nextT, shape, TRUE)
        ELSE IF next = NoCoord THEN Failed("no_room") ELSE PlacedAt(next, shape, manual)

(***************************************************************************)
(* get_placed_coordinate: a user's grid_start is taken as it is, or        *)
(* refused because an op or the constraint of another op is in the way.    *)
(***************************************************************************)
get_placed_coordinate(op, shape, g, override, auto, constraints) ==
    LET over == superposition(g, op, constraints)
        manual == override.transpose
        local == IF manual THEN Transposed(shape) ELSE shape
    IN  IF manual /\ ~Transposable(g, shape) THEN Failed("abort")
        ELSE IF override.start = NoCoord THEN SearchGrid(g, over, shape, manual, auto)
        ELSE IF ~satisfies_constraints(op, override.start, local, constraints)
             THEN Failed("conflict")
        ELSE IF can_place_on_device_grid(over, override.start, local)
             THEN PlacedAt(override.start, shape, manual)
        ELSE Failed("taken")

\* place_one_op: every exception is caught and means "not on this epoch".
place_one_op(op, shape, g, override, auto) ==
    LET r == get_placed_coordinate(op, shape, g, override, auto, <<>>)
    IN  IF r.res = "placed" THEN r ELSE Failed("no_room")
=============================================================================
