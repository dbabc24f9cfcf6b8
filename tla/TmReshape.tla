------------------------------ MODULE TmReshape ------------------------------
(***************************************************************************)
(* decompose_post_optimize() of tm.py: the reshapes, selects, repeats and  *)
(* slices that are left when the graph is about to be lowered become       *)
(* padded tiles and pickers.  For a reshape the shapes decide between a    *)
(* chain of seventeen plans; o and a are the shapes before and after with  *)
(* leading ones up to rank four, and W, Z, Y, X are called by position.    *)
(***************************************************************************)
EXTENDS TmDecompose

(* decompose_select: by a picker unless it takes whole tiles or slices.    *)
SelectPostOptimize(attr, x) ==
    LET s == x.shape
        d == NegDim(s, attr[1])
        n == Dim(s, d)
        index == attr[2]
        length == attr[3]
        stride == attr[4]
        aligned == IsTiles(index) /\ IsTiles(length) /\ IsTiles(stride)
        size == Cardinality({k \in index..(n - 1) : (k - index) % stride = 0}) * length
        padded == PadTile2(x)
        m == Picker(AlignTile(size), Dim(padded.shape, d), LAMBDA i : IF i < length THEN index + i ELSE -1)
        spm == IF Len(s) > 2 /\ Dim(s, -3) > 1 THEN InRank(StackPicker(m, Dim(s, -3)), 4) ELSE m
    IN  IF n = length THEN <<Un("nop", x)>>
        ELSE IF d \notin {-2, -1} \/ aligned \/ stride # n THEN None
        ELSE IF d = -1 THEN <<NarrowTo(NarrowTo(PickCols(spm, padded), -1, size), -2, Dim(s, -2))>>
        ELSE <<NarrowTo(NarrowTo(PickRows(spm, padded), -1, Dim(s, -1)), -2, size)>>

-----------------------------------------------------------------------------
(* One element: broadcasts.                                                *)
ReshapeOfScalar(x, a) ==
    LET z == Dim(a, -3)
        y == Dim(a, -2) * z
        wide == IF Dim(a, -1) = 1 THEN x ELSE Tmo("broadcast", <<-1, Dim(a, -1)>>, x)
        tall == IF y = 1 THEN wide ELSE Tmo("broadcast", <<-2, y>>, wide)
    IN  IF z = 1 THEN tall ELSE Tmo("vslice", <<z>>, tall)

(* Everything into one line: rows below each other, each at the start of a *)
(* tile row, the tile rows side by side, and the gaps closed.              *)
FlattenAll(x, o, a) ==
    LET z == Dim(o, -3)
        stacked == Tmo("vstack", <<z>>, PadTile2(x))
        dense == IF IsTiles(Dim(o, -2)) THEN stacked
                 ELSE PickRows(create_padding_shift_sparse_picker_matrix(z * Dim(o, -2), z, Rows(stacked)), stacked)
        n == Rows(dense)
        spread == PickRows(create_reshape_flatten_sparse_picker_matrix(n, TILE_DIM * n), dense)
        line == TransposeXY(Tmo("hstack", <<n>>, Un("buffer", Tmo("vslice", <<n>>, spread))))
        m == create_flattened_padding_removal_sparse_picker_matrix(Rows(line), 0, Dim(o, -1), Cols(dense), FALSE, FALSE)
        cut == Narrow(m, -2, 0, AlignTile(Dim(a, -1)))
    IN  NarrowTo(NarrowTo(TransposeXY(PickRows(cut, line)), -2, Dim(a, -2)), -1, Dim(a, -1))

(* A column into rows: an element per tile, the tiles arranged, and the    *)
(* gaps closed both ways.                                                  *)
ColumnToMatrix(x, o, a) ==
    LET n == Dim(o, -2)
        padded == PadTile2(x)
        tiles == Tmo("vslice", <<n>>, PickRows(Picker(n * TILE_DIM, Rows(padded), LAMBDA i : IF i % TILE_DIM = 0 THEN i \div TILE_DIM ELSE -1), padded))
        wide == IF Slices(tiles) > 1 THEN Tmo("hstack", <<Dim(a, -1)>>, tiles) ELSE tiles
        all == IF Slices(wide) > 1 THEN Tmo("vstack", <<Dim(a, -2)>>, wide) ELSE wide
        Close(k) == create_flattened_padding_removal_sparse_picker_matrix(k, 0, 1, TILE_DIM, TRUE, FALSE)
        rows == PickRows(Close(Rows(all)), all)
    IN  NarrowTo(NarrowTo(PickCols(Close(Cols(rows)), rows), -2, Dim(a, -2)), -1, Dim(a, -1))

(* A row or a column into whole tiles.                                     *)
VectorToTiles(x, o, a) ==
    LET col == IF o[3] = 1 THEN TransposeXY(x) ELSE x
        n == (IF o[3] = 1 THEN Dim(o, -1) ELSE Dim(o, -2)) \div Dim(a, -1)
        slices == TransposeXY(Tmo("vslice", <<n>>, PadTile2(col)))
        all == Tmo("vstack", <<n * Dim(o, -3)>>, slices)
        m == transpose_sparse_picker_matrix(create_reshape_flatten_sparse_picker_matrix(Dim(a, -2) * Dim(a, -3), Rows(all)))
    IN  IF Dim(o, -3) > 1 /\ Dim(a, -3) > 1 THEN Tmo("vslice", <<Dim(a, -3)>>, PickRows(m, all)) ELSE PickRows(m, all)

(* decompose_xy_flatten_reshape: Y and X of each slice into one row.  want *)
(* is the rank of the result.                                              *)
XyFlatten(x, o, want) ==
    LET z == Dim(o, -3)
        y == Dim(o, -2)
        n == Dim(o, -1)
        padded == PadTile2(x)
        side == IF z > 1 THEN Tmo("hstack", <<z>>, padded) ELSE padded
        r_new == (Cols(side) * y) \div (Cols(side) \div TILE_DIM)
        spread == PickRows(create_reshape_flatten_sparse_picker_matrix(Rows(side), r_new), side)
        apart == IF z > 1 THEN Tmo("hslice", <<z>>, spread) ELSE spread
        rt == AlignTile(r_new) \div TILE_DIM
        line == Tmo("hstack", <<rt>>, Tmo("vslice", <<rt>>, apart))
        below == IF z > 1 THEN Tmo("vstack", <<z>>, line) ELSE line
        closed == IF IsTiles(n) THEN below
                  ELSE PickCols(create_flattened_padding_removal_sparse_picker_matrix(Cols(below), 0, n, AlignTile(n), FALSE, FALSE), below)
        r == ToRank(closed, want)
    IN  IF z > 1
        THEN PickRows(create_flattened_padding_removal_sparse_picker_matrix(Rows(r), 0, 1, TILE_DIM, FALSE, FALSE), r)
        ELSE NarrowTo(r, -2, 1)

(* decompose_xy_unflatten: each row into a slice of Y rows.                *)
XyUnflatten(x, o, a) ==
    LET y == Dim(o, -2)
        ay == Dim(a, -2)
        ax == Dim(a, -1)
        picked == PickRows(create_reshape_flatten_sparse_picker_matrix(y, y * TILE_DIM), x)
        tall == TransposeXY(PadTileIfNeeded(PadTileIfNeeded(picked, -2), -1))
        n == IF ax < TILE_DIM THEN ay ELSE AlignTile(ay)
        m == Picker(n * AlignTile(ax), Rows(tall),
                    LAMBDA i : LET k == i \div AlignTile(ax)
                                   j == i % AlignTile(ax)
                               IN  IF k < ay /\ j < ax /\ k * ax + j < Dim(o, -1) THEN k * ax + j ELSE -1)
        groups == TransposeXY(IF IsTiles(ax) /\ IsTiles(ay) THEN tall ELSE PickRows(m, tall))
        slices == IF y > 1 THEN Tmo("vslice", <<y>>, groups)
                  ELSE IF Len(groups.shape) = 2 THEN Tmo("unsqueeze", <<0, 2>>, groups) ELSE groups
        z == Slices(slices)
        rows == Tmo("vstack", <<n * z>>, TransposeXY(Tmo("vslice", <<n>>, TransposeXY(slices))))
        close == transpose_sparse_picker_matrix(create_reshape_flatten_sparse_picker_matrix(n * Dim(a, -3), Rows(rows)))
        closed == PickRows(close, rows)
        deep == IF z > 1 /\ Dim(a, -3) > 1 THEN Tmo("vslice", <<Dim(a, -3)>>, closed) ELSE closed
    IN  NarrowIfNeeded(NarrowIfNeeded(deep, -1, ax), -2, ay)

(* decompose_non_tile_dim_aligned_vslice: groups of Y rows into slices.    *)
UnalignedVslice(x, o, a) ==
    LET az == Dim(a, -3)
        ay == Dim(a, -2)
        padded == PadTile2(UnsqueezeTo(x, 4))
        n == IF ay < TILE_DIM THEN az ELSE AlignTile(az)
        m == PadDim(GroupsToTiles(az, ay, Rows(padded)), -2, 0, (n - az) * AlignTile(ay))
        cut == IF ay >= TILE_DIM THEN Narrow(m, -2, 0, az * AlignTile(ay)) ELSE m
        rows == IF IsTiles(ay) /\ IsTiles(Dim(o, -2)) THEN padded ELSE PickRows(cut, padded)
    IN  NarrowIfNeeded(NarrowIfNeeded(Tmo("vslice", <<az>>, rows), -1, Dim(a, -1)), -2, ay)

(* Slices into one column of rows, without the tile padding.               *)
UnalignedVstack(x, o, a) ==
    LET padded == PadTile2(UnsqueezeTo(x, 4))
        all == Tmo("vstack", <<Dim(o, -3)>>, padded)
        rows == IF IsTiles(Dim(o, -2)) THEN all
                ELSE PickRows(TilesToGroups(Dim(o, -3), Dim(o, -2), AlignTile(Dim(a, -2)), Rows(all)), all)
    IN  NarrowIfNeeded(NarrowIfNeeded(rows, -1, Dim(a, -1)), -2, Dim(a, -2))

(* One vector between Z and X, or Z and Y; y1 is the dimension of x that   *)
(* must be one (X or Y), transposed to Y for X.                            *)
VectorFromZ(x, o) ==
    LET all == Tmo("vstack", <<Dim(o, -3)>>, PadTile(x, -2))
    IN  PickRows(transpose_sparse_picker_matrix(create_reshape_flatten_sparse_picker_matrix(Dim(o, -3), Rows(all))), all)
VectorToZ(x, n, z) ==
    LET padded == PadTile(x, -2)
        m == Picker(n * TILE_DIM, Rows(padded), LAMBDA i : IF i % TILE_DIM = 0 THEN i \div TILE_DIM ELSE -1)
    IN  Tmo("vslice", <<z>>, PickRows(m, padded))
ZToX(x4, o, a) ==
    IF Dim(o, -1) = 1 THEN TransposeXY(VectorFromZ(TransposeXY(x4), o))
    ELSE Tmo("narrow", <<-1, 0, 1, 1>>, TransposeXY(VectorToZ(TransposeXY(x4), Dim(o, -1), Dim(a, -3))))
ZToY(x4, o, a) ==
    IF Dim(o, -2) = 1 THEN VectorFromZ(x4, o)
    ELSE Tmo("narrow", <<-2, 0, 1, 1>>, VectorToZ(x4, Dim(o, -2), Dim(a, -3)))

(* Rows into more, narrower rows, and into fewer, wider ones.  Z may be    *)
(* taken for Y where Y is one.                                             *)
RowPerTile(x) ==
    LET p == Matmul(create_reshape_flatten_sparse_picker_matrix(Rows(x), TILE_DIM * Rows(x)), x)
    IN  Tmo("vslice", <<Rows(x)>>, p)
CloseRows(x) ==
    Matmul(AlignedRows(create_flattened_padding_removal_sparse_picker_matrix(Rows(x), 0, 1, TILE_DIM, FALSE, FALSE)), x)

NarrowerRows(x, o, a) ==
    LET swap == Dim(o, -3) # Dim(a, -3)
        y == IF swap THEN Tmo("transpose", <<-3, -2>>, x) ELSE x
        z == IF swap THEN Dim(o, -2) ELSE Dim(o, -3)
        ax == Dim(a, -1)
        ay == Dim(a, -2)
        f == Dim(o, -1) \div ax
        tiles == RowPerTile(PadTile2(y))
        parts == IF IsTiles(Dim(o, -1)) /\ IsTiles(ax) THEN Tmo("hslice", <<f>>, tiles)
                 ELSE TransposeXY(Tmo("vslice", <<f>>, Matmul(GroupsToTiles(f, ax, Cols(tiles)), TransposeXY(tiles))))
        closed == CloseRows(Tmo("vstack", <<Slices(parts) \div z>>, parts))
        cut == IF AlignTile(ay) = AlignTile(Rows(closed)) THEN closed
               ELSE Matmul(Picker(ay, Rows(closed), LAMBDA i : i), closed)
    IN  NarrowIfNeeded(NarrowIfNeeded(cut, -1, ax), -2, ay)

WiderRows(x, o, a) ==
    LET swap == Dim(o, -3) # Dim(a, -3)
        y == IF swap THEN Tmo("transpose", <<-3, -2>>, x) ELSE x
        z == IF swap THEN Dim(o, -2) ELSE Dim(o, -3)
        oy == IF swap THEN Dim(o, -3) ELSE Dim(o, -2)
        f == oy \div Dim(a, -2)
        padded == PadTile2(y)
        tiles == RowPerTile(padded)
        whole == Tmo("hstack", <<f>>, tiles)
        below == Tmo("vstack", <<Slices(tiles) \div Slices(padded)>>, tiles)
        used == Matmul(Picker(TILE_DIM * oy, Rows(below), LAMBDA i : i), below)
        side == IF IsTiles(oy) THEN Tmo("vstack", <<Slices(whole) \div z>>, whole)
                ELSE Tmo("vstack", <<oy \div f>>, Tmo("hstack", <<f>>, Tmo("vslice", <<oy>>, used)))
        m == create_flattened_padding_removal_sparse_picker_matrix(Cols(side), 0, Dim(o, -1), Cols(padded), FALSE, FALSE)
        dense == IF IsTiles(Dim(o, -1)) THEN side ELSE TransposeXY(Matmul(AlignedRows(m), TransposeXY(side)))
    IN  NarrowIfNeeded(NarrowIfNeeded(CloseRows(dense), -1, Dim(a, -1)), -2, Dim(a, -2))

(* Each element of a slice into a row of its own slice.                    *)
RowsToSlices(x, o, a) ==
    LET n == Dim(o, -2)
        padded == PadTile2(x)
        m == Picker(n * TILE_DIM, Rows(padded), LAMBDA i : IF i % TILE_DIM = 0 THEN i \div TILE_DIM ELSE -1)
        tall == TransposeXY(Tmo("vslice", <<Rows(x)>>, PickRows(m, padded)))
    IN  NarrowTo(NarrowTo(tall, -1, Dim(a, -1)), -2, Dim(a, -2))

(* Any other reshape with W of one: all into one row and that into slices. *)
GeneralReshape(x, o, a) ==
    LET az == Dim(a, -3)
        ay == Dim(a, -2)
        ax == Dim(a, -1)
        rows == XyFlatten(x, o, Len(a))
        row == IF Dim(o, -3) > 1 THEN XyFlatten(rows, rows.shape, Len(a)) ELSE rows
        ys == XyUnflatten(row, row.shape, <<1, 1, az * ay, ax>>)
        tall == TransposeXY(row)
    IN  IF ay > 1 THEN IF az > 1 THEN UnalignedVslice(ys, ys.shape, a) ELSE ys
        ELSE IF az > 1 THEN TransposeXY(UnalignedVslice(tall, tall.shape, Lead(a, 2) \o <<ax, ay>>))
        ELSE row

-----------------------------------------------------------------------------
(* The chain of plans; the first whose condition holds is taken.           *)
ReshapePlan(x, o, a, unbroadcast, rank) ==
    LET ow == Dim(o, -4)
        oz == Dim(o, -3)
        oy == Dim(o, -2)
        ox == Dim(o, -1)
        aw == Dim(a, -4)
        az == Dim(a, -3)
        ay == Dim(a, -2)
        ax == Dim(a, -1)
        tiles == IsTiles(ay) /\ IsTiles(ax)
        sameRank == Len(o) = Len(a)
        rowsToZ == sameRank /\ oy = az /\ oz = 1 /\ ox = ax * ay /\ ax # oz /\ ay # 1 /\ ax # 1
        rowsOnly == \/ oz = az /\ oy # ay /\ oy # 1 /\ oy * ox = ay * ax
                    \/ oz # az /\ oy = 1 /\ az = 1 /\ oz # ay /\ oz # 1 /\ oz * ox = ay * ax
        x4 == UnsqueezeTo(x, 4)
    IN  IF \A i \in DOMAIN unbroadcast : unbroadcast[i] = 1 THEN <<ReshapeOfScalar(x, a)>>
        ELSE IF oy > 1 /\ oz > 1 /\ \A i \in 1..(Len(a) - 1) : a[i] = 1 THEN <<FlattenAll(x, o, a)>>
        ELSE IF sameRank /\ ox = 1 /\ ~tiles /\ oz = az /\ ow = 1 /\ ~(ox = ay /\ ax = oy) THEN <<ColumnToMatrix(x, o, a)>>
        ELSE IF sameRank /\ (ox = 1 \/ oy = 1) /\ tiles /\ oz = az /\ ow = 1 THEN <<VectorToTiles(x, o, a)>>
        ELSE IF rowsToZ /\ Len(unbroadcast) = 2 /\ ay < ax /\ IsTiles(oy) /\ IsTiles(ox)
        THEN <<Tmo("transpose", <<-3, -2>>, Tmo("hslice", <<ay>>, x))>>
        ELSE IF rowsToZ THEN <<XyUnflatten(x, o, a)>>
        ELSE IF ax # 1 /\ ox # 1 /\ oy # 1 /\ ay = oz /\ ax = ox * oy THEN <<XyFlatten(x, o, Len(a))>>
        ELSE IF oz = ax /\ oy = 1 /\ ay = 1 /\ (ox = 1 \/ oz = 1) THEN <<ZToX(x4, o, a)>>
        ELSE IF oz = ay /\ ox = 1 /\ ax = 1 /\ (oy = 1 \/ oz = 1) THEN <<ZToY(x4, o, a)>>
        ELSE IF o[1] = a[1] /\ o[2] = a[2] /\ o[3] = a[4] /\ o[4] = a[3] /\ (a[3] = 1 \/ a[4] = 1) THEN <<TransposeXY(x4)>>
        ELSE IF ow = aw /\ oz = 1 /\ oy = az * ay /\ ox = ax /\ oz # az THEN <<UnalignedVslice(x, o, a)>>
        ELSE IF ow = aw /\ az = 1 /\ ay = oz * oy /\ ox = ax /\ oz # az THEN <<UnalignedVstack(x, o, a)>>
        ELSE IF ox % ax = 0 /\ rowsOnly /\ ay # 1 /\ ox > ax THEN <<NarrowerRows(x, o, a)>>
        ELSE IF oy % ay = 0 /\ rowsOnly /\ ay # 1 /\ ox < ax THEN <<WiderRows(x, o, a)>>
        ELSE IF oz = 1 /\ az = oy /\ ay = ox THEN <<RowsToSlices(x, o, a)>>
        ELSE IF Len(o) = 4 /\ rank < 4 /\ ow = 1 /\ oz * oy = az * ay /\ ox = ax /\ oz % az = 0
        THEN <<Tmo("vstack", <<oz \div az>>, x)>>
        ELSE IF Len(o) = 4 /\ Len(a) = 4 /\ ow = aw /\ ox = ax /\ az = oy * oz /\ ay = 1 /\ az % oz = 0
        THEN <<Tmo("vslice", <<oy>>, x)>>
        ELSE IF Len(o) = 4 /\ o[1] = 1 /\ Len(a) = 4 /\ a[1] = 1 THEN <<GeneralReshape(x, o, a)>>
        ELSE None

ReshapePostOptimize(attr, x, unbroadcast) ==
    LET o == AsRank(x.shape, 4)
        a == AsRank(attr, 4)
        plan == ReshapePlan(x, o, a, unbroadcast, Len(attr))
    IN  IF o = a \/ plan = None THEN None ELSE <<ToRank(plan[1], Len(attr))>>

-----------------------------------------------------------------------------
RepeatDimPostOptimize(attr, x) ==
    LET n == Dim(x.shape, attr[1])
        m == create_repeat_sparse_picker_matrix(n, attr[2])
        padded == PadTile(x, attr[1])
    IN  IF IsTiles(n) \/ attr[1] \notin {-2, -1} THEN None
        ELSE <<NarrowTo(IF attr[1] = -2 THEN PickRows(m, padded) ELSE PickCols(m, padded), attr[1], n * attr[2])>>

RepeatPostOptimize(attr, x) ==
    LET f[i \in 0..Len(attr)] ==
            IF i = 0 THEN x ELSE IF attr[i] = 1 THEN f[i - 1]
            ELSE Tmo("repeat_dim", <<i - Len(x.shape) - 1, attr[i]>>, f[i - 1])
    IN  <<f[Len(attr)]>>

(* Slices and stacks of tiles: what is not aligned is padded before and    *)
(* narrowed after; along the sliced dimension a picker opens or closes the *)
(* gaps.                                                                   *)
StackedPicker(m, x) == InRank(StackPicker(m, Slices(x)), 4)

SlicePostOptimize(op, f, x) ==
    LET across == op = "hslice"
        d == IF across THEN -1 ELSE -2
        e == IF across THEN -2 ELSE -1
        n == Dim(x.shape, d) \div f
        other == Dim(x.shape, e)
        padded == PadTileIfNeeded(x, e)
        base == IF across THEN UnsqueezeTo(padded, 3) ELSE padded
        m == StackedPicker(GroupsToTiles(f, n, Dim(x.shape, d)), base)
        open == IF across THEN PickCols(m, base) ELSE PickRows(m, base)
    IN  IF ~IsTiles(n) THEN <<NarrowIfNeeded(NarrowTo(Tmo(op, <<f>>, open), d, n), e, other)>>
        ELSE IF ~IsTiles(other) THEN <<NarrowTo(Tmo(op, <<f>>, PadTile(x, e)), e, other)>>
        ELSE None

StackPostOptimize(op, f, x) ==
    LET across == op = "hstack"
        d == IF across THEN -1 ELSE -2
        e == IF across THEN -2 ELSE -1
        n == Dim(x.shape, d)
        other == Dim(x.shape, e)
        all == Tmo(op, <<f>>, PadTile(PadTileIfNeeded(x, e), d))
        m == StackedPicker(TilesToGroups(f, n, n * f, AlignTile(n) * f), all)
        closed == IF across THEN PickCols(m, all) ELSE PickRows(m, all)
    IN  IF ~IsTiles(n) THEN <<NarrowIfNeeded(closed, e, other)>>
        ELSE IF ~IsTiles(other) THEN <<NarrowTo(Tmo(op, <<f>>, PadTile(x, e)), e, other)>>
        ELSE None

TmPostOptimize(op, attr, x, unbroadcast) ==
    CASE op = "reshape" -> ReshapePostOptimize(attr, x, unbroadcast)
      [] op = "select" -> SelectPostOptimize(attr, x)
      [] op = "repeat" -> RepeatPostOptimize(attr, x)
      [] op = "repeat_dim" -> RepeatDimPostOptimize(attr, x)
      [] op \in {"hslice", "vslice"} -> SlicePostOptimize(op, attr[1], x)
      [] op \in {"hstack", "vstack"} -> StackPostOptimize(op, attr[1], x)
      [] OTHER -> None

TmPostAutograd(op, attr, x) ==
    CASE op = "select" -> SelectPostOptimize(attr, x)
      [] op = "reshape" -> RankReshape(attr, x)
      [] OTHER -> None
=============================================================================
