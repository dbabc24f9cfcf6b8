----------------------------- MODULE TmDecompose -----------------------------
(***************************************************************************)
(* How tensor manipulations (tm.py) are taken apart.  The device moves     *)
(* whole tiles (hslice, vslice, hstack, vstack, select of tiles), pads and *)
(* narrows the last tile of a dimension, transposes, and multiplies with   *)
(* picker matrices; every other rearrangement is composed of those, with a *)
(* plan of its own for each form of reshape.  A plan is right when the     *)
(* elements end up where reshape, index, pad, ... put them, whatever the   *)
(* sizes are modulo a tile.                                                *)
(***************************************************************************)
EXTENDS EltwiseOps

IsTiles(n) == n % TILE_DIM = 0
PadTile(x, d) == Tmo("pad_tile", <<d, Dim(x.shape, d)>>, x)
PadTileIfNeeded(x, d) == IF IsTiles(Dim(x.shape, d)) THEN x ELSE PadTile(x, d)
NarrowIfNeeded(x, d, n) == IF IsTiles(n) THEN x ELSE NarrowTo(x, d, n)
Rows(x) == Dim(x.shape, -2)
Cols(x) == Dim(x.shape, -1)
Slices(x) == Dim(x.shape, -3)
UnsqueezeTo(x, n) == Repeat(LAMBDA t : Tmo("unsqueeze", <<0, Len(t.shape)>>, t), n - Len(x.shape), x)
SqueezeTo(x, n) == Repeat(LAMBDA t : Tmo("squeeze", <<0>>, t), Len(x.shape) - n, x)
ToRank(x, n) == IF Len(x.shape) < n THEN UnsqueezeTo(x, n) ELSE SqueezeTo(x, n)
PickCols(m, x) == TransposeXY(PickRows(m, TransposeXY(x)))
Matmul(m, x) == Dc("matmul", <<>>, <<DcTensor(InRank(m, 4)), x>>)
AlignedRows(m) == PadDim(m, -2, 0, AlignTile(m.shape[1]) - m.shape[1])
(* Each group of n rows at the start of a block of tiles, and back.        *)
GroupsToTiles(groups, n, cols) ==
    LET block == AlignTile(n)
    IN  Picker(groups * block, cols, LAMBDA i : IF i % block < n THEN (i \div block) * n + (i % block) ELSE -1)
TilesToGroups(groups, n, rows, cols) ==
    Picker(rows, cols, LAMBDA i : IF i < groups * n THEN (i \div n) * AlignTile(n) + (i % n) ELSE -1)

-----------------------------------------------------------------------------
(* index on Z is a select, on whole tiles a select, else a picker of rows  *)
(* (of the transposed tensor for X).  (The slicing of columns longer than  *)
(* 4096 and PYBUDA_PAD_MM are not modelled.)                               *)
IndexByPicker(d, start, stop, stride, x) ==
    LET n == Len(x.shape)
        wide == IF n = 1 THEN Tmo("reshape", <<1>> \o x.shape, x) ELSE x
        up == IF d = -1 THEN TransposeXY(wide) ELSE wide
        s == up.shape
        hasW == Len(s) = 4 /\ s[1] # 1
        flat == IF hasW THEN Tmo("reshape", <<1, s[1] * s[2], s[3], s[4]>>, up) ELSE up
        m == create_index_sparse_picker_matrix(Rows(flat), start, stop, stride, FALSE)
        picked == PickRows(IF Len(s) >= 3 THEN InRank(StackPicker(m, Slices(flat)), 4) ELSE m, flat)
        deep == IF hasW THEN Tmo("reshape", WithDim(s, -2, (stop - start) \div stride), picked) ELSE picked
        back == IF d = -1 THEN TransposeXY(deep) ELSE deep
    IN  IF n = 1 THEN Tmo("reshape", <<Cols(back)>>, back) ELSE back

IndexDecompose(attr, x) ==
    LET d == attr[1]
        n == Dim(x.shape, d)
        start == IF attr[2] < 0 THEN n + attr[2] ELSE attr[2]
        stop == attr[3]
        stride == attr[4]
        length == stop - start
        spaced == Tmo("select", <<d, start, 1, stride>>, x)
        size == Dim(spaced.shape, d)
    IN  CASE d = -3 /\ stride = 1 -> Tmo("select", <<d, start, length, n>>, x)
          [] d = -3 /\ stride > 1 ->
                IF size >= length THEN Tmo("select", <<d, 0, DivUp(length, stride), size>>, spaced) ELSE spaced
          [] d # -3 ->
                IF IsTiles(start) /\ IsTiles(stop) /\ stride = 1 /\ IsTiles(n)
                THEN Un("buffer", Tmo("select", <<d, start, length, n>>, x))
                ELSE IF n = 1 /\ length = 1 /\ stride = 1 THEN Un("nop", x)
                ELSE IndexByPicker(d, start, stop, stride, x)

(* Padding with copies: the rows and columns of a slice as one line.       *)
PadByPicker(mode, channel_last, l, r, t, b, x) ==
    LET y == IF channel_last THEN Tmo("transpose", <<-3, -1>>, x) ELSE x
        s == y.shape
        hw == Dim(s, -2) * Dim(s, -1)
        line == TransposeXY(Tmo("reshape", IF Len(s) = 2 THEN <<1, hw>> ELSE <<1, 1, Dim(s, -3), hw>>, y))
        m == IF channel_last THEN create_pad_sparse_picker(mode, Dim(s, -2), Dim(s, -1), t, b, l, r)
             ELSE create_pad_sparse_picker(mode, Dim(s, -2), Dim(s, -1), l, r, t, b)
        picked == TransposeXY(PickRows(m, line))
        out == IF channel_last THEN <<1, Dim(s, -3), Dim(s, -1) + t + b, Dim(s, -2) + l + r>>
               ELSE (IF Len(s) = 2 THEN <<>> ELSE <<1, Dim(s, -3)>>) \o <<Dim(s, -2) + t + b, Dim(s, -1) + l + r>>
        padded == Tmo("reshape", out, picked)
    IN  IF channel_last THEN Tmo("transpose", <<-3, -1>>, padded) ELSE padded

(* Padding with zeros: concatenation, a whole tile where that is aligned,  *)
(* and what is too much cut off.                                           *)
PadByConcat(channel_last, l, r, t, b, x) ==
    LET cd == IF channel_last THEN -2 ELSE -1
        rd == cd - 1
        Before(y, d, n) == IF n = 0 THEN y ELSE Dc("concatenate", <<d>>, <<Zeros(WithDim(y.shape, d, n)), y>>)
        After(y, d, n) ==
            LET k == IF IsTiles(Dim(y.shape, d)) /\ n < TILE_DIM THEN TILE_DIM ELSE n
            IN  IF n = 0 THEN y ELSE Dc("concatenate", <<d>>, <<y, Zeros(WithDim(y.shape, d, k))>>)
        wide == After(Before(After(Before(x, cd, l), cd, r), rd, t), rd, b)
        cut == NarrowTo(wide, cd, Dim(x.shape, cd) + l + r)
        rows == Dim(x.shape, rd) + t + b
    IN  IF channel_last THEN Tmo("select", <<rd, 0, rows, Dim(cut.shape, rd)>>, cut) ELSE NarrowTo(cut, rd, rows)

\* For a pad of nothing the code fuses a nop and goes on: the nop stays only if
\* the pad is found to need no op, else a plan that adds nothing takes its place.
PadDecompose(attr, x) ==
    LET n == Len(attr)
        mode == attr[n - 1]
        last == attr[n] = 1
        t == IF n = 6 THEN attr[3] ELSE 0
        b == IF n = 6 THEN attr[4] ELSE 0
        SameTiles(d, k) == DivUp(Dim(x.shape, d) + k, TILE_DIM) = DivUp(Dim(x.shape, d), TILE_DIM)
        inLastTile == /\ attr[1] = 0 /\ t = 0 /\ ~last /\ mode = 0
                      /\ SameTiles(-1, attr[1] + attr[2]) /\ SameTiles(-2, t + b)
    IN  IF inLastTile THEN IF \A k \in 1..(n - 2) : attr[k] = 0 THEN <<Un("nop", x)>> ELSE None
        ELSE IF mode = 0 THEN <<PadByConcat(last, attr[1], attr[2], t, b, x)>>
        ELSE <<PadByPicker(mode, last, attr[1], attr[2], t, b, x)>>

(* pixel_shuffle by two: the four phases below each other, stacked in      *)
(* turn along X and then along Y.                                          *)
PixelShuffleDecompose(x) ==
    LET h == Rows(x)
        all == Tmo("vstack", <<4>>, x)
        Half(i) == Tmo("select", <<-2, i * 2 * h, 2 * h, Rows(all)>>, all)
        Part(i, j) == Tmo("select", <<-2, j * h, h, 2 * h>>, Half(i))
        Stack2(y, z) == Dc("binary_stack", <<-1>>, <<y, z>>)
        Row(i) == Stack2(Part(i, 0), Part(i, 1))
    IN  TransposeXY(Stack2(TransposeXY(Row(0)), TransposeXY(Row(1))))

(* A reshape that only adds or drops leading ones.                         *)
RankReshape(attr, x) ==
    LET n == Larger(Len(attr), Len(x.shape))
    IN  IF Len(attr) # Len(x.shape) /\ AsRank(attr, n) = AsRank(x.shape, n)
        THEN <<ToRank(x, Len(attr))>> ELSE None

TmDecompose(op, attr, x) ==
    CASE op = "index" -> <<IndexDecompose(attr, x)>>
      [] op = "pad" -> PadDecompose(attr, x)
      [] op = "broadcast" -> IF attr[2] = 1 THEN <<Un("nop", x)>> ELSE None
      [] op = "pixel_shuffle" -> <<PixelShuffleDecompose(x)>>
      [] op = "reshape" -> RankReshape(attr, x)
      [] OTHER -> None
=============================================================================
