---------------------------- MODULE SparsePickers ----------------------------
(***************************************************************************)
(* The picker matrices of pybuda/op/eval/sparse_utils.py.  A product with  *)
(* a picker moves rows: row r of the result is row Col(r) of the operand.  *)
(* The device has no other way to move elements across tiles, so the       *)
(* decompositions are made of tile padding, pickers and slices, and the    *)
(* pickers are where an index can be off.                                  *)
(***************************************************************************)
EXTENDS OpGraph

Const(s) == DcTensor(Full(s, One))
Zeros(s) == DcTensor(Full(s, Zero))

(* Columns of a picker as a sequence of pairs row, column with row and     *)
(* column from 0, in a matrix of the given size.                           *)
PickPairs(rows, cols, pairs) ==
    Build(<<rows, cols>>, LAMBDA v : IF v \in pairs THEN One ELSE Zero)

(* The same picker for each of z slices.                                   *)
StackPicker(m, z) ==
    [shape |-> <<z>> \o m.shape, at |-> <<>> \o [p \in 1..(z * Len(m.at)) |-> m.at[((p - 1) % Len(m.at)) + 1]]]
InRank(m, n) == [m EXCEPT !.shape = AsRank(m.shape, n)]

-----------------------------------------------------------------------------
create_index_sparse_picker_matrix(r, start, stop, stride, tile_align) ==
    LET rows == Smaller(r, DivUp(stop - start, stride))
        A(n) == IF tile_align THEN AlignTile(n) ELSE n
    IN  Picker(A(rows), A(r), LAMBDA i : IF i * stride < stop - start THEN start + i * stride ELSE -1)

create_reshape_flatten_sparse_picker_matrix(orig_r, new_r) ==
    Picker(new_r, orig_r,
           LAMBDA i : IF i % TILE_DIM = 0 /\ i + TILE_DIM <= new_r THEN i \div TILE_DIM ELSE -1)

create_reshape_flatten_sparse_picker_matrix_narrower(orig_r, new_r, org_length) ==
    Picker(new_r, orig_r,
           LAMBDA i : IF i % TILE_DIM < org_length THEN (i \div TILE_DIM) * org_length + (i % TILE_DIM) ELSE -1)

create_flattened_padding_removal_sparse_picker_matrix(r, start, stop, length, align_rows, align_cols) ==
    LET pads == r \div length
        n == pads * stop
        per == stop - start
    IN  Picker(IF align_rows THEN AlignTile(n) ELSE n, IF align_cols THEN AlignTile(r) ELSE r,
               LAMBDA i : IF i < n THEN start + (i % per) + (length * (i \div per)) ELSE -1)

create_padding_shift_sparse_picker_matrix(length, slices, padded_length) ==
    LET per == length \div slices
        Col(i) == (i \div per) * AlignTile(per) + (i % per)
    IN  Picker(padded_length, AlignTile(Col(length - 1) + 1), LAMBDA i : IF i < length THEN Col(i) ELSE -1)

create_real_row_sparse_picker_matrix(orig_x, padded_y) ==
    Picker(orig_x * TILE_DIM, padded_y, LAMBDA i : IF i % TILE_DIM = 0 THEN i \div TILE_DIM ELSE -1)

create_repeat_sparse_picker_matrix(orig_x, repeat) ==
    Picker(AlignTile(orig_x * repeat), AlignTile(orig_x),
           LAMBDA i : IF i < orig_x * repeat THEN i % orig_x ELSE -1)

(* Plausible bug: the blocks are taken as unpadded.                        *)
InterleavePickerUnpadded(length, orig_x, orig_z) ==
    LET block == AlignTile(orig_z)
    IN  Picker(AlignTile((orig_x - 1) * block + orig_z), length,
               LAMBDA i : LET x == i \div block
                              z == i % block
                          IN  IF x < orig_x /\ z < orig_z THEN x + z * orig_x ELSE -1)

(* Row z of block x is row x of block z.                                   *)
create_sparse_interleave_picker_matrix(length, orig_x, orig_z) ==
    LET block == AlignTile(orig_z)
    IN  Picker(AlignTile((orig_x - 1) * block + orig_z), length,
               LAMBDA i : LET x == i \div block
                              z == i % block
                          IN  IF x < orig_x /\ z < orig_z THEN x + z * AlignTile(orig_x) ELSE -1)

(* Padding of a slice of r rows and c columns given as one line: with the  *)
(* nearest element (mode 1) or the mirrored one (mode 2).                  *)
create_pad_sparse_picker(mode, r, c, left, right, top, bottom) ==
    LET w == c + left + right
        From(i, before, n) ==
            CASE i < before -> IF mode = 1 THEN 0 ELSE before - i
              [] i >= before /\ i - before < n -> i - before
              [] i - before >= n -> IF mode = 1 THEN n - 1 ELSE 2 * n - (i - before) - 2
    IN  Picker((r + top + bottom) * w, r * c, LAMBDA i : From(i \div w, top, r) * c + From(i % w, left, c))

transpose_sparse_picker_matrix(m) == Transpose(m, -2, -1)
=============================================================================
