----------------------------- MODULE StoreLayout -----------------------------
(***************************************************************************)
(* Where the fields of a table are, for the programs of vldb2023/query.c:  *)
(* the row store and the column store that db_populate_row and             *)
(* db_populate_col write, and the packed columns the engine shows through  *)
(* the window.  Memory is a function from the byte addresses at which a    *)
(* field starts to the field's value; column numbers are zero based, as in *)
(* the source, and widths is the sequence of their widths in bytes.        *)
(***************************************************************************)
EXTENDS Loops

\* The largest number of columns: num_cols is a uint8_t.
MaxCols == 255

\* A table: its number of rows and the widths of its columns.
IsTable(t) ==
  /\ t.rows \in Nat
  /\ t.widths \in Seq({1, 2, 4, 8}) /\ Len(t.widths) <= MaxCols

\* The values of its fields are ints.
ValuesFit(t) == 100 * t.rows + Len(t.widths) <= 2147483647

\* The bytes of a row before column `col`.
calc_offset(t, col) == Sum(t.widths, col)

num_cols(t) == Len(t.widths)
row_size(t) == calc_offset(t, num_cols(t))
db_size(t)  == t.rows * row_size(t)

\* A store through a pointer to an unsigned integer of `width` bytes; four
\* bytes hold every int that is stored.
Truncate(val, width) ==
  CASE width = 1 -> val % 256
    [] width = 2 -> val % 65536
    [] OTHER     -> val

\* What both populate loops put into row i, column j.
FieldValue(t, i, j) == Truncate(100 * i + j, t.widths[j+1])

\* The fields of t in the order the loops visit them.
Fields(t) == (0..t.rows-1) \X (0..num_cols(t)-1)

\* The memory in which the field f is at address at[f].
MemoryOf(t, at) ==
  [a \in {at[f] : f \in Fields(t)} |->
     LET f == CHOOSE g \in Fields(t) : at[g] = a
     IN  FieldValue(t, f[1], f[2])]

\* One `offset` runs on from field to field and from row to row.
db_populate_row(t) ==
  LET offset(i, j) == Sum([r \in 1..i |-> Sum(t.widths, num_cols(t))], i) + Sum(t.widths, j)
  IN  MemoryOf(t, [f \in Fields(t) |-> offset(f[1], f[2])])

\* `col_offset` runs from column to column within each row.
db_populate_col(t) ==
  LET col_offset(j) == Sum([c \in 1..j |-> t.widths[c] * t.rows], j)
  IN  MemoryOf(t, [f \in Fields(t) |-> col_offset(f[2]) + f[1] * t.widths[f[2]+1]])

\* What a register of the engine, an unsigned short, keeps of a number.
UShort(n) == n % 65536

\* The offset registers for the columns cols: JOIN stores how far each column
\* is from the start of the row.
FromStart(t, cols) == [c \in 1..Len(cols) |-> UShort(calc_offset(t, cols[c]))]

\* AVRG and SLCT store how far each is from the column before it.
Distances(t, cols) ==
  [c \in 1..Len(cols) |->
     IF c = 1 THEN FromStart(t, cols)[1]
              ELSE UShort(FromStart(t, cols)[c] - FromStart(t, cols)[c-1])]

\* The engine, in the reading under which the registers of a SELECT make
\* sense: column c of a row begins as far behind the one before it as
\* register c says, the first at the start of the row.
TakenFrom(offsets, c) == UShort(Sum(offsets, c+1))

\* The window: for each row of db the columns cols, in the order of their
\* registers, back to back.
PackedOffset(t, cols, c) == Sum([j \in 1..c |-> t.widths[cols[j] + 1]], c)

PackedRowSize(t, cols) == PackedOffset(t, cols, Len(cols))

Window(db, t, cols, offsets) ==
  LET At(i, c) == i * PackedRowSize(t, cols) + PackedOffset(t, cols, c)
      cells == (0..t.rows-1) \X (0..Len(cols)-1)
  IN  [a \in {At(p[1], p[2]) : p \in cells} |->
         LET p == CHOOSE q \in cells : At(q[1], q[2]) = a
         IN  db[p[1] * row_size(t) + TakenFrom(offsets, p[2])]]

=============================================================================
