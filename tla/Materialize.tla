---------------------------- MODULE Materialize ----------------------------
(***************************************************************************)
(* execution::materialize_filter: every column of a table is copied, row   *)
(* by row, keeping the rows whose bit is set in the filter bitmap.         *)
(*                                                                         *)
(* Three positions advance together through a column: the row of the table *)
(* (total_elements_pos, which indexes the bitmap), the chunk and the place *)
(* in it (current_chunk, current_chunk_pos, which index the values), and   *)
(* the place in the chunk being written (new_chunk_pos).  A value is       *)
(* written before its bit is looked at; a row that is not kept is          *)
(* overwritten by the next, or left behind the end of the new array.       *)
(*                                                                         *)
(* A value is represented by the number of the row it belongs to, so what  *)
(* is kept of two columns can be compared.  Columns of one table may be    *)
(* cut into different chunks.  Reading a chunk the column does not have is *)
(* undefined and ends the run ("fault").                                   *)
(***************************************************************************)
EXTENDS Integers, Sequences, FiniteSets

CONSTANTS
  ChunkSize,   \* rows of a new chunk (2 << 13 in the code)
  Tables       \* the tables considered

(***************************************************************************)
(* A table: its number of rows and its columns.  Of a column, the rows     *)
(* before each chunk (start[c], and start[chunks] is its length) and       *)
(* whether its type is one of those materialize_filter has a case for.     *)
(***************************************************************************)
IsColumn(col, rows) ==
  /\ col.chunks \in Nat
  /\ col.start \in [0 .. col.chunks -> Nat]
  /\ col.start[0] = 0
  /\ \A a, b \in 0 .. col.chunks : a <= b => col.start[a] <= col.start[b]
  /\ col.start[col.chunks] = rows
  /\ col.numeric \in BOOLEAN

IsTable(t) ==
  /\ t.rows \in Nat
  /\ t.columns \in Seq({t.columns[i] : i \in DOMAIN t.columns})
  /\ \A i \in DOMAIN t.columns : IsColumn(t.columns[i], t.rows)

ASSUME ChunkAssumption == ChunkSize \in Nat \ {0}
ASSUME TableAssumption == \A t \in Tables : IsTable(t)

VARIABLES
  table,               \* the table of the context passed in
  has_bitmap,          \* filter_bitmap is not null
  selected,            \* the rows whose bit is set in it
  new_columns,         \* the columns copied so far, each a sequence of chunks
  new_column,          \* the chunks of the column being copied
  buffer,              \* the values written to the chunk being filled
  new_chunk_pos, current_chunk, current_chunk_pos, total_elements_pos,
  pc                   \* "start", "column", "while", "for", then "done",
                       \* "unreachable", "not_implemented" or "fault"

position == <<new_chunk_pos, current_chunk, current_chunk_pos, total_elements_pos>>
vars == <<table, has_bitmap, selected, new_columns, new_column, buffer, position, pc>>

-----------------------------------------------------------------------------
\* The column being copied: col_num is the number of columns already copied.
Column == table.columns[Len(new_columns) + 1]
Length(c) == Column.start[c + 1] - Column.start[c]
TotalLength == Column.start[Column.chunks]

Init ==
  /\ table \in Tables
  /\ has_bitmap \in BOOLEAN
  /\ selected \in SUBSET (IF has_bitmap THEN 0 .. table.rows - 1 ELSE {})
  /\ new_columns = <<>>
  /\ new_column = <<>>
  /\ buffer = <<>>
  /\ new_chunk_pos = 0 /\ current_chunk = 0
  /\ current_chunk_pos = 0 /\ total_elements_pos = 0
  /\ pc = "start"

\* Without a bitmap there is nothing to apply: UnreachableException.
CheckBitmap ==
  /\ pc = "start"
  /\ pc' = IF has_bitmap THEN "column" ELSE "unreachable"
  /\ UNCHANGED <<table, has_bitmap, selected, new_columns, new_column, buffer, position>>

\* Mutant: the row position is not reset for the next column.
BeginColumn_KeepsRow ==
  /\ pc = "column"
  /\ Len(new_columns) < Len(table.columns)
  /\ Column.numeric
  /\ new_column' = <<>> /\ buffer' = <<>>
  /\ new_chunk_pos' = 0 /\ current_chunk' = 0 /\ current_chunk_pos' = 0
  /\ pc' = "while"
  /\ UNCHANGED <<table, has_bitmap, selected, new_columns, total_elements_pos>>

\* materialize_column starts on the next column, with an empty new chunk.
BeginColumn ==
  /\ pc = "column"
  /\ Len(new_columns) < Len(table.columns)
  /\ Column.numeric
  /\ new_column' = <<>>
  /\ buffer' = <<>>
  /\ new_chunk_pos' = 0 /\ current_chunk' = 0
  /\ current_chunk_pos' = 0 /\ total_elements_pos' = 0
  /\ pc' = "while"
  /\ UNCHANGED <<table, has_bitmap, selected, new_columns>>

\* A column of another type ends the call, whatever was copied before it.
RejectColumn ==
  /\ pc = "column"
  /\ Len(new_columns) < Len(table.columns)
  /\ ~Column.numeric
  /\ pc' = "not_implemented"
  /\ UNCHANGED <<table, has_bitmap, selected, new_columns, new_column, buffer, position>>

Return ==
  /\ pc = "column"
  /\ Len(new_columns) = Len(table.columns)
  /\ pc' = "done"
  /\ UNCHANGED <<table, has_bitmap, selected, new_columns, new_column, buffer, position>>

-----------------------------------------------------------------------------
\* The condition of the while loop over the chunks of the column.
MoreRows == new_chunk_pos < ChunkSize /\ total_elements_pos < TotalLength

EnterChunk ==
  /\ pc = "while"
  /\ MoreRows
  /\ pc' = IF current_chunk < Column.chunks THEN "for" ELSE "fault"
  /\ UNCHANGED <<table, has_bitmap, selected, new_columns, new_column, buffer, position>>

\* The condition of the for loop over the rows of the chunk.
MoreInChunk == new_chunk_pos < ChunkSize /\ current_chunk_pos < Length(current_chunk)

\* Mutant: the bitmap is indexed by the place in the chunk.
CopyRow_ChunkBit ==
  /\ pc = "for"
  /\ MoreInChunk
  /\ buffer' = Append(SubSeq(buffer, 1, new_chunk_pos),
                      Column.start[current_chunk] + current_chunk_pos)
  /\ new_chunk_pos' = new_chunk_pos + (IF current_chunk_pos \in selected THEN 1 ELSE 0)
  /\ current_chunk_pos' = current_chunk_pos + 1
  /\ total_elements_pos' = total_elements_pos + 1
  /\ UNCHANGED <<table, has_bitmap, selected, new_columns, new_column, current_chunk, pc>>

\* data_out[new_chunk_pos] is overwritten if the row before was not kept.
CopyRow ==
  /\ pc = "for"
  /\ MoreInChunk
  /\ buffer' = Append(SubSeq(buffer, 1, new_chunk_pos),
                      Column.start[current_chunk] + current_chunk_pos)
  /\ new_chunk_pos' = new_chunk_pos + (IF total_elements_pos \in selected THEN 1 ELSE 0)
  /\ current_chunk_pos' = current_chunk_pos + 1
  /\ total_elements_pos' = total_elements_pos + 1
  /\ UNCHANGED <<table, has_bitmap, selected, new_columns, new_column, current_chunk, pc>>

\* Mutant: the next chunk is taken even if the new one filled up in the middle.
LeaveChunk_Always ==
  /\ pc = "for"
  /\ ~MoreInChunk
  /\ current_chunk' = current_chunk + 1 /\ current_chunk_pos' = 0
  /\ pc' = "while"
  /\ UNCHANGED <<table, has_bitmap, selected, new_columns, new_column, buffer, new_chunk_pos,
                 total_elements_pos>>

\* Mutant: an empty chunk is not left.
LeaveChunk_NotEmpty ==
  /\ pc = "for"
  /\ ~MoreInChunk
  /\ IF current_chunk_pos = Length(current_chunk) /\ current_chunk_pos > 0
     THEN current_chunk' = current_chunk + 1 /\ current_chunk_pos' = 0
     ELSE UNCHANGED <<current_chunk, current_chunk_pos>>
  /\ pc' = "while"
  /\ UNCHANGED <<table, has_bitmap, selected, new_columns, new_column, buffer, new_chunk_pos,
                 total_elements_pos>>

\* The chunk is used up, or the new one is full in its middle.
LeaveChunk ==
  /\ pc = "for"
  /\ ~MoreInChunk
  /\ IF current_chunk_pos = Length(current_chunk)
     THEN current_chunk' = current_chunk + 1 /\ current_chunk_pos' = 0
     ELSE UNCHANGED <<current_chunk, current_chunk_pos>>
  /\ pc' = "while"
  /\ UNCHANGED <<table, has_bitmap, selected, new_columns, new_column, buffer, new_chunk_pos,
                 total_elements_pos>>

\* Mutant: an empty last chunk is not kept, as by a while loop in place of the do.
PushChunk_SkipsEmpty ==
  /\ pc = "while"
  /\ ~MoreRows
  /\ LET chunk == SubSeq(buffer, 1, new_chunk_pos)
         column == IF chunk = <<>> THEN new_column ELSE Append(new_column, chunk)
     IN  IF total_elements_pos < TotalLength
         THEN new_column' = column /\ pc' = "while" /\ UNCHANGED new_columns
         ELSE new_columns' = Append(new_columns, column) /\ new_column' = <<>> /\ pc' = "column"
  /\ buffer' = <<>> /\ new_chunk_pos' = 0
  /\ UNCHANGED <<table, has_bitmap, selected, current_chunk, current_chunk_pos, total_elements_pos>>

\* The new array ends at new_chunk_pos.  The do loop runs again while rows are
\* left; otherwise the column is complete.
PushChunk ==
  /\ pc = "while"
  /\ ~MoreRows
  /\ LET chunk == SubSeq(buffer, 1, new_chunk_pos)
     IN  IF total_elements_pos < TotalLength
         THEN /\ new_column' = Append(new_column, chunk)
              /\ pc' = "while"
              /\ UNCHANGED new_columns
         ELSE /\ new_columns' = Append(new_columns, Append(new_column, chunk))
              /\ new_column' = <<>>
              /\ pc' = "column"
  /\ buffer' = <<>>
  /\ new_chunk_pos' = 0
  /\ UNCHANGED <<table, has_bitmap, selected, current_chunk, current_chunk_pos, total_elements_pos>>

Next ==
  \/ CheckBitmap \/ BeginColumn \/ RejectColumn \/ Return
  \/ EnterChunk \/ CopyRow \/ LeaveChunk \/ PushChunk

\* One sequential call: it keeps taking steps until it returns or throws.
Spec == Init /\ [][Next]_vars /\ WF_vars(Next)

-----------------------------------------------------------------------------
\* The selected rows before row r: the place row r gets if it is selected.
Rank(r) == Cardinality(selected \cap (0 .. r - 1))

\* Every chunk but the last is full.
ChunksFull(col) == \A i \in 1 .. Len(col) - 1 : Len(col[i]) = ChunkSize

\* Place k of the copied column holds the selected row with k selected rows
\* before it.
InOrder(col) ==
  \A i \in 1 .. Len(col) : \A p \in 1 .. Len(col[i]) :
    /\ col[i][p] \in selected
    /\ Rank(col[i][p]) = ChunkSize * (i - 1) + (p - 1)

TypeOK ==
  /\ table \in Tables
  /\ has_bitmap \in BOOLEAN
  /\ selected \subseteq 0 .. table.rows - 1
  /\ new_columns \in Seq(Seq(Seq(Nat)))
  /\ Len(new_columns) <= Len(table.columns)
  /\ new_column \in Seq(Seq(Nat))
  /\ buffer \in Seq(Nat)
  /\ new_chunk_pos \in 0 .. ChunkSize
  /\ current_chunk \in Nat
  /\ current_chunk_pos \in Nat
  /\ total_elements_pos \in 0 .. table.rows
  /\ pc \in {"start", "column", "while", "for", "done", "unreachable",
             "not_implemented", "fault"}

(***************************************************************************)
(* A copied column is the selection, row for row: place k holds the k-th   *)
(* selected row and there are as many places as selected rows.  A row      *)
(* written before its bit was looked at does not show, a full chunk in the *)
(* middle of an old one loses nothing, and two columns cut into different  *)
(* chunks agree on which row each place holds.                             *)
(***************************************************************************)
ColumnsHoldSelection ==
  \A c \in 1 .. Len(new_columns) :
    LET col == new_columns[c]
    IN  /\ InOrder(col)
        /\ ChunkSize * (Len(col) - 1) + Len(col[Len(col)]) = Cardinality(selected)

(***************************************************************************)
(* What the next filter meets (execution.cpp:101): a copied column has at  *)
(* least one chunk, so generate_filter_bitmap does not take it for an      *)
(* empty input, even when no row was selected; and each of its chunks      *)
(* starts at a multiple of chunk_size, a multiple of eight, so no byte of  *)
(* the next bitmap is shared between two of them.                          *)
(***************************************************************************)
ReadyForNextFilter ==
  \A c \in 1 .. Len(new_columns) : new_columns[c] # <<>> /\ ChunksFull(new_columns[c])

(***************************************************************************)
(* The three positions stay in step: the value read is the value of the    *)
(* row whose bit is tested, and no chunk past the last is read, with empty *)
(* chunks anywhere and with new chunks that fill up in the middle of old   *)
(* ones.                                                                   *)
(***************************************************************************)
PositionsAgree ==
  /\ pc # "fault"
  /\ pc = "for" =>
       /\ current_chunk < Column.chunks
       /\ current_chunk_pos <= Length(current_chunk)
       /\ total_elements_pos = Column.start[current_chunk] + current_chunk_pos

(***************************************************************************)
(* materialize_filter returns or throws, empty chunks, full new chunks and *)
(* columns without chunks included: every round of the nested loops        *)
(* consumes a row, a chunk or a column.                                    *)
(***************************************************************************)
Terminates == <>(pc \in {"done", "unreachable", "not_implemented"})

-----------------------------------------------------------------------------
(***************************************************************************)
(* The inductive invariant.  While a column is copied, the rows seen so    *)
(* far stand before the current place of the current chunk, and the new    *)
(* chunks with the filled part of the buffer are their selection.          *)
(***************************************************************************)
Copying == pc \in {"while", "for"}

PositionInColumn ==
  /\ Len(new_columns) < Len(table.columns)
  /\ current_chunk \in 0 .. Column.chunks
  /\ IF current_chunk < Column.chunks
     THEN /\ current_chunk_pos \in 0 .. Length(current_chunk)
          /\ total_elements_pos = Column.start[current_chunk] + current_chunk_pos
     ELSE pc = "while" /\ total_elements_pos = TotalLength

SelectionSoFar ==
  /\ \A i \in 1 .. Len(new_column) : Len(new_column[i]) = ChunkSize
  /\ InOrder(new_column)
  /\ new_chunk_pos <= Len(buffer)
  /\ \A p \in 1 .. new_chunk_pos :
       /\ buffer[p] \in selected
       /\ Rank(buffer[p]) = ChunkSize * Len(new_column) + (p - 1)
  /\ ChunkSize * Len(new_column) + new_chunk_pos = Rank(total_elements_pos)

IInv ==
  /\ TypeOK
  /\ pc # "fault"
  /\ Copying => PositionInColumn /\ SelectionSoFar
  /\ ColumnsHoldSelection
  /\ ReadyForNextFilter
=============================================================================
