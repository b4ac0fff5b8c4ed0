------------------------- MODULE MaterializeProofs -------------------------
(***************************************************************************)
(* Proofs about Materialize, for every chunk size, every table and every   *)
(* bitmap: facts about ranks, one lemma per action that moves a position   *)
(* or a chunk, then the theorems.                                          *)
(***************************************************************************)
EXTENDS Materialize, FiniteSetTheorems, TLAPS

-----------------------------------------------------------------------------
\* A table's columns are columns of its rows, cut into chunks.
LEMMA TableFacts ==
  ASSUME TypeOK, NEW i \in 1 .. Len(table.columns)
  PROVE  IsColumn(table.columns[i], table.rows) /\ table.rows \in Nat
<1>1. IsTable(table)
  BY TableAssumption DEF TypeOK
<1>2. i \in DOMAIN table.columns
  <2>1. table.columns \in Seq({table.columns[j] : j \in DOMAIN table.columns})
    BY <1>1 DEF IsTable
  <2>. QED  BY <2>1
<1>. QED  BY <1>1, <1>2 DEF IsTable

(***************************************************************************)
(* How many selected rows there are before a row: none before the first,   *)
(* one more past a selected row, all of them at the end of the table.      *)
(***************************************************************************)
LEMMA RankFacts ==
  /\ Rank(0) = 0
  /\ \A r \in Nat : Rank(r) \in Nat
  /\ \A r \in Nat : Rank(r + 1) = Rank(r) + (IF r \in selected THEN 1 ELSE 0)
  /\ \A n \in Nat : selected \subseteq 0 .. n - 1 => Rank(n) = Cardinality(selected)
<1>. DEFINE Below(r) == selected \cap (0 .. r - 1)
<1>1. ASSUME NEW r \in Nat
      PROVE  IsFiniteSet(Below(r)) /\ Cardinality(Below(r)) \in Nat
  <2>1. IsFiniteSet(0 .. r - 1)
    BY FS_Interval
  <2>2. Below(r) \subseteq 0 .. r - 1
    OBVIOUS
  <2>. HIDE DEF Below
  <2>3. IsFiniteSet(Below(r))
    BY <2>1, <2>2, FS_Subset
  <2>. QED  BY <2>3, FS_CardinalityType
<1>2. Below(0) = {}
  OBVIOUS
<1>3. Rank(0) = 0
  BY <1>2, FS_EmptySet DEF Rank
<1>4. ASSUME NEW r \in Nat
      PROVE  Rank(r + 1) = Rank(r) + (IF r \in selected THEN 1 ELSE 0)
  <2>1. CASE r \in selected
    <3>1. Below(r + 1) = Below(r) \cup {r} /\ r \notin Below(r)
      BY <2>1
    <3>2. Cardinality(Below(r + 1)) = Cardinality(Below(r)) + 1
      <4>. HIDE DEF Below
      <4>. QED  BY <1>1, <3>1, FS_AddElement
    <3>3. Rank(r) = Cardinality(Below(r)) /\ Rank(r + 1) = Cardinality(Below(r + 1))
      BY DEF Rank
    <3>. HIDE DEF Below
    <3>. QED  BY <1>1, <2>1, <3>2, <3>3
  <2>2. CASE r \notin selected
    <3>1. Below(r + 1) = Below(r)
      BY <2>2
    <3>2. Rank(r) = Cardinality(Below(r)) /\ Rank(r + 1) = Cardinality(Below(r + 1))
      BY DEF Rank
    <3>. HIDE DEF Below
    <3>. QED  BY <1>1, <2>2, <3>1, <3>2
  <2>. QED  BY <2>1, <2>2
<1>5. ASSUME NEW n \in Nat, selected \subseteq 0 .. n - 1
      PROVE  Rank(n) = Cardinality(selected)
  <2>1. Below(n) = selected
    BY <1>5
  <2>. QED  BY <2>1 DEF Rank
<1>. QED  BY <1>1, <1>3, <1>4, <1>5 DEF Rank

-----------------------------------------------------------------------------
LEMMA InitIInv == Init => IInv
<1>. SUFFICES ASSUME Init PROVE IInv
  OBVIOUS
<1>1. IsTable(table)
  BY TableAssumption DEF Init
<1>2. table.rows \in Nat /\ Len(table.columns) \in Nat
  BY <1>1 DEF IsTable
<1>3. TypeOK
  BY <1>2, ChunkAssumption DEF Init, TypeOK
<1>4. ColumnsHoldSelection /\ ReadyForNextFilter
  BY DEF Init, ColumnsHoldSelection, ReadyForNextFilter
<1>. QED  BY <1>3, <1>4 DEF IInv, Init, Copying

\* A step that leaves the copied columns and the bitmap alone leaves what is
\* said of the copied columns true.
LEMMA ColumnsUntouched ==
  ASSUME IInv, UNCHANGED <<selected, new_columns>>
  PROVE  ColumnsHoldSelection' /\ ReadyForNextFilter'
<1>1. ColumnsHoldSelection' <=> ColumnsHoldSelection
  BY DEF ColumnsHoldSelection, InOrder, Rank
<1>2. ReadyForNextFilter' <=> ReadyForNextFilter
  BY DEF ReadyForNextFilter, ChunksFull
<1>. QED  BY <1>1, <1>2 DEF IInv

\* The steps outside the loops.
LEMMA OutsideKeepsIInv ==
  ASSUME IInv, CheckBitmap \/ RejectColumn \/ Return \/ UNCHANGED vars
  PROVE  IInv'
<1>1. CASE CheckBitmap \/ RejectColumn \/ Return
  <2>1. ColumnsHoldSelection' /\ ReadyForNextFilter'
    BY <1>1, ColumnsUntouched DEF CheckBitmap, RejectColumn, Return
  <2>2. TypeOK'
    BY <1>1 DEF IInv, TypeOK, CheckBitmap, RejectColumn, Return, position
  <2>3. ~Copying' /\ pc' # "fault"
    BY <1>1 DEF Copying, CheckBitmap, RejectColumn, Return
  <2>. QED  BY <2>1, <2>2, <2>3 DEF IInv
<1>2. CASE UNCHANGED vars
  <2>1. ColumnsHoldSelection' /\ ReadyForNextFilter'
    BY <1>2, ColumnsUntouched DEF vars
  <2>2. TypeOK'
    BY <1>2 DEF IInv, TypeOK, vars, position
  <2>3. Copying' => PositionInColumn' /\ SelectionSoFar'
    BY <1>2 DEF IInv, Copying, PositionInColumn, SelectionSoFar, InOrder, Rank, Length,
                Column, TotalLength, vars, position
  <2>4. pc' # "fault"
    BY <1>2 DEF IInv, vars
  <2>. QED  BY <2>1, <2>2, <2>3, <2>4 DEF IInv
<1>. QED  BY <1>1, <1>2

-----------------------------------------------------------------------------
\* The column being copied is a column of the table.
LEMMA ColumnFacts ==
  ASSUME TypeOK, Len(new_columns) < Len(table.columns)
  PROVE  /\ IsColumn(Column, table.rows)
         /\ table.rows \in Nat
         /\ TotalLength = table.rows
         /\ \A c \in 0 .. Column.chunks - 1 :
              /\ Column.start[c] \in Nat
              /\ Length(c) \in Nat
              /\ Column.start[c + 1] = Column.start[c] + Length(c)
              /\ Column.start[c + 1] <= table.rows
<1>1. Len(new_columns) + 1 \in 1 .. Len(table.columns)
  <2>1. IsTable(table)
    BY TableAssumption DEF TypeOK
  <2>2. Len(table.columns) \in Nat /\ Len(new_columns) \in Nat
    BY <2>1 DEF IsTable, TypeOK
  <2>. QED  BY <2>2
<1>2. IsColumn(Column, table.rows) /\ table.rows \in Nat
  BY <1>1, TableFacts DEF Column
<1>3. ASSUME NEW c \in 0 .. Column.chunks - 1
      PROVE  /\ Column.start[c] \in Nat
             /\ Length(c) \in Nat
             /\ Column.start[c + 1] = Column.start[c] + Length(c)
             /\ Column.start[c + 1] <= table.rows
  <2>1. /\ c \in 0 .. Column.chunks /\ c + 1 \in 0 .. Column.chunks
        /\ Column.chunks \in 0 .. Column.chunks
        /\ c <= c + 1 /\ c + 1 <= Column.chunks
    BY <1>2 DEF IsColumn
  <2>2. /\ Column.start[c] \in Nat /\ Column.start[c + 1] \in Nat
        /\ Column.start[c] <= Column.start[c + 1]
        /\ Column.start[c + 1] <= table.rows
    BY <1>2, <2>1 DEF IsColumn
  <2>. QED  BY <2>2 DEF Length
<1>. QED  BY <1>2, <1>3 DEF IsColumn, TotalLength

LEMMA BeginColumnKeepsIInv ==
  ASSUME IInv, BeginColumn
  PROVE  IInv'
<1>1. ColumnsHoldSelection' /\ ReadyForNextFilter'
  BY ColumnsUntouched DEF BeginColumn
<1>2. /\ TypeOK
      /\ Len(new_columns) < Len(table.columns)
      /\ ChunkSize \in Nat \ {0}
  BY ChunkAssumption DEF IInv, BeginColumn
<1>3. IsColumn(Column, table.rows) /\ table.rows \in Nat /\ TotalLength = table.rows
  BY <1>2, ColumnFacts
<1>4. TypeOK'
  BY <1>2, <1>3 DEF TypeOK, BeginColumn
<1>5. PositionInColumn'
  <2>1. /\ Column' = Column /\ TotalLength' = TotalLength
        /\ \A c : Length(c)' = Length(c)
    BY DEF BeginColumn, Column, TotalLength, Length
  <2>2. CASE Column.chunks = 0
    BY <1>2, <1>3, <2>1, <2>2 DEF PositionInColumn, BeginColumn, IsColumn, TotalLength
  <2>3. CASE Column.chunks > 0
    <3>1. 0 \in 0 .. Column.chunks - 1
      BY <1>3, <2>3 DEF IsColumn
    <3>2. Length(0) \in Nat
      BY <1>2, <3>1, ColumnFacts
    <3>. QED  BY <1>2, <1>3, <2>1, <2>3, <3>2 DEF PositionInColumn, BeginColumn, IsColumn
  <2>. QED  BY <1>3, <2>2, <2>3 DEF IsColumn
<1>6. SelectionSoFar'
  <2>1. Rank(0) = 0 /\ Rank(0)' = Rank(0)
    BY RankFacts DEF BeginColumn, Rank
  <2>2. /\ new_column' = <<>> /\ buffer' = <<>> /\ new_chunk_pos' = 0
        /\ total_elements_pos' = 0
    BY DEF BeginColumn
  <2>3. ChunkSize * Len(new_column') + new_chunk_pos' = Rank(0)'
    BY <1>2, <2>1, <2>2
  <2>4. Rank(total_elements_pos)' = Rank(0)'
    BY <2>2 DEF Rank
  <2>5. InOrder(new_column)'
    BY <2>2 DEF InOrder
  <2>. QED  BY <2>2, <2>3, <2>4, <2>5 DEF SelectionSoFar
<1>. QED  BY <1>1, <1>4, <1>5, <1>6 DEF IInv, BeginColumn

\* A row left to copy means a chunk left to copy it from.
LEMMA EnterChunkKeepsIInv ==
  ASSUME IInv, EnterChunk
  PROVE  IInv'
<1>1. ColumnsHoldSelection' /\ ReadyForNextFilter'
  BY ColumnsUntouched DEF EnterChunk
<1>2. /\ TypeOK /\ PositionInColumn /\ SelectionSoFar /\ total_elements_pos < TotalLength
  BY DEF IInv, EnterChunk, Copying, MoreRows
<1>3. Len(new_columns) < Len(table.columns) /\ current_chunk < Column.chunks
  <2>1. Column.chunks \in Nat /\ TotalLength \in Nat
    BY <1>2, ColumnFacts DEF PositionInColumn, IsColumn
  <2>. QED  BY <1>2, <2>1 DEF PositionInColumn
<1>4. pc' = "for"
  BY <1>3 DEF EnterChunk
<1>5. TypeOK'
  BY <1>2, <1>4 DEF TypeOK, EnterChunk, position
<1>6. PositionInColumn'
  <2>1. /\ Column' = Column /\ TotalLength' = TotalLength
        /\ \A c : Length(c)' = Length(c)
    BY DEF EnterChunk, Column, TotalLength, Length
  <2>. QED  BY <1>2, <1>3, <2>1 DEF PositionInColumn, EnterChunk, position
<1>7. SelectionSoFar'
  BY <1>2 DEF SelectionSoFar, InOrder, Rank, EnterChunk, position
<1>. QED  BY <1>1, <1>4, <1>5, <1>6, <1>7 DEF IInv

\* The row read is the row whose bit is tested; the filled part of the buffer
\* and what is before it stays.
LEMMA CopyRowKeepsIInv ==
  ASSUME IInv, CopyRow
  PROVE  IInv'
<1>. DEFINE r == total_elements_pos
            np == new_chunk_pos
<1>1. ColumnsHoldSelection' /\ ReadyForNextFilter'
  BY ColumnsUntouched DEF CopyRow
<1>2. /\ TypeOK /\ PositionInColumn /\ SelectionSoFar
      /\ pc = "for" /\ pc' = "for"
      /\ np < ChunkSize
      /\ current_chunk_pos < Length(current_chunk)
      /\ ChunkSize \in Nat \ {0}
  BY ChunkAssumption DEF IInv, CopyRow, Copying, MoreInChunk
<1>3. /\ current_chunk \in 0 .. Column.chunks - 1
      /\ current_chunk_pos \in Nat
      /\ r = Column.start[current_chunk] + current_chunk_pos
      /\ r \in Nat /\ np \in Nat
      /\ Len(new_columns) < Len(table.columns)
  <2>1. Column.chunks \in Nat /\ Len(new_columns) < Len(table.columns)
    BY <1>2, ColumnFacts DEF PositionInColumn, IsColumn
  <2>2. r \in Nat /\ np \in Nat
    BY <1>2, <2>1, ColumnFacts DEF TypeOK
  <2>. QED  BY <1>2, <2>1, <2>2 DEF PositionInColumn
<1>4. /\ Length(current_chunk) \in Nat
      /\ Column.start[current_chunk] \in Nat
      /\ Column.start[current_chunk] + Length(current_chunk) <= table.rows
      /\ table.rows \in Nat
  <2>1. /\ Length(current_chunk) \in Nat
        /\ Column.start[current_chunk] \in Nat
        /\ Column.start[current_chunk + 1] = Column.start[current_chunk] + Length(current_chunk)
        /\ Column.start[current_chunk + 1] <= table.rows
        /\ table.rows \in Nat
    BY <1>2, <1>3, ColumnFacts
  <2>. QED  BY <2>1
<1>5. r + 1 \in 0 .. table.rows
  <2>1. /\ r = Column.start[current_chunk] + current_chunk_pos
        /\ current_chunk_pos \in Nat
        /\ current_chunk_pos < Length(current_chunk)
    BY <1>2, <1>3
  <2>. HIDE DEF r
  <2>. QED  BY <2>1, <1>4
<1>6. /\ buffer' = Append(SubSeq(buffer, 1, np), r)
      /\ new_chunk_pos' = np + (IF r \in selected THEN 1 ELSE 0)
      /\ current_chunk_pos' = current_chunk_pos + 1
      /\ total_elements_pos' = r + 1
      /\ UNCHANGED <<table, has_bitmap, selected, new_columns, new_column, current_chunk>>
  BY <1>3 DEF CopyRow
<1>7. /\ buffer' \in Seq(Nat)
      /\ Len(buffer') = np + 1
      /\ \A p \in 1 .. np : buffer'[p] = buffer[p]
      /\ buffer'[np + 1] = r
  <2>1. buffer \in Seq(Nat) /\ np <= Len(buffer)
    BY <1>2 DEF TypeOK, SelectionSoFar
  <2>2. /\ SubSeq(buffer, 1, np) \in Seq(Nat)
        /\ Len(SubSeq(buffer, 1, np)) = np
        /\ \A p \in 1 .. np : SubSeq(buffer, 1, np)[p] = buffer[p]
    BY <1>3, <2>1
  <2>. HIDE DEF r, np
  <2>. QED  BY <1>3, <1>6, <2>2
<1>8. new_chunk_pos' \in 0 .. ChunkSize
  BY <1>2, <1>3, <1>6
<1>9. TypeOK'
  BY <1>2, <1>3, <1>5, <1>6, <1>7, <1>8 DEF TypeOK
<1>10. PositionInColumn'
  <2>1. /\ Column' = Column /\ TotalLength' = TotalLength
        /\ \A c : Length(c)' = Length(c)
    BY <1>6 DEF Column, TotalLength, Length
  <2>2. current_chunk_pos + 1 \in 0 .. Length(current_chunk)
    BY <1>2, <1>3, <1>4
  <2>3. r + 1 = Column.start[current_chunk] + (current_chunk_pos + 1)
    <3>1. /\ current_chunk_pos \in Nat /\ Column.start[current_chunk] \in Nat
          /\ r = Column.start[current_chunk] + current_chunk_pos
      BY <1>3, <1>4
    <3>. HIDE DEF r
    <3>. QED  BY <3>1
  <2>4. PositionInColumn /\ current_chunk < Column.chunks
    BY <1>2 DEF PositionInColumn
  <2>. QED  BY <1>6, <2>1, <2>2, <2>3, <2>4 DEF PositionInColumn
<1>11. SelectionSoFar'
  <2>1. /\ \A q : Rank(q)' = Rank(q)
        /\ InOrder(new_column)' = InOrder(new_column)
    BY <1>6 DEF Rank, InOrder
  <2>2. /\ ChunkSize * Len(new_column) \in Nat
        /\ ChunkSize * Len(new_column) + np = Rank(r)
        /\ \A i \in 1 .. Len(new_column) : Len(new_column[i]) = ChunkSize
        /\ InOrder(new_column)
        /\ \A p \in 1 .. np : /\ buffer[p] \in selected
                             /\ Rank(buffer[p]) = ChunkSize * Len(new_column) + (p - 1)
    <3>1. Len(new_column) \in Nat
      BY <1>2 DEF TypeOK
    <3>2. ChunkSize * Len(new_column) \in Nat
      BY <1>2, <3>1
    <3>. QED  BY <1>2, <3>2 DEF SelectionSoFar
  <2>3. Rank(r + 1) = Rank(r) + (IF r \in selected THEN 1 ELSE 0)
    BY <1>3, RankFacts
  <2>4. ChunkSize * Len(new_column') + new_chunk_pos' = Rank(total_elements_pos)'
    <3>1. Rank(total_elements_pos)' = Rank(r + 1)
      BY <1>6, <2>1 DEF Rank
    <3>. QED  BY <1>3, <1>6, <2>2, <2>3, <3>1
  <2>5. ASSUME NEW p \in 1 .. new_chunk_pos'
        PROVE  /\ buffer'[p] \in selected
               /\ Rank(buffer'[p]) = ChunkSize * Len(new_column) + (p - 1)
    <3>1. CASE p \in 1 .. np
      BY <1>7, <2>2, <3>1
    <3>2. CASE p \notin 1 .. np
      <4>1. r \in selected /\ p = np + 1
        BY <1>3, <1>6, <3>2
      <4>. QED  BY <1>3, <1>7, <2>2, <4>1
    <3>. QED  BY <3>1, <3>2
  <2>6. ASSUME NEW p \in 1 .. new_chunk_pos'
        PROVE  /\ (buffer[p] \in selected)'
               /\ (Rank(buffer[p]) = ChunkSize * Len(new_column) + (p - 1))'
    BY <1>6, <2>5 DEF Rank
  <2>7. new_chunk_pos' <= Len(buffer')
    BY <1>3, <1>6, <1>7
  <2>. QED  BY <1>6, <2>1, <2>2, <2>4, <2>6, <2>7 DEF SelectionSoFar
<1>. QED  BY <1>1, <1>2, <1>9, <1>10, <1>11 DEF IInv

\* A chunk used up is left for the next; a chunk in whose middle the new one
\* filled up is taken up again where it was left.
LEMMA LeaveChunkKeepsIInv ==
  ASSUME IInv, LeaveChunk
  PROVE  IInv'
<1>. DEFINE c == current_chunk
<1>1. ColumnsHoldSelection' /\ ReadyForNextFilter'
  BY ColumnsUntouched DEF LeaveChunk
<1>2. /\ TypeOK /\ PositionInColumn /\ SelectionSoFar
      /\ pc = "for" /\ pc' = "while"
  BY DEF IInv, LeaveChunk, Copying
<1>3. /\ c \in 0 .. Column.chunks - 1
      /\ Column.chunks \in Nat
      /\ current_chunk_pos \in 0 .. Length(c)
      /\ total_elements_pos = Column.start[c] + current_chunk_pos
      /\ Len(new_columns) < Len(table.columns)
  <2>1. Column.chunks \in Nat /\ Len(new_columns) < Len(table.columns)
    BY <1>2, ColumnFacts DEF PositionInColumn, IsColumn
  <2>. QED  BY <1>2, <2>1 DEF PositionInColumn
<1>4. /\ Length(c) \in Nat
      /\ Column.start[c] \in Nat
      /\ Column.start[c + 1] = Column.start[c] + Length(c)
  BY <1>2, <1>3, ColumnFacts
<1>5. /\ UNCHANGED <<table, has_bitmap, selected, new_columns, new_column, buffer,
                     new_chunk_pos, total_elements_pos>>
      /\ IF current_chunk_pos = Length(c)
         THEN current_chunk' = c + 1 /\ current_chunk_pos' = 0
         ELSE current_chunk' = c /\ current_chunk_pos' = current_chunk_pos
  BY DEF LeaveChunk
<1>6. current_chunk' \in Nat /\ current_chunk_pos' \in Nat
  BY <1>3, <1>4, <1>5
<1>7. TypeOK'
  BY <1>2, <1>5, <1>6 DEF TypeOK
<1>8. PositionInColumn'
  <2>1. /\ Column' = Column /\ TotalLength' = TotalLength
        /\ \A d : Length(d)' = Length(d)
    BY <1>5 DEF Column, TotalLength, Length
  <2>2. CASE current_chunk_pos = Length(c) /\ c + 1 < Column.chunks
    <3>1. c + 1 \in 0 .. Column.chunks - 1
      BY <1>3, <2>2
    <3>2. Length(c + 1) \in Nat /\ Column.start[c + 1] \in Nat
      BY <1>2, <1>3, <3>1, ColumnFacts
    <3>3. total_elements_pos = Column.start[c + 1] + 0
      BY <1>3, <1>4, <2>2
    <3>. QED  BY <1>3, <1>5, <2>1, <2>2, <3>1, <3>2, <3>3 DEF PositionInColumn
  <2>3. CASE current_chunk_pos = Length(c) /\ c + 1 = Column.chunks
    <3>1. total_elements_pos = TotalLength
      BY <1>3, <1>4, <2>3 DEF TotalLength
    <3>2. current_chunk' = Column.chunks
      BY <1>5, <2>3
    <3>. QED  BY <1>2, <1>3, <1>5, <2>1, <3>1, <3>2 DEF PositionInColumn
  <2>4. CASE current_chunk_pos # Length(c)
    BY <1>2, <1>3, <1>5, <2>1, <2>4 DEF PositionInColumn
  <2>. QED  BY <1>3, <2>2, <2>3, <2>4
<1>9. SelectionSoFar'
  BY <1>2, <1>5 DEF SelectionSoFar, InOrder, Rank
<1>. QED  BY <1>1, <1>2, <1>7, <1>8, <1>9 DEF IInv

\* A chunk pushed in the middle of a column is full; the last one completes
\* the column, which then holds the selection.
LEMMA PushChunkKeepsIInv ==
  ASSUME IInv, PushChunk
  PROVE  IInv'
<1>. DEFINE np == new_chunk_pos
            k == Len(new_column)
            chunk == SubSeq(buffer, 1, np)
            col == Append(new_column, chunk)
<1>1. /\ TypeOK /\ PositionInColumn /\ SelectionSoFar
      /\ ColumnsHoldSelection /\ ReadyForNextFilter
      /\ pc = "while" /\ ~MoreRows
      /\ ChunkSize \in Nat \ {0}
  BY ChunkAssumption DEF IInv, PushChunk, Copying
<1>2. /\ Len(new_columns) < Len(table.columns)
      /\ table.rows \in Nat /\ TotalLength = table.rows
      /\ total_elements_pos \in 0 .. table.rows
      /\ np \in 0 .. ChunkSize
      /\ k \in Nat
      /\ ChunkSize * k \in Nat
  <2>1. Len(new_columns) < Len(table.columns)
    BY <1>1 DEF PositionInColumn
  <2>2. k \in Nat
    BY <1>1 DEF TypeOK
  <2>3. ChunkSize * k \in Nat
    BY <1>1, <2>2
  <2>. QED  BY <1>1, <2>1, <2>2, <2>3, ColumnFacts DEF TypeOK
<1>3. /\ chunk \in Seq(Nat)
      /\ Len(chunk) = np
      /\ \A p \in 1 .. np : chunk[p] = buffer[p]
  <2>1. buffer \in Seq(Nat) /\ np <= Len(buffer)
    BY <1>1 DEF TypeOK, SelectionSoFar
  <2>. QED  BY <1>2, <2>1
<1>. HIDE DEF chunk
<1>4. /\ col \in Seq(Seq(Nat))
      /\ Len(col) = k + 1
      /\ \A i \in 1 .. k : col[i] = new_column[i]
      /\ col[k + 1] = chunk
  <2>1. new_column \in Seq(Seq(Nat))
    BY <1>1 DEF TypeOK
  <2>. QED  BY <1>3, <2>1
<1>. HIDE DEF col
<1>5. InOrder(col)
  <2>. SUFFICES ASSUME NEW i \in 1 .. Len(col), NEW p \in 1 .. Len(col[i])
                PROVE  /\ col[i][p] \in selected
                       /\ Rank(col[i][p]) = ChunkSize * (i - 1) + (p - 1)
    BY DEF InOrder
  <2>1. CASE i \in 1 .. k
    BY <1>1, <1>4, <2>1 DEF SelectionSoFar, InOrder
  <2>2. CASE i = k + 1
    <3>1. p \in 1 .. np /\ col[i][p] = buffer[p]
      BY <1>3, <1>4, <2>2
    <3>2. i - 1 = k
      BY <1>2, <2>2
    <3>. QED  BY <1>1, <3>1, <3>2 DEF SelectionSoFar
  <2>. QED  BY <1>2, <1>4, <2>1, <2>2
<1>6. \A i \in 1 .. k : Len(col[i]) = ChunkSize
  BY <1>1, <1>4 DEF SelectionSoFar
<1>7. ChunkSize * k + np = Rank(total_elements_pos)
  BY <1>1 DEF SelectionSoFar
<1>8. /\ buffer' = <<>> /\ new_chunk_pos' = 0
      /\ UNCHANGED <<table, has_bitmap, selected, current_chunk, current_chunk_pos,
                     total_elements_pos>>
  BY DEF PushChunk
<1>9. /\ \A c : InOrder(c)' = InOrder(c)
      /\ \A q : Rank(q)' = Rank(q)
  BY <1>8 DEF InOrder, Rank
<1>10. CASE total_elements_pos < TotalLength
  <2>1. new_column' = col /\ pc' = "while" /\ new_columns' = new_columns
    BY <1>10 DEF PushChunk, col, chunk
  <2>2. np = ChunkSize
    BY <1>1, <1>2, <1>10 DEF MoreRows
  <2>3. TypeOK'
    BY <1>1, <1>4, <1>8, <2>1 DEF TypeOK
  <2>4. PositionInColumn'
    <3>1. /\ Column' = Column /\ TotalLength' = TotalLength
          /\ \A d : Length(d)' = Length(d)
      BY <1>8, <2>1 DEF Column, TotalLength, Length
    <3>. QED  BY <1>1, <1>8, <2>1, <3>1 DEF PositionInColumn
  <2>5. SelectionSoFar'
    <3>1. \A i \in 1 .. Len(col) : Len(col[i]) = ChunkSize
      BY <1>2, <1>3, <1>4, <1>6, <2>2
    <3>2. ChunkSize * (k + 1) = ChunkSize * k + ChunkSize
      BY <1>1, <1>2
    <3>3. ChunkSize * Len(new_column') + new_chunk_pos' = Rank(total_elements_pos)'
      <4>1. Rank(total_elements_pos)' = Rank(total_elements_pos)
        BY <1>8 DEF Rank
      <4>2. ChunkSize * Len(new_column') + new_chunk_pos' = ChunkSize * k + np
        <5>1. Len(new_column') = k + 1 /\ new_chunk_pos' = 0
          BY <1>4, <1>8, <2>1
        <5>. HIDE DEF k, np
        <5>. QED  BY <1>1, <1>2, <2>2, <3>2, <5>1
      <4>. QED  BY <1>7, <4>1, <4>2
    <3>4. InOrder(new_column)'
      BY <1>5, <2>1, <1>8 DEF InOrder, Rank
    <3>5. new_chunk_pos' <= Len(buffer')
      BY <1>8
    <3>. QED  BY <1>8, <2>1, <3>1, <3>3, <3>4, <3>5 DEF SelectionSoFar
  <2>6. ColumnsHoldSelection' /\ ReadyForNextFilter'
    BY <1>8, <2>1, ColumnsUntouched
  <2>. QED  BY <2>1, <2>3, <2>4, <2>5, <2>6 DEF IInv
<1>11. CASE ~(total_elements_pos < TotalLength)
  <2>1. new_columns' = Append(new_columns, col) /\ new_column' = <<>> /\ pc' = "column"
    BY <1>11 DEF PushChunk, col, chunk
  <2>2. total_elements_pos = table.rows
    BY <1>2, <1>11
  <2>3. ChunkSize * k + np = Cardinality(selected)
    BY <1>1, <1>2, <1>7, <2>2, RankFacts DEF TypeOK
  <2>. DEFINE n == Len(new_columns)
  <2>4. /\ new_columns' \in Seq(Seq(Seq(Nat)))
        /\ n \in Nat /\ Len(new_columns') = n + 1
        /\ \A c \in 1 .. n : new_columns'[c] = new_columns[c]
        /\ new_columns'[n + 1] = col
    <3>1. new_columns \in Seq(Seq(Seq(Nat)))
      BY <1>1 DEF TypeOK
    <3>. QED  BY <1>4, <2>1, <3>1
  <2>5. TypeOK'
    <3>1. Len(table.columns) \in Nat
      <4>1. IsTable(table)
        BY <1>1, TableAssumption DEF TypeOK
      <4>. QED  BY <4>1 DEF IsTable
    <3>2. Len(new_columns') <= Len(table.columns)
      BY <1>2, <2>4, <3>1
    <3>. QED  BY <1>1, <1>8, <2>1, <2>4, <3>2 DEF TypeOK
  <2>6. ColumnsHoldSelection'
    <3>1. ASSUME NEW c \in 1 .. n + 1
          PROVE  /\ InOrder(new_columns'[c])
                 /\ ChunkSize * (Len(new_columns'[c]) - 1)
                      + Len(new_columns'[c][Len(new_columns'[c])]) = Cardinality(selected)
      <4>1. CASE c \in 1 .. n
        BY <1>1, <2>4, <4>1 DEF ColumnsHoldSelection
      <4>2. CASE c = n + 1
        <5>1. Len(col) - 1 = k /\ Len(col[Len(col)]) = np
          BY <1>2, <1>3, <1>4
        <5>. QED  BY <1>5, <2>3, <2>4, <4>2, <5>1
      <4>. QED  BY <2>4, <4>1, <4>2
    <3>2. selected' = selected
      BY <1>8
    <3>. HIDE DEF n, k, np
    <3>3. ASSUME NEW c \in 1 .. n + 1
          PROVE  InOrder(new_columns[c])'
      BY <3>1, <3>2 DEF InOrder, Rank
    <3>. QED  BY <2>4, <3>1, <3>2, <3>3 DEF ColumnsHoldSelection
  <2>7. ReadyForNextFilter'
    <3>1. ASSUME NEW c \in 1 .. n + 1
          PROVE  new_columns'[c] # <<>> /\ ChunksFull(new_columns'[c])
      <4>1. CASE c \in 1 .. n
        BY <1>1, <2>4, <4>1 DEF ReadyForNextFilter
      <4>2. CASE c = n + 1
        <5>1. Len(col) - 1 = k /\ col # <<>>
          BY <1>2, <1>4
        <5>. QED  BY <1>6, <2>4, <4>2, <5>1 DEF ChunksFull
      <4>. QED  BY <2>4, <4>1, <4>2
    <3>. QED  BY <2>4, <3>1 DEF ReadyForNextFilter, ChunksFull
  <2>. QED  BY <2>1, <2>5, <2>6, <2>7 DEF IInv, Copying
<1>. QED  BY <1>10, <1>11

\* Every behaviour keeps the inductive invariant.
THEOREM Invariance == Spec => []IInv
<1>1. ASSUME IInv, [Next]_vars
      PROVE  IInv'
  BY <1>1, OutsideKeepsIInv, BeginColumnKeepsIInv, EnterChunkKeepsIInv, CopyRowKeepsIInv,
     LeaveChunkKeepsIInv, PushChunkKeepsIInv DEF Next
<1>. QED  BY InitIInv, <1>1, PTL DEF Spec

-----------------------------------------------------------------------------
(***************************************************************************)
(* Type correctness: the positions of the nested loops stay within the     *)
(* table and the new chunk.                                                *)
(***************************************************************************)
THEOREM TypeCorrect == Spec => []TypeOK
<1>1. IInv => TypeOK
  BY DEF IInv
<1>. QED  BY Invariance, <1>1, PTL

(***************************************************************************)
(* Every column materialize_column returns holds the selected rows, in     *)
(* order and nothing else, whatever chunks the old column was cut into.    *)
(***************************************************************************)
THEOREM SelectionCorrect == Spec => []ColumnsHoldSelection
<1>1. IInv => ColumnsHoldSelection
  BY DEF IInv
<1>. QED  BY Invariance, <1>1, PTL

(***************************************************************************)
(* What materialize_filter returns is fit for the next filter: never       *)
(* without a chunk, and every chunk but the last is full.                  *)
(***************************************************************************)
THEOREM AlwaysReadyForNextFilter == Spec => []ReadyForNextFilter
<1>1. IInv => ReadyForNextFilter
  BY DEF IInv
<1>. QED  BY Invariance, <1>1, PTL

(***************************************************************************)
(* The value position and the bitmap position never part, and no chunk     *)
(* past the last is read.                                                  *)
(***************************************************************************)
THEOREM PositionsInStep == Spec => []PositionsAgree
<1>1. IInv => PositionsAgree
  <2>. SUFFICES ASSUME IInv, pc = "for"
                PROVE  /\ current_chunk < Column.chunks
                       /\ current_chunk_pos <= Length(current_chunk)
                       /\ total_elements_pos = Column.start[current_chunk] + current_chunk_pos
    BY DEF IInv, PositionsAgree
  <2>1. TypeOK /\ PositionInColumn
    BY DEF IInv, Copying
  <2>2. Column.chunks \in Nat
    BY <2>1, ColumnFacts DEF PositionInColumn, IsColumn
  <2>3. current_chunk < Column.chunks
    BY <2>1 DEF PositionInColumn
  <2>4. Length(current_chunk) \in Nat
    BY <2>1, <2>2, <2>3, ColumnFacts DEF PositionInColumn
  <2>. QED  BY <2>1, <2>3, <2>4 DEF PositionInColumn
<1>. QED  BY Invariance, <1>1, PTL

-----------------------------------------------------------------------------
(***************************************************************************)
(* What is left to do: columns to copy, the way through the outer steps,   *)
(* rows and chunks to read, and, at one position, the way out of a full    *)
(* new chunk and back into the old one.                                    *)
(***************************************************************************)
ColumnsLeft == Len(table.columns) - Len(new_columns)

StageLeft == IF pc = "start" THEN 3 ELSE IF pc = "column" THEN 2 ELSE IF Copying THEN 1 ELSE 0

TurnsLeft ==
  IF new_chunk_pos = ChunkSize THEN IF pc = "for" THEN 3 ELSE 2
  ELSE IF pc = "for" THEN 0 ELSE 1

PositionLeft ==
  IF Copying
  THEN 4 * ((TotalLength - total_elements_pos) + (Column.chunks - current_chunk)) + TurnsLeft
  ELSE 0

\* The triple <<ColumnsLeft, StageLeft, PositionLeft>> goes down.
UsesUp ==
  \/ ColumnsLeft' < ColumnsLeft
  \/ ColumnsLeft' = ColumnsLeft /\ StageLeft' < StageLeft
  \/ ColumnsLeft' = ColumnsLeft /\ StageLeft' = StageLeft /\ PositionLeft' < PositionLeft

\* Of the position, what the steps within a column change.
LEMMA PositionLeftType ==
  ASSUME IInv
  PROVE  /\ ColumnsLeft \in Nat /\ PositionLeft \in Nat
         /\ Copying => /\ Column.chunks \in Nat /\ TotalLength \in Nat
                       /\ current_chunk \in 0 .. Column.chunks
                       /\ total_elements_pos \in 0 .. TotalLength
<1>1. TypeOK /\ ChunkSize \in Nat \ {0}
  BY ChunkAssumption DEF IInv
<1>2. ColumnsLeft \in Nat
  <2>1. IsTable(table)
    BY <1>1, TableAssumption DEF TypeOK
  <2>. QED  BY <1>1, <2>1 DEF TypeOK, IsTable, ColumnsLeft
<1>3. ASSUME Copying
      PROVE  /\ Column.chunks \in Nat /\ TotalLength \in Nat
             /\ current_chunk \in 0 .. Column.chunks
             /\ total_elements_pos \in 0 .. TotalLength
  <2>1. PositionInColumn
    BY <1>3 DEF IInv
  <2>2. IsColumn(Column, table.rows) /\ TotalLength = table.rows /\ table.rows \in Nat
    BY <1>1, <2>1, ColumnFacts DEF PositionInColumn
  <2>. QED  BY <1>1, <2>1, <2>2 DEF TypeOK, PositionInColumn, IsColumn
<1>. QED  BY <1>2, <1>3 DEF PositionLeft, TurnsLeft

LEMMA StepUsesUp ==
  ASSUME IInv, IInv', Next
  PROVE  UsesUp
<1>1. /\ TypeOK /\ ChunkSize \in Nat \ {0} /\ ColumnsLeft \in Nat
      /\ new_chunk_pos \in 0 .. ChunkSize
  BY ChunkAssumption, PositionLeftType DEF IInv, TypeOK
<1>2. CASE CheckBitmap \/ RejectColumn \/ Return
  BY <1>1, <1>2 DEF CheckBitmap, RejectColumn, Return, UsesUp, ColumnsLeft, StageLeft, Copying
<1>3. CASE BeginColumn
  BY <1>1, <1>3 DEF BeginColumn, UsesUp, ColumnsLeft, StageLeft, Copying
<1>4. ASSUME UNCHANGED <<table, new_columns>>, Copying, Copying',
             NEW old, old = (TotalLength - total_elements_pos) + (Column.chunks - current_chunk),
             NEW new, new = (TotalLength - total_elements_pos') + (Column.chunks - current_chunk'),
             new < old \/ (new = old /\ TurnsLeft' < TurnsLeft)
      PROVE  UsesUp
  <2>1. ColumnsLeft' = ColumnsLeft /\ StageLeft' = StageLeft
    BY <1>4 DEF ColumnsLeft, StageLeft, Copying
  <2>2. Column' = Column /\ TotalLength' = TotalLength
    BY <1>4 DEF Column, TotalLength
  <2>3. old \in Nat /\ new \in Nat
    <3>1. /\ Column.chunks \in Nat /\ TotalLength \in Nat
          /\ current_chunk \in 0 .. Column.chunks
          /\ total_elements_pos \in 0 .. TotalLength
      BY <1>4, PositionLeftType
    <3>2. TotalLength = table.rows
      BY <1>1, <1>4, ColumnFacts DEF IInv, PositionInColumn
    <3>3. total_elements_pos' \in 0 .. TotalLength
      BY <1>4, <3>2 DEF IInv, TypeOK
    <3>4. current_chunk' \in 0 .. Column.chunks
      <4>1. PositionInColumn'
        BY <1>4 DEF IInv
      <4>. QED  BY <2>2, <4>1 DEF PositionInColumn
    <3>. QED  BY <1>4, <3>1, <3>3, <3>4
  <2>4. PositionLeft = 4 * old + TurnsLeft /\ PositionLeft' = 4 * new + TurnsLeft'
    BY <1>4, <2>2 DEF PositionLeft
  <2>5. TurnsLeft \in 0 .. 3 /\ TurnsLeft' \in 0 .. 3
    BY DEF TurnsLeft
  <2>6. PositionLeft' < PositionLeft
    BY <1>4, <2>3, <2>4, <2>5
  <2>. QED  BY <2>1, <2>6 DEF UsesUp
<1>5. PICK old : old = (TotalLength - total_elements_pos) + (Column.chunks - current_chunk)
  OBVIOUS
<1>6. PICK new : new = (TotalLength - total_elements_pos') + (Column.chunks - current_chunk')
  OBVIOUS
<1>7. Copying => /\ Column.chunks \in Nat /\ TotalLength \in Nat
                 /\ current_chunk \in 0 .. Column.chunks
                 /\ total_elements_pos \in 0 .. TotalLength
  BY PositionLeftType
<1>8. CASE EnterChunk
  <2>1. /\ UNCHANGED <<table, new_columns, total_elements_pos, current_chunk, new_chunk_pos>>
        /\ pc = "while" /\ pc' = "for" /\ new_chunk_pos < ChunkSize
    BY <1>8 DEF EnterChunk, MoreRows, position, IInv
  <2>2. TurnsLeft' < TurnsLeft
    BY <1>1, <2>1 DEF TurnsLeft
  <2>. QED  BY <1>4, <1>5, <1>6, <2>1, <2>2 DEF Copying
<1>9. CASE CopyRow
  <2>1. /\ UNCHANGED <<table, new_columns, current_chunk>>
        /\ total_elements_pos' = total_elements_pos + 1 /\ pc = "for" /\ pc' = "for"
    BY <1>9 DEF CopyRow
  <2>2. new < old
    BY <1>5, <1>6, <1>7, <2>1 DEF Copying
  <2>. QED  BY <1>4, <1>5, <1>6, <2>1, <2>2 DEF Copying
<1>10. CASE LeaveChunk
  <2>1. /\ UNCHANGED <<table, new_columns, total_elements_pos, new_chunk_pos>>
        /\ pc = "for" /\ pc' = "while"
    BY <1>10 DEF LeaveChunk
  <2>2. CASE current_chunk_pos = Length(current_chunk)
    <3>1. current_chunk' = current_chunk + 1
      BY <1>10, <2>2 DEF LeaveChunk
    <3>2. new < old
      BY <1>5, <1>6, <1>7, <2>1, <3>1 DEF Copying
    <3>. QED  BY <1>4, <1>5, <1>6, <2>1, <3>2 DEF Copying
  <2>3. CASE current_chunk_pos # Length(current_chunk)
    <3>1. UNCHANGED current_chunk
      BY <1>10, <2>3 DEF LeaveChunk
    <3>2. current_chunk_pos < Length(current_chunk)
      <4>1. PositionInColumn /\ current_chunk \in 0 .. Column.chunks - 1
        BY <1>7, <2>1 DEF IInv, Copying, PositionInColumn
      <4>2. Length(current_chunk) \in Nat
        BY <1>1, <4>1, ColumnFacts DEF PositionInColumn
      <4>3. current_chunk_pos \in 0 .. Length(current_chunk)
        BY <1>7, <2>1, <4>1 DEF PositionInColumn, Copying
      <4>. QED  BY <2>3, <4>2, <4>3
    <3>3. new_chunk_pos = ChunkSize
      BY <1>1, <1>10, <3>2 DEF LeaveChunk, MoreInChunk
    <3>4. TurnsLeft' < TurnsLeft
      BY <2>1, <3>3 DEF TurnsLeft
    <3>. QED  BY <1>4, <1>5, <1>6, <2>1, <3>1, <3>4 DEF Copying
  <2>. QED  BY <2>2, <2>3
<1>11. CASE PushChunk
  <2>1. CASE total_elements_pos < TotalLength
    <3>1. /\ UNCHANGED <<table, new_columns, total_elements_pos, current_chunk>>
          /\ pc = "while" /\ pc' = "while" /\ new_chunk_pos = ChunkSize /\ new_chunk_pos' = 0
      BY <1>1, <1>11, <2>1 DEF PushChunk, MoreRows
    <3>2. TurnsLeft' < TurnsLeft
      BY <1>1, <3>1 DEF TurnsLeft
    <3>. QED  BY <1>4, <1>5, <1>6, <3>1, <3>2 DEF Copying
  <2>2. CASE ~(total_elements_pos < TotalLength)
    <3>1. PICK column : new_columns' = Append(new_columns, column) /\ table' = table
      BY <1>11, <2>2 DEF PushChunk
    <3>2. Len(new_columns') = Len(new_columns) + 1 /\ Len(new_columns) \in Nat
      BY <1>1, <3>1 DEF TypeOK
    <3>. QED  BY <1>1, <3>1, <3>2 DEF UsesUp, ColumnsLeft
  <2>. QED  BY <2>1, <2>2
<1>. QED  BY <1>2, <1>3, <1>8, <1>9, <1>10, <1>11 DEF Next

(***************************************************************************)
(* Why materialize_filter ends: no step of the nested loops is without     *)
(* effect on what is left to do, empty chunks, new chunks that fill up in  *)
(* the middle of old ones and columns without chunks included.             *)
(***************************************************************************)
THEOREM EveryStepUsesUp ==
  Spec => /\ [](ColumnsLeft \in Nat /\ StageLeft \in Nat /\ PositionLeft \in Nat)
          /\ [][UsesUp]_vars
<1>1. IInv => ColumnsLeft \in Nat /\ StageLeft \in Nat /\ PositionLeft \in Nat
  BY PositionLeftType DEF StageLeft
<1>2. IInv /\ IInv' /\ [Next]_vars => [UsesUp]_vars
  BY StepUsesUp
<1>. QED  BY Invariance, <1>1, <1>2, PTL DEF Spec
=============================================================================
