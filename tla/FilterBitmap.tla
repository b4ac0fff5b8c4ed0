---------------------------- MODULE FilterBitmap ----------------------------
(***************************************************************************)
(* FilterExprExecutor::visit(const CompareExpr &): the selection bitmap of *)
(* one comparison over one chunked column.                                 *)
(*                                                                         *)
(* The bitmap has one bit per row of the table and starts out all ones.    *)
(* Chunks need not end on a byte boundary, so the code makes two passes:   *)
(*   main pass       FilterKernel::execute on each chunk, which evaluates  *)
(*                   only the bytes lying entirely in the chunk;           *)
(*   remaining pass  FilterKernel::execute_remaining on the rows of the    *)
(*                   chunk in the byte shared with the chunk before        *)
(*                   (the head) and in the one shared with the chunk       *)
(*                   after (the tail).                                     *)
(* A kernel call evaluates `count' rows of the chunk from row `first' on   *)
(* and clears the bit of each row that fails, from bit `bit' on.  Bits are *)
(* numbered in row order: bit k is mask 1 << (W - 1 - k % W) of byte       *)
(* k \div W, which is how the kernels and materialize_column number them.  *)
(*                                                                         *)
(* The machine integers keep their width: array offsets and lengths are    *)
(* size_t values (modulo SizeT), the row count of a remaining call is a    *)
(* uint8_t (modulo U8).  A call that would leave the chunk's values, the   *)
(* bitmap or its byte has no defined effect; the run then is over ("fault")*)
(* and nothing is promised about it.                                       *)
(***************************************************************************)
EXTENDS Integers

CONSTANTS
  W,         \* bits in a byte of the bitmap (8 in the code)
  U8,        \* the modulus of uint8_t (2^8 in the code)
  SizeT,     \* the modulus of size_t (2^64 in the code)
  Layouts,   \* the chunked columns considered
  Matches    \* for each comparison considered, the rows that satisfy it

(***************************************************************************)
(* An arrow::ChunkedArray seen by the loops: chunk c, for c < chunks, holds*)
(* the rows start[c] .. start[c+1]-1 of the table.  start[c] is the sum of *)
(* the lengths of the chunks before c that the main pass recomputes.       *)
(***************************************************************************)
IsLayout(col) ==
  /\ col.chunks \in Nat
  /\ col.start \in [0 .. col.chunks -> Nat]
  /\ col.start[0] = 0
  /\ \A a, b \in 0 .. col.chunks : a <= b => col.start[a] <= col.start[b]
  /\ col.start[col.chunks] < SizeT

ASSUME WidthAssumption ==
  W \in Nat \ {0} /\ U8 \in Nat /\ SizeT \in Nat /\ W < U8 /\ U8 <= SizeT
ASSUME LayoutAssumption == \A col \in Layouts : IsLayout(col)
ASSUME MatchAssumption == Matches \subseteq SUBSET Nat

VARIABLES
  column,      \* the column filtered
  match,       \* the rows of the table for which the comparison is true
  bitmap,      \* the bitmap under construction
  chunk_num,   \* loop counter of the pass in progress
  offset,      \* rows before the point the remaining pass has reached
  pc           \* "execute", "head", "tail", "done" or "fault"

vars == <<column, match, bitmap, chunk_num, offset, pc>>

-----------------------------------------------------------------------------
Rows == column.start[column.chunks]
Chunks == 0 .. column.chunks - 1
Length(c) == column.start[c + 1] - column.start[c]

\* arrow::AllocateBitmap rounds the number of rows up to whole bytes.
NumBytes == (Rows + W - 1) \div W
Bits == 0 .. W * NumBytes - 1

\* The generated predicate function on row p of chunk c.
Predicate(c, p) == column.start[c] + p \in match

\* Mutant: the first whole byte is taken to be the shared one.
ExecuteCall_NoSkip(c) ==
  LET remaining_bits == (W - (column.start[c] % W)) % W
  IN  [first |-> remaining_bits,
       count |-> W * (((Length(c) - remaining_bits) % SizeT) \div W),
       bit   |-> W * (column.start[c] \div W)]

(***************************************************************************)
(* FilterKernel::execute on chunk c with the arguments the main pass gives *)
(* it: skip the rows in the byte shared with the chunk before, then        *)
(* evaluate (length - offset) / 8 whole bytes; the subtraction wraps.      *)
(***************************************************************************)
ExecuteCall(c) ==
  LET prev_bits      == column.start[c] % W
      remaining_bits == (W - prev_bits) % W
      arg_len        == (Length(c) - remaining_bits) % SizeT
  IN  [first |-> remaining_bits,
       count |-> W * (arg_len \div W),
       bit   |-> W * ((column.start[c] \div W) + (IF remaining_bits # 0 THEN 1 ELSE 0))]

\* Mutant: the head of a chunk is cleared from the first bit of the byte on.
RemainingCall_FirstBit(c, byte, array_offset, bit_offset) ==
  LET to_end_of_byte  == (W - bit_offset) % U8
      to_end_of_chunk == (Length(c) - array_offset) % U8
  IN  [first |-> array_offset,
       count |-> IF array_offset = 0 /\ to_end_of_byte < to_end_of_chunk
                 THEN to_end_of_byte ELSE to_end_of_chunk,
       bit   |-> W * byte]

\* Mutant: the rows of the head are not limited to its byte.
RemainingCall_NoMin(c, byte, array_offset, bit_offset) ==
  [first |-> array_offset,
   count |-> (Length(c) - array_offset) % U8,
   bit   |-> W * byte + bit_offset]

(***************************************************************************)
(* FilterKernel::execute_remaining on chunk c and one byte of the bitmap.  *)
(* The row count is cast to uint8_t before it is used.                     *)
(***************************************************************************)
RemainingCall(c, byte, array_offset, bit_offset) ==
  LET to_end_of_byte  == (W - bit_offset) % U8
      to_end_of_chunk == (Length(c) - array_offset) % U8
  IN  [first |-> array_offset,
       count |-> IF array_offset = 0 /\ to_end_of_byte < to_end_of_chunk
                 THEN to_end_of_byte ELSE to_end_of_chunk,
       bit   |-> W * byte + bit_offset]

\* The generated loops: the bits of rows that fail the predicate are cleared.
Apply(c, call) ==
  [k \in Bits |-> IF /\ k - call.bit \in 0 .. call.count - 1
                     /\ ~Predicate(c, call.first + (k - call.bit))
                  THEN 0 ELSE bitmap[k]]

-----------------------------------------------------------------------------
\* The call the program counter stands before.  In the remaining pass there is
\* one only where a byte is shared, that is where offset % 8 is not zero.
PendingCall ==
  CASE pc = "execute" -> ExecuteCall(chunk_num)
    [] pc = "head"    -> RemainingCall(chunk_num, offset \div W, 0, offset % W)
    [] pc = "tail"    -> RemainingCall(chunk_num, offset \div W,
                                       (Length(chunk_num) - (offset % W)) % SizeT, 0)

CallPending ==
  /\ pc \in {"execute", "head", "tail"}
  /\ chunk_num \in Chunks
  /\ pc # "execute" => offset % W # 0

\* The call reads values of the chunk and writes bytes of the bitmap only, and
\* the shift amounts of a remaining call's masks stay within the byte.
CallFits ==
  /\ PendingCall.first + PendingCall.count <= Length(chunk_num)
  /\ PendingCall.bit + PendingCall.count <= W * NumBytes
  /\ pc # "execute" => (PendingCall.bit % W) + PendingCall.count <= W

KernelCall ==
  /\ CallPending => CallFits
  /\ bitmap' = IF CallPending THEN Apply(chunk_num, PendingCall) ELSE bitmap

-----------------------------------------------------------------------------
\* The bitmap is allocated and set to ones (AllocateBitmap, memset 255).
Init ==
  /\ column \in Layouts
  /\ match \in {P \cap (0 .. Rows - 1) : P \in Matches}
  /\ bitmap = [k \in Bits |-> 1]
  /\ chunk_num = 0
  /\ offset = 0
  /\ pc = "execute"

\* One iteration of the main pass.
Execute ==
  /\ pc = "execute"
  /\ chunk_num \in Chunks
  /\ KernelCall
  /\ chunk_num' = chunk_num + 1
  /\ UNCHANGED <<column, match, offset, pc>>

\* Mutant: the chunk counter is not reset between the passes.
EndMainPass_NoReset ==
  /\ pc = "execute"
  /\ chunk_num = column.chunks
  /\ offset' = 0
  /\ pc' = "head"
  /\ UNCHANGED <<column, match, bitmap, chunk_num>>

\* The main pass is over; the remaining pass starts from the first chunk.
EndMainPass ==
  /\ pc = "execute"
  /\ chunk_num = column.chunks
  /\ chunk_num' = 0
  /\ offset' = 0
  /\ pc' = "head"
  /\ UNCHANGED <<column, match, bitmap>>

\* Mutant: the offset is assigned where it should be increased.
ExecuteHead_OffsetAssigned ==
  /\ pc = "head"
  /\ chunk_num \in Chunks
  /\ KernelCall
  /\ offset' = Length(chunk_num)
  /\ pc' = "tail"
  /\ UNCHANGED <<column, match, chunk_num>>

\* First half of an iteration of the remaining pass: the rows in the byte
\* shared with the chunks before, then the offset moves past the chunk.
ExecuteHead ==
  /\ pc = "head"
  /\ chunk_num \in Chunks
  /\ KernelCall
  /\ offset' = offset + Length(chunk_num)
  /\ pc' = "tail"
  /\ UNCHANGED <<column, match, chunk_num>>

\* Second half: the rows in the byte shared with the chunks after.
ExecuteTail ==
  /\ pc = "tail"
  /\ KernelCall
  /\ chunk_num' = chunk_num + 1
  /\ pc' = "head"
  /\ UNCHANGED <<column, match, offset>>

\* Every chunk is done: the bitmap becomes the visitor's m_buffer.
Finish ==
  /\ pc = "head"
  /\ chunk_num = column.chunks
  /\ pc' = "done"
  /\ UNCHANGED <<column, match, bitmap, chunk_num, offset>>

\* A call with no defined effect: the length or the array offset has wrapped.
Fault ==
  /\ CallPending
  /\ ~CallFits
  /\ pc' = "fault"
  /\ UNCHANGED <<column, match, bitmap, chunk_num, offset>>

Next == Execute \/ EndMainPass \/ ExecuteHead \/ ExecuteTail \/ Finish \/ Fault

Spec == Init /\ [][Next]_vars

-----------------------------------------------------------------------------
TypeOK ==
  /\ column \in Layouts
  /\ match \subseteq 0 .. Rows - 1
  /\ bitmap \in [Bits -> {0, 1}]
  /\ chunk_num \in 0 .. column.chunks
  /\ offset \in 0 .. Rows
  /\ pc \in {"execute", "head", "tail", "done", "fault"}
  /\ pc = "tail" => chunk_num \in Chunks

\* Chunk c starts inside a byte and ends before that byte does.
ShortChunk(c) ==
  /\ column.start[c] % W # 0
  /\ Length(c) < W - (column.start[c] % W)

\* The layouts the two passes are written for: a chunk that starts inside a
\* byte reaches the end of that byte, also after the cast to uint8_t.
LayoutCovers ==
  \A c \in Chunks : column.start[c] % W # 0
                      => Length(c) % U8 >= W - (column.start[c] % W)

(***************************************************************************)
(* Whatever the chunk layout, a row is only ever struck out because it     *)
(* fails the comparison, and the padding bits after the last row stay set: *)
(* the head, the whole bytes and the tail of a chunk are addressed from    *)
(* three different computations (bitmap + offset / 8, the + (offset != 0)  *)
(* of execute, length - offset % 8), and none may clear another row's bit. *)
(***************************************************************************)
NeverDropsMatch == \A k \in Bits : bitmap[k] = 0 => k < Rows /\ k \notin match

(***************************************************************************)
(* The result of the two passes: on a layout they are written for, every   *)
(* row of every chunk has been evaluated by exactly the calls meant for it *)
(* and the bitmap is the comparison, row by row.                           *)
(***************************************************************************)
BitmapCorrect ==
  LayoutCovers /\ pc = "done" => \A r \in 0 .. Rows - 1 : bitmap[r] = 1 <=> r \in match

(***************************************************************************)
(* The wrap of length - offset is reached exactly by a chunk that starts   *)
(* and ends inside one byte: no other layout faults, and no such layout    *)
(* gets through.                                                           *)
(***************************************************************************)
FaultOnlyOnShortChunk ==
  /\ pc = "fault" => \E c \in Chunks : ShortChunk(c)
  /\ pc = "done"  => \A c \in Chunks : ~ShortChunk(c)

(***************************************************************************)
(* "processed separately to avoid data dependency between chunks"          *)
(* (filter.h:12): a call of the main pass changes only bytes whose rows *)
(* all belong to its chunk, so the calls for different chunks commute.     *)
(***************************************************************************)
MainPassStaysInChunk ==
  [][pc = "execute" =>
       \A k \in Bits : bitmap'[k] # bitmap[k] =>
         /\ column.start[chunk_num] <= W * (k \div W)
         /\ W * (k \div W) + W <= column.start[chunk_num + 1]]_vars

(***************************************************************************)
(* What filter.h:10-12 and tests/execution_tests/test_filter.cpp:92 say     *)
(* without a condition on the layout: the bitmap agrees with the           *)
(* comparison on every row.                                                *)
(***************************************************************************)
EveryRowEvaluated == pc = "done" => \A r \in 0 .. Rows - 1 : bitmap[r] = 1 <=> r \in match

(***************************************************************************)
(* What filter.h:11-12 says of execute, again for every layout: the first  *)
(* <offset> elements are left to the remaining pass, however few there are.*)
(***************************************************************************)
NeverFaults == pc # "fault"

-----------------------------------------------------------------------------
(***************************************************************************)
(* On the layouts the two passes are written for, the visit implements     *)
(* RowFilter: a row is selected while its bit is set.  Of other layouts    *)
(* nothing is said here: their rows stay selected, and no end is reached.  *)
(***************************************************************************)
Selected == {r \in 0 .. Rows - 1 : LayoutCovers => bitmap[r] = 1}

Filter == INSTANCE RowFilter WITH
           rows <- Rows, match <- match, selected <- Selected,
           finished <- LayoutCovers /\ pc = "done"

ImplementsRowFilter == Filter!Spec

-----------------------------------------------------------------------------
(***************************************************************************)
(* The inductive invariant behind the safety properties.  No property is   *)
(* inductive alone: that the remaining pass finishes the bitmap rests on   *)
(* what the main pass has already evaluated, chunk by chunk, and on where  *)
(* the running offset stands.                                              *)
(***************************************************************************)
Evaluated(r) == bitmap[r] = 1 => r \in match

\* The remaining pass has accumulated the lengths of the chunks before.
OffsetTracks ==
  /\ pc = "head" => offset = column.start[chunk_num]
  /\ pc = "tail" => offset = column.start[chunk_num + 1]

\* The chunks the main pass has been through.
MainPassDone == IF pc = "execute" THEN 0 .. chunk_num - 1
                ELSE IF pc = "fault" THEN {} ELSE Chunks

NoShortChunkPassed == \A c \in MainPassDone : ~ShortChunk(c)

\* The rows of whole bytes of chunk c.
Inside(c) ==
  column.start[c] + ((W - (column.start[c] % W)) % W)
    .. column.start[c + 1] - (column.start[c + 1] % W) - 1

BytesEvaluated == \A c \in MainPassDone : \A r \in Inside(c) : Evaluated(r)

\* The remaining pass has evaluated everything before the offset, in its
\* middle everything before the byte the offset is in.
Frontier ==
  /\ pc = "head" => \A r \in 0 .. offset - 1 : Evaluated(r)
  /\ pc = "tail" => \A r \in 0 .. offset - (offset % W) - 1 : Evaluated(r)
  /\ pc = "done" => \A r \in 0 .. Rows - 1 : Evaluated(r)

\* The inductive invariant: what holds on every layout, and what holds on the
\* layouts the two passes are written for.
IInv ==
  /\ TypeOK
  /\ OffsetTracks
  /\ NeverDropsMatch
  /\ NoShortChunkPassed
  /\ pc = "fault" => \E c \in Chunks : ShortChunk(c)
  /\ LayoutCovers => BytesEvaluated /\ Frontier
=============================================================================
