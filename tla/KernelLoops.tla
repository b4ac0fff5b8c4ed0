---------------------------- MODULE KernelLoops ----------------------------
(***************************************************************************)
(* The two functions compile generates for a comparison, a step per basic  *)
(* block, with the i8 arithmetic of their IR:                              *)
(*                                                                         *)
(*   <field>_filter            bytes of W rows, gathered in tmp_bitmap     *)
(*   <field>_filter_remaining  up to W rows, written to one byte in place  *)
(*                                                                         *)
(* A byte is the set of the positions of its ones, position p having the   *)
(* weight 2^p, so | is union, & intersection and ~ complement.  FilterBitmap *)
(* takes what a call does in one step (Apply); here this is shown to be    *)
(* what the loops leave behind.                                            *)
(***************************************************************************)
EXTENDS Integers

CONSTANTS
  W,        \* bits in a byte (8 in the code)
  I8,       \* the modulus of i8 (2^8 in the code)
  Calls     \* the calls considered

Byte == SUBSET (0 .. W - 1)

(***************************************************************************)
(* The arguments of a call, and the memory they point to: the rows of      *)
(* source for which predicate is true, and the bytes of dest.  A call of   *)
(* filter has the bytes it evaluates; filter_remaining is told where in its*)
(* byte to begin.  Rows past the chunk are whatever memory holds.          *)
(***************************************************************************)
IsCall(call) ==
  /\ call.func \in {"filter", "filter_remaining"}
  /\ call.len \in Nat
  /\ call.bit_offset \in 0 .. W - 1
  /\ call.source \in SUBSET Nat
  /\ call.bytes \in Nat
  /\ call.dest \in [0 .. call.bytes - 1 -> Byte]
  /\ IF call.func = "filter" THEN call.len \div W <= call.bytes /\ call.bit_offset = 0
     ELSE call.len < I8 /\ call.bytes = 1

ASSUME WidthAssumption == W \in Nat \ {0} /\ I8 \in Nat /\ 2 * W < I8
ASSUME CallAssumption == \A call \in Calls : IsCall(call)

VARIABLES
  call,         \* the arguments, and the memory before the call
  dest,         \* the bytes of the bitmap
  i,            \* loop counter: of bytes, or of rows in filter_remaining
  j,            \* loop counter of the rows of a byte
  tmp_bitmap,   \* the byte gathered
  pc            \* the basic block, or "done"

vars == <<call, dest, i, j, tmp_bitmap, pc>>

-----------------------------------------------------------------------------
\* ICmpSLT and the indices of GEP take an i8 as signed.
Signed(x) == IF 2 * x < I8 THEN x ELSE x - I8

\* predicate(source[row]), an i1, cast to i8.
Predicate(row) == IF row \in call.source THEN {0} ELSE {}

\* Shl by the width of its operand or more is poison: any byte.
Shl(byte, n) ==
  IF n < W THEN {{p + n : p \in byte} \cap (0 .. W - 1)} ELSE Byte

Init ==
  /\ call \in Calls
  /\ dest = call.dest
  /\ i = 0 /\ j = 0 /\ tmp_bitmap = {}
  /\ pc = IF call.func = "filter" THEN "outerloop.cond" ELSE "loop.cond"

-----------------------------------------------------------------------------
\* Mutant: the last byte is included whether it is full or not.
OuterloopCond_Rounded ==
  /\ pc = "outerloop.cond"
  /\ pc' = IF i < (call.len + W - 1) \div W THEN "outerloop.body" ELSE "done"
  /\ UNCHANGED <<call, dest, i, j, tmp_bitmap>>

\* i is an i64 and len / 8 far from its limits.
OuterloopCond ==
  /\ pc = "outerloop.cond"
  /\ pc' = IF i < call.len \div W THEN "outerloop.body" ELSE "done"
  /\ UNCHANGED <<call, dest, i, j, tmp_bitmap>>

\* Mutant: tmp_bitmap keeps the ones of the byte before.
OuterloopBody_KeepsBits ==
  /\ pc = "outerloop.body"
  /\ j' = 0
  /\ pc' = "innerloop.cond"
  /\ UNCHANGED <<call, dest, i, tmp_bitmap>>

OuterloopBody ==
  /\ pc = "outerloop.body"
  /\ tmp_bitmap' = {} /\ j' = 0
  /\ pc' = "innerloop.cond"
  /\ UNCHANGED <<call, dest, i>>

InnerloopCond ==
  /\ pc = "innerloop.cond"
  /\ pc' = IF Signed(j) < W THEN "innerloop.body" ELSE "innerloop.end"
  /\ UNCHANGED <<call, dest, i, j, tmp_bitmap>>

\* Mutant: the counter is not increased.
InnerloopBody_SameRow ==
  /\ pc = "innerloop.body"
  /\ \E bit_with_shift \in Shl(Predicate(i * W + Signed(j)), (W - 1 - j) % I8) :
       tmp_bitmap' = tmp_bitmap \cup bit_with_shift
  /\ pc' = "innerloop.cond"
  /\ UNCHANGED <<call, dest, i, j>>

\* tmp_bitmap |= predicate(src[j]) << (7 - j)
InnerloopBody ==
  /\ pc = "innerloop.body"
  /\ \E bit_with_shift \in Shl(Predicate(i * W + Signed(j)), (W - 1 - j) % I8) :
       tmp_bitmap' = tmp_bitmap \cup bit_with_shift
  /\ j' = (j + 1) % I8
  /\ pc' = "innerloop.cond"
  /\ UNCHANGED <<call, dest, i>>

\* dst[i] &= tmp_bitmap
InnerloopEnd ==
  /\ pc = "innerloop.end"
  /\ dest' = [dest EXCEPT ![i] = @ \cap tmp_bitmap]
  /\ i' = i + 1
  /\ pc' = "outerloop.cond"
  /\ UNCHANGED <<call, j, tmp_bitmap>>

-----------------------------------------------------------------------------
\* Mutant: the counter is compared unsigned, as the TODO in the loop suggests.
LoopCond_Unsigned ==
  /\ pc = "loop.cond"
  /\ pc' = IF i < call.len THEN "loop.body" ELSE "done"
  /\ UNCHANGED <<call, dest, i, j, tmp_bitmap>>

LoopCond ==
  /\ pc = "loop.cond"
  /\ pc' = IF Signed(i) < Signed(call.len) THEN "loop.body" ELSE "done"
  /\ UNCHANGED <<call, dest, i, j, tmp_bitmap>>

\* Mutant: the complement is not reduced to its lowest bit.
LoopBody_NoMask ==
  /\ pc = "loop.body"
  /\ \E zero_bit \in Shl((0 .. W - 1) \ Predicate(Signed(i)),
                         (W - 1 - (i + call.bit_offset)) % I8) :
       dest' = [dest EXCEPT ![0] = @ \ zero_bit]
  /\ i' = (i + 1) % I8
  /\ pc' = "loop.cond"
  /\ UNCHANGED <<call, j, tmp_bitmap>>

\* *dest &= ~(((~bit) & 1) << (7 - (i + offset)))
LoopBody ==
  /\ pc = "loop.body"
  /\ \E zero_bit \in Shl({0} \ Predicate(Signed(i)), (W - 1 - (i + call.bit_offset)) % I8) :
       dest' = [dest EXCEPT ![0] = @ \ zero_bit]
  /\ i' = (i + 1) % I8
  /\ pc' = "loop.cond"
  /\ UNCHANGED <<call, j, tmp_bitmap>>

Next ==
  \/ OuterloopCond \/ OuterloopBody \/ InnerloopCond \/ InnerloopBody \/ InnerloopEnd
  \/ LoopCond \/ LoopBody

\* A call runs until it returns.
Spec == Init /\ [][Next]_vars /\ WF_vars(Next)

-----------------------------------------------------------------------------
TypeOK ==
  /\ IsCall(call)
  /\ dest \in [0 .. call.bytes - 1 -> Byte]
  /\ i \in 0 .. (IF call.func = "filter" THEN call.len \div W ELSE call.len)
  /\ j \in 0 .. W
  /\ tmp_bitmap \in Byte
  /\ pc \in {"done"} \cup
       (IF call.func = "filter"
        THEN {"outerloop.cond", "outerloop.body", "innerloop.cond", "innerloop.body",
              "innerloop.end"}
        ELSE {"loop.cond", "loop.body"})

\* A bitmap in row order, as FilterBitmap has it.
Bitmap(bytes) ==
  [k \in 0 .. W * call.bytes - 1 |-> IF W - 1 - (k % W) \in bytes[k \div W] THEN 1 ELSE 0]

Count == IF call.func = "filter" THEN W * (call.len \div W) ELSE call.len

\* What FilterBitmap requires of a call (its CallFits).
Fits == call.func = "filter" \/ call.bit_offset + call.len <= W

(***************************************************************************)
(* A call that fits has the effect FilterBitmap gives it, on its bits and  *)
(* on those of its bytes that belong to other rows.                        *)
(***************************************************************************)
Before == INSTANCE FilterBitmap WITH
            U8 <- I8, SizeT <- W * call.bytes + I8, Layouts <- {}, Matches <- {},
            column <- [chunks |-> 1, start |-> [c \in 0 .. 1 |-> c * (W * call.bytes)]],
            match <- call.source, bitmap <- Bitmap(call.dest),
            chunk_num <- 0, offset <- 0

CallApplied ==
  pc = "done" /\ Fits
    => Bitmap(dest) = Before!Apply(0, [first |-> 0, count |-> Count, bit |-> call.bit_offset])

(***************************************************************************)
(* On the way there no bit of another row is ever cleared and set again,   *)
(* nor one of a row that satisfies the comparison: filter_remaining works  *)
(* on the byte in place.                                                   *)
(***************************************************************************)
OnlyFailingCleared ==
  [][Fits =>
       \A k \in 0 .. W * call.bytes - 1 :
         Bitmap(dest)'[k] # Bitmap(dest)[k]
           => /\ Bitmap(dest)[k] = 1
              /\ k - call.bit_offset \in (0 .. Count - 1) \ call.source]_vars

(***************************************************************************)
(* The loop of filter_remaining takes a count of 2^7 or more as negative:  *)
(* such a call returns without having evaluated a row, where one a little  *)
(* shorter goes past its byte.  The interface of execute_remaining allows  *)
(* both for an array_offset that is not 0; the executor's calls fit.       *)
(***************************************************************************)
WideCountIgnored ==
  call.func = "filter_remaining" /\ 2 * call.len >= I8 => dest = call.dest

\* Every call returns: no counter goes around.
Returns == <>(pc = "done")

-----------------------------------------------------------------------------
(***************************************************************************)
(* The inductive invariant: the bytes before i, or the rows before i, are  *)
(* evaluated, the others are as they were, and tmp_bitmap holds the rows   *)
(* of byte i before j.                                                     *)
(***************************************************************************)
Gathered == {p \in 0 .. W - 1 : p >= W - j /\ i * W + (W - 1 - p) \in call.source}

InFilter ==
  /\ \A b \in 0 .. call.bytes - 1 :
       dest[b] = IF b < i
                 THEN {p \in call.dest[b] : b * W + (W - 1 - p) \in call.source}
                 ELSE call.dest[b]
  /\ pc \notin {"outerloop.cond", "done"} => i < call.len \div W
  /\ pc \in {"innerloop.cond", "innerloop.body", "innerloop.end"} => tmp_bitmap = Gathered
  /\ pc = "innerloop.body" => j < W
  /\ pc = "innerloop.end" => j = W
  /\ pc = "done" => i = call.len \div W

InRemaining ==
  /\ dest[0] = {p \in call.dest[0] :
                  LET row == W - 1 - p - call.bit_offset
                  IN  row \in 0 .. i - 1 => row \in call.source}
  /\ pc = "loop.body" => i < call.len
  /\ pc = "done" => i = call.len

IInv ==
  /\ TypeOK
  /\ call.func = "filter" => InFilter
  /\ call.func = "filter_remaining" /\ Fits => InRemaining
  /\ call.func = "filter_remaining" =>
       /\ 2 * call.len >= I8 => i = 0
       /\ pc = "loop.body" => 2 * call.len < I8 /\ i < call.len
  /\ WideCountIgnored
=============================================================================
