---------------------------- MODULE MCFilterExpr ----------------------------
(***************************************************************************)
(* Instances of FilterExpr for TLC: four rows, one for each way in which   *)
(* the comparisons a and b can hold; m is on a column that is missing, u   *)
(* on one of a type without LLVM type, f on another than the emitter's,    *)
(* and x has a literal of the wrong kind.                                  *)
(***************************************************************************)
EXTENDS FilterExpr

AllRows == 0 .. 3
AllSatisfying == [a |-> {0, 1}, b |-> {1, 2}, m |-> {}, u |-> {1}, f |-> {0}, x |-> {2}]
BothConsts == BOOLEAN
=============================================================================
