----------------------------- MODULE RowFilter -----------------------------
(***************************************************************************)
(* What the evaluation of one comparison promises, without bytes, chunks   *)
(* or kernels: every row of the table starts out selected, rows that fail  *)
(* the comparison are struck out in any order and in groups of any size,   *)
(* and the result is handed over exactly when the rows left are the rows   *)
(* that match.  The order is left open on purpose: the code marks the loop *)
(* over chunks as one to be run in parallel (execution.cpp:61).            *)
(***************************************************************************)
EXTENDS Integers

VARIABLES
  rows,       \* number of rows of the table
  match,      \* the rows for which the comparison is true
  selected,   \* the rows still selected
  finished    \* the result has been handed over

vars == <<rows, match, selected, finished>>

Init ==
  /\ rows \in Nat
  /\ match \subseteq 0 .. rows - 1
  /\ selected = 0 .. rows - 1
  /\ finished = FALSE

\* Some selected rows that fail the comparison are struck out together.
StrikeOut ==
  /\ ~finished
  /\ selected' \subseteq selected
  /\ selected' # selected
  /\ (selected \ selected') \cap match = {}
  /\ UNCHANGED <<rows, match, finished>>

\* The result is handed over: the selected rows are the matching rows.
HandOver ==
  /\ ~finished
  /\ selected = match
  /\ finished' = TRUE
  /\ UNCHANGED <<rows, match, selected>>

Next == StrikeOut \/ HandOver

Spec == Init /\ [][Next]_vars
=============================================================================
