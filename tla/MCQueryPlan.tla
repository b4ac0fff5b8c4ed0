---------------------------- MODULE MCQueryPlan ----------------------------
(***************************************************************************)
(* Instances of QueryPlan for TLC: columns a and b are numeric, s is a     *)
(* string column and d a date column; e0, which no row satisfies, and e1    *)
(* are comparisons on a, e2 is one on b, es on s; em compares a with a      *)
(* literal of another kind, and c is the constant false.                   *)
(***************************************************************************)
EXTENDS QueryPlan

Table(columns, rows, chunked) == [columns |-> columns, rows |-> rows, chunked |-> chunked]

AllColumnOf == [e0 |-> "a", e1 |-> "a", e2 |-> "b", es |-> "s", em |-> "a"]
AllSatisfying == [e0 |-> {}, e1 |-> {0, 1}, e2 |-> {1, 2}, es |-> {0}, em |-> {}]
ConstantExprs == {"c"}
MismatchedExprs == {"em"}
NumericColumns == {"a", "b"}
UnsupportedColumns == {"d"}

\* Every kind of table: two numeric columns, a string column beside them, a
\* date column, rows cut into no chunks, and no columns.
MixedTables ==
  {Table(<<"a", "b">>, 0 .. 2, TRUE), Table(<<"a", "s">>, 0 .. 2, TRUE),
   Table(<<"a", "d">>, 0 .. 2, TRUE), Table(<<"a", "d">>, {}, FALSE), Table(<<>>, {}, FALSE)}

\* Reordering, dropping, doubling and dropping all columns.
MixedProjections == {<<"b", "a">>, <<"a">>, <<"a", "a">>, <<>>}
MixedExprs == {"e0", "e2", "es", "em", "c"}

\* Tables and projections that leave at least one column with a chunk.
ChunkedTables == {Table(<<"a", "b">>, 0 .. 2, TRUE), Table(<<"a", "s">>, 0 .. 2, TRUE),
                  Table(<<"b">>, {}, TRUE)}
NonEmptyProjections == {<<"b", "a">>, <<"a">>}
NumericExprs == {"e1", "e2"}
ComparedExprs == {"e1", "e2", "em"}
=============================================================================
