------------------------------- MODULE Query -------------------------------
(***************************************************************************)
(* What a QueryCompiler promises.  Queries are values: one is built from   *)
(* another by adding an operation and the other stays what it was.  Run on *)
(* a table, a query answers with the table its operations give, applied    *)
(* one after the other in the order they were added; nothing is said of    *)
(* plans, passes, bitmaps or materialization.                              *)
(***************************************************************************)
EXTENDS Integers, Sequences, FiniteSets

CONSTANTS
  Tables,        \* the tables queries are run on: their columns and rows
  Projections,   \* the lists of column names projected on
  Exprs,         \* the comparisons filtered by
  ColumnOf,      \* the column an expression refers to
  Mismatched,    \* the expressions whose literal is of no kind their column has
  Satisfying,    \* the rows an expression is true of
  Numeric        \* the columns whose type filters are implemented for

VARIABLES
  queries,   \* the queries built so far, each a sequence of operations
  asked,     \* the query being run and its table, if any
  answer     \* the answer to the query run last, until the next call

vars == <<queries, asked, answer>>

Operations == [op : {"project"}, fields : Projections] \cup [op : {"filter"}, expr : Exprs]

\* A name is of use only if exactly one column has it.
Named(t, name) == Cardinality({i \in DOMAIN t.columns : t.columns[i] = name}) = 1

Project(t, fields) ==
  [t EXCEPT !.columns = fields, !.rows = IF fields = <<>> THEN {} ELSE @]

Select(t, expr) == [t EXCEPT !.rows = @ \cap Satisfying[expr]]

Applicable(t, o) ==
  IF o.op = "project" THEN \A i \in DOMAIN o.fields : Named(t, o.fields[i])
  ELSE Named(t, ColumnOf[o.expr])

Failed(why) == [result |-> why, columns |-> <<>>, rows |-> {}]

\* One operation on the answer of those before it: nothing follows a failure.
Apply(before, o) ==
  IF before.result # "table" THEN before
  ELSE IF ~Applicable(before, o) THEN Failed("no_table")
  ELSE IF o.op = "project" THEN Project(before, o.fields)
  ELSE IF o.expr \in Mismatched THEN Failed("bad_variant_access")
  ELSE Select(before, o.expr)

\* The answers to the first n operations of a query, n from 0 to all of them.
After(query, t) ==
  LET after[n \in 0 .. Len(query)] ==
        IF n = 0 THEN [result |-> "table", columns |-> t.columns, rows |-> t.rows]
        ELSE Apply(after[n - 1], query[n])
  IN  after

Evaluate(query, t) == After(query, t)[Len(query)]

AllNumeric(t) == \A i \in DOMAIN t.columns : t.columns[i] \in Numeric

-----------------------------------------------------------------------------
Init ==
  /\ queries = {<<>>}
  /\ asked = <<>>
  /\ answer = Failed("none")

\* project or filter: a longer query, beside the one it was built from.
Build ==
  /\ asked = <<>>
  /\ \E q \in queries, o \in Operations : queries' = queries \cup {Append(q, o)}
  /\ answer' = Failed("none")
  /\ UNCHANGED asked

Ask ==
  /\ asked = <<>>
  /\ \E q \in queries \ {<<>>}, t \in Tables : asked' = <<q, t>>
  /\ answer' = Failed("none")
  /\ UNCHANGED queries

\* The answer is the query's; a table with columns that are not numeric may
\* also be refused.
Reply ==
  /\ asked # <<>>
  /\ \/ answer' = Evaluate(asked[1], asked[2])
     \/ ~AllNumeric(asked[2]) /\ answer' = Failed("not_implemented")
  /\ asked' = <<>>
  /\ UNCHANGED queries

Next == Build \/ Ask \/ Reply

Spec == Init /\ [][Next]_vars
=============================================================================
