--------------------------- MODULE MCMaterialize ---------------------------
(***************************************************************************)
(* Instances of Materialize for TLC.  A column is given by the lengths of  *)
(* its chunks.                                                             *)
(***************************************************************************)
EXTENDS Materialize

Column0(lengths, numeric) ==
  LET sum[c \in 0 .. Len(lengths)] == IF c = 0 THEN 0 ELSE sum[c - 1] + lengths[c]
  IN  [chunks |-> Len(lengths), start |-> sum, numeric |-> numeric]

Lengths(maxChunks, maxRows) == UNION {[1 .. n -> 0 .. maxRows] : n \in 0 .. maxChunks}
OfRows(rows, maxChunks) ==
  {l \in Lengths(maxChunks, rows) : Column0(l, TRUE).start[Len(l)] = rows}

\* Up to five rows, cut in every way into at most three chunks, empty ones
\* included; one column, numeric or not.
OneColumn ==
  UNION {{[rows |-> n, columns |-> <<Column0(l, num)>>] :
            l \in OfRows(n, 3), num \in BOOLEAN} : n \in 0 .. 5}

\* Two columns of the same four rows cut differently, and no column at all.
TwoColumns ==
  {[rows |-> 4, columns |-> <<Column0(l, TRUE), Column0(m, num)>>] :
     l \in OfRows(4, 2), m \in OfRows(4, 2), num \in BOOLEAN}

SmallTables == OneColumn \cup TwoColumns \cup {[rows |-> 0, columns |-> <<>>]}
=============================================================================
