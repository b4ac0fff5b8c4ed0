--------------------------- MODULE MCFilterBitmap ---------------------------
(***************************************************************************)
(* Instances of FilterBitmap for TLC.  A column is given by the lengths of *)
(* its chunks.                                                             *)
(***************************************************************************)
EXTENDS FilterBitmap, Sequences

Column(lengths) ==
  LET sum[c \in 0 .. Len(lengths)] == IF c = 0 THEN 0 ELSE sum[c - 1] + lengths[c]
  IN  [chunks |-> Len(lengths), start |-> sum]

UpTo(S, n) == UNION {[1 .. m -> S] : m \in 0 .. n}

AllRows(col) == col.start[col.chunks]

\* Every layout of at most three chunks of at most five rows, eight rows in all.
SmallLayouts == {col \in {Column(l) : l \in UpTo(0 .. 5, 3)} : AllRows(col) <= 8}
AllMatches8  == SUBSET (0 .. 7)

(***************************************************************************)
(* Real bytes.  The three columns of tests/execution_tests/test_filter.cpp,*)
(* a chunk cut short inside a byte, an empty chunk inside a byte, and a    *)
(* chunk of 256 rows that starts inside a byte.  Comparisons true of no    *)
(* row, of all rows, of every second, third or seventh, and of one row.    *)
(***************************************************************************)
TestLayouts == {Column(<<16, 15, 16>>), Column(<<9, 14, 15, 9>>), Column(<<11, 11, 12, 13>>)}
RealLayouts ==
  TestLayouts \cup {Column(<<5, 2, 10>>), Column(<<7, 0, 9>>), Column(<<1, 256>>),
                    Column(<<1, 263, 3>>), Column(<<8, 3, 5>>), Column(<<>>), Column(<<0>>)}
TruncatedLayouts == {Column(<<1, 256>>)}
ShortLayouts == {Column(<<5, 2, 10>>)}

Patterns ==
  {{}, 0 .. 300} \cup {{r \in 0 .. 300 : r % m = 0} : m \in {2, 3, 7}}
                 \cup {{r} : r \in 0 .. 17}
=============================================================================
