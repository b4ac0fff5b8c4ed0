-------------------------- MODULE MCLiteralCompare --------------------------
(***************************************************************************)
(* Instances of LiteralCompare for TLC: integral types of two to five bits *)
(* with literals of four, so that int has narrower and wider columns, and  *)
(* floating types of which half and float leave out numbers of double.     *)
(***************************************************************************)
EXTENDS LiteralCompare

MCModulus ==
  [INT8 |-> 4, INT16 |-> 8, INT32 |-> 16, INT64 |-> 32,
   UINT8 |-> 4, UINT16 |-> 8, UINT32 |-> 16, UINT64 |-> 32]
MCGrid == [HALF_FLOAT |-> 4, FLOAT |-> 2, DOUBLE |-> 1]
MCLimit == [HALF_FLOAT |-> 12, FLOAT |-> 22, DOUBLE |-> 40]

MCInts == -8 .. 7
MCDoubles == -41 .. 41
MCNumbers ==
  [t \in Floating |->
     {n \in -(MCLimit[t] + MCGrid[t]) .. MCLimit[t] + MCGrid[t] : n % MCGrid[t] = 0}]
=============================================================================
