SPECIFICATION Spec
CONSTANTS
  Signed = {"INT8", "INT16", "INT32", "INT64"}
  Unsigned = {"UINT8", "UINT16", "UINT32", "UINT64"}
  Floating = {"HALF_FLOAT", "FLOAT", "DOUBLE"}
  Others = {"STRING", "DECIMAL"}
  Modulus <- MCModulus
  Grid <- MCGrid
  Limit <- MCLimit
  Unit = 4
  Ints <- MCInts
  Doubles <- MCDoubles
  Numbers <- MCNumbers
INVARIANT IInv
INVARIANT RepresentableCompared
INVARIANT OperatorsAgree
INVARIANT RoundingKeepsOrder
CHECK_DEADLOCK FALSE
