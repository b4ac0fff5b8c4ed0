SPECIFICATION Spec
CONSTANTS
  Rows <- AllRows
  Comparisons = {"a", "b", "m", "u", "f", "x"}
  Satisfying <- AllSatisfying
  Missing = {"m"}
  Unsupported = {"u"}
  Mismatched = {"x"}
  Foreign = {"f"}
  Consts <- BothConsts
  MaxExprs = 4
INVARIANTS
  IInv
  ResultCorrect
  ConstantsSkipped
  NullOnlyFromLeaves
PROPERTIES
  HeldResultsKept
CHECK_DEADLOCK FALSE
