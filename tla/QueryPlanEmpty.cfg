SPECIFICATION Spec
CONSTANTS
  Tables <- MixedTables
  Projections <- NonEmptyProjections
  Exprs <- NumericExprs
  Consts <- ConstantExprs
  Mismatched <- MismatchedExprs
  ColumnOf <- AllColumnOf
  Satisfying <- AllSatisfying
  Numeric <- NumericColumns
  Unsupported <- UnsupportedColumns
  MaxQueries = 1
INVARIANT NeverUnreachable
CHECK_DEADLOCK FALSE
