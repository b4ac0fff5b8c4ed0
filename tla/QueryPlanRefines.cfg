SPECIFICATION Spec
CONSTANTS
  Tables <- ChunkedTables
  Projections <- NonEmptyProjections
  Exprs <- ComparedExprs
  Consts <- ConstantExprs
  Mismatched <- MismatchedExprs
  ColumnOf <- AllColumnOf
  Satisfying <- AllSatisfying
  Numeric <- NumericColumns
  Unsupported <- UnsupportedColumns
  MaxQueries = 4
PROPERTY ImplementsQuery
CHECK_DEADLOCK FALSE
