SPECIFICATION Spec
CONSTANTS
  Tables <- MixedTables
  Projections <- MixedProjections
  Exprs <- MixedExprs
  Consts <- ConstantExprs
  Mismatched <- MismatchedExprs
  ColumnOf <- AllColumnOf
  Satisfying <- AllSatisfying
  Numeric <- NumericColumns
  Unsupported <- UnsupportedColumns
  MaxQueries = 3
INVARIANTS
  MInv
  PassPreservesQuery
  FiltersJoined
  BitmapNeverLost
PROPERTIES
  UserPlansNeverChange
  UnreachableExactly
  CrashesExactly
  Answered
CHECK_DEADLOCK FALSE
