SPECIFICATION Spec
CONSTANTS
  W = 8
  U8 = 256
  SizeT = 1073741824
  Layouts <- TruncatedLayouts
  Matches <- Patterns
INVARIANT EveryRowEvaluated
CHECK_DEADLOCK FALSE
