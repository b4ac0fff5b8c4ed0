SPECIFICATION Spec
CONSTANTS
  W = 8
  U8 = 256
  SizeT = 1073741824
  Layouts <- RealLayouts
  Matches <- Patterns
INVARIANTS
  BitmapCorrect
CHECK_DEADLOCK FALSE
