SPECIFICATION Spec
CONSTANTS
  W = 8
  U8 = 256
  SizeT = 1073741824
  Layouts <- ShortLayouts
  Matches <- Patterns
INVARIANT NeverFaults
CHECK_DEADLOCK FALSE
