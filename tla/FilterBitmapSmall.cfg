SPECIFICATION Spec
CONSTANTS
  W = 2
  U8 = 4
  SizeT = 64
  Layouts <- SmallLayouts
  Matches <- AllMatches8
INVARIANTS
  IInv
  NeverDropsMatch
  BitmapCorrect
  FaultOnlyOnShortChunk
PROPERTIES
  ImplementsRowFilter
  MainPassStaysInChunk
CHECK_DEADLOCK FALSE
