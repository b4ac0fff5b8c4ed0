SPECIFICATION Spec
CONSTANTS
  ChunkSize = 2
  Tables <- SmallTables
INVARIANTS
  IInv
  ColumnsHoldSelection
  ReadyForNextFilter
  PositionsAgree
PROPERTY Terminates
CHECK_DEADLOCK FALSE
