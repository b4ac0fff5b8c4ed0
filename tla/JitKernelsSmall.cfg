SPECIFICATION Spec
CONSTANTS
  A = A
  B = B
  lt = lt
  gt = gt
  string = string
  Names = {A, B}
  Codes = {lt, gt, string}
  Unsupported = {string}
  MaxKernels = 3
  MaxModules = 3
SYMMETRY Alike
INVARIANTS
  IInv
  ModulesAccounted
  OwnCodeUnlessCollision
  RunsOwnCode
CHECK_DEADLOCK FALSE
