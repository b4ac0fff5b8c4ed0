SPECIFICATION Spec
CONSTANTS
  W = 3
  I8 = 16
  Lens = {0, 2, 3, 5, 6}
  Lens8 <- SmallLens8
  Sources <- SmallSources
  Dests <- SmallDests
  Calls <- MCCalls
INVARIANT IInv
INVARIANT CallApplied
INVARIANT WideCountIgnored
PROPERTY OnlyFailingCleared
PROPERTY Returns
CHECK_DEADLOCK FALSE
