\* The reading task and the swap-out task overlap.
SPECIFICATION Spec
CONSTANTS
  Tasks = {reader, swapout}
  SqLen = 2
  CqLen = 2
  Polls = 1
  MaxCalls = 2
  MaxMixed = 2
  Kinds = {"staged", "bounceRead"}
  reader = reader
  swapout = swapout
INVARIANT ReadsItsSectors
CHECK_DEADLOCK FALSE
