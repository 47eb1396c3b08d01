\* A reading task and the swap-out task of the buffer cache.
SPECIFICATION Spec
CONSTANTS
  Tasks = {reader, swapout}
  SqLen = 2
  CqLen = 2
  Polls = 1
  MaxCalls = 3
  MaxMixed = 2
  Kinds = {"staged", "bounceRead"}
  reader = reader
  swapout = swapout
INVARIANTS TypeOK TurnsAreSafe
PROPERTIES CallsEnd
CHECK_DEADLOCK FALSE
