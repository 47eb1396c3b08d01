\* The admin queue: callers that test for NULL; rings of different lengths.
SPECIFICATION Spec
CONSTANTS
  SqLen = 4
  CqLen = 8
  Statuses = {0, 2}
  Polls = 2
  MaxCalls = 9
  ChecksNull = TRUE
INVARIANTS RingInv
PROPERTIES LostIsFinal SyncSpec
CHECK_DEADLOCK FALSE
