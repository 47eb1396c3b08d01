\* The I/O queue: nvme_io_xfer, which does not test for NULL.  A fifth completion is
\* the first that could rewrite an entry of the completion queue.
SPECIFICATION Spec
CONSTANTS
  SqLen = 4
  CqLen = 4
  Statuses = {0, 2}
  Polls = 1
  MaxCalls = 5
  ChecksNull = FALSE
INVARIANTS OwnCompletion
PROPERTIES CopyStable WaitEnds
CHECK_DEADLOCK FALSE
