\* A command may fail with a status of type 1 and code 0 (256): one disk and one
\* namespace are enough.
SPECIFICATION BootSpec
CONSTANTS
  MaxNs = 1
  MaxTo = 1
  Statuses = {0, 256}
  MaxCalls = 4
  MaxDisks = 1
INVARIANTS QueuesMade
CHECK_DEADLOCK FALSE
