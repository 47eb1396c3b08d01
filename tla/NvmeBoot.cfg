\* Two disks, up to two namespaces; every registration, allocation and command
\* may fail, also with a status of type 1 and code 0 (256).
SPECIFICATION BootSpec
CONSTANTS
  MaxNs = 2
  MaxTo = 2
  Statuses = {0, 2, 256}
  MaxCalls = 5
  MaxDisks = 2
INVARIANTS FreedOnce DmaIntoLive NsSound QueuesAnswered RequestsReachNs
PROPERTIES BootEnds
CHECK_DEADLOCK FALSE
