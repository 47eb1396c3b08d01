\* Every shape of request, two in a row, with errors and timeouts.
SPECIFICATION Spec
CONSTANTS
  PageSize = 4
  Align = 2
  BlockSize = 2
  MaxReq = 7
  MaxPrpl = 2
  CountMod = 16
  DmaBuffer = 16
  DiskBlock = 2
  MemSize = 16
  DiskSize = 16
  MaxRequests = 2
  Requests <- MCRequests
INVARIANTS CopiedWhileAnswered NoStray
PROPERTIES OnlyTheRequest LoopEnds
CHECK_DEADLOCK FALSE
