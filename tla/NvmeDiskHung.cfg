\* A request whose command fails.
SPECIFICATION Spec
CONSTANTS
  PageSize = 4
  Align = 2
  BlockSize = 2
  MaxReq = 7
  MaxPrpl = 2
  CountMod = 16
  DmaBuffer = 16
  DiskBlock = 2
  MemSize = 16
  DiskSize = 16
  MaxRequests = 1
  Requests <- FewRequests
PROPERTY RequestCompleted
CHECK_DEADLOCK FALSE
