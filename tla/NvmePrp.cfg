\* Eight blocks to a page, as with 512-byte blocks; lists of three entries.
SPECIFICATION PrpSpec
CONSTANTS
  PageSize = 16
  Align = 1
  BlockSize = 2
  MaxReq = 36
  MaxPrpl = 3
  CountMod = 40
  DmaBuffer = 160
  MaxBase = 33
INVARIANTS DescribesBuffer ListSuffices
CHECK_DEADLOCK FALSE
