SPECIFICATION AllocatorSpec
CONSTANTS
  First = 2
  Last = 8
  Sizes = {1, 2, 3, 4, 7}
INVARIANTS
  NoCellTwice
PROPERTIES
  ClearRestores
  PoolSpec
