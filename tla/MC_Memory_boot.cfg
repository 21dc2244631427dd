CONSTANTS
  NOrders = 3
  NIL = NIL
  EarlySize = 32
  PageArrayBytes = 96
  HeapStart = 64
  HeapSize = 48
  Sizes = {4}
  Aligns = {32}
  KPage = 32
  Lengths = {1, 33}
SPECIFICATION MemSpec
CONSTRAINT CountBounded
INVARIANT AllocationNeverPanics
CHECK_DEADLOCK FALSE
