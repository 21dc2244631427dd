\* UserHeap for TLC.  One unit is 8 bytes.  The initial heap of 24 units
\* holds one 20-unit free block (a header is 4 units); a page is 8 units,
\* and brk grants the heap up to 32 units, one expansion.
\*
\* Requests of 1, 2 and 5 units: 1 splits the initial block, 2 fits a
\* split remainder without splitting it further (internal slack), 5 is
\* larger than some remainders and forces expansion.
CONSTANTS
  InitUnits = 24
  Page = 8
  HeapLimit = 32
  Sizes = {1, 2, 5}
  Word = 64
  NIL = NIL

SPECIFICATION Spec
VIEW ChainView

INVARIANT TypeOK
INVARIANT LinksMatchAddressOrder
INVARIANT NoAdjacentFreeBlocks
INVARIANT AllocatedAreHeld
PROPERTY AllocatorRefined
