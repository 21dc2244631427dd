CONSTANTS
  NOrders = 3
  NIL = NIL
SPECIFICATION DfSpec
CONSTRAINT CountBounded
INVARIANT FreeListsDisjoint
