CONSTANTS
  NOrders = 3
  NIL = NIL
SPECIFICATION Spec
CONSTRAINT CountBounded
INVARIANT FreeCountMatchesLists
