CONSTANTS
  InitUnits = 24
  Page = 8
  HeapLimit = 32
  Sizes = {1, 2, 5}
  Word = 64
  NIL = NIL

SPECIFICATION Spec
VIEW ChainView

INVARIANT AllocatedMatchesRequests
