CONSTANTS
  Required = {}
  Magics = {906192521}
  PageArrayFits = {TRUE}
  KaslrUnit = 1048576
SPECIFICATION Spec
INVARIANT NoCpuException
CHECK_DEADLOCK FALSE
