CONSTANTS
  Required = {"smep", "smap", "rdrand", "rdseed"}
  Magics = {906192521, 0}
  PageArrayFits = {TRUE, FALSE}
  KaslrUnit = 1048576
SPECIFICATION Spec
INVARIANT NoCpuException
INVARIANT SmeEnabledMatchesMsr
INVARIANT KaslrOffsetInWindow
CHECK_DEADLOCK FALSE
