CONSTANTS
  Required = {"smep", "smap", "rdrand", "rdseed", "amd", "sme"}
  Magics = {906192521}
  PageArrayFits = {TRUE}
  KaslrUnit = 1048576
SPECIFICATION Spec
INVARIANT SmeLockedMatchesMsr
CHECK_DEADLOCK FALSE
