CONSTANTS
  Base = 4096
  InitSize = 180
  Sizes = {8, 40}
  MaxBlocks = 4
  NULL = NULL

SPECIFICATION MhSpec
CONSTRAINT BlocksBounded


\* abort() ends the process: no call follows it.
CHECK_DEADLOCK FALSE
INVARIANT NeverAborts
