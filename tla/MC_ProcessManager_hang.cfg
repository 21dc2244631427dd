CONSTANTS
  MaxObjs = 4
  Quantum = 2
  MaxTicks = 12
  Pids = {1, 2, 3}
SPECIFICATION Spec
INVARIANT NoHang
CHECK_DEADLOCK FALSE
