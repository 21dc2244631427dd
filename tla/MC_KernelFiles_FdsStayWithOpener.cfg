CONSTANTS
  MaxObjs = 3
  Quantum = 2
  MaxTicks = 6
  Pids = {1, 2, 3}
  NFds = 5
  Procs = {1, 2, 3}
  OpenFlags = {2}
  Counts = {1}
  MaxOff = 1
  MaxGen = 4
  Ino = Ino
  NULL = NULL
SPECIFICATION KSpec
INVARIANT FdsStayWithOpener
CHECK_DEADLOCK FALSE
