\* Bounds for KernelFiles: three process objects (init and two created),
\* five descriptors (0-2 reserved, two for sys_open, so the table fills),
\* one open flag value and reads and writes of one byte.
CONSTANTS
  MaxObjs = 3
  Quantum = 2
  MaxTicks = 6
  Pids = {1, 2, 3}
  NFds = 5
  Procs = {1, 2, 3}
  OpenFlags = {2}
  Counts = {1}
  MaxOff = 1
  MaxGen = 4
  Ino = Ino
  NULL = NULL
SPECIFICATION KSpec
INVARIANT KTypeOK
INVARIANT RunningIsCurrent
CHECK_DEADLOCK FALSE
