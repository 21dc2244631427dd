CONSTANTS
  MaxObjs = 4
  Quantum = 2
  MaxTicks = 12
  Pids = {1, 2, 3}
SPECIFICATION Spec
PROPERTY KilledStaysDead
CHECK_DEADLOCK FALSE
