CONSTANTS
  MaxObjs = 4
  Quantum = 2
  MaxTicks = 12
  Pids = {}
SPECIFICATION Spec
PROPERTY ReadyEventuallyRuns
CHECK_DEADLOCK FALSE
