CONSTANTS
  NSlots = 4
  MaxPid = 4
  Levels = {1, 4}
  StatMod = 65536
  Victims = {0, 1, 2, 3, 4}
  NIL = NIL
SPECIFICATION Spec
INVARIANT TypeOK
INVARIANT ReadyQueueWellFormed
INVARIANT RunningIsCurrent
INVARIANT PidsUnique
PROPERTY LifecycleRefined
