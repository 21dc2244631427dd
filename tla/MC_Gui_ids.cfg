CONSTANTS
  NSlots = 3
  WinIds = {1, 2, 3}
  WinClasses = {0, 2, 4}
  Cap = 2
  Period = 2
  Word = 16
SPECIFICATION Spec
INVARIANT WindowIdsUnique
