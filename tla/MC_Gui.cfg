\* Model of the window manager and the security event ring for TLC.
\* Three window slots are enough to fill the table, free a slot below a
\* live one, and reuse it.  Callers pass back ids create returned, which
\* never exceed the number of slots.
CONSTANTS
  NSlots = 3
  WinIds = {1, 2, 3}
  WinClasses = {0, 2, 4}
  Cap = 2
  Period = 2
  Word = 16
SPECIFICATION Spec
INVARIANT TypeOK
INVARIANT ActiveWindowsCounts
INVARIANT AtMostOneActive
