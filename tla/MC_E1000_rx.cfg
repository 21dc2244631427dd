\* Four descriptors per ring (32 in the code): the ring arithmetic is the
\* same modulo any size, and six packets wrap each ring.  An EEPROM
\* timeout of 3 polls (1000 in the code).
CONSTANTS
  NDesc = 4
  MaxPkts = 6
  EepromTimeout = 3
  Lens = {64, 4096}
SPECIFICATION Spec
INVARIANT RxNotWedged
\* The callers may stop transmitting and polling at any time.
CHECK_DEADLOCK FALSE
