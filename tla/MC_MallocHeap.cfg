\* MallocHeap for TLC.  mmap returns the heap at 4096; the initial heap
\* is 180 bytes instead of 1 MiB, so that its first free block (144
\* bytes) is used up after a few calls and create_block is reached.
\*
\* Requests of 8 and 40 bytes become blocks of 24 and 56: 24 splits the
\* 144-byte block and its 84-byte remainder, and then takes the 24-byte
\* remainder exactly; 56 does not fit the remainders and forces
\* create_block; a freed 56-byte block is reused unsplit by an 8-byte
\* request.  Four blocks are enough for a merge on both sides of a block.
CONSTANTS
  Base = 4096
  InitSize = 180
  Sizes = {8, 40}
  MaxBlocks = 4
  NULL = NULL

SPECIFICATION MhSpec
CONSTRAINT BlocksBounded

INVARIANT MhTypeOK
INVARIANT ListWellFormed
INVARIANT NoAdjacentFreeBlocks
PROPERTY MallocRefined

\* abort() ends the process: no call follows it.
CHECK_DEADLOCK FALSE
