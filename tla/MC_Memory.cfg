\* Bounds for Memory.  The buddy zone has three free lists over a
\* 4-page zone, with free_pages_count cut at two zones (CountBounded).
\* The kernel heap is scaled from bytes by 2^-15: a 32-byte early heap, a
\* 48-byte window at 64, a 32-byte page.  The code's page array (131072
\* pages * 24 bytes = 3 MiB) is three times its early heap (1 MiB):
\* MCPageArrayCode keeps that ratio.  MC_Memory.cfg takes a page array
\* that fits (a machine of at most 170 MiB), so that the kernel heap is
\* reached at all.  Requests of 4 bytes reach the 8-byte rounding; page
\* alignment reaches the padding; six requests exhaust the window.  mmap
\* of one page fits an early window; of two pages, it never does.
CONSTANTS
  NOrders = 3
  NIL = NIL
  EarlySize = 32
  PageArrayBytes = 24
  HeapStart = 64
  HeapSize = 48
  Sizes = {4}
  Aligns = {32}
  KPage = 32
  Lengths = {1, 33}
SPECIFICATION MemSpec
CONSTRAINT CountBounded
INVARIANT MemTypeOK
INVARIANT FreeBlocksAligned
INVARIANT FreeListsDisjoint
INVARIANT PagesPartitioned
INVARIANT GrantsAligned
PROPERTY KernelHeapRefined
CHECK_DEADLOCK FALSE
