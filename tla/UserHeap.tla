------------------------------ MODULE UserHeap ------------------------------
(***************************************************************************)
(* The user-space heap of src/userland/libc/src/stdlib.c: malloc, calloc, *)
(* realloc and free over a first-fit list of blocks, each a heap_block    *)
(* header followed by its payload, with split_block, coalesce_blocks,     *)
(* init_heap, expand_heap, find_free_block and validate_block.            *)
(*                                                                         *)
(* Addresses are offsets from heap_start in units of 8 bytes, the         *)
(* alignment malloc rounds every size to; a header (32 packed bytes) is   *)
(* HDR units.  Memory is a function from addresses to the header that a  *)
(* block write left there (Z where none was written or memset cleared    *)
(* it); a header left inside a payload by coalescing stays there, stale,  *)
(* as in C.  Payload bytes other than headers are not represented.        *)
(*                                                                         *)
(* The kernel's sys_brk returns the requested break whenever the calling  *)
(* process is known; the model lets it fail only beyond HeapLimit, the    *)
(* bound on the break.  Callers are correct: they free and realloc only   *)
(* pointers malloc returned and they still hold.                          *)
(***************************************************************************)
EXTENDS Integers, Sequences, FiniteSetsExt, TLC

CONSTANTS
  InitUnits,    \* initial_size, 1 MiB in the code
  Page,         \* the page size expand_heap rounds up to (4096 bytes)
  HeapLimit,    \* the largest break brk grants in the model
  Sizes,        \* aligned request sizes callers pass
  Word,         \* 2^64, the modulus of size_t arithmetic
  NIL           \* the NULL block pointer

HDR == 4            \* sizeof(struct heap_block) = 32 bytes
MIN_BLOCK == 4      \* MIN_BLOCK_SIZE = 32 bytes
Addr == 0 .. HeapLimit - 1

Hdr == [size : 0 .. HeapLimit, magic : BOOLEAN, alloc : BOOLEAN,
        nx : Addr \cup {NIL}, pv : Addr \cup {NIL}]

\* A header-sized piece of memory holding zeroes.
Z == [size |-> 0, magic |-> FALSE, alloc |-> FALSE, nx |-> NIL, pv |-> NIL]

VARIABLES
  mem,          \* the header found at each address
  heapEnd,      \* heap_state.heap_end
  allocated,    \* heap_state.allocated
  initialized,  \* heap_state.initialized
  held          \* (ghost) block -> size asked for, for every pointer the
                \* callers hold

vars == <<mem, heapEnd, allocated, initialized, held>>

TypeOK ==
  /\ mem \in [Addr -> Hdr]
  /\ heapEnd \in 0 .. HeapLimit
  /\ allocated \in 0 .. Word - 1
  /\ initialized \in BOOLEAN
  /\ DOMAIN held \subseteq Addr /\ \A b \in DOMAIN held : held[b] \in Sizes

\* The heap as a record, so that the C helpers compose as functions.
S == [mem |-> mem, end |-> heapEnd, alc |-> allocated, init |-> initialized]

SetS(s) ==
  /\ mem' = s.mem /\ heapEnd' = s.end
  /\ allocated' = s.alc /\ initialized' = s.init

\* validate_block: non-NULL, magic intact, inside [heap_start, heap_end).
ValidateBlock(s, b) == b # NIL /\ b < s.end /\ s.mem[b].magic

\* init_heap: the break goes to InitUnits and one free block spans it.
InitHeap(s) ==
  [s EXCEPT !.init = TRUE, !.end = InitUnits, !.alc = 0,
            !.mem = [@ EXCEPT ![0] = [size |-> InitUnits - HDR, magic |-> TRUE,
                                       alloc |-> FALSE, nx |-> NIL, pv |-> NIL]]]

\* expand_heap(needed): brk to heap_end + needed rounded up to a page;
\* heap_end moves, no block is written.  FALSE when brk fails.
ExpandSize(needed) == ((needed + Page - 1) \div Page) * Page
CanExpand(s, needed) == s.end + ExpandSize(needed) <= HeapLimit
ExpandHeap(s, needed) == [s EXCEPT !.end = @ + ExpandSize(needed)]

\* Mutant: the walk forgets to skip allocated blocks.
RECURSIVE FindFromAnyFlag(_, _, _)
FindFromAnyFlag(s, cur, n) ==
  IF cur >= s.end \/ ~ValidateBlock(s, cur) THEN NIL
  ELSE IF s.mem[cur].size >= n THEN cur
  ELSE FindFromAnyFlag(s, cur + HDR + s.mem[cur].size, n)

\* find_free_block: walk from heap_start by header sizes, stopping at
\* heap_end or at the first header that fails validation.
RECURSIVE FindFrom(_, _, _)
FindFrom(s, cur, n) ==
  IF cur >= s.end \/ ~ValidateBlock(s, cur) THEN NIL
  ELSE IF ~s.mem[cur].alloc /\ s.mem[cur].size >= n THEN cur
  ELSE FindFrom(s, cur + HDR + s.mem[cur].size, n)

FindFreeBlock(s, n) == FindFrom(s, 0, n)

\* Mutant: the size test forgets the new header and MIN_BLOCK_SIZE.
SplitBlockNoRoom(s, b, n) ==
  LET h == s.mem[b]
      nb == b + HDR + n
      m1 == [s.mem EXCEPT ![nb] = [size |-> h.size - n - HDR, magic |-> TRUE,
                                    alloc |-> FALSE, nx |-> h.nx, pv |-> b]]
      m2 == IF h.nx # NIL THEN [m1 EXCEPT ![h.nx].pv = nb] ELSE m1
  IN  IF h.size < n THEN s
      ELSE [s EXCEPT !.mem = [m2 EXCEPT ![b].nx = nb, ![b].size = n]]

\* Mutant: the successor's prev is not pointed at the new block.
SplitBlockNoBackLink(s, b, n) ==
  LET h == s.mem[b]
      nb == b + HDR + n
      m1 == [s.mem EXCEPT ![nb] = [size |-> h.size - n - HDR, magic |-> TRUE,
                                    alloc |-> FALSE, nx |-> h.nx, pv |-> b]]
  IN  IF h.size < n + HDR + MIN_BLOCK THEN s
      ELSE [s EXCEPT !.mem = [m1 EXCEPT ![b].nx = nb, ![b].size = n]]

\* split_block: when the remainder can hold a header and MIN_BLOCK_SIZE,
\* write a free block after the first n units and link it in after b.
SplitBlock(s, b, n) ==
  LET h == s.mem[b]
      nb == b + HDR + n
      m1 == [s.mem EXCEPT ![nb] = [size |-> h.size - n - HDR, magic |-> TRUE,
                                    alloc |-> FALSE, nx |-> h.nx, pv |-> b]]
      m2 == IF h.nx # NIL THEN [m1 EXCEPT ![h.nx].pv = nb] ELSE m1
  IN  IF h.size < n + HDR + MIN_BLOCK THEN s
      ELSE [s EXCEPT !.mem = [m2 EXCEPT ![b].nx = nb, ![b].size = n]]

\* The tail of malloc once a block is found: split, mark, count.
TakeBlock(s, b, n) ==
  LET t == SplitBlock(s, b, n) IN
  [t EXCEPT !.mem[b].alloc = TRUE, !.alc = (@ + n) % Word]

(***************************************************************************)
(* malloc(n) for n > 0 already aligned: init_heap on first use, first fit, *)
(* else expand_heap and search once more.  The result is the new heap     *)
(* and the block handed out, NIL for ENOMEM.  Init and expansion persist  *)
(* when the call then fails.                                               *)
(***************************************************************************)
MallocOp(s0, n) ==
  LET s == IF s0.init THEN s0 ELSE InitHeap(s0)
      b == FindFreeBlock(s, n)
      e == ExpandHeap(s, n + HDR)
      b2 == FindFreeBlock(e, n)
  IN  IF b # NIL THEN [s |-> TakeBlock(s, b, n), p |-> b]
      ELSE IF ~CanExpand(s, n + HDR) THEN [s |-> s, p |-> NIL]
      ELSE IF b2 = NIL THEN [s |-> e, p |-> NIL]
      ELSE [s |-> TakeBlock(e, b2, n), p |-> b2]

(***************************************************************************)
(* coalesce_blocks(b): absorb the block at b's end if it validates and is  *)
(* free, relinking its successor; then, if b's prev is free, absorb b into *)
(* prev.  Absorbed headers stay in memory.                                 *)
(***************************************************************************)
\* The first half: absorb the following block.  Alone, it is also the
\* mutant of coalesce_blocks that never merges backwards.
CoalesceNext(s, b) ==
  LET h == s.mem[b]
      nb == b + HDR + h.size
      q == s.mem[nb].nx
      a == [s.mem EXCEPT ![b].size = @ + HDR + s.mem[nb].size, ![b].nx = q]
  IN  IF nb < s.end /\ ValidateBlock(s, nb) /\ ~s.mem[nb].alloc
      THEN [s EXCEPT !.mem = IF q # NIL THEN [a EXCEPT ![q].pv = b] ELSE a]
      ELSE s

CoalesceBlocks(s, b) ==
  LET t == CoalesceNext(s, b)
      m == t.mem
      p == m[b].pv
      q == m[b].nx
      a == [m EXCEPT ![p].size = @ + HDR + m[b].size, ![p].nx = q]
  IN  IF p # NIL /\ ~m[p].alloc
      THEN [t EXCEPT !.mem = IF q # NIL THEN [a EXCEPT ![q].pv = p] ELSE a]
      ELSE t

\* Mutant: free leaves the allocated flag set.
FreeOpKeepFlag(s, b) ==
  LET sz == s.mem[b].size
      z == [a \in Addr |-> IF b + HDR <= a /\ a < b + HDR + sz THEN Z ELSE s.mem[a]]
  IN  CoalesceBlocks([s EXCEPT !.mem = z, !.alc = (@ - sz) % Word], b)

\* free(b): memset the payload to zero, clear the allocated flag, subtract
\* the block's size from heap_state.allocated, coalesce.
FreeOp(s, b) ==
  LET sz == s.mem[b].size
      z == [a \in Addr |-> IF b + HDR <= a /\ a < b + HDR + sz THEN Z ELSE s.mem[a]]
  IN  CoalesceBlocks([s EXCEPT !.mem = [z EXCEPT ![b].alloc = FALSE],
                               !.alc = (@ - sz) % Word], b)

-----------------------------------------------------------------------------
Init ==
  /\ mem = [a \in Addr |-> Z]
  /\ heapEnd = 0
  /\ allocated = 0
  /\ initialized = FALSE
  /\ held = <<>>

\* malloc(n).
Malloc(n) ==
  LET r == MallocOp(S, n) IN
  /\ SetS(r.s)
  /\ held' = IF r.p = NIL THEN held ELSE (r.p :> n) @@ held

\* calloc(1, n): malloc, then memset the n units returned to zero.
Calloc(n) ==
  LET r == MallocOp(S, n)
      lo == r.p + HDR
  IN  /\ SetS(IF r.p = NIL THEN r.s
               ELSE [r.s EXCEPT !.mem = [a \in Addr |-> IF lo <= a /\ a < lo + n
                                                        THEN Z ELSE @[a]]])
      /\ held' = IF r.p = NIL THEN held ELSE (r.p :> n) @@ held

\* free(ptr) of a pointer the caller holds; validate_block passes.
Free(b) ==
  /\ b \in DOMAIN held
  /\ ValidateBlock(S, b) /\ mem[b].alloc
  /\ SetS(FreeOp(S, b))
  /\ held' = [x \in DOMAIN held \ {b} |-> held[x]]

\* realloc(ptr, n) growing a block: malloc(n), and on success free(ptr);
\* a block already large enough is returned unchanged.
Realloc(b, n) ==
  /\ b \in DOMAIN held
  /\ ValidateBlock(S, b) /\ mem[b].alloc
  /\ mem[b].size < n
  /\ LET r == MallocOp(S, n) IN
     IF r.p = NIL
     THEN SetS(r.s) /\ UNCHANGED held
     ELSE /\ SetS(FreeOp(r.s, b))
          /\ held' = (r.p :> n) @@ [x \in DOMAIN held \ {b} |-> held[x]]

Next ==
  \/ \E n \in Sizes : Malloc(n)
  \/ \E n \in Sizes : Calloc(n)
  \/ \E b \in DOMAIN held : Free(b)
  \/ \E b \in DOMAIN held, n \in Sizes : Realloc(b, n)

Spec == Init /\ [][Next]_vars

-----------------------------------------------------------------------------
(***************************************************************************)
(* Properties.                                                             *)
(***************************************************************************)

\* The blocks find_free_block visits, in address order.
RECURSIVE ChainFrom(_)
ChainFrom(a) ==
  IF a >= heapEnd \/ ~ValidateBlock(S, a) THEN <<>>
  ELSE <<a>> \o ChainFrom(a + HDR + mem[a].size)

Chain == IF initialized THEN ChainFrom(0) ELSE <<>>

\* split_block and coalesce_blocks keep the next/prev links that
\* coalesce_blocks follows backwards equal to the address order that
\* find_free_block and the forward merge follow: each block's prev is the
\* block before it and its next the block after it.
LinksMatchAddressOrder ==
  LET c == Chain IN
  \A i \in 1 .. Len(c) :
    /\ mem[c[i]].pv = IF i = 1 THEN NIL ELSE c[i - 1]
    /\ mem[c[i]].nx = IF i = Len(c) THEN NIL ELSE c[i + 1]

\* free coalesces in both directions, so no two neighbouring blocks are
\* both free, whatever order of malloc, realloc and free came before.
NoAdjacentFreeBlocks ==
  LET c == Chain IN
  \A i \in 1 .. Len(c) - 1 : mem[c[i]].alloc \/ mem[c[i + 1]].alloc

\* The allocated blocks on the heap are exactly the pointers the callers
\* hold: nothing handed out is lost from the walk, and nothing freed is
\* still marked allocated.
AllocatedAreHeld ==
  LET c == Chain IN
  {c[i] : i \in {j \in 1 .. Len(c) : mem[c[j]].alloc}} = DOMAIN held

A == INSTANCE Allocator WITH
       live <- {[lo |-> b + HDR, len |-> mem[b].size, req |-> held[b]] : b \in DOMAIN held}

\* malloc, calloc and realloc hand out payloads at least as large as asked
\* and disjoint from every payload still held, and free releases one:
\* the heap implements the abstract allocator.
AllocatorRefined == A!Spec

\* The blocks tile the heap: the walk by header sizes from heap_start ends
\* exactly at heap_end, so find_free_block can see all of it (the comment
\* "Try to expand heap" before the second search).
BlocksTileHeap ==
  initialized =>
    LET c == Chain IN Len(c) > 0 /\ c[Len(c)] + HDR + mem[c[Len(c)]].size = heapEnd

\* heap_state.allocated, which malloc raises by the aligned request, is
\* the sum of the requests of the blocks still allocated.
AllocatedMatchesRequests ==
  allocated = MapThenSumSet(LAMBDA b : held[b], DOMAIN held) % Word


\* Headers off the block chain -- absorbed by coalescing and left in a
\* payload -- are never read again: find_free_block and the forward merge
\* read only chain blocks (or the zeroed memory past the last block), the
\* backward merge follows prev, and free and realloc validate only held
\* pointers.  States that differ only there are therefore identified.
ChainView ==
  LET c == Chain IN
  <<[a \in Addr |-> IF \E i \in 1 .. Len(c) : c[i] = a THEN mem[a] ELSE Z],
    heapEnd, allocated, initialized, held>>

====
