----------------------------- MODULE MallocHeap -----------------------------
(***************************************************************************)
(* The second user-space allocator, src/userland/libc/src/malloc.c:       *)
(* malloc, free and realloc over a doubly linked list of checksummed      *)
(* block headers, with canaries around each payload and merging of free   *)
(* neighbours on every free.                                               *)
(*                                                                         *)
(* Addresses are bytes; a header (struct mem_block, packed) is 36 bytes.  *)
(* `hdr` holds the headers on the block list; a header security_wipe     *)
(* zeroes is gone.  calculate_checksum XORs size, free, magic, next, prev *)
(* and the canary: the model stores the tuple of those fields instead,   *)
(* which differs whenever one field differs, as the XOR does.  `canary`  *)
(* is the set of addresses holding heap_canary; payload bytes are not     *)
(* otherwise represented.  abort() ends the process: `aborted` records   *)
(* it and no step follows.                                                 *)
(*                                                                         *)
(* allocate_pages is mmap, which SentinalOS's sys_mmap never fails (its   *)
(* kmalloc panics instead); heap_init therefore always succeeds and       *)
(* create_block's expansion always gets its pages -- somewhere else, not  *)
(* after the heap.  A SentinalOS process has one thread, so heap_lock is  *)
(* never contended.  Callers free and realloc only pointers they hold.    *)
(***************************************************************************)
EXTENDS Integers, Sequences, FiniteSets, TLC

CONSTANTS
  Base,         \* heap_base, the address mmap returns for the heap
  InitSize,     \* the initial heap_size (1 MiB in the code)
  Sizes,        \* sizes callers pass to malloc and realloc
  MaxBlocks,    \* bound on the length of the block list
  NULL

HDR == 36                 \* sizeof(struct mem_block), packed
PAD == 16                 \* the two 8-byte canary slots malloc adds
PAGE == 4096
BLOCK_MAGIC == "DEADBEEF"
FREE_MAGIC == "FEEDFACE"

VARIABLES
  hdr,          \* the headers on the list: address -> mem_block
  heapStart,    \* heap_start
  heapEnd,      \* heap_end
  heapSize,     \* heap_size
  initialized,  \* heap_initialized
  canary,       \* addresses holding heap_canary
  held,         \* (ghost) pointer malloc returned -> size asked for
  aborted       \* abort() was called

vars == <<hdr, heapStart, heapEnd, heapSize, initialized, canary, held, aborted>>

Ptr == Nat \cup {NULL}
Header == [size : Nat, free : {0, 1}, magic : {BLOCK_MAGIC, FREE_MAGIC},
           next : Ptr, prev : Ptr,
           sum : Nat \X {0, 1} \X {BLOCK_MAGIC, FREE_MAGIC} \X Ptr \X Ptr]

\* Mutant: the checksum leaves out prev.
ChecksumNoPrev(h) == <<h.size, h.free, h.magic, h.next>>

\* calculate_checksum(block)
Checksum(h) == <<h.size, h.free, h.magic, h.next, h.prev>>

\* A header with its checksum recomputed.
Sealed(h) == [h EXCEPT !.sum = Checksum(h)]

\* (size + 7) & ~7
Round8(n) == ((n + 7) \div 8) * 8

\* The heap as one record, so that calls can be composed.
St == [hdr |-> hdr, start |-> heapStart, end |-> heapEnd, size |-> heapSize,
       init |-> initialized, canary |-> canary]

SetSt(s) ==
  /\ hdr' = s.hdr /\ heapStart' = s.start /\ heapEnd' = s.end
  /\ heapSize' = s.size /\ initialized' = s.init /\ canary' = s.canary

\* Write header h at address a (a may be new).
Put(s, a, h) == [s EXCEPT !.hdr = (a :> h) @@ s.hdr]

\* validate_block(block)
ValidateBlock(s, b) ==
  LET h == s.hdr[b] IN
  /\ b \in DOMAIN s.hdr          \* a wiped header reads as zeroes
  /\ h.magic \in {BLOCK_MAGIC, FREE_MAGIC}
  /\ h.sum = Checksum(h)
  /\ h.size # 0 /\ h.size <= s.size

\* heap_init: one free block over the whole first mapping.
HeapInit(s) ==
  IF s.init THEN s
  ELSE [s EXCEPT !.hdr = (Base :> Sealed([size |-> InitSize - HDR, free |-> 1,
                            magic |-> BLOCK_MAGIC, next |-> NULL, prev |-> NULL,
                            sum |-> <<>>])),
                 !.start = Base, !.end = Base, !.size = InitSize, !.init = TRUE]

(***************************************************************************)
(* find_free_block(size): walk from heap_start; abort on a block that     *)
(* fails validation; the first free block of at least `size`.  Returns an *)
(* address, NULL, or Aborts (-1, no address).                             *)
(***************************************************************************)
Aborts == -1

RECURSIVE FindFrom(_, _, _, _)
FindFrom(s, cur, n, k) ==
  IF cur = NULL \/ k = 0 THEN NULL
  ELSE IF ~ValidateBlock(s, cur) THEN Aborts
  ELSE IF s.hdr[cur].free = 1 /\ s.hdr[cur].size >= n THEN cur
  ELSE FindFrom(s, s.hdr[cur].next, n, k - 1)

FindFreeBlock(s, n) == FindFrom(s, s.start, n, MaxBlocks)

(***************************************************************************)
(* create_block(size): grow heap_size by whole pages if the new block     *)
(* does not fit (the pages mmap returns are not used); write the block    *)
(* right after heap_end and link it as the new end.                        *)
(***************************************************************************)
CreateBlock(s, n) ==
  LET e == s.hdr[s.end]
      a == s.end + HDR + e.size
      curEnd == Base + s.size
      needEnd == a + HDR + n
      s1 == IF needEnd > curEnd
            THEN [s EXCEPT !.size = @ + ((needEnd - curEnd + PAGE - 1) \div PAGE) * PAGE]
            ELSE s
      s2 == Put(s1, a, Sealed([size |-> n, free |-> 0, magic |-> BLOCK_MAGIC,
                               next |-> NULL, prev |-> s.end, sum |-> <<>>]))
      s3 == Put(s2, s.end, [e EXCEPT !.next = a])
  IN  [s3 EXCEPT !.end = a]

\* The address create_block writes its block at.
NewBlockAddr(s) == s.end + HDR + s.hdr[s.end].size

\* Mutant: a split of the last block does not move heap_end.
SplitBlockNoEnd(s, b, n) ==
  LET h == s.hdr[b]
      a == b + HDR + n
      h1 == Sealed([h EXCEPT !.size = n])
      s1 == Put(Put(s, b, h1), a, Sealed([size |-> h.size - n - HDR, free |-> 1,
                     magic |-> FREE_MAGIC, next |-> h.next, prev |-> b, sum |-> <<>>]))
      s2 == IF h.next # NULL THEN [s1 EXCEPT !.hdr[h.next].prev = a] ELSE s1
  IN  IF h.size <= n + HDR + 16 THEN s
      ELSE Put(s2, b, Sealed([h1 EXCEPT !.next = a]))

(***************************************************************************)
(* split_block(block, size): nothing unless the block exceeds size by     *)
(* more than a header and 16 bytes; else shrink it, write a free block    *)
(* after it, link that in -- setting the old successor's prev without     *)
(* recomputing the successor's checksum -- and reseal the block.           *)
(***************************************************************************)
SplitBlock(s, b, n) ==
  LET h == s.hdr[b]
      a == b + HDR + n
      h1 == Sealed([h EXCEPT !.size = n])
      s1 == Put(Put(s, b, h1), a, Sealed([size |-> h.size - n - HDR, free |-> 1,
                     magic |-> FREE_MAGIC, next |-> h.next, prev |-> b, sum |-> <<>>]))
      s2 == IF h.next # NULL THEN [s1 EXCEPT !.hdr[h.next].prev = a]
            ELSE [s1 EXCEPT !.end = a]
  IN  IF h.size <= n + HDR + 16 THEN s
      ELSE Put(s2, b, Sealed([h1 EXCEPT !.next = a]))

\* Mutant: a free block absorbs its successor whether or not that is free.
RECURSIVE MergeFromAnyNext(_, _, _)
MergeFromAnyNext(s, cur, k) ==
  IF cur = NULL \/ k = 0 THEN [ok |-> TRUE, s |-> s]
  ELSE IF s.hdr[cur].next = NULL THEN [ok |-> TRUE, s |-> s]
  ELSE IF ~ValidateBlock(s, cur) THEN [ok |-> FALSE, s |-> s]
  ELSE
    LET h == s.hdr[cur]
        nx == h.next
        hn == s.hdr[nx]
        merged == Sealed([h EXCEPT !.size = @ + hn.size + HDR, !.next = hn.next])
        s1 == [s EXCEPT
                 !.hdr = [x \in DOMAIN s.hdr \ {nx} |->
                            IF x = cur THEN merged
                            ELSE IF x = hn.next THEN [s.hdr[x] EXCEPT !.prev = cur]
                            ELSE s.hdr[x]],
                 !.end = IF hn.next = NULL THEN cur ELSE @,
                 !.canary = @ \ (nx .. nx + HDR - 1)]
    IN  IF h.free = 1 THEN MergeFromAnyNext(s1, cur, k - 1)
        ELSE MergeFromAnyNext(s, nx, k - 1)

(***************************************************************************)
(* merge_free_blocks: walk from heap_start while the block has a          *)
(* successor; abort on a block that fails validation; absorb a free       *)
(* successor into a free block (its successor's prev set without a new    *)
(* checksum, its header wiped, the block resealed) and stay; else move    *)
(* on.  k bounds the walk: each turn removes a block or moves on.         *)
(***************************************************************************)
RECURSIVE MergeFrom(_, _, _)
MergeFrom(s, cur, k) ==
  IF cur = NULL \/ k = 0 THEN [ok |-> TRUE, s |-> s]
  ELSE IF s.hdr[cur].next = NULL THEN [ok |-> TRUE, s |-> s]
  ELSE IF ~ValidateBlock(s, cur) THEN [ok |-> FALSE, s |-> s]
  ELSE
    LET h == s.hdr[cur]
        nx == h.next
        hn == s.hdr[nx]
        merged == Sealed([h EXCEPT !.size = @ + hn.size + HDR, !.next = hn.next])
        s1 == [s EXCEPT
                 !.hdr = [x \in DOMAIN s.hdr \ {nx} |->
                            IF x = cur THEN merged
                            ELSE IF x = hn.next THEN [s.hdr[x] EXCEPT !.prev = cur]
                            ELSE s.hdr[x]],
                 !.end = IF hn.next = NULL THEN cur ELSE @,
                 !.canary = @ \ (nx .. nx + HDR - 1)]
    IN  IF h.free = 1 /\ hn.free = 1 THEN MergeFrom(s1, cur, k - 1)
        ELSE MergeFrom(s, nx, k - 1)

MergeFreeBlocks(s) == MergeFrom(s, s.start, 2 * Cardinality(DOMAIN s.hdr) + 1)

(***************************************************************************)
(* malloc(size), size > 0: heap_init if needed; round to 8 and add 16;    *)
(* find a free block or create one; mark it allocated; split it; reseal   *)
(* it; write heap_canary at the start of the data area and 4 bytes before *)
(* its end; return the data area + 8.                                      *)
(***************************************************************************)
MallocSt(s, n) ==
  LET s0 == HeapInit(s)
      size == Round8(n) + PAD
      f == FindFreeBlock(s0, size)
      b == IF f = NULL THEN NewBlockAddr(s0) ELSE f
      s1 == IF f = NULL THEN CreateBlock(s0, size) ELSE s0
      s2 == [s1 EXCEPT !.hdr[b].free = 0, !.hdr[b].magic = BLOCK_MAGIC]
      s3 == SplitBlock(s2, b, size)
      s4 == [s3 EXCEPT !.hdr[b] = Sealed(@),
                       !.canary = @ \cup {b + HDR, b + HDR + size - 4}]
  IN  IF f = Aborts THEN [ok |-> FALSE, s |-> s, ptr |-> NULL]
      ELSE [ok |-> TRUE, s |-> s4, ptr |-> b + HDR + 8]

\* Mutant: free does not merge.
FreeStNoMerge(s, p) ==
  LET d == p - 8
      b == d - HDR
      h == s.hdr[b]
      s1 == [s EXCEPT !.canary = @ \ (d .. d + h.size - 1),
                      !.hdr[b] = Sealed([h EXCEPT !.free = 1, !.magic = FREE_MAGIC])]
  IN  IF ~ValidateBlock(s, b) THEN [ok |-> FALSE, s |-> s]
      ELSE IF d \notin s.canary \/ d + h.size - 4 \notin s.canary
      THEN [ok |-> FALSE, s |-> s]
      ELSE [ok |-> TRUE, s |-> s1]

(***************************************************************************)
(* free(ptr): the header sits 8 + 36 bytes before ptr; abort if it fails  *)
(* validation, or if either canary -- at the data area's start and 4      *)
(* bytes before the end of the block's whole size -- is not heap_canary;  *)
(* wipe the block's data; mark it free; merge.                             *)
(***************************************************************************)
FreeSt(s, p) ==
  LET d == p - 8
      b == d - HDR
      h == s.hdr[b]
      s1 == [s EXCEPT !.canary = @ \ (d .. d + h.size - 1),
                      !.hdr[b] = Sealed([h EXCEPT !.free = 1, !.magic = FREE_MAGIC])]
  IN  IF ~ValidateBlock(s, b) THEN [ok |-> FALSE, s |-> s]
      ELSE IF d \notin s.canary \/ d + h.size - 4 \notin s.canary
      THEN [ok |-> FALSE, s |-> s]
      ELSE MergeFreeBlocks(s1)

MhTypeOK ==
  /\ hdr \in [DOMAIN hdr -> Header] /\ DOMAIN hdr \subseteq Nat
  /\ heapStart \in Ptr /\ heapEnd \in Ptr /\ heapSize \in Nat
  /\ initialized \in BOOLEAN /\ aborted \in BOOLEAN
  /\ canary \subseteq Nat
  /\ held \in [DOMAIN held -> Sizes] /\ DOMAIN held \subseteq Nat

\* The static state before the first call: zeroed .bss.
MhInit ==
  /\ hdr = <<>> /\ heapStart = NULL /\ heapEnd = NULL /\ heapSize = 0
  /\ initialized = FALSE /\ canary = {} /\ held = <<>> /\ aborted = FALSE

\* abort(): the process ends; the heap it leaves behind is never used.
Abort == aborted' = TRUE /\ UNCHANGED <<hdr, heapStart, heapEnd, heapSize, initialized, canary, held>>

Forget(f, p) == [x \in DOMAIN f \ {p} |-> f[x]]

Malloc(n) ==
  /\ ~aborted
  /\ LET r == MallocSt(St, n) IN
     IF r.ok THEN SetSt(r.s) /\ held' = (r.ptr :> n) @@ held /\ UNCHANGED aborted
     ELSE Abort

Free(p) ==
  /\ ~aborted /\ p \in DOMAIN held
  /\ LET r == FreeSt(St, p) IN
     IF r.ok THEN SetSt(r.s) /\ held' = Forget(held, p) /\ UNCHANGED aborted
     ELSE Abort

(***************************************************************************)
(* realloc(ptr, size), ptr held and size > 0: abort if the header fails   *)
(* validation; return ptr unchanged (no step) if size fits the block's    *)
(* size less 16; else malloc(size), copy, free(ptr).                       *)
(***************************************************************************)
Realloc(p, n) ==
  /\ ~aborted /\ p \in DOMAIN held
  /\ LET b == p - 8 - HDR IN
     IF ~ValidateBlock(St, b) THEN Abort
     ELSE /\ n > hdr[b].size - PAD
          /\ LET m == MallocSt(St, n)
                 f == FreeSt(m.s, p)
             IN  IF m.ok /\ f.ok
                 THEN /\ SetSt(f.s) /\ UNCHANGED aborted
                      /\ held' = (m.ptr :> n) @@ Forget(held, p)
                 ELSE Abort

MhNext ==
  \/ \E n \in Sizes : Malloc(n)
  \/ \E p \in DOMAIN held : Free(p)
  \/ \E p \in DOMAIN held, n \in Sizes : Realloc(p, n)

MhSpec == MhInit /\ [][MhNext]_vars

-----------------------------------------------------------------------------
(***************************************************************************)
(* Properties.                                                             *)
(***************************************************************************)

\* The block list, followed by next from heap_start, with the address of
\* each block.
RECURSIVE ListFrom(_, _)
ListFrom(cur, k) ==
  IF cur = NULL \/ k = 0 \/ cur \notin DOMAIN hdr THEN <<>>
  ELSE <<cur>> \o ListFrom(hdr[cur].next, k - 1)

List == ListFrom(heapStart, Cardinality(DOMAIN hdr) + 1)

\* However malloc, split_block, create_block and merge_free_blocks have
\* relinked it, the list from heap_start holds every header exactly once,
\* each block starts where its predecessor's data ends, every prev points
\* back, and heap_end is the last block.
ListWellFormed ==
  initialized =>
    /\ Len(List) = Cardinality(DOMAIN hdr)
    /\ List[1] = Base /\ hdr[Base].prev = NULL
    /\ List[Len(List)] = heapEnd /\ hdr[heapEnd].next = NULL
    /\ \A i \in 1 .. Len(List) - 1 :
         /\ List[i + 1] = List[i] + HDR + hdr[List[i]].size
         /\ hdr[List[i + 1]].prev = List[i]

\* When no call has aborted, merge_free_blocks has left no two neighbouring
\* blocks both free, after every free and realloc and every split.
NoAdjacentFreeBlocks ==
  ~aborted =>
    \A b \in DOMAIN hdr :
      hdr[b].next # NULL => ~(hdr[b].free = 1 /\ hdr[hdr[b].next].free = 1)

\* Every pointer malloc and realloc return has room for what was asked,
\* overlaps no other live pointer's area, and stays valid until it is
\* freed or reallocated: malloc.c implements the abstract allocator.
UserArea(p) == [lo |-> p, len |-> Round8(held[p]), req |-> held[p]]

MA == INSTANCE Allocator WITH
        Addr <- 0 .. Base + InitSize + MaxBlocks * PAGE,
        live <- {UserArea(p) : p \in DOMAIN held}

MallocRefined == MA!Spec

\* free's and find_free_block's abort() is for heap corruption and double
\* free (malloc.c's comments): a process that frees and reallocates only
\* what malloc gave it, writing nothing out of bounds, never reaches it.
NeverAborts == ~aborted

\* Every header on the list passes validate_block's checksum test: each
\* step that changes a header's fields recomputes its checksum, including
\* the prev that split_block and merge_free_blocks set on a neighbour and
\* the next create_block sets on the old heap_end.
ChecksumsCurrent == \A b \in DOMAIN hdr : hdr[b].sum = Checksum(hdr[b])

\* Every block lies in the memory heap_init mapped: create_block writes a
\* new block after heap_end even when the pages it just obtained are
\* elsewhere.
BlocksWithinMapping == \A b \in DOMAIN hdr : b + HDR + hdr[b].size <= Base + InitSize


\* The block list holds at most MaxBlocks blocks.
BlocksBounded == Cardinality(DOMAIN hdr) <= MaxBlocks

====
