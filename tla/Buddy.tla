------------------------------- MODULE Buddy -------------------------------
(***************************************************************************)
(* The buddy page allocator of src/kernel/mm/memory.c:                     *)
(* buddy_alloc_pages() and buddy_free_pages() over one zone's free lists,  *)
(* together with the page descriptors (ref_count, order, next) they read  *)
(* and write.                                                              *)
(*                                                                         *)
(* Free lists are kept as the code keeps them: a head per order and a     *)
(* `next` pointer per page descriptor, pushed and popped at the head.     *)
(* The zone is scaled down from 2^11 pages to 2^(NOrders-1) pages, and    *)
(* the code's twelve lists and coalescing bound 11 to NOrders lists and   *)
(* bound NOrders-1, so that the largest block is the whole zone as in the *)
(* code.  buddy_free_pages always works on ZONE_NORMAL; the model has     *)
(* that one zone.  In Spec callers are correct: they free exactly the    *)
(* blocks they were given, with the order they asked for; DfSpec adds a  *)
(* caller that frees a block twice.                                       *)
(***************************************************************************)
EXTENDS Integers, Sequences, FiniteSets
LOCAL INSTANCE Bitwise

CONSTANTS
  NOrders,   \* number of free lists (12 in the code)
  NIL        \* the NULL page pointer

ASSUME NOrders \in Nat /\ NOrders >= 2

Top   == NOrders - 1          \* the largest order; coalescing stops here
Order == 0 .. Top
Page  == 0 .. 2^Top - 1       \* page frame numbers of the zone

VARIABLES
  refc,     \* page_array[pfn].ref_count
  ord,      \* page_array[pfn].order
  nxt,      \* page_array[pfn].next
  heads,    \* zone->free_pages[order]
  count,    \* zone->free_pages_count
  held      \* blocks <<pfn, order>> handed out and not yet freed

vars == <<refc, ord, nxt, heads, count, held>>

Ptr == Page \cup {NIL}

TypeOK ==
  /\ refc \in [Page -> {0, 1}]
  /\ ord \in [Page -> Order]
  /\ nxt \in [Page -> Ptr]
  /\ heads \in [Order -> Ptr]
  /\ count \in Nat
  /\ held \subseteq Page \X Order

RECURSIVE WalkFrom(_, _, _)
WalkFrom(x, n, k) == IF x = NIL \/ k = 0 THEN <<>> ELSE <<x>> \o WalkFrom(n[x], n, k - 1)

\* The pages on free list o, cut off after 2^Top + 1 steps.
FreeList(o) == WalkFrom(heads[o], nxt, 2^Top + 1)

(***************************************************************************)
(* mm_init zeroes every descriptor; the zone then holds one free block of *)
(* the largest order at pfn 0 -- the state buddy_free_pages(page 0, Top)  *)
(* leaves (the code itself never seeds the lists; see README).             *)
(***************************************************************************)
Init ==
  /\ refc = [p \in Page |-> 0]
  /\ ord = [p \in Page |-> IF p = 0 THEN Top ELSE 0]
  /\ nxt = [p \in Page |-> NIL]
  /\ heads = [o \in Order |-> IF o = Top THEN 0 ELSE NIL]
  /\ count = 2^Top
  /\ held = {}

(***************************************************************************)
(* buddy_alloc_pages(zone, order): take the first non-empty list from     *)
(* `order` up, pop its head, and split down to `order`, pushing the upper *)
(* half at each step (its descriptor's order is not written).  The head   *)
(* gets order and ref_count 1; free_pages_count drops by 2^order.  When   *)
(* every list from `order` up is empty the call returns NULL.              *)
(***************************************************************************)
\* Mutant: the split pushes the half above the block instead of its upper half.
RECURSIVE SplitPastBlock(_, _, _, _, _)
SplitPastBlock(page, co, o, hs, ns) ==
  IF co = o THEN [h |-> hs, n |-> ns]
  ELSE LET b == page + 2^co
       IN  SplitPastBlock(page, co - 1, o, [hs EXCEPT ![co - 1] = b],
                          [ns EXCEPT ![b] = hs[co - 1]])

\* Mutant: the split forgets to push the upper half.
RECURSIVE SplitNoPush(_, _, _, _, _)
SplitNoPush(page, co, o, hs, ns) ==
  IF co = o THEN [h |-> hs, n |-> ns] ELSE SplitNoPush(page, co - 1, o, hs, ns)

RECURSIVE Split(_, _, _, _, _)
Split(page, co, o, hs, ns) ==
  IF co = o THEN [h |-> hs, n |-> ns]
  ELSE LET b == page + 2^(co - 1)
       IN  Split(page, co - 1, o, [hs EXCEPT ![co - 1] = b],
                 [ns EXCEPT ![b] = hs[co - 1]])

AllocPages(o) ==
  /\ \E k \in o .. Top : heads[k] # NIL
  /\ LET co == CHOOSE k \in o .. Top :
                 heads[k] # NIL /\ \A j \in o .. k - 1 : heads[j] = NIL
         page == heads[co]
         r == Split(page, co, o, [heads EXCEPT ![co] = nxt[page]], nxt)
     IN  /\ heads' = r.h
         /\ nxt' = r.n
         /\ ord' = [ord EXCEPT ![page] = o]
         /\ refc' = [refc EXCEPT ![page] = 1]
         /\ count' = count - 2^o
         /\ held' = held \cup {<<page, o>>}

(***************************************************************************)
(* buddy_free_pages(page, order): while order < Top, look at the buddy   *)
(* pfn ^ 2^order; stop unless its ref_count is 0 and its order field      *)
(* equals order; otherwise unlink it from free list `order` if it is on   *)
(* it (found by walking the list), keep the lower pfn and go up one       *)
(* order.  The resulting block is pushed with its order and ref_count 0,  *)
(* and free_pages_count grows by 2^(final order).                          *)
(***************************************************************************)
\* Mutant: the buddy is merged but left on its free list.
RemoveFromListNoUnlink(hs, ns, o, b) == [h |-> hs, n |-> ns]

\* Unlink page b from free list o, as the pointer-to-pointer walk does.
RemoveFromList(hs, ns, o, b) ==
  LET L == WalkFrom(hs[o], ns, 2^Top + 1)
      at == {k \in 1 .. Len(L) : L[k] = b}
  IN  IF at = {} THEN [h |-> hs, n |-> ns]
      ELSE LET k == CHOOSE k \in at : \A j \in at : k <= j
           IN  IF k = 1 THEN [h |-> [hs EXCEPT ![o] = ns[b]], n |-> ns]
               ELSE [h |-> hs, n |-> [ns EXCEPT ![L[k - 1]] = ns[b]]]

\* Mutant: the merged block keeps the higher pfn as its head.
RECURSIVE CoalesceKeepHigher(_, _, _, _)
CoalesceKeepHigher(pfn, o, hs, ns) ==
  LET b == pfn ^^ (2^o) IN
  IF o >= Top \/ refc[b] # 0 \/ ord[b] # o
  THEN [pfn |-> pfn, o |-> o, h |-> hs, n |-> ns]
  ELSE LET r == RemoveFromList(hs, ns, o, b)
       IN  CoalesceKeepHigher(IF pfn > b THEN pfn ELSE b, o + 1, r.h, r.n)

RECURSIVE Coalesce(_, _, _, _)
Coalesce(pfn, o, hs, ns) ==
  LET b == pfn ^^ (2^o) IN
  IF o >= Top \/ refc[b] # 0 \/ ord[b] # o
  THEN [pfn |-> pfn, o |-> o, h |-> hs, n |-> ns]
  ELSE LET r == RemoveFromList(hs, ns, o, b)
       IN  Coalesce(IF pfn > b THEN b ELSE pfn, o + 1, r.h, r.n)

\* buddy_free_pages(page, order): coalesce, then push the merged block.
BuddyFreePages(page, o) ==
  /\ LET r == Coalesce(page, o, heads, nxt)
     IN  /\ ord' = [ord EXCEPT ![r.pfn] = r.o]
         /\ refc' = [refc EXCEPT ![r.pfn] = 0]
         /\ nxt' = [r.n EXCEPT ![r.pfn] = r.h[r.o]]
         /\ heads' = [r.h EXCEPT ![r.o] = r.pfn]
         /\ count' = count + 2^r.o
  /\ held' = held \ {<<page, o>>}

\* A correct caller frees a block it holds, with the order it asked for.
FreePages(page, o) == <<page, o>> \in held /\ BuddyFreePages(page, o)

Next ==
  \/ \E o \in Order : AllocPages(o)
  \/ \E b \in held : FreePages(b[1], b[2])

Spec == Init /\ [][Next]_vars

\* A caller that frees a block a second time: its head page is already
\* free (ref_count 0) and it is aligned to the order passed.  Init is the
\* state a free of the whole zone leaves, so the zone may be freed again.
DoubleFree(page, o) ==
  /\ <<page, o>> \notin held /\ refc[page] = 0 /\ page % 2^o = 0
  /\ BuddyFreePages(page, o)

\* free_pages_count is a uint64 that buddy_free_pages can grow without
\* bound (it double-counts merged buddies); model checking stops once it
\* passes two zones.
CountBound == 2 * 2^Top
CountBounded == count <= CountBound

DfSpec == Init /\ [][Next \/ \E p \in Page, o \in Order : DoubleFree(p, o)]_vars

-----------------------------------------------------------------------------
(***************************************************************************)
(* Properties.                                                             *)
(***************************************************************************)
Block(p, o) == p .. p + 2^o - 1

\* Every (pfn, order) block on a free list.
FreeBlocks == UNION {{<<FreeList(o)[k], o>> : k \in 1 .. Len(FreeList(o))} : o \in Order}

\* Spec 8, invariant 1: a block on free list k starts at a multiple of 2^k.
FreeBlocksAligned == \A b \in FreeBlocks : b[1] % 2^b[2] = 0

\* The free lists are finite chains and no page descriptor heads blocks on
\* two lists or twice on one (a push of a page still on a list rewrites
\* its next pointer and cuts the list it was on).
FreeListsDisjoint ==
  /\ \A o \in Order : Len(FreeList(o)) <= 2^Top
  /\ \A o1, o2 \in Order : \A k1 \in 1 .. Len(FreeList(o1)), k2 \in 1 .. Len(FreeList(o2)) :
       <<o1, k1>> # <<o2, k2>> => FreeList(o1)[k1] # FreeList(o2)[k2]

\* Spec 8, invariant 2: free_pages_count = sum over k of 2^k * |free_lists[k]|.
FreeCountMatchesLists ==
  LET RECURSIVE Sum(_)
      Sum(o) == IF o < 0 THEN 0 ELSE 2^o * Len(FreeList(o)) + Sum(o - 1)
  IN  count = Sum(Top)

\* Spec 3 (Physical Memory Frame): every page is in exactly one block, free
\* or handed out -- no page is handed out twice, none is both free and
\* handed out, none is lost.
PagesPartitioned ==
  LET Blocks == FreeBlocks \cup held IN
  /\ \A b1, b2 \in Blocks : b1 # b2 => Block(b1[1], b1[2]) \cap Block(b2[1], b2[2]) = {}
  /\ UNION {Block(b[1], b[2]) : b \in Blocks} = Page

\* Spec 8 round trip: once every block handed out is freed again, the zone
\* is one free block of the largest order.
FreeAllRestoresZone ==
  held = {} => FreeBlocks = {<<0, Top>>}


=============================================================================
