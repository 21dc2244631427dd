----------------------------- MODULE KernelHeap -----------------------------
(***************************************************************************)
(* The kernel heap of src/kernel/mm/memory.c: the early bump allocator    *)
(* over the static early_heap array, mm_init (which takes the page array  *)
(* from it and opens the kernel heap window), and the bump allocator      *)
(* kmalloc / kmalloc_aligned over [KERNEL_HEAP_START, +KERNEL_HEAP_SIZE). *)
(* kfree returns without touching anything: a stuttering step.            *)
(*                                                                         *)
(* Addresses are bytes, scaled down: the early heap is [0, EarlySize) and *)
(* the window [HeapStart, HeapStart + HeapSize).  PANIC (kernel_panic)    *)
(* halts the machine; `panicked` records it and no step follows.           *)
(* kernel_main calls mm_init before any other subsystem, and nothing      *)
(* allocates before it: kmalloc's early branch is never taken by a caller *)
(* and early_kmalloc's only caller is mm_init.  Callers pass non-zero     *)
(* sizes and power-of-two alignments (PAGE_SIZE, 16).                      *)
(***************************************************************************)
EXTENDS Integers

CONSTANTS
  EarlySize,        \* sizeof(early_heap) (1 MiB in the code)
  PageArrayBytes,   \* total_pages * sizeof(struct page) (3 MiB in the code)
  HeapStart,        \* KERNEL_HEAP_START
  HeapSize,         \* KERNEL_HEAP_SIZE (256 MiB in the code)
  Sizes,            \* sizes callers pass to kmalloc / kmalloc_aligned
  Aligns            \* alignments callers pass to kmalloc_aligned

VARIABLES
  earlyOff,         \* early_heap_offset
  heapPtr,          \* mm_state.kernel_heap_ptr
  used,             \* mm_state.used_memory
  initialized,      \* mm_state.initialized
  panicked,         \* kernel_panic was called
  grants            \* (ghost) [lo, len, req, al] of every pointer returned

khVars == <<earlyOff, heapPtr, used, initialized, panicked, grants>>

HeapEnd == HeapStart + HeapSize
KAddr == (0 .. EarlySize - 1) \cup (HeapStart .. HeapEnd - 1)

\* (size + 7) & ~7
Round8(n) == ((n + 7) \div 8) * 8

\* Mutant: the heap pointer is not padded.
AlignUpNoPad(x, a) == x

\* (x + a - 1) & ~(a - 1), for a power of two a
AlignUp(x, a) == ((x + a - 1) \div a) * a

KhTypeOK ==
  /\ earlyOff \in 0 .. EarlySize
  /\ heapPtr \in 0 .. HeapEnd + HeapSize
  /\ used \in 0 .. HeapSize
  /\ initialized \in BOOLEAN /\ panicked \in BOOLEAN
  /\ grants \subseteq [lo : KAddr, len : Nat, req : Nat, al : Nat]

\* The static state before kernel_main: zeroed .bss.
KhInit ==
  /\ earlyOff = 0 /\ heapPtr = 0 /\ used = 0
  /\ initialized = FALSE /\ panicked = FALSE
  /\ grants = {}

\* early_kmalloc(size): round to 8; PANIC past the array; else bump.
EarlyKmalloc(n) ==
  IF earlyOff + Round8(n) > EarlySize
  THEN /\ panicked' = TRUE
       /\ UNCHANGED <<earlyOff, grants>>
  ELSE /\ earlyOff' = earlyOff + Round8(n)
       /\ grants' = grants \cup {[lo |-> earlyOff, len |-> Round8(n), req |-> n, al |-> 8]}
       /\ UNCHANGED panicked

(***************************************************************************)
(* mm_init: zones and page tables (constants, not modelled); heap pointer *)
(* to the window start, used_memory 0; the page array from early_kmalloc; *)
(* mm_state.initialized only if that returned.                             *)
(***************************************************************************)
MmInit ==
  /\ ~initialized /\ ~panicked
  /\ heapPtr' = HeapStart
  /\ used' = 0
  /\ EarlyKmalloc(PageArrayBytes)
  /\ initialized' = ~panicked'

\* Mutant: the cursor moves by the requested size, not the rounded one.
BumpUnrounded(p, n) == [ptr |-> p + n, grant |-> [lo |-> p, len |-> Round8(n), req |-> n, al |-> 8]]

\* The bump from cursor p for a request of n bytes.
Bump(p, n) == [ptr |-> p + Round8(n), grant |-> [lo |-> p, len |-> Round8(n), req |-> n, al |-> 8]]

\* kmalloc(size) from cursor p, after mm_init: PANIC when the rounded
\* request passes the window's end; else return p and bump.
KmallocFrom(p, n, al) ==
  IF p + Round8(n) > HeapEnd
  THEN /\ panicked' = TRUE
       /\ heapPtr' = p
       /\ UNCHANGED <<used, grants>>
  ELSE LET b == Bump(p, n) IN
       /\ heapPtr' = b.ptr
       /\ used' = used + Round8(n)
       /\ grants' = grants \cup {[b.grant EXCEPT !.al = al]}
       /\ UNCHANGED panicked

Kmalloc(n) ==
  /\ initialized /\ ~panicked
  /\ KmallocFrom(heapPtr, n, 8)
  /\ UNCHANGED <<earlyOff, initialized>>

\* kmalloc_aligned(size, alignment): align the heap pointer, then kmalloc.
KmallocAligned(n, a) ==
  /\ initialized /\ ~panicked
  /\ KmallocFrom(AlignUp(heapPtr, a), n, a)
  /\ UNCHANGED <<earlyOff, initialized>>

KhNext ==
  \/ MmInit
  \/ \E n \in Sizes : Kmalloc(n)
  \/ \E n \in Sizes, a \in Aligns : KmallocAligned(n, a)

KhSpec == KhInit /\ [][KhNext]_khVars

-----------------------------------------------------------------------------
(***************************************************************************)
(* Properties.                                                             *)
(***************************************************************************)

\* Every pointer early_kmalloc, kmalloc and kmalloc_aligned return lies in
\* the early heap or the heap window, is disjoint from every pointer
\* returned before (kfree frees nothing), and has room for the request:
\* the bump allocators implement the abstract allocator, with no release.
KA == INSTANCE Allocator WITH Addr <- KAddr,
        live <- {[lo |-> g.lo, len |-> g.len, req |-> g.req] : g \in grants}

KernelHeapRefined == KA!Spec

\* Every pointer is aligned as its caller asked: 8 bytes for kmalloc and
\* the early allocator, the given alignment for kmalloc_aligned (task
\* stacks are allocated page-aligned), whatever sizes came before.
GrantsAligned == \A g \in grants : g.lo % g.al = 0

\* Spec 4.1: allocation failures are reported to the caller and never
\* panic.  early_kmalloc and kmalloc call PANIC when the request does not
\* fit.
AllocationNeverPanics == ~panicked

====
