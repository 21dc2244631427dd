------------------------------- MODULE Memory -------------------------------
(***************************************************************************)
(* The memory manager of src/kernel/mm/memory.c as one component: the     *)
(* buddy page allocator and the kernel heap share mm_state.  The buddy    *)
(* functions reach page descriptors through mm_state.page_array, which    *)
(* mm_init allocates, so no buddy step happens before mm_init returned;  *)
(* after kernel_panic no step of either happens.  sys_mmap              *)
(* (src/kernel/core/syscalls.c) is the kernel heap's user-driven client:  *)
(* it kmallocs one PAGE_SIZE block per page asked for.                    *)
(***************************************************************************)
EXTENDS Buddy, KernelHeap

CONSTANTS
  KPage,        \* PAGE_SIZE, in the kernel heap's units
  Lengths       \* lengths user processes pass to mmap

memVars == <<vars, khVars>>

MemInit == Init /\ KhInit

(***************************************************************************)
(* sys_mmap(addr, length, ...): EINVAL for length 0 (no step); else       *)
(* kmalloc(PAGE_SIZE) for each of the ceil(length / PAGE_SIZE) pages and  *)
(* map it (map_page is defined nowhere: not modelled).  kmalloc never     *)
(* returns NULL: the first page that does not fit panics the kernel, and  *)
(* the pages before it stay allocated.  Nothing checks the caller.        *)
(***************************************************************************)
SysMmap(len) ==
  /\ initialized /\ ~panicked /\ len > 0
  /\ LET np == (len + KPage - 1) \div KPage
         fit == (HeapEnd - heapPtr) \div Round8(KPage)
         k == IF np <= fit THEN np ELSE fit
     IN  /\ heapPtr' = heapPtr + k * Round8(KPage)
         /\ used' = used + k * Round8(KPage)
         /\ grants' = grants \cup
               {[lo |-> heapPtr + i * Round8(KPage), len |-> Round8(KPage),
                 req |-> KPage, al |-> 8] : i \in 0 .. k - 1}
         /\ panicked' = (np > fit)
  /\ UNCHANGED <<earlyOff, initialized>>

MemNext ==
  /\ ~panicked
  /\ \/ initialized /\ Next /\ UNCHANGED khVars
     \/ KhNext /\ UNCHANGED vars
     \/ \E len \in Lengths : SysMmap(len) /\ UNCHANGED vars

MemSpec == MemInit /\ [][MemNext]_memVars

\* The page descriptors, free lists and kernel heap state keep their types.
MemTypeOK == TypeOK /\ KhTypeOK

====
