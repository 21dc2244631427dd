# TLA+ models of SentinalOS

This directory holds TLA+ models of the stateful parts of the SentinalOS
kernel (`src/`). TLC checks them. Each module is translated from the C
source: its variables are the C globals and struct fields, and each
action is one whole C function. `PROJECT.json` lists every definition
with the source lines it models, every run, and every finding.

## The system and its parts

| Part | Source | State | Operations | Interacts with |
|---|---|---|---|---|
| Scheduler (booted by `main.c`) | `kernel/sched/scheduler.c` | 256-slot process table, `current`, doubly linked ready queue (push and pop at the head), `next_pid`, `total_processes` | `scheduler_init`, `create_process`, `schedule` + `context_switch`, `terminate_process`, `get_process` | `terminate_process` (the only caller of `schedule`); `kmalloc_aligned` for stacks |
| Buddy allocator | `kernel/mm/memory.c` | per-zone free lists, page descriptors (`ref_count`, `order`, `next`), `free_pages_count` | `buddy_alloc_pages`, `buddy_free_pages` | static and never seeded by `mm_init` today |
| Kernel heap | `kernel/mm/memory.c` | `early_heap` offset, bump cursor `kernel_heap_ptr`, `used_memory`, `initialized` | `early_kmalloc`, `mm_init`, `kmalloc`, `kmalloc_aligned`, `kfree` (no-op) | scheduler, VFS, process manager, `sys_mmap` |
| Process manager | `kernel/core/process.c` | `process_list`, priority-sorted `ready_queue` (same `next`/`prev` fields), `next_pid`, `scheduler_ticks` | `process_init/create/destroy/exit/schedule`, timer interrupt | `syscalls.c` |
| System calls | `kernel/core/syscalls.c` | global file table, its own `current_process` (never assigned) | dispatcher, exit, fork, read, write, open, close, kill, brk, mmap | process manager, VFS, kernel heap (`sys_mmap`) |
| VFS | `kernel/fs/vfs.c` | mount list, open-file table, inodes | mount, unmount, open, close, read, write, mkdir, rmdir, `find_mount_point` | syscalls |
| PS/2 keyboard driver | `drivers/input/ps2_keyboard.c` | `kb_state` (modifiers, caps/num lock, initialized), `validate_scancode`'s last code and repeat count; the i8042 configuration byte | `keyboard_init`, `keyboard_interrupt_handler` (`process_scancode`, `validate_scancode`, `keyboard_set_leds`, `keyboard_send_command`), `keyboard_enable_secure_input` | the keyboard device (commands, replies, scancodes); the console |
| Window manager | `gui/src/window_manager.c` | window slot table, `active_windows` | create, destroy, verify_access | compositor |
| Security UI | `gui/src/security_ui.c` | bounded event ring | add_security_event, gui_poll_events | window manager |
| User heap | `userland/libc/src/stdlib.c` | first-fit block list | malloc, free, split, coalesce | user programs |
| Boot and hardware security | `kernel/core/main.c` (`kernel_main`), `kernel/security/security_init.c`, `sme.c`, `kaslr.c`, `kernel/mm/memory.c` (`mm_enable_smep`, `mm_enable_smap`, `mm_init`) | CR0, CR4, the AMD SYSCFG MSR, `sme_state`, `kaslr_state`, the boot step | `kernel_main`'s entry checks, `security_init` (hardware security, SME, KASLR, stack protection, CFI), `mm_init` | the CPU (feature bits, control registers, faults) |
| E1000 network driver | `drivers/network/intel_e1000.c` | `e1000_dev` (`rx_head`, `rx_tail`, `tx_tail`, the descriptors' status, the statistics), the EEPROM poll budget (`static int timeout`); the NIC's RDH/RDT and TDH/TDT | `e1000_init` (`e1000_read_mac_addr`, `e1000_read_eeprom`, `e1000_init_rx`, `e1000_init_tx`), `e1000_transmit`, `e1000_receive` | the NIC, which works on the descriptor rings concurrently with the driver |
| Alternative user malloc | `userland/libc/src/malloc.c` | checksummed, canaried block list, heap bounds | malloc, free, realloc, `create_block`, `split_block`, `merge_free_blocks` | user programs (not linked with `stdlib.c`) |

The kernel runs on one CPU. Two things make it hard: interrupts that
call `schedule`, and sequences of calls that no test combines. So the
models explore every order of the public operations, with arguments
drawn from small sets.

## Modules

- **`ProcessLifecycle`** is the abstract process life cycle of spec
  4.3. Each pid moves UNUSED → READY ⇄ RUNNING → BLOCKED / ZOMBIE → DEAD,
  or is killed. Pids are handed out in increasing order.
- **`Scheduler`** models `scheduler.c`.
  - **Variables:** `state`, `pid` and `sec` per slot; the ready queue as
    `head`/`next`/`prev` pointers, kept as the C pointers are, so a
    stale link does what it would do in C; `current`, `nextPid` and
    `total`.
  - **Actions:** `Schedule` is `schedule()` with its
    `context_switch()`, called with a process current. In the tree
    `schedule()` has one caller, `terminate_process` (line 371), which
    clears `current_process` first; the standalone action
    over-approximates a further caller (the spec's timer tick) so that
    the re-queueing path is checked for safety. `CreateProcess(lvl)` is `create_process` with
    `alloc_process`. `TerminateProcess(p)` is `terminate_process`,
    including the nested `schedule()` it runs when `p` is current.
  - **Init:** the state `scheduler_init` leaves: idle (pid 0) running,
    init (pid 1) queued.
  - **Refinement:** `LifecycleRefined` checks, through `INSTANCE
    ProcessLifecycle WITH pstate <- AbsState`, that every step is a step
    of the abstract life cycle.
- **`Buddy`** models `buddy_alloc_pages` / `buddy_free_pages` of
  `memory.c`.
  - **Variables:** the page descriptors (`refc`, `ord`, `nxt`), the
    list heads, `count`, and the blocks the callers hold.
  - **Split and coalesce:** `Split` and `Coalesce` are RECURSIVE
    operators for the split and coalesce loops. `RemoveFromList` is the
    pointer-to-pointer unlink walk.
  - **Init:** `mm_init` never seeds the free lists. Init is the state a
    free of the whole zone would leave: one block of the top order.
  - **Callers:** `BuddyFreePages` is the function itself. In `Spec`,
    `FreePages` only frees a block the caller holds. `DfSpec` adds
    `DoubleFree`, a caller that passes an aligned block whose head page
    is already free.
- **`ProcessManager`** models `process.c` and `sys_kill` of
  `syscalls.c`.
  - **Library code:** nothing in the boot path calls `process_init`,
    but `syscalls.c` calls `process_schedule` and
    `process_find_by_pid`. Init is the state `process_init` leaves.
  - **Processes:** each process is a kmalloc'ed object. `kfree` is a
    no-op, so objects are never reused and are numbered in allocation
    order.
  - **Shared links:** `process_list` and `ready_queue` thread the same
    `next`/`prev` fields. The model keeps them as pointers (`nx`,
    `pv`), so every stale link has its C effect.
  - **Helpers:** the C helpers (`add_to_ready_queue`,
    `remove_from_ready_queue`, the zombie sweep, `process_find_by_pid`
    and `process_schedule`) are operators on a record of the state.
    The nested calls then compose as in C: for example
    `process_destroy` → `process_schedule` → `add_to_ready_queue`.
  - **Hang:** a list walk that revisits nodes forever sets `hang`. It
    gives up after `WalkBound` steps, more than the number of nodes.
  - **Actions:** `ProcessCreate`, `ProcessDestroy(pid)`, `ProcessExit`,
    `TimerInterrupt` and `SysKill(pid)`.
  - **uids:** all uids are 0, because init has uid 0 and children
    inherit it, so the uid checks of destroy and kill never refuse.
  - **Other syscalls:** `syscalls.c` keeps its own `current_process`,
    which is never assigned. So `sys_exit`, `sys_fork`, `sys_waitpid`
    and `sys_brk` return -1 without effect and are not actions.
- **`Vfs`** models the mount table and open files of `vfs.c`.
  - **Variables:** `registered` (the driver registry), `mounts` (the
    `mount_points` list, head first), `rootSb` and `files`. `files` holds
    every `struct file` `vfs_open` returned: its super block,
    `ref_count` and flags, and, as ghost fields, its path and caller.
  - **Actions:** `RegisterFilesystem`, `VfsMount`, `VfsUnmount`,
    `VfsOpen` and `VfsClose`.
  - **Helpers:** `FindMountPoint` is the list walk of
    `find_mount_point`, RECURSIVE, with its fallback to the list head.
    `CheckPathSecurity` is `check_path_security`, where `strstr` is a
    search for a sub-sequence.
  - **Paths:** a path is a sequence of characters. A whole directory
    name the gate looks for (`secret`, `system`) is one letter.
  - **Callers:** `vfs.c` reads a `current_process` that no header
    declares, so the caller is an input: the kernel or a user record
    (clearance, uid).
  - **Directories:** `VfsDirOp` is `vfs_mkdir` / `vfs_rmdir`: the
    write gate, `find_mount_point`, then the driver call. The ghost
    `lastDirOp` records the call handed to the driver. `StrncmpZero` is
    `strncmp(...) == 0`, RECURSIVE over C strings, and `StrStr` is
    `strstr(...) != NULL`.
  - **Drivers:** a failing driver call changes nothing and is not a
    step. `kmalloc` panics rather than returning NULL, so its failure
    branches are dead.
- **`Gui`** models `window_manager.c` and the event ring of
  `security_ui.c`.
  - **Variables:** the window slots (id, classification, visible,
    active, whether the caller owns it), `active_windows`,
    `user_clearance`, the ring (`buf`, `head`, `tail`, `count`) and
    `gui_poll_events`'s static counter.
  - **Actions:** create (with the framebuffer `malloc` failing or
    not), destroy, show/hide, `gui_set_security_context`, the login
    outcomes of `gui_init_security_ui`, `gui_poll_events`,
    `gui_shutdown_security_ui`, and a re-init of the window manager.
  - **Security UI:** `AuthOutcomes` are the results of
    `authenticate_user` (a clearance, or login failure).
    `ShowSecurityStatus` is `gui_show_security_status`, which creates a
    SECRET window.
  - **Not represented:** pixels, titles and geometry.
  - **Word size:** `uint32_t` arithmetic is modulo `Word`.
- **`UserHeap`** models the user-space heap of `stdlib.c`.
  - **Calls and helpers:** `malloc`, `calloc`, `realloc` and `free`,
    with `init_heap`, `expand_heap`, `validate_block`,
    `find_free_block`, `split_block` and `coalesce_blocks` as operators
    on a record of the heap.
  - **Memory:** a function from addresses (8-byte units) to the header
    written there. Headers absorbed by coalescing stay in memory, as
    in C. `free`'s and `calloc`'s `memset` zero the headers inside the
    payload.
  - **Ghost:** `held` maps each block a caller holds to the size it
    asked for.
  - **`brk`:** `sys_brk` returns -1 as built, because `syscalls.c`
    never sets `current_process`, so `malloc` always fails. The model
    assumes a kernel that grants the break up to `HeapLimit`.
- **`Allocator`** is the abstract allocator.
  - **State:** a set of live `[lo, len, req]` ranges.
  - **Steps:** malloc adds a range disjoint from all live ones with
    `len >= req`. `AllocMany` adds several pairwise-disjoint fresh
    ranges at once (one `sys_mmap`). Free removes one. Realloc replaces one by a fresh
    range that is disjoint from the old.
  - **Refinement:** `UserHeap` implements it through
    `INSTANCE Allocator WITH live <- ...` over the held blocks' payloads.
- **`FileTable`** models the global `file_table` of `syscalls.c`.
  - **Calls:** `sys_open`, `sys_close`, `sys_read` and `sys_write`, as
    `syscall_handler` dispatches them, with the caller as a parameter.
  - **Ghost:** `gen` numbers each open, and `held` records the opens
    each process obtained.
  - **Filesystem calls:** the `fs_*` inode functions are declared and
    never defined, so their results are inputs.
- **`KernelHeap`** models the kernel heap of `memory.c`.
  - **Variables:** `early_heap_offset`, `kernel_heap_ptr`,
    `used_memory`, `initialized`, whether `kernel_panic` was called,
    and the ghost set `grants` of every pointer returned.
  - **Actions:** `MmInit` (`mm_init`, which takes the page array from
    `early_kmalloc`), `Kmalloc(n)` and `KmallocAligned(n, a)`. `kfree`
    does nothing, so it is a stuttering step. PANIC halts: no step
    follows it.
  - **Refinement:** `KernelHeapRefined` checks, through `INSTANCE
    Allocator`, that every returned range is fresh, in the early heap
    or the window, and large enough.
- **`Memory`** composes `Buddy` and `KernelHeap`, which share
  `mm_state`. Buddy steps happen only after `mm_init` returned, and
  nothing happens after a panic. It adds `SysMmap(len)`, the
  `sys_mmap` of `syscalls.c`: one `kmalloc(PAGE_SIZE)` per page, the
  first that does not fit panicking with the earlier pages still
  allocated.
- **`MallocHeap`** models `userland/libc/src/malloc.c`.
  - **Variables:** `hdr` maps block addresses to headers (size, free,
    magic, next, prev, and the checksum as it was last sealed);
    `heap_start`, `heap_end`, `heap_size`, `initialized`; `canary`, the
    addresses holding `CANARY_VALUE`; `aborted` (`abort()` was called);
    and the ghost `held`, the pointers callers hold.
  - **Helpers:** `ValidateBlock`, `FindFreeBlock` (RECURSIVE),
    `CreateBlock`, `SplitBlock`, `MergeFreeBlocks` (RECURSIVE, one pass
    as in C), `MallocSt` and `FreeSt` are operators on a record of the
    heap, so `realloc`'s nested malloc and free compose as in C.
  - **Checksums:** a header's sum field is the tuple its
    `calculate_checksum` covered when last sealed. A field written
    without resealing leaves the sum stale, as in C.
  - **Actions:** `Malloc(n)`, `Free(p)`, `Realloc(p, n)`. A failed
    validation or canary check is `Abort`.
  - **Refinement:** `MallocRefined` maps the held pointers' user areas
    to `Allocator`.
- **`KernelFiles`** composes `ProcessManager` with `FileTable`. A step
  is either a process-manager step or a system call by the RUNNING
  process.
- **`Keyboard`** models `ps2_keyboard.c` with the controller and the
  keyboard as its environment.
  - **Variables:** `kb` (the fields of `kb_state` that are read),
    `validate_scancode`'s statics, the controller's translation and
    interrupt bits (`xlate`, `irqOn`), `wire` (the bytes on their way
    to the driver, FIFO), the device's `leds`, the characters printed
    (`out`), and, as ghosts, the keys held, the caps lock the user
    toggled, and the characters the user meant to type (`typed`).
  - **Device:** it answers each byte the driver sends with a reply from
    `DevReplies` (ACK, RESEND, or nothing, which makes the driver's
    wait loop time out). Replies queue behind key bytes already sent.
    It sends set-1 codes while the controller translates, else set-2
    codes (release = `0xF0`, make).
  - **Helpers:** `SendCommand` (RECURSIVE) is the three-try loop of
    `keyboard_send_command`; `SetLeds`, `ValidateScancode` and
    `ProcessScancode` are operators on a record of the driver state,
    so the handler's nested call of `keyboard_set_leds` composes as in C.
  - **Actions:** `KeyboardInit` (all its early returns, with the self-
    test outcomes as inputs), `KeyboardInterruptHandler`,
    `KeyboardEnableSecureInput`, and the user's `Press` and `Release`.
  - **No IDT:** no code in the tree installs the handler; the model
    calls it once per byte while the port interrupt is enabled.
- **`Boot`** models the boot path from `kernel_main` through
  `security_init` to `mm_init`.
  - **Variables:** the CPU's features (`cpu`), the boot step (`pc`),
    the fault raised (`exc`), `cr0`, `cr4`, the AMD SYSCFG MSR
    (`syscfg`), and the fields of `sme_state` and `kaslr_state`.
  - **Init:** any CPU that has the `Required` features (SME only on
    AMD), CR0.WP as firmware left it, CR4 clear, and SYSCFG's EN and
    LOCK bits as firmware left them.
  - **Actions:** one per step of `kernel_main` and `security_init`:
    `KernelEntry` (the multiboot magic check), `EnableHardwareSecurity`,
    `CheckSmeSupport`, `SmeInit` (with `EnableSme`'s MSR writes, each of
    which may or may not stick), `KaslrInit` (with the entropy
    instructions and `CalculateRandomOffset` over every residue),
    `SetupStackProtection`, `EnableCfi`, `MmInit`, `FinishBoot`.
  - **Fault model:** writing a CR4 bit the CPU lacks raises #GP, as does
    CR4.CET with CR0.WP clear; `rdrand` or `rdseed` on a CPU without them
    raises #UD. No IDT is loaded (`idt_init` is declared and never
    defined), so any fault is a triple fault: the model goes to `reset`.
- **`E1000`** models `intel_e1000.c` with the NIC as a second actor.
  - **Variables:** the init step (`pc`), the EEPROM word being read,
    the static `timeout`, the polls of the current read, the MAC words
    read (`mac`) and the polls each waited (`waited`); per ring the
    descriptors' DD bit and packet id (`txd`, `rxd`), the driver's
    `tx_tail`, `rx_head`, `rx_tail`, and the NIC's head and tail
    registers (`tdh`, `tdt`, `rdh`, `rdt`). Ghosts: the packets posted
    and sent on the wire, and the packets the NIC accepted and the
    driver delivered.
  - **Driver actions:** `EepromPoll` (one poll of `EERD`: the word, or
    a decrement of the static budget, which returns 0 at zero),
    `E1000Init` (`e1000_init_rx` and `e1000_init_tx` with the control
    register writes), `Transmit(len)` and `Receive`, each the whole
    function with its early returns.
  - **NIC actions:** `NicTransmit` sends the descriptor at TDH when
    TDH # TDT and sets DD; `NicReceive` stores a packet at RDH when
    RDH # RDT and sets DD (8254x manual 3.2.6, 3.4).
  - **Abstracted:** packet bytes are packet ids and lengths matter only
    for the 2048 check; the statistics are the ghost sequences' lengths
    (`packets_transmitted`, `packets_received`).
- **`MC_Vfs`** instantiates `Vfs` with its paths as sequences of
  characters. The other modules take their constants directly from
  their `.cfg` files.

## Runs

| Run | Checks | Expect | Shows |
|---|---|---|---|
| `sched_safety` (`MC_Scheduler.cfg`, module `Scheduler`) | `TypeOK`, `ReadyQueueWellFormed`, `RunningIsCurrent`, `PidsUnique`, `LifecycleRefined` | pass | The queue stays a well-formed doubly linked list, only `current` runs, live pids are distinct, and the scheduler refines the abstract life cycle. |
| `sched_lost` | `NoLostProcess` | violation | Terminating the running process loses the process `schedule()` then dequeues (`context_switch(NULL, next)` returns at once). |
| `pm_hang` | `NoHang` | violation | Two creates, an exit and a destroy: dispatching process 2 follows its stale `prev` and writes `3->next = 3`, and `process_find_by_pid` then spins forever. |
| `vfs_safety` (`MC_Vfs.cfg`) | `TypeOK`, `FindMatchesReference`, `RootIsMounted`, `AccessesAllowed` | pass | `find_mount_point` picks the mount a declarative longest-prefix, newest-first definition picks, for every absolute path after any mounts and unmounts. `root_sb` always names a mounted root. No file is opened, and no mkdir or rmdir reaches a driver, against the spec's security gate. |
| `gui_safety` (`MC_Gui.cfg`) | `TypeOK`, `ActiveWindowsCounts`, `AtMostOneActive` | pass | `active_windows` equals the number of windows through failed mallocs and destroys, and at most one window is active. |
| `heap_safety` (`MC_UserHeap.cfg`) | `TypeOK`, `LinksMatchAddressOrder`, `NoAdjacentFreeBlocks`, `AllocatedAreHeld`, `AllocatorRefined` | pass | The next/prev links follow address order, free leaves no two free neighbours, the allocated blocks are exactly the held ones, and the heap refines `Allocator`. |
| `files_safety` (`MC_KernelFiles.cfg`) | `KTypeOK`, `RunningIsCurrent` | pass | With the process manager and the file table composed, so that the RUNNING process makes the system calls, only `current_process` is RUNNING whatever the processes and their file calls do. |
| `mem_safety` (`MC_Memory.cfg`) | `MemTypeOK`, `FreeBlocksAligned`, `FreeListsDisjoint`, `PagesPartitioned`, `GrantsAligned`, `KernelHeapRefined` | pass | Buddy free blocks are size-aligned (spec 8.1), the free lists are disjoint chains, every page is in exactly one free or allocated block; every kernel heap pointer (including the pages of `sys_mmap`) is aligned as asked, fresh and inside the early heap or the window. |
| `kbd_decode` (`MC_Keyboard.cfg`, module `Keyboard`) | `KeysDecoded` | violation | `keyboard_init` clears the controller's translation bit and selects set 2, but `process_scancode` decodes set 1: after a successful init, pressing left shift prints `e`. |
| `boot_safety` (`MC_Boot.cfg`, module `Boot`) | `NoCpuException`, `SmeEnabledMatchesMsr`, `KaslrOffsetInWindow` | pass | On every CPU with SMEP, SMAP, RDRAND and RDSEED, whatever firmware left in CR0 and SYSCFG and whether each MSR write sticks, boot raises no fault, `sme_state.enabled` agrees with the MSR, and the KASLR offset is 2 MiB-aligned inside its window for every entropy value. |
| `malloc_safety` (`MC_MallocHeap.cfg`) | `MhTypeOK`, `ListWellFormed`, `NoAdjacentFreeBlocks`, `MallocRefined` | pass | Through malloc, free and realloc, the `malloc.c` block list stays a doubly linked chain from `heap_start` to `heap_end`, free leaves no two free neighbours, and the user areas refine `Allocator`. |
| `e1000_safety` (`MC_E1000.cfg`, module `E1000`) | `E1000TypeOK`, `TxWireInOrder`, `RxDeliveredInOrder` | pass | With the driver and the NIC interleaved in every order, the wire carries exactly the packets `e1000_transmit` posted, in order, and `e1000_receive` hands up exactly the packets the NIC accepted, in order and none twice: the driver never touches a descriptor the NIC owns. |

### Further counterexamples

These configurations are on disk and each checks one property, which
TLC shows violated. They are not among the runs listed in
`PROJECT.json`.

| Config | Property | What TLC shows |
|---|---|---|
| `MC_Buddy_count.cfg` | `FreeCountMatchesLists` | `free_pages_count` double-counts merged buddies (spec 8.2): after one allocation and free it no longer equals the pages on the free lists. |
| `MC_MallocHeap_NeverAborts.cfg` | `NeverAborts` | `malloc(40)`, then `malloc(8)` takes a 52-byte block too small to split; `free` reads the end canary at `size - 4` of the block, while `malloc` wrote it at the padded request's end, and calls `abort()`. |
| `MC_MallocHeap_ChecksumsCurrent.cfg` | `ChecksumsCurrent` | `malloc(8)`, `malloc(8)`, `malloc(40)`: `create_block` links the old end's `next` without recomputing its checksum (line 174), so the next `validate_block` of it fails. `split_block` and `merge_free_blocks` do the same to a successor's `prev`. |
| `MC_MallocHeap_BlocksWithinMapping.cfg` | `BlocksWithinMapping` | A second `malloc(40)`: `create_block` grows `heap_size` but writes the new header past the initial mapping, which nothing extended. |
| `MC_ProcessManager_kill.cfg` | `KilledStaysDead` | `sys_kill` only marks the target TERMINATED. It stays queued, and `process_schedule` sets it RUNNING. |
| `MC_Keyboard_modifiers.cfg` | `ModifiersTrackKeys` | With the controller self-test failing, translation stays on and set-1 codes arrive. Shift's break code `0xAA` is above `0x83`, so `validate_scancode` drops it and `shift_pressed` stays set after the key is released (keys: shift and A only). |
| `MC_Keyboard_leds.cfg` | `LedsMatchCaps` | Even with a device that always acknowledges: press caps lock, then shift, before the interrupt runs. `keyboard_set_leds` reads the shift byte as the reply to SET_LEDS, gives up, and the ACK arrives later as a scancode; caps lock is on and its LED off, and the shift press is lost. |
| `MC_Scheduler_total.cfg` | `TotalProcessesAccurate` | `terminate_process(0)` kills idle, which `scheduler_init` never counted, and decrements `total_processes`. |
| `MC_Buddy_doublefree.cfg` | `FreeListsDisjoint` | Under `DfSpec`, a caller frees order-1 block 0 while the whole zone is free. `buddy_free_pages` checks neither the page's `ref_count` nor its order (spec 4.1 promises a `HeapCorruption` check), so page 0 heads the order-1 and order-2 lists at once. |
| `MC_Buddy_roundtrip.cfg` | `FreeAllRestoresZone` | Split halves keep a stale `order` field, so freeing every block leaves the zone split (the spec 8 round trip). |
| `MC_ProcessManager_pid.cfg` | `PidsUnique` | `process_init` leaves `next_pid` at 1, so the first `process_create` also hands out pid 1. |
| `MC_ProcessManager_list.cfg` | `ProcessListComplete` | The first `process_create` links the new process in front of init on `process_list`, then `add_to_ready_queue` overwrites its `next`, so init drops off the list. |
| `MC_ProcessManager_timer.cfg` | `ReadyEventuallyRuns` | `scheduler_ticks` advances only inside `process_schedule`, so the timer never preempts on its own and a READY process waits forever. |
| `MC_Vfs_pin.cfg` | `OpenFilesPinMount` | `vfs_unmount` unlinks a mount while a file opened through it is still open (spec 5: readers pin through the super block). |
| `MC_Vfs_root.cfg` | `RootTracksRootMount` | Mount `/` on a device, mount the same device again, unmount the second: `root_sb` is cleared although `/` is still mounted. |
| `MC_Gui_ids.cfg` | `WindowIdsUnique` | Create, create, destroy the first, create: `window_id = active_windows + 1` gives two live windows id 2. |
| `MC_Gui_zero.cfg` | `ActiveWindowsCounts` | With ids including 0, `gui_destroy_window(0)` matches a free slot and `active_windows` wraps below zero. |
| `MC_UserHeap_BlocksTileHeap.cfg` | `BlocksTileHeap` | `expand_heap` moves `heap_end` but writes no header. The block walk stops at the old end, so `malloc` fails after a successful `brk`, and every further large request grows the break again. |
| `MC_UserHeap_AllocatedMatchesRequests.cfg` | `AllocatedMatchesRequests` | `malloc` adds the request to `heap_state.allocated`, but `free` subtracts the block size. After `malloc(1)` twice and a `free` of the unsplit remainder, the `size_t` wraps. |
| `MC_Boot_cpus.cfg` | `NoCpuException` | With no feature required of the CPU: `mm_enable_smep` and `mm_enable_smap` set CR4.SMEP and SMAP without checking CPUID, and KASLR and the stack canary run `rdseed` / `rdrand` unchecked. On a CPU without them boot faults, and with no IDT it resets. |
| `MC_Boot_lock.cfg` | `SmeLockedMatchesMsr` | `enable_sme` writes SYSCFG's LOCK bit and sets `sme_state.locked` without reading it back. If the write does not stick, the kernel records SME as locked when it is not. |
| `MC_KernelFiles_NoOrphanOpenFiles.cfg` | `NoOrphanOpenFiles` | Init opens a file and is destroyed. Its `file_table` entry stays open, and nothing can ever close it. |
| `MC_Memory_boot.cfg` | `AllocationNeverPanics` | With the code's proportions (a 3 MiB page array, a 1 MiB `early_heap`), `mm_init`'s `early_kmalloc` panics at boot, although spec 4.1 says allocation failures are reported, never a panic. |
| `MC_E1000_rx.cfg` | `RxNotWedged` | Three EEPROM reads, init, one packet arrives and is received: `e1000_receive` writes RDT = `rx_tail` + 1 = the new `rx_head` = RDH, so the NIC owns no buffer while every descriptor is empty, and nothing more is ever received. `e1000_init_rx` sets RDT to N − 1 but `rx_tail` to 0. |
| `MC_E1000_tx.cfg` | `TxNotWedged` | N transmits before the NIC sends one: TDT wraps to TDH, which the NIC reads as an empty ring; the tail descriptor's DD stays clear and every later `e1000_transmit` returns -1. |
| `MC_E1000_eeprom.cfg` | `EepromReadsWait` | The first read takes polls from the static budget of `e1000_read_eeprom`, which is never reset; a later read gives up after one poll and the MAC word is 0. |
| `MC_ProcessManager_exit.cfg` | `ExitIsFinal` | Three creates; init exits and process 2 is dispatched, but `remove_from_ready_queue` follows 2's `prev`, a `process_list` link, so `ready_queue` still names 2. Process 2 exits: `process_schedule` takes the head, 2, and dispatches it again in the same step, so the exited process keeps running. |
| `MC_KernelFiles_FdsStayWithOpener.cfg` | `FdsStayWithOpener` | Init opens fd 3 and exits. The next process closes fd 3, which it never opened. (The timer never preempts, so a process that has not exited never loses its descriptors this way.) |

Each property of a passing run has a mutant in `PROJECT.json`: a
plausible bug in a mapped definition that TLC then catches.

## Bounds

- **Scheduler:** 4 slots, pids up to 4, security levels {1, 4}.
  - This is enough to reuse a slot, exhaust the table, hit the
    security gate in both directions, and terminate the current
    process, a queued process and idle.
  - Pid creation stops at `MaxPid`.
  - The statistics counter is kept modulo 2^16.
- **Buddy:** 3 orders over a 4-page zone.
  - This gives splits two levels deep, coalescing at both levels, and
    every allocation order.
  - `free_pages_count` can grow without bound (that is the bug).
    `Buddy`'s `CountBounded` constraint stops the search at two
    zones' worth.

- **Process manager:** 4 process objects, pids 1–3 named by destroy
  and kill, at most 12 ticks.
  - The code's quantum is 10. The model uses 2: with any quantum of 2
    or more, the timer fires at most once per quantum − 1 other calls
    of `process_schedule`, and 2 keeps a firing within reach.
  - Deadlock checking is off. A hang is a state with no successor, and
    an idle kernel with nothing to create may do nothing.

- **VFS:**
  - One driver, two devices, mount points `/` and `/t`.
  - Open paths `/t/x`, `/tx` (prefix without a boundary), `/S/x`
    (classified), `/Y/x` (system) and `x` (relative).
  - A caller at clearance 1 with uid 1, one at clearance 4 with uid 0,
    and the kernel.
  - `mkdir` / `rmdir` paths `/S/x` and `/Y/x`.
  - The search stops at two mounts and one opened file. That covers
    duplicate mounts, unmount of either, and every order of mount
    changes around one open and close.
- **GUI:**
  - 3 window slots, window ids 1–3, classifications {0, 2, 4}, a ring
    of 2 events, an alert period of 2.
  - `uint32_t` is modelled modulo 16. No property depends on the
    width, and wrap-around shows with either.
- **User heap:** one unit is 8 bytes.
  - The initial heap is 24 units, a page is 8 units, and `brk` grants
    up to 32. Requests are of 1, 2 and 5 units.
  - These bounds reach a split, a block too small to split, a split of
    a free block that has a successor, coalescing both ways, and
    expansion.
  - `MC_UserHeap.cfg` uses `VIEW ChainView`. It identifies states
    that differ only in headers off the block chain, which nothing
    reads again (defined in `UserHeap.tla`).
- **File table (`KernelFiles`):**
  - 3 process objects (pids 1–3), a quantum of 2, at most 6 ticks.
  - 5 descriptors: 0–2 reserved and two for `sys_open`, so the table
    fills. Open flags {2}, counts {1}.
  - Offsets are bounded by 1, and at most 4 opens happen.
- **Memory (`Memory`):** the buddy bounds above, with
  `CountBounded`, plus a kernel heap in scaled-down bytes.
  - A 32-byte early heap; the page array takes 24 bytes in
    `MC_Memory.cfg` (it fits) and 96 in `MC_Memory_boot.cfg` (three
    times the early heap, as 3 MiB is to 1 MiB in the code).
  - A 48-byte window at 64, a page of 32, sizes {4}, alignment {32}.
    A kmalloc of 4 leaves the cursor unaligned, so `kmalloc_aligned`
    must pad; one page fits after it and a second does not.
  - `sys_mmap` lengths {1, 33}: one page, and two pages of which the
    second overruns the window.
- **Alternative malloc (`MallocHeap`):** bytes as in the code, with
  a 36-byte header, an initial heap of 180 bytes at 4096, requests of
  8 and 40 bytes, and at most 4 blocks (`BlocksBounded`).
  - The first `malloc(40)` (56 bytes with the canary slots) splits the
    144-byte block and leaves 52 bytes; a second needs `create_block`,
    and a `malloc(8)` (24 bytes) takes the 52 bytes unsplit. So growth, an unsplit
    block, merging in both directions and `realloc` to a larger size
    all happen.
  - Deadlock checking is off: once every block is held, or after
    `abort()`, no call is enabled.

- **Keyboard:** keys shift, caps lock and A (shift and A for
  `MC_Keyboard_modifiers.cfg`), four presses or releases, at most three
  bytes queued.
  - Four events are enough for a press and release of a modifier
    around a letter, or two keys queued before the handler runs, which
    is where a command reply and a key byte meet.
  - Typematic repeats are presses of a held key. The repeat filter
    needs 12 identical bytes, beyond these bounds.

- **Boot:** 12 CPU feature sets (those with SMEP, SMAP, RDRAND and
  RDSEED, with or without UMIP, CET, AMD and SME, SME only on AMD),
  CR0.WP on or off, and SYSCFG's EN and LOCK as firmware may leave them:
  48 initial states.
  - KASLR is counted in MiB (`KaslrUnit`), so the window is 16–1024
    and the alignment 2; every residue 0..1007 of the entropy is tried.
  - Multiboot magics: the right one and 0. `mm_init`'s page array
    fits or not.
  - Deadlock checking is off: boot ends in `done`, `panic` or `reset`.
  The run reaches 72912 distinct states.

- **E1000:** 4 descriptors per ring (the code has 32), at most 6
  packets each way, an EEPROM budget of 3 polls (the code's 1000),
  lengths {64, 4096}.
  - Four descriptors let both rings wrap, and six packets are more
    than a ring holds, so the tail can catch the head in either
    direction; 4096 exercises the length check. A budget of 3 lets a
    first read use it up and a later one time out.
  - Deadlock checking is off: once the packet bound is reached, or a
    ring is wedged, callers may stop calling.
  The run reaches 15651 distinct states.

## Fairness

The scheduler specification has no fairness: `schedule()` is called
only from `terminate_process`, and creation and termination are
requests that callers may never make, so `Scheduler` has no liveness
property. `ProcessManager` assumes weak fairness of `TimerInterrupt`,
the hardware tick, and nothing else; this is the spec's 100 Hz timer
(spec 4.3), which `MC_ProcessManager_timer.cfg` uses to show the
handler never preempts. No IDT entry installs
`scheduler_timer_interrupt` today, which only strengthens that
finding. Boot is one sequential path that stops and has no fairness.
`E1000` has none either: the driver is called by whoever sends or
polls, and the NIC's progress depends on the link, so its wedges are
stated as invariants on the states where nothing can move. The memory
manager, VFS, GUI, keyboard, both user heaps and the file table have no
liveness property and no fairness. Their operations are requests that
callers may never make.

## Not modelled, and why

- **The compositor, the SentinalSend crypto tool and the terminal
  app:** pixel output or pure byte manipulation, with no repeated or
  interleaved state changes.
- **Parts of boot:** SME's address helpers and `sme_secure_alloc`,
  KASLR's address randomisers and the VGA console. They compute or
  print values no boot property reads.
- **AHCI driver, `drivers.c`:** AHCI command tables and FIS areas
  are filled for hardware DMA with no software protocol beyond what
  the E1000 model shows for rings, and `drivers.c` probes the PCI bus
  once at boot. In `E1000`, the MMIO control register writes, the
  statistics' byte counts and the packet bytes are left out.
- **Page tables and `map_page`:** `map_page` is called by `sys_mmap`
  and defined nowhere. `malloc.c` calls `mmap`, which the userland libc
  does not declare; the model takes its `allocate_pages` to succeed.
- **VFS read, write and the inode cache:** `vfs_read` and `vfs_write`
  only check the flags (RD = 1, WR = 2, consistently) and call the
  driver. The cache is never filled.
- **`snprintf`, `strncpy` and the rest of the string library:** the
  VFS model has `strncmp` (RECURSIVE) and `strstr`. The others only
  format or copy bytes.

## Plan for later sittings

1. `vfs_read` / `vfs_write` with file offsets, if the drivers gain
   state worth modelling.
2. `snprintf` / `strncpy` as operators checked against a reference
   definition for truncation and termination.
