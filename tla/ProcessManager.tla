--------------------------- MODULE ProcessManager ---------------------------
(***************************************************************************)
(* The process manager of src/kernel/core/process.c (the system.h family) *)
(* together with the one system call of src/kernel/core/syscalls.c that   *)
(* changes its state, sys_kill.                                            *)
(*                                                                         *)
(* A process is a kmalloc'ed struct; kfree is a no-op in this kernel, so  *)
(* objects are never reused and are numbered 1, 2, ... in allocation      *)
(* order, object 1 being init.  process_list and ready_queue thread the   *)
(* SAME next/prev fields of struct process, and the model keeps them as   *)
(* the pointers the code writes, so every stale link has its C effect.    *)
(* A list walk that revisits a node forever is a kernel hang: `hang` is   *)
(* set and nothing runs any more.                                          *)
(*                                                                         *)
(* Every uid is 0 (init has uid 0, children inherit it, nothing changes   *)
(* it), so the uid checks of process_destroy and sys_kill never refuse.  *)
(* syscalls.c's own current_process is never assigned, so its exit, fork, *)
(* waitpid and brk return -1 without touching this state.                 *)
(***************************************************************************)
EXTENDS Integers, Sequences, FiniteSets

CONSTANTS
  MaxObjs,   \* processes kmalloc'ed, init included (kmalloc never runs out here)
  Quantum,   \* the timer's "ticks - last_schedule >= 10"
  MaxTicks,  \* bound on scheduler_ticks
  Pids       \* pids a destroy or kill may name

Obj  == 1 .. MaxObjs
NIL  == 0
INIT == 1
\* The walks give up after this many steps: a chain over MaxObjs nodes that
\* is still being followed after it has revisited nodes is a cycle.
WalkBound == 3 * MaxObjs + 1

READY == "READY"
RUNNING == "RUNNING"
BLOCKED == "BLOCKED"
ZOMBIE == "ZOMBIE"
TERMINATED == "TERMINATED"
UNALLOC == "UNALLOC"       \* not yet kmalloc'ed

\* process_init gives init priority 10, process_create every other one 20.
Prio(o) == IF o = INIT THEN 10 ELSE 20

VARIABLES
  st,        \* proc->state
  pid,       \* proc->pid
  nx,        \* proc->next
  pv,        \* proc->prev
  pl,        \* process_list
  rq,        \* ready_queue
  cur,       \* current_process
  nextPid,   \* next_pid
  ticks,     \* scheduler_ticks
  lastSched, \* scheduler_timer_interrupt's static last_schedule
  alloc,     \* objects kmalloc'ed so far
  freed,     \* objects passed to kfree
  hang       \* the kernel is stuck in a list walk

vars == <<st, pid, nx, pv, pl, rq, cur, nextPid, ticks, lastSched, alloc, freed, hang>>

Ptr == Obj \cup {NIL}

TypeOK ==
  /\ st \in [Obj -> {READY, RUNNING, BLOCKED, ZOMBIE, TERMINATED, UNALLOC}]
  /\ pid \in [Obj -> 0 .. MaxObjs]
  /\ nx \in [Obj -> Ptr] /\ pv \in [Obj -> Ptr]
  /\ pl \in Ptr /\ rq \in Ptr /\ cur \in Ptr
  /\ nextPid \in 1 .. MaxObjs + 1
  /\ ticks \in 0 .. MaxTicks /\ lastSched \in 0 .. MaxTicks
  /\ alloc \in 1 .. MaxObjs
  /\ freed \subseteq Obj
  /\ hang \in BOOLEAN

(***************************************************************************)
(* The helpers work on a record S of the state they touch, so that the    *)
(* nested calls (process_destroy -> process_schedule -> add_to_ready_queue) *)
(* compose as they do in C.                                                *)
(***************************************************************************)
S == [st |-> st, nx |-> nx, pv |-> pv, pl |-> pl, rq |-> rq, cur |-> cur,
      ticks |-> ticks, freed |-> freed, hang |-> hang]

Apply(s) ==
  /\ st' = s.st /\ nx' = s.nx /\ pv' = s.pv /\ pl' = s.pl /\ rq' = s.rq
  /\ cur' = s.cur /\ ticks' = s.ticks /\ freed' = s.freed /\ hang' = s.hang

Hung(s) == [s EXCEPT !.hang = TRUE]

\* add_to_ready_queue: the walk for the last node of priority >= Prio(p).
RECURSIVE InsertAfter(_, _, _, _)
InsertAfter(c, n, p, k) ==
  IF k = 0 THEN NIL
  ELSE IF n[c] # NIL /\ Prio(n[c]) >= Prio(p) THEN InsertAfter(n[c], n, p, k - 1)
  ELSE c

\* add_to_ready_queue(proc): insert by descending priority, after the
\* processes of equal priority; a process that is not READY is ignored.
AddToReadyQueue(s, p) ==
  IF s.hang \/ p = NIL \/ s.st[p] # READY THEN s
  ELSE IF s.rq = NIL \/ Prio(p) > Prio(s.rq)
  THEN LET pv1 == IF s.rq # NIL THEN [s.pv EXCEPT ![s.rq] = p] ELSE s.pv
       IN  [s EXCEPT !.nx = [s.nx EXCEPT ![p] = s.rq],
                     !.pv = [pv1 EXCEPT ![p] = NIL], !.rq = p]
  ELSE LET c == InsertAfter(s.rq, s.nx, p, WalkBound)
           nx1 == [s.nx EXCEPT ![p] = s.nx[c]]
           pv1 == IF s.nx[c] # NIL THEN [s.pv EXCEPT ![s.nx[c]] = p] ELSE s.pv
       IN  IF c = NIL THEN Hung(s)
           ELSE [s EXCEPT !.nx = [nx1 EXCEPT ![c] = p],
                          !.pv = [pv1 EXCEPT ![p] = c]]

\* The unlink both lists use: prev->next = next (or the head), next->prev = prev.
Detach(nxf, pvf, hd, p) ==
  [nx |-> IF pvf[p] # NIL THEN [nxf EXCEPT ![pvf[p]] = nxf[p]] ELSE nxf,
   hd |-> IF pvf[p] # NIL THEN hd ELSE nxf[p],
   pv |-> IF nxf[p] # NIL THEN [pvf EXCEPT ![nxf[p]] = pvf[p]] ELSE pvf]

\* remove_from_ready_queue(proc): unlink, then clear proc's links.
RemoveFromReadyQueue(s, p) ==
  LET d == Detach(s.nx, s.pv, s.rq, p)
  IN  [s EXCEPT !.nx = [d.nx EXCEPT ![p] = NIL], !.pv = [d.pv EXCEPT ![p] = NIL],
                !.rq = d.hd]

\* Unlink p from process_list, leaving its own links as they are.
RemoveFromProcessList(s, p) ==
  LET d == Detach(s.nx, s.pv, s.pl, p)
  IN  [s EXCEPT !.nx = d.nx, !.pv = d.pv, !.pl = d.hd]

\* process_schedule's zombie sweep: follow the next pointer read before
\* each unlink, unlinking and kfree'ing every ZOMBIE met.
RECURSIVE CleanZombies(_, _, _)
CleanZombies(s, p, k) ==
  IF p = NIL THEN s
  ELSE IF k = 0 THEN Hung(s)
  ELSE LET n == s.nx[p]
       IN  IF s.st[p] = ZOMBIE
           THEN CleanZombies([RemoveFromProcessList(s, p) EXCEPT !.freed = @ \cup {p}], n, k - 1)
           ELSE CleanZombies(s, n, k - 1)

\* process_find_by_pid: walk process_list for the first process with the pid.
RECURSIVE FindFrom(_, _, _, _)
FindFrom(s, p, x, k) ==
  IF p = NIL THEN NIL
  ELSE IF k = 0 THEN -1
  ELSE IF pid[p] = x THEN p ELSE FindFrom(s, s.nx[p], x, k - 1)

FindByPid(s, x) == FindFrom(s, s.pl, x, WalkBound)

\* Mutant: the running process is re-queued without being set READY.
ProcessScheduleNoDemote(s) ==
  LET s1 == [s EXCEPT !.ticks = @ + 1]
      np == s1.rq
      s3 == CleanZombies(s1, s1.pl, WalkBound)
  IN  IF s3.hang THEN s3
      ELSE IF np # NIL
      THEN [RemoveFromReadyQueue(s3, np) EXCEPT !.st[np] = RUNNING, !.cur = np]
      ELSE [s3 EXCEPT !.cur = NIL]

(***************************************************************************)
(* process_schedule(): count the tick; re-queue the current process if    *)
(* it is still RUNNING; take the head of the ready queue; sweep zombies;   *)
(* then dispatch the head taken, or idle with no current process.  Its    *)
(* scheduler_lock is free whenever it is called from the operations below *)
(* (they run to completion on the one CPU), so its early return is not    *)
(* taken.                                                                  *)
(***************************************************************************)
ProcessSchedule(s) ==
  LET s1 == [s EXCEPT !.ticks = @ + 1]
      s2 == IF s1.cur # NIL /\ s1.st[s1.cur] = RUNNING
            THEN AddToReadyQueue([s1 EXCEPT !.st[s1.cur] = READY], s1.cur)
            ELSE s1
      np == s2.rq
      s3 == IF s2.hang THEN s2 ELSE CleanZombies(s2, s2.pl, WalkBound)
  IN  IF s3.hang THEN s3
      ELSE IF np # NIL
      THEN [RemoveFromReadyQueue(s3, np) EXCEPT !.st[np] = RUNNING, !.cur = np]
      ELSE [s3 EXCEPT !.cur = NIL]

\* Every call of process_schedule counts a tick, within the bound.
CanSchedule == ticks < MaxTicks

(***************************************************************************)
(* process_init(): init, pid 1, RUNNING and current, alone on            *)
(* process_list; next_pid is left at 1.                                    *)
(***************************************************************************)
Init ==
  /\ st = [o \in Obj |-> IF o = INIT THEN RUNNING ELSE UNALLOC]
  /\ pid = [o \in Obj |-> IF o = INIT THEN 1 ELSE 0]
  /\ nx = [o \in Obj |-> NIL] /\ pv = [o \in Obj |-> NIL]
  /\ pl = INIT /\ rq = NIL /\ cur = INIT
  /\ nextPid = 1 /\ ticks = 0 /\ lastSched = 0
  /\ alloc = 1 /\ freed = {} /\ hang = FALSE

\* Mutant: the allocation count is advanced one past the new object.
ProcessCreateOffByOne ==
  /\ ~hang /\ alloc < MaxObjs
  /\ LET o == alloc + 1
         pv1 == IF pl # NIL THEN [pv EXCEPT ![pl] = o] ELSE pv
         s1 == [S EXCEPT !.st[o] = READY, !.nx[o] = pl, !.pv = [pv1 EXCEPT ![o] = NIL],
                         !.pl = o]
     IN  /\ Apply(AddToReadyQueue(s1, o))
         /\ pid' = [pid EXCEPT ![o] = nextPid]
         /\ nextPid' = nextPid + 1
         /\ alloc' = o + 1
  /\ UNCHANGED lastSched

(***************************************************************************)
(* process_create(): a new struct gets pid next_pid++, state READY, is    *)
(* pushed at the head of process_list, then put on the ready queue.       *)
(***************************************************************************)
ProcessCreate ==
  /\ ~hang /\ alloc < MaxObjs
  /\ LET o == alloc + 1
         pv1 == IF pl # NIL THEN [pv EXCEPT ![pl] = o] ELSE pv
         s1 == [S EXCEPT !.st[o] = READY, !.nx[o] = pl, !.pv = [pv1 EXCEPT ![o] = NIL],
                         !.pl = o]
     IN  /\ Apply(AddToReadyQueue(s1, o))
         /\ pid' = [pid EXCEPT ![o] = nextPid]
         /\ nextPid' = nextPid + 1
         /\ alloc' = o
  /\ UNCHANGED lastSched

(***************************************************************************)
(* process_destroy(pid): find it; unlink it from the ready queue if       *)
(* READY and from process_list; kfree it; if it was current, clear        *)
(* current and call process_schedule().  Not found: -1, nothing changes.  *)
(***************************************************************************)
ProcessDestroy(x) ==
  /\ ~hang
  /\ LET p == FindByPid(S, x)
         s1 == IF p > 0 /\ st[p] = READY THEN RemoveFromReadyQueue(S, p) ELSE S
         s2 == [RemoveFromProcessList(s1, p) EXCEPT !.freed = @ \cup {p}]
     IN  /\ p # NIL
         /\ p = cur => CanSchedule
         /\ Apply(IF p < 0 THEN Hung(S)
                  ELSE IF p = cur THEN ProcessSchedule([s2 EXCEPT !.cur = NIL])
                  ELSE s2)
  /\ UNCHANGED <<pid, nextPid, lastSched, alloc>>

(***************************************************************************)
(* process_exit(): the current process becomes a ZOMBIE and              *)
(* process_schedule() runs.  With no current process it returns.          *)
(***************************************************************************)
ProcessExit ==
  /\ ~hang /\ cur # NIL /\ CanSchedule
  /\ Apply(ProcessSchedule([S EXCEPT !.st[cur] = ZOMBIE]))
  /\ UNCHANGED <<pid, nextPid, lastSched, alloc>>

(***************************************************************************)
(* scheduler_timer_interrupt(): once scheduler_ticks is Quantum past the  *)
(* last preemption, record it and call process_schedule() (cpu_time is    *)
(* not modelled).  Otherwise the interrupt changes nothing.                *)
(***************************************************************************)
TimerInterrupt ==
  /\ ~hang /\ CanSchedule
  /\ ticks - lastSched >= Quantum
  /\ lastSched' = ticks
  /\ Apply(ProcessSchedule(S))
  /\ UNCHANGED <<pid, nextPid, alloc>>

(***************************************************************************)
(* sys_kill(pid) of syscalls.c: find the process (through process.c's     *)
(* process_find_by_pid) and set it TERMINATED; nothing is unlinked.  Not  *)
(* found: -ESRCH.                                                          *)
(***************************************************************************)
SysKill(x) ==
  /\ ~hang
  /\ LET p == FindByPid(S, x)
     IN  /\ p # NIL
         /\ IF p < 0 THEN Apply(Hung(S))
            ELSE /\ st' = [st EXCEPT ![p] = TERMINATED]
                 /\ UNCHANGED <<nx, pv, pl, rq, cur, ticks, freed, hang>>
  /\ UNCHANGED <<pid, nextPid, lastSched, alloc>>

Next ==
  \/ ProcessCreate
  \/ \E x \in Pids : ProcessDestroy(x)
  \/ ProcessExit
  \/ TimerInterrupt
  \/ \E x \in Pids : SysKill(x)

\* The timer interrupt keeps arriving.
Spec == Init /\ [][Next]_vars /\ WF_vars(TimerInterrupt)

-----------------------------------------------------------------------------
(***************************************************************************)
(* Properties.                                                             *)
(***************************************************************************)
RECURSIVE Chain(_, _, _)
Chain(x, n, k) == IF x = NIL \/ k = 0 THEN <<>> ELSE <<x>> \o Chain(n[x], n, k - 1)

ProcessList == Chain(pl, nx, MaxObjs + 1)
OnList(o, L) == \E k \in 1 .. Len(L) : L[k] = o

\* Allocated, not kfree'd, and not terminated.
Alive == {o \in Obj : st[o] \notin {UNALLOC, TERMINATED} /\ o \notin freed}

\* No list walk of process_schedule, process_find_by_pid or
\* add_to_ready_queue loops forever.
NoHang == ~hang

\* Spec 4.3: pids are unique -- process_create never hands out the pid of
\* a process that is still on the system.
PidsUnique == \A o1, o2 \in Alive : o1 # o2 => pid[o1] # pid[o2]

\* Every live process stays reachable from process_list, so
\* process_find_by_pid (and with it sys_kill and process_destroy) finds it.
ProcessListComplete == \A o \in Alive : OnList(o, ProcessList)

\* Spec 8.4: at most one process is RUNNING, and it is current_process.
RunningIsCurrent == \A o \in Obj : st[o] = RUNNING /\ o \notin freed => o = cur

\* A process sys_kill terminated never runs again.
KilledStaysDead == [][\A o \in Obj : st[o] = TERMINATED => st'[o] # RUNNING]_vars

\* Spec 4.3: the timer tick takes the CPU from the running process, so a
\* READY process eventually runs.
ReadyEventuallyRuns == \A o \in Obj : (st[o] = READY /\ o \notin freed) ~> (st[o] # READY \/ o \in freed)

\* Exit is final: no step makes a ZOMBIE RUNNING, and the process_schedule
\* that process_exit runs never dispatches the process that is exiting
\* (the dispatch happens inside the same step, so a ZOMBIE state alone
\* would not show it).
ExitIsFinal ==
  [][\A o \in Obj : (st[o] = ZOMBIE \/ (ProcessExit /\ o = cur)) => st'[o] # RUNNING]_vars

=============================================================================
