----------------------------- MODULE Scheduler -----------------------------
(***************************************************************************)
(* The process scheduler that kernel_main boots (src/kernel/sched/        *)
(* scheduler.c): a fixed table of PCB slots, an intrusive doubly-linked    *)
(* ready queue, schedule(), create_process() and terminate_process().      *)
(*                                                                         *)
(* A slot's state, pid and security level are functions of the slot       *)
(* index; the ready queue is kept as the C code keeps it, a head pointer   *)
(* plus next/prev pointers per slot, so that a stale or cleared pointer    *)
(* has the effect it has in the code.  Register save/restore, stacks,      *)
(* names, the process tree links (never read) and the context-switch      *)
(* counter (never read) are left out.                                      *)
(***************************************************************************)
EXTENDS Integers, Sequences, FiniteSets, FiniteSetsExt

CONSTANTS
  NSlots,     \* size of sched_state.process_table (256 in the code)
  MaxPid,     \* bound on sched_state.next_pid: at most MaxPid pids are issued
  Levels,     \* security levels create_process may be called with
  Victims,    \* pids terminate_process may be called with
  StatMod,    \* 2^64: total_processes is a uint64_t
  NIL         \* the NULL pointer

ASSUME NSlots \in Nat /\ NSlots >= 2
ASSUME MaxPid \in Nat /\ MaxPid >= 1
ASSUME Levels \subseteq 0..4
ASSUME Victims \subseteq 0 .. MaxPid

Slot == 0 .. NSlots - 1
PENTAGON == 4

\* enum proc_state
RUNNING == "RUNNING"
READY   == "READY"
BLOCKED == "BLOCKED"
ZOMBIE  == "ZOMBIE"
DEAD    == "DEAD"
States  == {RUNNING, READY, BLOCKED, ZOMBIE, DEAD}

VARIABLES
  state,    \* process_table[i].state
  pid,      \* process_table[i].pid
  sec,      \* process_table[i].sec_level
  head,     \* sched_state.ready_queue
  next,     \* process_table[i].next
  prev,     \* process_table[i].prev
  current,  \* current_process (a slot, or NIL)
  nextPid,  \* sched_state.next_pid
  total     \* sched_state.total_processes

vars == <<state, pid, sec, head, next, prev, current, nextPid, total>>

Ptr == Slot \cup {NIL}

TypeOK ==
  /\ state \in [Slot -> States]
  /\ pid \in [Slot -> 0 .. MaxPid + 1]
  /\ sec \in [Slot -> 0..4]
  /\ head \in Ptr
  /\ next \in [Slot -> Ptr]
  /\ prev \in [Slot -> Ptr]
  /\ current \in Ptr
  /\ nextPid \in 1 .. MaxPid + 1
  /\ total \in 0 .. StatMod - 1

(***************************************************************************)
(* Ready-queue list surgery.  A queue is a record [h, n, p] of the head    *)
(* and the next/prev arrays, so that several list operations of one C      *)
(* function compose in the order the code performs them.                  *)
(***************************************************************************)
Q == [h |-> head, n |-> next, p |-> prev]

\* Mutation: add_to_ready_queue that forgets `ready_queue->prev = proc`.
PushFrontNoBackLink(q, x) ==
  [h |-> x, n |-> [q.n EXCEPT ![x] = q.h], p |-> [q.p EXCEPT ![x] = NIL]]

\* add_to_ready_queue without its state assignment: push at the head.
PushFront(q, x) ==
  [h |-> x,
   n |-> [q.n EXCEPT ![x] = q.h],
   p |-> IF q.h # NIL THEN [q.p EXCEPT ![x] = NIL, ![q.h] = x]
                      ELSE [q.p EXCEPT ![x] = NIL]]

\* remove_from_ready_queue: relink the neighbours the node's own pointers
\* name, then clear them.  A node that is not on the list but has
\* prev = NULL therefore overwrites the head with its own next pointer.
Unlink(q, x) ==
  LET n1 == IF q.p[x] # NIL THEN [q.n EXCEPT ![q.p[x]] = q.n[x]] ELSE q.n
      h1 == IF q.p[x] # NIL THEN q.h ELSE q.n[x]
      p1 == IF q.n[x] # NIL THEN [q.p EXCEPT ![q.n[x]] = q.p[x]] ELSE q.p
  IN  [h |-> h1, n |-> [n1 EXCEPT ![x] = NIL], p |-> [p1 EXCEPT ![x] = NIL]]

SetQ(q) == head' = q.h /\ next' = q.n /\ prev' = q.p

\* security_check(src, dest, op): Bell-LaPadula, op 0 = read, 1 = write.
SecurityCheck(src, dst, op) ==
  IF op = 0 THEN sec[src] >= sec[dst] ELSE sec[src] <= sec[dst]

\* get_process(pid): the first non-DEAD slot carrying the pid, or NIL.
GetProcess(p) ==
  LET S == {i \in Slot : pid[i] = p /\ state[i] # DEAD}
  IN  IF S = {} THEN NIL ELSE Min(S)

(***************************************************************************)
(* scheduler_init: every slot DEAD, slot 0 becomes the idle process        *)
(* (pid 0, RUNNING, PENTAGON, current), then create_process("init",        *)
(* PENTAGON) takes slot 1 with pid 1 and pushes it on the ready queue.     *)
(***************************************************************************)
Init ==
  /\ state = [i \in Slot |-> IF i = 0 THEN RUNNING ELSE IF i = 1 THEN READY ELSE DEAD]
  /\ pid = [i \in Slot |-> IF i = 1 THEN 1 ELSE 0]
  /\ sec = [i \in Slot |-> IF i \in {0, 1} THEN PENTAGON ELSE 0]
  /\ head = 1
  /\ next = [i \in Slot |-> NIL]
  /\ prev = [i \in Slot |-> NIL]
  /\ current = 0
  /\ nextPid = 2
  /\ total = 1

(***************************************************************************)
(* schedule(), as a state transformer so that terminate_process can run it *)
(* after its own updates.  It returns unchanged when the queue is empty or *)
(* when the read check of current against the queue head fails; otherwise *)
(* it unlinks the head, re-queues a RUNNING current, and context_switch    *)
(* makes the head current -- unless current is NULL, in which case        *)
(* context_switch returns at once and the unlinked head runs nowhere.     *)
(***************************************************************************)
\* Mutation: a context switch that never demotes the outgoing process.
ScheduleFromNoDemote(st, q, cur) ==
  IF q.h = NIL \/ (cur # NIL /\ ~SecurityCheck(cur, q.h, 0))
  THEN [st |-> st, q |-> q, cur |-> cur]
  ELSE LET nx == q.h
           q1 == Unlink(q, nx)
           q2 == IF cur # NIL /\ st[cur] = RUNNING THEN PushFront(q1, cur) ELSE q1
       IN  IF cur = NIL THEN [st |-> st, q |-> q2, cur |-> cur]
           ELSE [st |-> [st EXCEPT ![nx] = RUNNING], q |-> q2, cur |-> nx]

ScheduleFrom(st, q, cur) ==
  IF q.h = NIL \/ (cur # NIL /\ ~SecurityCheck(cur, q.h, 0))
  THEN [st |-> st, q |-> q, cur |-> cur]
  ELSE LET nx == q.h
           q1 == Unlink(q, nx)
           requeue == cur # NIL /\ st[cur] = RUNNING
           q2 == IF requeue THEN PushFront(q1, cur) ELSE q1
           st1 == IF requeue THEN [st EXCEPT ![cur] = READY] ELSE st
       IN  IF cur = NIL
           THEN [st |-> st1, q |-> q2, cur |-> cur]
           ELSE [st |-> [st1 EXCEPT ![cur] = READY, ![nx] = RUNNING],
                 q |-> q2, cur |-> nx]

\* schedule() called with a process current.  schedule() is exported but its
\* only caller in the tree is terminate_process (line 371), after it has
\* cleared current_process; this action over-approximates a further caller
\* (the spec's timer tick) so that the re-queueing path of schedule() and
\* context_switch is checked for safety too.
Schedule ==
  LET r == ScheduleFrom(state, Q, current)
  IN  /\ state' = r.st
      /\ SetQ(r.q)
      /\ current' = r.cur
      /\ UNCHANGED <<pid, sec, nextPid, total>>

(***************************************************************************)
(* create_process(name, lvl, privileged): alloc_process takes the lowest  *)
(* DEAD slot and zeroes it; the new PCB gets the next pid, READY and lvl,  *)
(* and is pushed at the head of the ready queue.  When no slot is DEAD    *)
(* the call returns NULL and changes nothing.                              *)
(***************************************************************************)
\* Mutation: the pid is read from next_pid without the increment.
CreateProcessSamePid(lvl) ==
  /\ nextPid <= MaxPid
  /\ \E i \in Slot : state[i] = DEAD
  /\ LET s == Min({i \in Slot : state[i] = DEAD})
     IN  /\ state' = [state EXCEPT ![s] = READY]
         /\ pid' = [pid EXCEPT ![s] = nextPid]
         /\ sec' = [sec EXCEPT ![s] = lvl]
         /\ SetQ(PushFront([h |-> head, n |-> [next EXCEPT ![s] = NIL],
                             p |-> [prev EXCEPT ![s] = NIL]], s))
  /\ UNCHANGED <<nextPid, current>>
  /\ total' = (total + 1) % StatMod

CreateProcess(lvl) ==
  /\ nextPid <= MaxPid
  /\ \E i \in Slot : state[i] = DEAD
  /\ LET s == Min({i \in Slot : state[i] = DEAD})
         q0 == [h |-> head, n |-> [next EXCEPT ![s] = NIL],
                p |-> [prev EXCEPT ![s] = NIL]]
     IN  /\ state' = [state EXCEPT ![s] = READY]
         /\ pid' = [pid EXCEPT ![s] = nextPid]
         /\ sec' = [sec EXCEPT ![s] = lvl]
         /\ SetQ(PushFront(q0, s))
  /\ nextPid' = nextPid + 1
  /\ total' = (total + 1) % StatMod
  /\ UNCHANGED current

(***************************************************************************)
(* terminate_process(p): look the pid up; refuse unless current may       *)
(* "write" the target; unlink it if READY; mark it DEAD and decrement      *)
(* total_processes; if it was current, clear current and call schedule().  *)
(***************************************************************************)
\* Mutation: total_processes decremented as a signed integer.
TerminateProcessSigned(p) ==
  LET t == GetProcess(p) IN
  /\ t # NIL
  /\ current # NIL => SecurityCheck(current, t, 1)
  /\ LET q1 == IF state[t] = READY THEN Unlink(Q, t) ELSE Q
         st1 == [state EXCEPT ![t] = DEAD]
         r == IF t = current THEN ScheduleFrom(st1, q1, NIL)
                             ELSE [st |-> st1, q |-> q1, cur |-> current]
     IN  state' = r.st /\ SetQ(r.q) /\ current' = r.cur
  /\ total' = total - 1
  /\ UNCHANGED <<pid, sec, nextPid>>

\* Mutation: terminating the current process without clearing current.
TerminateProcessKeepCurrent(p) ==
  LET t == GetProcess(p) IN
  /\ t # NIL
  /\ current # NIL => SecurityCheck(current, t, 1)
  /\ state' = [state EXCEPT ![t] = DEAD]
  /\ SetQ(IF state[t] = READY THEN Unlink(Q, t) ELSE Q)
  /\ total' = (total - 1) % StatMod
  /\ UNCHANGED <<pid, sec, nextPid, current>>

TerminateProcess(p) ==
  LET t == GetProcess(p) IN
  /\ t # NIL
  /\ current # NIL => SecurityCheck(current, t, 1)
  /\ LET q1 == IF state[t] = READY THEN Unlink(Q, t) ELSE Q
         st1 == [state EXCEPT ![t] = DEAD]
         r == IF t = current THEN ScheduleFrom(st1, q1, NIL)
                             ELSE [st |-> st1, q |-> q1, cur |-> current]
     IN  /\ state' = r.st
         /\ SetQ(r.q)
         /\ current' = r.cur
  /\ total' = (total - 1) % StatMod
  /\ UNCHANGED <<pid, sec, nextPid>>

Next ==
  \/ Schedule
  \/ \E l \in Levels : CreateProcess(l)
  \/ \E p \in Victims : TerminateProcess(p)

\* No step is fair: nothing in the tree calls schedule() on its own, and
\* creation and termination are requests callers may never make.
Spec == Init /\ [][Next]_vars

-----------------------------------------------------------------------------
(***************************************************************************)
(* Views of the ready queue used by the properties.                        *)
(***************************************************************************)
RECURSIVE WalkFrom(_, _, _)
WalkFrom(x, n, k) == IF x = NIL \/ k = 0 THEN <<>> ELSE <<x>> \o WalkFrom(n[x], n, k - 1)

\* The slots reachable from the head, cut off after NSlots + 1 steps.
ReadyList == WalkFrom(head, next, NSlots + 1)
InReadyList(i) == \E k \in 1 .. Len(ReadyList) : ReadyList[k] = i
Live == {i \in Slot : state[i] # DEAD}


-----------------------------------------------------------------------------
(***************************************************************************)
(* Properties.                                                             *)
(***************************************************************************)

\* The ready queue reachable from sched_state.ready_queue is a proper
\* doubly-linked list (no cycle, head has no prev, every prev pointer
\* mirrors a next pointer) holding only READY processes other than the
\* current one.  Breaking it takes a remove_from_ready_queue or
\* add_to_ready_queue that leaves a stale pointer behind.
ReadyQueueWellFormed ==
  LET L == ReadyList IN
  /\ Len(L) <= NSlots
  /\ \A a, b \in 1 .. Len(L) : a # b => L[a] # L[b]
  /\ head # NIL => prev[head] = NIL
  /\ \A k \in 1 .. Len(L) - 1 : prev[L[k + 1]] = L[k]
  /\ \A k \in 1 .. Len(L) : state[L[k]] = READY /\ L[k] # current

\* Spec invariant 4: exactly the current process is RUNNING, and no
\* process is RUNNING while current_process is NULL.
RunningIsCurrent ==
  {i \in Slot : state[i] = RUNNING} = IF current = NIL THEN {} ELSE {current}

\* Spec: "PIDs are monotonically increasing" -- no two live PCBs share a pid.
PidsUnique == \A i, j \in Live : i # j => pid[i] # pid[j]

\* Spec 4.3: a READY PCB is on the ready queue (it is "placed back" there);
\* a READY process that is on no queue is never picked again.
NoLostProcess == \A i \in Slot : state[i] = READY => InReadyList(i)

\* The scheduler implements the abstract life cycle of spec 4.3: a pid is
\* UNUSED until create_process hands it out, then has its slot's state
\* while a live slot carries it, and is DEAD once no live slot does.
AbsState ==
  [p \in 0 .. MaxPid |->
     IF GetProcess(p) # NIL THEN state[GetProcess(p)]
     ELSE IF p < nextPid THEN "DEAD" ELSE "UNUSED"]

Lifecycle == INSTANCE ProcessLifecycle WITH Pid <- 0 .. MaxPid, pstate <- AbsState

LifecycleRefined == Lifecycle!Spec

\* Statistics: total_processes counts the live processes other than idle
\* (pid 0).
TotalProcessesAccurate == total = Cardinality({i \in Live : pid[i] # 0})

=============================================================================
