---------------------------- MODULE KernelFiles ----------------------------
(***************************************************************************)
(* The process manager and the system-call file table together: the      *)
(* process that makes a system call is process.c's current_process, the  *)
(* one that is RUNNING; it calls open, close, read and write on the one   *)
(* global file_table while the timer, exit, destroy and kill move the     *)
(* CPU between processes.  process_destroy's "close all open files" loop  *)
(* and process_exit touch only the process's own open_files array, which *)
(* sys_open never sets, so neither changes the table.                     *)
(***************************************************************************)
EXTENDS ProcessManager, FileTable

kVars == <<vars, ftVars>>

KInit == Init /\ FtInit

\* A step of the process manager leaves the table alone; a system call of
\* the running process leaves the process manager alone.
KNext ==
  \/ Next /\ UNCHANGED ftVars
  \/ /\ ~hang /\ cur # NIL /\ st[cur] = RUNNING
     /\ FtNext(cur)
     /\ UNCHANGED vars

KSpec == KInit /\ [][KNext]_kVars

-----------------------------------------------------------------------------
KTypeOK == TypeOK /\ FtTypeOK

\* A descriptor sys_open returned to a process keeps naming that open
\* until the process closes it or is reaped (spec: the process table of a
\* PCB exclusively owns the slot index).  With the timer never preempting
\* (scheduler_ticks), another process runs only once this one has exited.
FdsStayWithOpener ==
  \A o \in Alive : \A h \in held[o] : gen[h[1]] = h[2]

\* Every open entry belongs to a process that is still alive: a process
\* that exits or is destroyed has had its files closed.
NoOrphanOpenFiles ==
  \A f \in Fd : ftab[f].ino # NULL =>
    \E o \in Alive : \E h \in held[o] : h = <<f, gen[f]>>

=============================================================================
