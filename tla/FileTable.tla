----------------------------- MODULE FileTable -----------------------------
(***************************************************************************)
(* The global file table of src/kernel/core/syscalls.c and the system     *)
(* calls that use it -- sys_open, sys_close, sys_read, sys_write -- as     *)
(* syscall_handler dispatches them.                                        *)
(*                                                                         *)
(* syscalls.c's current_process is never assigned, so the dispatcher's    *)
(* security validation and audit are skipped and open/close never touch  *)
(* a process's open_files.  The table is one array for every process;     *)
(* the caller of each call is an argument that only the ghost `held`      *)
(* records.  fs_get_inode, fs_create_file, fs_read_inode and              *)
(* fs_write_inode are declared in system.h and defined nowhere: their     *)
(* results are inputs.  fs_get_inode(0) is the only inode ever asked for, *)
(* so an entry's inode is Ino or NULL.                                     *)
(***************************************************************************)
EXTENDS Integers

CONSTANTS
  NFds,         \* MAX_OPEN_FILES (256 in the code)
  Procs,        \* the processes that may make a call
  OpenFlags,    \* open flags callers pass
  Counts,       \* byte counts callers pass to read and write
  MaxOff,       \* bound on a file offset
  MaxGen,       \* bound on the number of opens (ghost)
  Ino,          \* the inode fs_get_inode(0) returns
  NULL

Fd == 0 .. NFds - 1
STDOUT == 1
STDERR == 2
FIRST_FD == 3          \* sys_open skips 0, 1, 2

VARIABLES
  ftab,         \* file_table[fd]: inode, offset, flags, ref_count
  gen,          \* (ghost) which open each entry belongs to, 0 for none
  nextGen,      \* (ghost) opens so far + 1
  held          \* (ghost) the <<fd, open>> pairs each process obtained

ftVars == <<ftab, gen, nextGen, held>>

Entry == [ino : {Ino, NULL}, off : 0 .. MaxOff, flags : OpenFlags \cup {0}, rc : 0 .. 1]

Closed == [ino |-> NULL, off |-> 0, flags |-> 0, rc |-> 0]

FtTypeOK ==
  /\ ftab \in [Fd -> Entry]
  /\ gen \in [Fd -> 0 .. MaxGen]
  /\ nextGen \in 1 .. MaxGen + 1
  /\ held \in [Procs -> SUBSET (Fd \X (1 .. MaxGen))]

\* syscall_init: every entry cleared.
FtInit ==
  /\ ftab = [f \in Fd |-> Closed]
  /\ gen = [f \in Fd |-> 0]
  /\ nextGen = 1
  /\ held = [p \in Procs |-> {}]

\* Mutant: the scan takes the first descriptor from 3 up, free or not.
FreeFdAny ==
  IF \E f \in FIRST_FD .. NFds - 1 : ftab[f].ino = NULL THEN FIRST_FD ELSE -1

\* The lowest free descriptor from 3 up, or -1 (EMFILE).
FreeFd ==
  IF \E f \in FIRST_FD .. NFds - 1 : ftab[f].ino = NULL
  THEN CHOOSE f \in FIRST_FD .. NFds - 1 :
         ftab[f].ino = NULL /\ \A g \in FIRST_FD .. f - 1 : ftab[g].ino # NULL
  ELSE -1

(***************************************************************************)
(* sys_open(path, flags): a free descriptor; fs_get_inode(0), and with    *)
(* O_CREAT fs_create_file and fs_get_inode(0) again -- either way the     *)
(* call ends with Ino or fails with ENOENT; fill the entry with offset 0  *)
(* and ref_count 1.                                                        *)
(***************************************************************************)
SysOpen(p, fl) ==
  /\ FreeFd # -1
  /\ nextGen <= MaxGen
  /\ LET f == FreeFd IN
     /\ ftab' = [ftab EXCEPT ![f] = [ino |-> Ino, off |-> 0, flags |-> fl, rc |-> 1]]
     /\ gen' = [gen EXCEPT ![f] = nextGen]
     /\ held' = [held EXCEPT ![p] = @ \cup {<<f, nextGen>>}]
  /\ nextGen' = nextGen + 1

\* Mutant: the EBADF test on the inode is dropped.
SysCloseNoBadf(p, f) ==
  /\ f \in Fd
  /\ ftab' = [ftab EXCEPT ![f] = IF ftab[f].rc - 1 = 0 THEN Closed
                                 ELSE [@ EXCEPT !.rc = @ - 1]]
  /\ gen' = [gen EXCEPT ![f] = IF ftab[f].rc - 1 = 0 THEN 0 ELSE @]
  /\ held' = [held EXCEPT ![p] = {h \in @ : h[1] # f}]
  /\ UNCHANGED nextGen

(***************************************************************************)
(* sys_close(fd): EBADF unless the entry has an inode; ref_count--, and   *)
(* at 0 the entry is cleared.  Whoever calls it, the entry goes.          *)
(***************************************************************************)
SysClose(p, f) ==
  /\ f \in Fd /\ ftab[f].ino # NULL
  /\ ftab' = [ftab EXCEPT ![f] = IF ftab[f].rc - 1 = 0 THEN Closed
                                 ELSE [@ EXCEPT !.rc = @ - 1]]
  /\ gen' = [gen EXCEPT ![f] = IF ftab[f].rc - 1 = 0 THEN 0 ELSE @]
  /\ held' = [held EXCEPT ![p] = {h \in @ : h[1] # f}]
  /\ UNCHANGED nextGen

\* Advance the offset by what the driver reported, if positive.
Advance(f, r) ==
  /\ ftab[f].off + r <= MaxOff
  /\ ftab' = [ftab EXCEPT ![f].off = @ + r]

(***************************************************************************)
(* sys_read(fd, buf, count): EBADF without an inode; fs_read_inode        *)
(* reports an error, 0, or up to count bytes; the offset advances by a    *)
(* positive result.  No flag is consulted.                                 *)
(***************************************************************************)
SysRead(p, f, n) ==
  /\ f \in Fd /\ ftab[f].ino # NULL
  /\ \E r \in 1 .. n : Advance(f, r)
  /\ UNCHANGED <<gen, nextGen, held>>

\* sys_write(fd, buf, count): fd 1 and 2 go to the console whatever the
\* table says; otherwise as sys_read with fs_write_inode.
SysWrite(p, f, n) ==
  /\ f \in Fd \ {STDOUT, STDERR} /\ ftab[f].ino # NULL
  /\ \E r \in 1 .. n : Advance(f, r)
  /\ UNCHANGED <<gen, nextGen, held>>

\* syscall_handler for process p's open, close, read and write: syscalls.c's
\* own current_process is NULL, so the security validation and the audit
\* are skipped, the four numbers pass the bounds check, and the call goes
\* through syscall_table to the handler.
FtNext(p) ==
  \/ \E fl \in OpenFlags : SysOpen(p, fl)
  \/ \E f \in Fd : SysClose(p, f)
  \/ \E f \in Fd, n \in Counts : SysRead(p, f, n)
  \/ \E f \in Fd, n \in Counts : SysWrite(p, f, n)

====
