-------------------------------- MODULE Vfs --------------------------------
(***************************************************************************)
(* The mount table and open-file handles of src/kernel/fs/vfs.c:          *)
(* vfs_register_filesystem, vfs_mount, vfs_unmount, vfs_open and          *)
(* vfs_close, vfs_mkdir and vfs_rmdir, with find_mount_point,            *)
(* resolve_path and check_path_security.                                   *)
(*                                                                         *)
(* Paths are sequences of characters.  A directory name the security gate *)
(* looks for ("secret", "system", ...) is one character of the alphabet,  *)
(* so strstr(path, "/secret/") is a search for a three-character          *)
(* sub-sequence; strncmp / strcmp compare the sequences.                   *)
(*                                                                         *)
(* vfs.c reads a `current_process` that no header declares; the caller of *)
(* each operation is therefore an input: KERNEL (NULL) or a record of the *)
(* caller's security_level and uid.  kmalloc panics instead of returning  *)
(* NULL, so its failure branches are unreachable.  A driver operation     *)
(* (mount, get_super, unmount, open) may fail; a failed call changes      *)
(* nothing, so only the successful outcome is a step.  get_super(device)  *)
(* returns the device's super block: two mounts of one device share it.   *)
(***************************************************************************)
EXTENDS Integers, Sequences, SequencesExt

CONSTANTS
  FsTypes,      \* names of file-system drivers
  Devs,         \* devices; a device names its super block
  MountPaths,   \* mount-point paths callers pass
  OpenPaths,    \* paths callers open
  DirPaths,     \* paths callers pass to mkdir and rmdir
  Callers,      \* processes: [lvl |-> security_level, uid |-> uid]
  KERNEL,       \* current_process == NULL
  NULL,         \* the NULL super-block pointer
  MaxFs,        \* MAX_FILESYSTEMS (32 in the code)
  Classified,   \* the needles "/classified/", "/secret/", "/pentagon/"
  SystemDir     \* the needle "/system/"

Root == <<"/">>
SECRET == 2           \* classification SECRET (spec 3)
RD == 1               \* open flag 0x01
WR == 2               \* open flag 0x02

VARIABLES
  registered,   \* registered_filesystems[0 .. MaxFs-1], filled in order
  mounts,       \* the mount_points list, head first: [path, sb]
  rootSb,       \* root_sb
  files,        \* every struct file vfs_open returned, in order: its sb,
                \* ref_count and flags, and (ghost) the path and caller
  lastDirOp     \* (ghost) the mkdir / rmdir call the last step handed to
                \* a driver, NoDirOp after any other step

vars == <<registered, mounts, rootSb, files, lastDirOp>>

Caller == Callers \cup {KERNEL}
Flags == {RD, WR, RD + WR}

NoDirOp == [op |-> "none"]

TypeOK ==
  /\ registered \in Seq(FsTypes) /\ Len(registered) <= MaxFs
  /\ mounts \in Seq([path : MountPaths, sb : Devs])
  /\ rootSb \in Devs \cup {NULL}
  /\ files \in Seq([sb : Devs, rc : {0, 1}, flags : Flags,
                    path : OpenPaths, by : Caller])
  /\ lastDirOp \in [op : {"mkdir", "rmdir"}, path : DirPaths, by : Caller] \cup {NoDirOp}

\* strstr(p, n) != NULL: n occurs in p at some position.
StrStr(p, n) == \E i \in 0 .. Len(p) - Len(n) : SubSeq(p, i + 1, i + Len(n)) = n

\* The character at position i of a C string: NUL past its end.
CharAt(s, i) == IF i <= Len(s) THEN s[i] ELSE "NUL"

\* strncmp(s1 + i - 1, s2 + i - 1, n) == 0: advance while n is left, s1
\* has a character and both agree; 0 when n ran out, else the two
\* characters where the walk stopped are compared.
RECURSIVE StrncmpZero(_, _, _, _)
StrncmpZero(s1, s2, i, n) ==
  IF n = 0 THEN TRUE
  ELSE IF CharAt(s1, i) # "NUL" /\ CharAt(s1, i) = CharAt(s2, i)
       THEN StrncmpZero(s1, s2, i + 1, n - 1)
       ELSE CharAt(s1, i) = CharAt(s2, i)

(***************************************************************************)
(* check_path_security(path, operation) = 0.                               *)
(***************************************************************************)
\* Mutant: the clearance test is dropped.
CheckPathSecurityNoLevel(c, p, op) ==
  IF c = KERNEL THEN TRUE
  ELSE (op % 4) \div 2 = 1 => (StrStr(p, SystemDir) => c.uid = 0)

CheckPathSecurity(c, p, op) ==
  IF c = KERNEL THEN TRUE
  ELSE /\ c.lvl < 2 => \A n \in Classified : ~StrStr(p, n)
       /\ (op % 4) \div 2 = 1 => (StrStr(p, SystemDir) => c.uid = 0)

(***************************************************************************)
(* find_mount_point(path): walk the list from the head, keeping the first *)
(* mount with strncmp(path, mp->path, strlen(mp->path)) == 0 and longer  *)
(* than the best so far; when none matches return the list head if root  *)
(* is set.  The result is an index into mounts, 0 for NULL.               *)
(***************************************************************************)
\* Mutant: ties keep the later (older) mount.
RECURSIVE FindFromOldest(_, _, _, _)
FindFromOldest(p, k, best, bestLen) ==
  IF k > Len(mounts) THEN best
  ELSE LET l == Len(mounts[k].path) IN
       IF StrncmpZero(p, mounts[k].path, 1, l) /\ l >= bestLen
       THEN FindFromOldest(p, k + 1, k, l) ELSE FindFromOldest(p, k + 1, best, bestLen)

RECURSIVE FindFrom(_, _, _, _)
FindFrom(p, k, best, bestLen) ==
  IF k > Len(mounts) THEN best
  ELSE LET l == Len(mounts[k].path) IN
       IF StrncmpZero(p, mounts[k].path, 1, l) /\ l > bestLen
       THEN FindFrom(p, k + 1, k, l) ELSE FindFrom(p, k + 1, best, bestLen)

FindMountPoint(p) ==
  LET b == FindFrom(p, 1, 0, 0) IN
  IF b # 0 THEN b ELSE IF rootSb # NULL /\ mounts # <<>> THEN 1 ELSE 0

(***************************************************************************)
(* vfs_init: empty registry, no mounts, no root.                           *)
(***************************************************************************)
Init ==
  /\ registered = <<>>
  /\ mounts = <<>>
  /\ rootSb = NULL
  /\ files = <<>>
  /\ lastDirOp = NoDirOp

\* vfs_register_filesystem: the first free slot, or -1 when all are taken.
RegisterFilesystem(fs) ==
  /\ Len(registered) < MaxFs
  /\ registered' = Append(registered, fs)
  /\ UNCHANGED <<mounts, rootSb, files>> /\ lastDirOp' = NoDirOp

\* Mutant: the get_super NULL check is dropped, so a mount may record NULL.
VfsMountNoSbCheck(c, d, fs, p) ==
  /\ fs \in ToSet(registered)
  /\ CheckPathSecurity(c, p, WR)
  /\ \E sb \in {d, NULL} :
       /\ mounts' = <<[path |-> p, sb |-> sb]>> \o mounts
       /\ rootSb' = IF p = Root THEN sb ELSE rootSb
  /\ UNCHANGED <<registered, files>> /\ lastDirOp' = NoDirOp

\* vfs_mount: known driver, write-permitted mount point, then push the
\* new mount point at the head; mounting "/" sets root_sb.
VfsMount(c, d, fs, p) ==
  /\ fs \in ToSet(registered)
  /\ CheckPathSecurity(c, p, WR)
  /\ mounts' = <<[path |-> p, sb |-> d]>> \o mounts
  /\ rootSb' = IF p = Root THEN d ELSE rootSb
  /\ UNCHANGED <<registered, files>> /\ lastDirOp' = NoDirOp

\* Mutant: unmount leaves root_sb alone.
UnmountKeepRoot(k) == rootSb

UnmountRoot(k) == IF mounts[k].sb = rootSb THEN NULL ELSE rootSb

\* vfs_unmount: the first (newest) mount with this path; security check;
\* unlink it; clear root_sb if its super block is root's.
VfsUnmount(c, p) ==
  /\ \E k \in 1 .. Len(mounts) : mounts[k].path = p
  /\ CheckPathSecurity(c, p, WR)
  /\ LET k == CHOOSE k \in 1 .. Len(mounts) :
                mounts[k].path = p /\ \A j \in 1 .. k - 1 : mounts[j].path # p
     IN  /\ mounts' = RemoveAt(mounts, k)
         /\ rootSb' = UnmountRoot(k)
  /\ UNCHANGED <<registered, files>> /\ lastDirOp' = NoDirOp

\* vfs_open: security check with flags & 3, find the mount point, resolve
\* the path (always succeeds), and return a new file with ref_count 1 on
\* the mount's super block.
VfsOpen(c, p, fl) ==
  /\ CheckPathSecurity(c, p, fl)
  /\ FindMountPoint(p) # 0
  /\ files' = Append(files, [sb |-> mounts[FindMountPoint(p)].sb, rc |-> 1,
                             flags |-> fl, path |-> p, by |-> c])
  /\ UNCHANGED <<registered, mounts, rootSb>> /\ lastDirOp' = NoDirOp

\* vfs_close: drop the reference; at 0 call release and free the file.
VfsClose(i) ==
  /\ files[i].rc = 1
  /\ files' = [files EXCEPT ![i].rc = 0]
  /\ UNCHANGED <<registered, mounts, rootSb>> /\ lastDirOp' = NoDirOp

(***************************************************************************)
(* vfs_mkdir / vfs_rmdir: security check for writing, find the mount      *)
(* point, resolve_path (a kmalloc'ed parent inode that is never freed, or *)
(* NULL for a relative path; it cannot fail), then the driver's mkdir or  *)
(* rmdir on the mount's super block.                                       *)
(***************************************************************************)
VfsDirOp(op, c, p) ==
  /\ CheckPathSecurity(c, p, WR)
  /\ FindMountPoint(p) # 0
  /\ lastDirOp' = [op |-> op, path |-> p, by |-> c]
  /\ UNCHANGED <<registered, mounts, rootSb, files>>

Next ==
  \/ \E fs \in FsTypes : RegisterFilesystem(fs)
  \/ \E c \in Caller, d \in Devs, fs \in FsTypes, p \in MountPaths : VfsMount(c, d, fs, p)
  \/ \E c \in Caller, p \in MountPaths : VfsUnmount(c, p)
  \/ \E c \in Caller, p \in OpenPaths, fl \in Flags : VfsOpen(c, p, fl)
  \/ \E i \in 1 .. Len(files) : VfsClose(i)
  \/ \E op \in {"mkdir", "rmdir"}, c \in Caller, p \in DirPaths : VfsDirOp(op, c, p)

Spec == Init /\ [][Next]_vars

-----------------------------------------------------------------------------
(***************************************************************************)
(* Properties.                                                             *)
(***************************************************************************)
Live == {i \in 1 .. Len(files) : files[i].rc > 0}

\* Spec 4.5: the mount whose path is the longest prefix of the argument,
\* later mounts winning ties -- stated over the set of mounts, without
\* the list walk.
LongestPrefixMount(p) ==
  LET C == {k \in 1 .. Len(mounts) : IsPrefix(mounts[k].path, p)} IN
  IF C = {} THEN 0
  ELSE CHOOSE k \in C : \A j \in C : Len(mounts[j].path) < Len(mounts[k].path)
                                    \/ (Len(mounts[j].path) = Len(mounts[k].path) /\ k <= j)

\* find_mount_point's list walk, with its fallback to the list head, picks
\* the mount spec 4.5 describes for every absolute path, whatever mounts
\* and unmounts came before (the fallback must never fire for one).
FindMatchesReference ==
  \A p \in OpenPaths : p[1] = "/" => FindMountPoint(p) = LongestPrefixMount(p)

\* vfs_mount sets root_sb and vfs_unmount clears it: whenever root_sb is
\* set, a mount at "/" on that super block is still on the list.
RootIsMounted ==
  rootSb # NULL => \E k \in 1 .. Len(mounts) : mounts[k] = [path |-> Root, sb |-> rootSb]

\* The spec 4.5 default policy for caller c, path p, writing or not.
SpecGate(c, p, writing) ==
  c # KERNEL =>
    /\ (\E n \in Classified : StrStr(p, n)) => c.lvl >= SECRET
    /\ (writing /\ IsPrefix(SystemDir, p)) => c.uid = 0

\* Spec 4.5 security gate, "consulted before every open/mkdir/rmdir": every
\* file vfs_open handed out, and every mkdir and rmdir vfs_mkdir and
\* vfs_rmdir pass to a driver, was allowed by the default policy for the
\* caller who asked (a classified path needs classification >= SECRET, a
\* write under /system/ needs uid 0).
AccessesAllowed ==
  /\ \A i \in 1 .. Len(files) :
       SpecGate(files[i].by, files[i].path, files[i].flags \in {WR, RD + WR})
  /\ lastDirOp # NoDirOp => SpecGate(lastDirOp.by, lastDirOp.path, TRUE)

\* Spec 5 (readers pin via the super block they obtain): the super block
\* of every open file stays mounted until the file is closed.
OpenFilesPinMount ==
  \A i \in Live : \E k \in 1 .. Len(mounts) : mounts[k].sb = files[i].sb

\* Spec 4.5 round trip: root_sb is the super block of the newest mount at
\* "/", and NULL when nothing is mounted there.
RootTracksRootMount ==
  LET R == {k \in 1 .. Len(mounts) : mounts[k].path = Root} IN
  rootSb = IF R = {} THEN NULL ELSE mounts[CHOOSE k \in R : \A j \in R : k <= j].sb

=============================================================================
