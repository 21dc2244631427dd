------------------------------- MODULE MC_Vfs -------------------------------
(***************************************************************************)
(* Model of vfs.c for TLC.  The alphabet is "/", "t", "x" and two letters *)
(* that stand for whole directory names the security gate searches for:  *)
(* "S" for "secret" and "Y" for "system".  Mount points "/" and "/t";     *)
(* paths that exercise the prefix match ("/t/x", "/tx"), the clearance   *)
(* gate ("/S/x"), the uid gate ("/Y/x") and a relative path ("x").       *)
(***************************************************************************)
EXTENDS Vfs

MCMountPaths == {<<"/">>, <<"/", "t">>}
MCOpenPaths == {<<"/", "t", "/", "x">>, <<"/", "t", "x">>, <<"/", "S", "/", "x">>,
                <<"/", "Y", "/", "x">>, <<"x">>}
\* Directory operations on the two paths the gate restricts.
MCDirPaths == {<<"/", "S", "/", "x">>, <<"/", "Y", "/", "x">>}
MCCallers == {[lvl |-> 1, uid |-> 1], [lvl |-> 4, uid |-> 0]}
MCClassified == {<<"/", "S", "/">>}
MCSystemDir == <<"/", "Y", "/">>
MCMaxFs == 1

\* Mount points and file objects are kmalloc'ed without limit; the search
\* stops at two mounts and one file (a file together with every order of
\* mounts, unmounts and directory operations around its open and close).
MaxMounts == 2
MaxFiles == 1
Bounded == Len(mounts) <= MaxMounts /\ Len(files) <= MaxFiles

=============================================================================
