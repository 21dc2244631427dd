-------------------------- MODULE ProcessLifecycle --------------------------
(***************************************************************************)
(* Abstract specification of the process life cycle of spec.md 4.3: what  *)
(* a scheduler promises about each pid, whatever queues it keeps.          *)
(*                                                                         *)
(*   READY -> RUNNING, RUNNING -> READY, RUNNING -> BLOCKED,               *)
(*   BLOCKED -> READY, RUNNING -> ZOMBIE, ZOMBIE -> DEAD, any -> DEAD,     *)
(*                                                                         *)
(* plus the creation of a pid never used before (PIDs increase            *)
(* monotonically) and at most one RUNNING process at any instant.  A      *)
(* dispatch may retire the running process in the same step (a context    *)
(* switch), which is why Switch is one action.                             *)
(***************************************************************************)
EXTENDS Naturals

CONSTANT Pid          \* the pids a behaviour may use

VARIABLE pstate       \* pstate[p]: the life-cycle state of pid p

UNUSED == "UNUSED"    \* not yet handed out
AStates == {UNUSED, "READY", "RUNNING", "BLOCKED", "ZOMBIE", "DEAD"}

TypeOK == pstate \in [Pid -> AStates]

Running == {p \in Pid : pstate[p] = "RUNNING"}

\* Pids are handed out in increasing order, so every pid below a used one
\* has been used.
Init ==
  \E used \in {0 .. k : k \in Pid} \cup {{}} :
    /\ pstate \in [Pid -> {UNUSED, "READY", "RUNNING"}]
    /\ \A p \in Pid : (pstate[p] = UNUSED) <=> (p \notin used)
    /\ \A p, q \in Running : p = q

Create(p) ==
  /\ pstate[p] = UNUSED
  /\ \A q \in Pid : q < p => pstate[q] # UNUSED
  /\ pstate' = [pstate EXCEPT ![p] = "READY"]

\* Dispatch p, moving the running process (if any) to READY or leaving a
\* process that just blocked or exited where it is.
Switch(p) ==
  /\ pstate[p] = "READY"
  /\ pstate' = [q \in Pid |-> IF q = p THEN "RUNNING"
                              ELSE IF pstate[q] = "RUNNING" THEN "READY"
                              ELSE pstate[q]]

Preempt(p) ==
  /\ pstate[p] = "RUNNING"
  /\ pstate' = [pstate EXCEPT ![p] = "READY"]

Block(p) ==
  /\ pstate[p] = "RUNNING"
  /\ pstate' = [pstate EXCEPT ![p] = "BLOCKED"]

Wake(p) ==
  /\ pstate[p] = "BLOCKED"
  /\ pstate' = [pstate EXCEPT ![p] = "READY"]

Exit(p) ==
  /\ pstate[p] = "RUNNING"
  /\ pstate' = [pstate EXCEPT ![p] = "ZOMBIE"]

Reap(p) ==
  /\ pstate[p] = "ZOMBIE"
  /\ pstate' = [pstate EXCEPT ![p] = "DEAD"]

Kill(p) ==
  /\ pstate[p] \notin {UNUSED, "DEAD"}
  /\ pstate' = [pstate EXCEPT ![p] = "DEAD"]

Next ==
  \E p \in Pid :
    \/ Create(p) \/ Switch(p) \/ Preempt(p) \/ Block(p)
    \/ Wake(p) \/ Exit(p) \/ Reap(p) \/ Kill(p)

Spec == Init /\ [][Next]_pstate

\* At most one process is RUNNING.
AtMostOneRunning == \A p, q \in Running : p = q

=============================================================================
