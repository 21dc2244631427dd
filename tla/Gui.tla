-------------------------------- MODULE Gui --------------------------------
(***************************************************************************)
(* The window manager of src/gui/src/window_manager.c and the security    *)
(* event ring of src/gui/src/security_ui.c, driven through their public   *)
(* calls in any order by the single GUI process.                          *)
(*                                                                         *)
(* Every window is created by the calling process, so owner_pid ==        *)
(* getpid() holds for every slot create has written; a slot memset to 0   *)
(* has owner_pid 0.  The field `own` records which.  Titles, geometry,    *)
(* labels and pixels are left out; the framebuffer malloc is a boolean    *)
(* outcome.  user_clearance is uint8_t and active_windows / window_id     *)
(* are uint32_t, kept modulo Word (2^32 in the code).                     *)
(***************************************************************************)
EXTENDS Integers, FiniteSets

CONSTANTS
  NSlots,       \* MAX_WINDOWS (32 in the code)
  WinIds,       \* window ids callers pass to destroy / show / hide
  WinClasses,   \* classifications callers pass to create
  Cap,          \* MAX_SECURITY_EVENTS (64 in the code)
  Period,       \* the synthetic-alert period of gui_poll_events (100)
  Word          \* 2^32, the modulus of uint32_t arithmetic

Slot == 1 .. NSlots
UNCLASSIFIED == 0
CONFIDENTIAL == 1
SECRET == 2
TOP_SECRET == 3
PENTAGON == 4
Class == UNCLASSIFIED .. PENTAGON
LoginFailed == -1              \* authenticate_user matched no account
NONE == "none"                  \* a zeroed gui_event
Events == {"session_started", "scan_completed"}

\* A slot after memset(window, 0, ...).
Zero == [id |-> 0, cls |-> UNCLASSIFIED, vis |-> FALSE, act |-> FALSE, own |-> FALSE]

VARIABLES
  win,          \* manager->windows[i]: window_id, classification, visible, active, owner
  active,       \* manager->active_windows
  clearance,    \* manager->user_clearance
  buf,          \* security_event_queue
  head, tail, count,   \* event_queue_head / _tail / _count
  counter       \* gui_poll_events's static event_counter, modulo Period

vars == <<win, active, clearance, buf, head, tail, count, counter>>

TypeOK ==
  /\ win \in [Slot -> [id : 0 .. Word - 1, cls : Class, vis : BOOLEAN,
                       act : BOOLEAN, own : BOOLEAN]]
  /\ active \in 0 .. Word - 1
  /\ clearance \in Class
  /\ buf \in [0 .. Cap - 1 -> Events \cup {NONE}]
  /\ head \in 0 .. Cap - 1 /\ tail \in 0 .. Cap - 1 /\ count \in 0 .. Cap
  /\ counter \in 0 .. Period - 1

Live == {k \in Slot : win[k].id # 0}

\* The loop `for i ... if (windows[i].window_id == window_id)`: the first
\* slot holding the id, 0 for none.
FindWindow(id) ==
  IF \E k \in Slot : win[k].id = id
  THEN CHOOSE k \in Slot : win[k].id = id /\ \A j \in 1 .. k - 1 : win[j].id # id
  ELSE 0

(***************************************************************************)
(* gui_init_window_manager: memset the manager, clearance PENTAGON, no    *)
(* windows.  The event ring's statics start at 0.                          *)
(***************************************************************************)
InitWindowManager ==
  /\ win = [k \in Slot |-> Zero]
  /\ active = 0
  /\ clearance = PENTAGON

Init ==
  /\ InitWindowManager
  /\ buf = [i \in 0 .. Cap - 1 |-> NONE]
  /\ head = 0 /\ tail = 0 /\ count = 0
  /\ counter = 0

\* Mutant: every window created while at most one other exists is active.
WindowActiveLeq(n) == n <= 1

\* window->active = (manager->active_windows == 0)
WindowActive(n) == n = 0

\* Mutant: a failed framebuffer malloc leaves the window id in the slot.
FailedSlotKeepId(w) == w

\* The malloc-failure path: window->window_id = 0.
FailedSlot(w) == [w EXCEPT !.id = 0]

(***************************************************************************)
(* gui_create_window(classification): refuse a classification above the   *)
(* user's clearance; take the first slot whose id is 0 (none: -1); fill   *)
(* it with id active_windows + 1; if the framebuffer malloc fails, reset  *)
(* the id to 0 (the other fields stay written) and return -1; otherwise  *)
(* active_windows++.                                                       *)
(***************************************************************************)
CreateWindow(c, mallocOk) ==
  /\ clearance >= c
  /\ FindWindow(0) # 0
  /\ LET k == FindWindow(0)
         w == [id |-> (active + 1) % Word, cls |-> c, vis |-> TRUE,
               act |-> WindowActive(active), own |-> TRUE]
     IN  IF mallocOk
         THEN /\ win' = [win EXCEPT ![k] = w]
              /\ active' = (active + 1) % Word
         ELSE /\ win' = [win EXCEPT ![k] = FailedSlot(w)]
              /\ UNCHANGED active
  /\ UNCHANGED <<clearance, buf, head, tail, count, counter>>

(***************************************************************************)
(* gui_destroy_window(id): the first slot with this id; refuse when       *)
(* another process owns it and the clearance is below TOP_SECRET; memset *)
(* the slot and active_windows--.                                          *)
(***************************************************************************)
DestroyWindow(id) ==
  /\ FindWindow(id) # 0
  /\ LET k == FindWindow(id) IN
     /\ ~win[k].own => clearance >= TOP_SECRET
     /\ win' = [win EXCEPT ![k] = Zero]
     /\ active' = (active - 1) % Word
  /\ UNCHANGED <<clearance, buf, head, tail, count, counter>>

\* gui_verify_access(id, getpid()) == 0: the owner, or enough clearance.
VerifyAccess(id) ==
  LET k == FindWindow(id) IN
  k # 0 /\ (win[k].own \/ clearance >= win[k].cls)

\* gui_show_window / gui_hide_window: find the window, verify access, set
\* visible.
SetVisible(id, v) ==
  /\ FindWindow(id) # 0
  /\ VerifyAccess(id)
  /\ win' = [win EXCEPT ![FindWindow(id)].vis = v]
  /\ UNCHANGED <<active, clearance, buf, head, tail, count, counter>>

\* gui_set_security_context(window, classification): no check at all.
SetSecurityContext(k, c) ==
  /\ win[k].id # 0
  /\ win' = [win EXCEPT ![k].cls = c]
  /\ UNCHANGED <<active, clearance, buf, head, tail, count, counter>>

(***************************************************************************)
(* The event ring.  add_security_event fails when count is at Cap,        *)
(* otherwise writes at tail and advances it; a dequeue reads at head.     *)
(***************************************************************************)
AddEvent(e, r) ==
  IF r.count >= Cap THEN r
  ELSE [r EXCEPT !.buf = [@ EXCEPT ![r.tail] = e], !.tail = (@ + 1) % Cap,
                 !.count = @ + 1]

\* Mutant: the head index is advanced without wrapping.
DequeueNoWrap(r) == [r EXCEPT !.head = @ + 1, !.count = @ - 1]

Dequeue(r) == [r EXCEPT !.head = (@ + 1) % Cap, !.count = @ - 1]

Ring == [buf |-> buf, head |-> head, tail |-> tail, count |-> count]

SetRing(r) == buf' = r.buf /\ head' = r.head /\ tail' = r.tail /\ count' = r.count

\* authenticate_user: the clearance of the account whose username and
\* password both match (pentagon_admin, secret_user, conf_user), or no
\* match.  Reading, echo control and the banner are left out.
AuthOutcomes == {PENTAGON, SECRET, CONFIDENTIAL, LoginFailed}

(***************************************************************************)
(* gui_init_security_ui: authenticate_user; a failed login sets the       *)
(* clearance to UNCLASSIFIED and returns -1 (an fgets EOF returns -1 with *)
(* nothing changed); a good one sets the user's clearance, resets the     *)
(* ring to empty and adds the session-started alert.                       *)
(***************************************************************************)
InitSecurityUi(outcome) ==
  /\ IF outcome = LoginFailed
     THEN /\ clearance' = UNCLASSIFIED
          /\ UNCHANGED <<buf, head, tail, count>>
     ELSE /\ clearance' = outcome
          /\ SetRing(AddEvent("session_started", [Ring EXCEPT !.head = 0, !.tail = 0, !.count = 0]))
  /\ UNCHANGED <<win, active, counter>>

(***************************************************************************)
(* gui_poll_events: dequeue if the ring is non-empty; otherwise count the *)
(* call and, every Period-th call, add the scan alert and dequeue it.     *)
(***************************************************************************)
PollEvents ==
  /\ IF count > 0
     THEN /\ SetRing(Dequeue(Ring))
          /\ UNCHANGED counter
     ELSE /\ counter' = (counter + 1) % Period
          /\ IF counter' = 0
             THEN LET r == AddEvent("scan_completed", Ring) IN
                  SetRing(IF r.count > 0 THEN Dequeue(r) ELSE r)
             ELSE UNCHANGED <<buf, head, tail, count>>
  /\ UNCHANGED <<win, active, clearance>>

(***************************************************************************)
(* gui_shutdown_security_ui: destroy every window (each is the caller's), *)
(* zero the ring, then memset the whole manager.                           *)
(***************************************************************************)
ShutdownSecurityUi ==
  /\ win' = [k \in Slot |-> Zero]
  /\ active' = 0
  /\ clearance' = UNCLASSIFIED
  /\ buf' = [i \in 0 .. Cap - 1 |-> NONE]
  /\ head' = 0 /\ tail' = 0 /\ count' = 0
  /\ UNCHANGED counter

\* gui_init_window_manager called again: the manager is memset and reset.
\* gui_show_security_status: gui_create_window of a SECRET "Security
\* Status" window; finding it again and drawing into it change nothing.
ShowSecurityStatus(mallocOk) == CreateWindow(SECRET, mallocOk)

ReInitWindowManager ==
  /\ win' = [k \in Slot |-> Zero]
  /\ active' = 0
  /\ clearance' = PENTAGON
  /\ UNCHANGED <<buf, head, tail, count, counter>>

Next ==
  \/ \E c \in WinClasses, ok \in BOOLEAN : CreateWindow(c, ok)
  \/ \E id \in WinIds : DestroyWindow(id)
  \/ \E id \in WinIds, v \in BOOLEAN : SetVisible(id, v)
  \/ \E k \in Slot, c \in WinClasses : SetSecurityContext(k, c)
  \/ \E o \in AuthOutcomes : InitSecurityUi(o)
  \/ \E ok \in BOOLEAN : ShowSecurityStatus(ok)
  \/ PollEvents
  \/ ShutdownSecurityUi
  \/ ReInitWindowManager

Spec == Init /\ [][Next]_vars

-----------------------------------------------------------------------------
(***************************************************************************)
(* Properties.                                                             *)
(***************************************************************************)

\* active_windows, which create and destroy adjust and from which create
\* derives the next window id, equals the number of slots holding a
\* window, through every create (failed malloc included) and destroy.
ActiveWindowsCounts == active = Cardinality(Live)

\* create marks a window active only when it is the sole window: at no
\* time are two windows active at once.
AtMostOneActive == \A k, j \in Live : win[k].act /\ win[j].act => k = j

\* The id create returns names one window: destroy, show, hide and
\* gui_show_security_status look a window up by id, and take the first
\* slot that has it.
WindowIdsUnique == \A k, j \in Live : win[k].id = win[j].id => k = j

=============================================================================
