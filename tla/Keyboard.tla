------------------------------ MODULE Keyboard ------------------------------
(***************************************************************************)
(* The PS/2 keyboard driver of src/drivers/input/ps2_keyboard.c with the   *)
(* i8042 controller and the keyboard device as its environment.            *)
(*                                                                         *)
(* The device sends bytes to the driver through one FIFO, `wire`: the     *)
(* make and break codes of the keys the user presses and releases, and    *)
(* its replies to the commands the driver sends.  A reply is chosen from  *)
(* DevReplies: ACK, RESEND (a garbled transfer), or none at all (the      *)
(* driver's wait loop times out and ps2_read_data returns 0).  A command  *)
(* the driver sends while key bytes are queued is answered after them, so *)
(* the driver's synchronous read may take a key byte for the reply.       *)
(*                                                                         *)
(* The keyboard sends scancode set 2, its power-on default and the set    *)
(* keyboard_init asks for; the controller translates it to set 1 while   *)
(* bit 6 of its configuration byte is set (`xlate`), as the BIOS leaves   *)
(* it.  Port 1 raises IRQ1 while bit 0 is set (`irqOn`).  No IDT entry in  *)
(* the tree calls keyboard_interrupt_handler; the model calls it once per *)
(* byte while the interrupt is enabled, after drivers_init ran.           *)
(*                                                                         *)
(* Left out: alt_pressed (written, never read), scroll_lock (always       *)
(* false), the statistics (keys_pressed, invalid_scancodes,               *)
(* failed_attempts, last_activity) and the console and log output         *)
(* beyond the characters keyboard_interrupt_handler prints.               *)
(***************************************************************************)
EXTENDS Integers, Sequences, SequencesExt

CONSTANTS
  Keys,             \* the physical keys the user may use
  DevReplies,       \* the device's possible replies to a byte it is sent
  SelfTestResults,  \* the controller self-test outcomes (TRUE: 0x55)
  MaxWire,          \* bound on the bytes queued in the device and controller
  MaxEvents,        \* bound on the key presses and releases
  NoReply           \* a model value: the byte was lost, the device answers nothing

ACK == 250          \* KB_RESP_ACK 0xFA
RESEND == 254       \* KB_RESP_RESEND 0xFE
NUL == "NUL"        \* char 0: nothing printed

\* Make codes: scancode set 1 (after translation) and set 2 (without).
Set1 == [LSHIFT |-> 42, CTRL |-> 29, CAPS |-> 58, A |-> 30]
Set2 == [LSHIFT |-> 18, CTRL |-> 20, CAPS |-> 88, A |-> 28]

VARIABLES
  kb,               \* kb_state: shift, ctrl, caps, num, secure, initialized
  lastScancode,     \* validate_scancode's static last_scancode
  repeatCount,      \* validate_scancode's static repeat_count
  called,           \* drivers_init has run keyboard_init
  xlate,            \* controller configuration bit 6 (translation)
  irqOn,            \* controller configuration bit 0 (port 1 interrupt)
  wire,             \* bytes on their way to the driver, oldest first
  leds,             \* the LED byte the device shows
  held,             \* (ghost) keys the user holds down
  physCaps,         \* (ghost) caps lock as the user toggled it
  typed,            \* (ghost) characters the user typed
  out,              \* characters keyboard_interrupt_handler printed
  events            \* (ghost) presses and releases so far

vars == <<kb, lastScancode, repeatCount, called, xlate, irqOn, wire, leds,
          held, physCaps, typed, out, events>>

Chars == {"a", "A", "e", "E", "t", "T", "NL", "^a", "^e", "^t"}

KbTypeOK ==
  /\ kb \in [shift : BOOLEAN, ctrl : BOOLEAN, caps : BOOLEAN, num : BOOLEAN,
             secure : BOOLEAN, initialized : BOOLEAN]
  /\ lastScancode \in 0 .. 255 /\ repeatCount \in 0 .. 11
  /\ called \in BOOLEAN /\ xlate \in BOOLEAN /\ irqOn \in BOOLEAN
  /\ wire \in Seq(0 .. 255) /\ Len(wire) <= MaxWire + 1
  /\ leds \in 0 .. 7 /\ held \subseteq Keys /\ physCaps \in BOOLEAN
  /\ typed \in Seq(Chars) /\ out \in Seq(Chars) /\ events \in 0 .. MaxEvents

\* Before drivers_init: kb_state is zeroed .bss, the controller is as the
\* BIOS left it (translation and the port 1 interrupt on), LEDs off.
KbInit ==
  /\ kb = [shift |-> FALSE, ctrl |-> FALSE, caps |-> FALSE, num |-> FALSE,
           secure |-> FALSE, initialized |-> FALSE]
  /\ lastScancode = 0 /\ repeatCount = 0
  /\ called = FALSE /\ xlate = TRUE /\ irqOn = TRUE
  /\ wire = <<>> /\ leds = 0
  /\ held = {} /\ physCaps = FALSE /\ typed = <<>> /\ out = <<>> /\ events = 0

\* scancode_to_ascii_lower / _upper at the codes the modelled keys produce
\* outside the modifier cases (set 1 'a'; set 2 LSHIFT, CTRL, 'a').
Ascii == (30 :> <<"a", "A">>) @@ (18 :> <<"e", "E">>) @@
         (20 :> <<"t", "T">>) @@ (28 :> <<"NL", "NL">>)

\* ch - 'a' + 1 for a lower-case letter.
Control(ch) == IF ch \in {"a", "e", "t"} THEN "^" \o ch ELSE ch

\* The device answers a byte it was sent (or not), behind what is queued.
Reply(w, r) == IF r = NoReply THEN w ELSE Append(w, r)

\* ps2_read_data: the next byte, or 0 when ps2_wait_read times out.
ReadData(w) == IF w = <<>> THEN [b |-> 0, w |-> w] ELSE [b |-> Head(w), w |-> Tail(w)]

(***************************************************************************)
(* keyboard_send_command(cmd): up to three tries of ps2_send_data and     *)
(* ps2_read_data; true on ACK, another try on RESEND, false on anything    *)
(* else -- a timeout's 0 or a key byte read in the reply's place.  rs[i]   *)
(* is the device's reply to the i-th try.                                  *)
(***************************************************************************)
RECURSIVE SendCommand(_, _, _)
SendCommand(w, try, rs) ==
  IF try > 3 THEN [ok |-> FALSE, w |-> w]
  ELSE LET rd == ReadData(Reply(w, rs[try])) IN
       IF rd.b = ACK THEN [ok |-> TRUE, w |-> rd.w]
       ELSE IF rd.b = RESEND THEN SendCommand(rd.w, try + 1, rs)
       ELSE [ok |-> FALSE, w |-> rd.w]

(***************************************************************************)
(* keyboard_set_leds: the LED byte from num and caps lock; SET_LEDS; if   *)
(* acknowledged, the LED byte (the device lights it when it replies ACK)  *)
(* and one ps2_read_data for its ACK.                                      *)
(***************************************************************************)
SetLeds(s, rs, r2) ==
  LET led == (IF s.kb.num THEN 2 ELSE 0) + (IF s.kb.caps THEN 4 ELSE 0)
      c == SendCommand(s.w, 1, rs)
  IN  IF ~c.ok THEN [s EXCEPT !.w = c.w]
      ELSE [s EXCEPT !.w = ReadData(Reply(c.w, r2)).w,
                     !.leds = IF r2 = ACK THEN led ELSE @]

(***************************************************************************)
(* validate_scancode: reject codes above 0x83 other than 0xE0 / 0xE1      *)
(* before the pattern check; reject a code once it has come more than 11 *)
(* times in a row.  repeat_count is kept at 11 once above 10: larger      *)
(* values take the same branches.                                        *)
(***************************************************************************)
ValidateScancode(s, sc) ==
  IF sc > 131 /\ sc \notin {224, 225} THEN [ok |-> FALSE, s |-> s]
  ELSE IF sc = s.last
       THEN LET r == IF s.rep < 11 THEN s.rep + 1 ELSE 11 IN
            [ok |-> r <= 10, s |-> [s EXCEPT !.rep = r]]
       ELSE [ok |-> TRUE, s |-> [s EXCEPT !.rep = 0, !.last = sc]]

(***************************************************************************)
(* process_scancode: validate; split off the release bit; set shift or    *)
(* ctrl to whether the key went down; toggle caps lock on a press and     *)
(* call keyboard_set_leds; else, for a press, look the code up in the     *)
(* table chosen by shift XOR caps; ctrl + letter gives a control code.   *)
(***************************************************************************)
ProcessScancode(s0, sc, rs, r2) ==
  LET v == ValidateScancode(s0, sc)
      s == v.s
      rel == sc >= 128
      c == sc % 128
      None(t) == [s |-> t, ch |-> NUL]
  IN  IF ~v.ok THEN None(s)
      ELSE IF c \in {42, 54} THEN None([s EXCEPT !.kb.shift = ~rel])
      ELSE IF c = 29 THEN None([s EXCEPT !.kb.ctrl = ~rel])
      ELSE IF c = 56 THEN None(s)
      ELSE IF c = 58 THEN None(IF rel THEN s
                               ELSE SetLeds([s EXCEPT !.kb.caps = ~@], rs, r2))
      ELSE IF rel \/ c \notin DOMAIN Ascii THEN None(s)
      ELSE LET ch == Ascii[c][IF s.kb.shift # s.kb.caps THEN 2 ELSE 1] IN
           [s |-> s, ch |-> IF s.kb.ctrl THEN Control(ch) ELSE ch]

\* The replies to the up to three tries of one command.
Tries == [1 .. 3 -> DevReplies]

\* The driver's state as the helpers above see it.
St == [kb |-> kb, last |-> lastScancode, rep |-> repeatCount, w |-> wire, leds |-> leds]

SetSt(s) ==
  /\ kb' = s.kb /\ lastScancode' = s.last /\ repeatCount' = s.rep
  /\ wire' = s.w /\ leds' = s.leds

(***************************************************************************)
(* keyboard_init, called once by drivers_init: zero kb_state, num lock    *)
(* on; controller self-test, else return; disable the ports, flush (the   *)
(* wire is empty: no key is pressed during boot); clear the interrupt and *)
(* translation bits; port test, keyboard reset (the device's LEDs go      *)
(* dark) and its self-test, each returning on failure with the interrupt *)
(* off; set scancode set 2 and enable scanning (neither changes what the  *)
(* modelled device sends, so their replies are not enumerated); set the   *)
(* LEDs; set the interrupt bit; mark initialized.                          *)
(***************************************************************************)
KeyboardInit ==
  /\ ~called /\ called' = TRUE
  /\ LET k0 == [shift |-> FALSE, ctrl |-> FALSE, caps |-> FALSE, num |-> TRUE,
                secure |-> FALSE, initialized |-> FALSE]
     IN \E st \in SelfTestResults :
        IF ~st THEN /\ kb' = k0
                    /\ UNCHANGED <<lastScancode, repeatCount, xlate, irqOn, wire, leds>>
        ELSE \E pt, kst \in BOOLEAN, rs, ls \in Tries, lr \in DevReplies :
             /\ xlate' = FALSE
             /\ IF pt /\ SendCommand(wire, 1, rs).ok /\ kst
                THEN /\ SetSt([SetLeds([St EXCEPT !.kb = k0, !.leds = 0], ls, lr)
                                  EXCEPT !.kb.initialized = TRUE])
                     /\ irqOn' = TRUE
                ELSE /\ kb' = k0 /\ irqOn' = FALSE
                     /\ UNCHANGED <<lastScancode, repeatCount, wire>>
                     /\ leds' = IF pt /\ SendCommand(wire, 1, rs).ok THEN 0 ELSE leds
  /\ UNCHANGED <<held, physCaps, typed, out, events>>

(***************************************************************************)
(* keyboard_interrupt_handler: nothing unless the output buffer is full;  *)
(* read the byte, process_scancode, print the character if there is one.  *)
(***************************************************************************)
KeyboardInterruptHandler ==
  /\ called /\ irqOn /\ wire # <<>>
  /\ \E rs \in Tries, r2 \in DevReplies :
       LET p == ProcessScancode([St EXCEPT !.w = Tail(wire)], Head(wire), rs, r2) IN
       /\ SetSt(p.s)
       /\ out' = IF p.ch = NUL THEN out ELSE Append(out, p.ch)
  /\ UNCHANGED <<called, xlate, irqOn, held, physCaps, typed, events>>

\* keyboard_enable_secure_input(enable).
KeyboardEnableSecureInput(b) ==
  /\ kb' = [kb EXCEPT !.secure = b]
  /\ UNCHANGED <<lastScancode, repeatCount, called, xlate, irqOn, wire, leds,
                 held, physCaps, typed, out, events>>

-----------------------------------------------------------------------------
(***************************************************************************)
(* The user at the keyboard.  A press of a held key is a typematic        *)
(* repeat.  The device sends a set 1 code (break = make + 0x80) when the  *)
(* controller translates, else a set 2 code (break = 0xF0, make).  What   *)
(* the user means to type follows the PC convention the code's tables and *)
(* comments follow: shift XOR caps lock selects upper case, ctrl + letter *)
(* a control code, caps lock toggles on each press of a released key.     *)
(***************************************************************************)
Intended == IF "CTRL" \in held THEN "^a"
            ELSE IF ("LSHIFT" \in held) # physCaps THEN "A" ELSE "a"

Press(k) ==
  /\ called /\ events < MaxEvents /\ Len(wire) < MaxWire
  /\ wire' = Append(wire, IF xlate THEN Set1[k] ELSE Set2[k])
  /\ held' = held \cup {k}
  /\ physCaps' = IF k = "CAPS" /\ k \notin held THEN ~physCaps ELSE physCaps
  /\ typed' = IF k = "A" THEN Append(typed, Intended) ELSE typed
  /\ events' = events + 1
  /\ UNCHANGED <<kb, lastScancode, repeatCount, called, xlate, irqOn, leds, out>>

Release(k) ==
  /\ called /\ k \in held /\ events < MaxEvents /\ Len(wire) < MaxWire
  /\ wire' = wire \o (IF xlate THEN <<Set1[k] + 128>> ELSE <<240, Set2[k]>>)
  /\ held' = held \ {k}
  /\ events' = events + 1
  /\ UNCHANGED <<kb, lastScancode, repeatCount, called, xlate, irqOn, leds,
                 physCaps, typed, out>>

KbNext ==
  \/ KeyboardInit
  \/ KeyboardInterruptHandler
  \/ \E b \in BOOLEAN : KeyboardEnableSecureInput(b)
  \/ \E k \in Keys : Press(k) \/ Release(k)

KbSpec == KbInit /\ [][KbNext]_vars

-----------------------------------------------------------------------------
(***************************************************************************)
(* Properties.                                                             *)
(***************************************************************************)

\* The characters keyboard_interrupt_handler prints are the characters the
\* user typed, in order: the scancode tables of process_scancode decode
\* what the controller delivers after keyboard_init configured it.
KeysDecoded == IsPrefix(out, typed)

\* Once every byte is processed, kb_state.shift_pressed says whether shift
\* is held: process_scancode's "Handle key releases (bit 7 set)" clears it.
ModifiersTrackKeys == wire = <<>> => (kb.shift <=> "LSHIFT" \in held)

\* Once every byte is processed, the caps-lock LED shows kb_state.caps_lock:
\* keyboard_set_leds runs on every caps-lock toggle.
LedsMatchCaps == wire = <<>> => ((leds \div 4) % 2 = 1 <=> kb.caps)

====
