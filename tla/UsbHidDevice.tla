---------------------------- MODULE UsbHidDevice ----------------------------
(***************************************************************************)
(* ADB host mode, towards the PC: core 0 turns the registers an ADB        *)
(* keyboard and mouse answer into HID reports (src/adb_to_usb.cpp) and     *)
(* leaves them in a ring and a mouse cell; core 1 hands them to TinyUSB    *)
(* (src/usb_hid_device.c).  Nothing is locked: each read or write of a     *)
(* variable both cores use is a step of its own, in program order.         *)
(***************************************************************************)
EXTENDS Integers, FiniteSets, Sequences

CONSTANTS
  Key,         (* keys of the ADB keyboard that have a USB key code          *)
  Modifier,    (* those adb_code_to_modifier() knows                         *)
  MaxKeys,     (* the key slots of a report (6)                              *)
  KBD_REPORT_Q,(* slots of the ring (16)                                     *)
  Button,      (* mouse buttons                                              *)
  Workload     (* what may come: how many key events, Caps Lock pulses and   *)
               (* mouse registers                                            *)

ASSUME HidAssumption ==
  /\ Modifier \subseteq Key
  /\ MaxKeys \in Nat \ {0} /\ KBD_REPORT_Q \in Nat /\ KBD_REPORT_Q > 1
  /\ \A w \in Workload : w.events \in Nat /\ w.pulses \in Nat /\ w.moves \in Nat

Slot == 0 .. KBD_REPORT_Q - 1

VARIABLES
  adbHeld,     (* the keys held on the ADB keyboard                          *)
  events,      (* key events of the register core 0 still has to translate   *)
  s_keys,      (* keys in the report                                         *)
  s_mod,       (* modifiers in the report                                    *)
  serial,      (* reports made so far; a report carries its number           *)
  s_kbd_q, s_kbd_q_head, s_kbd_q_tail,
  pc0, pc1,    (* what each core does next                                   *)
  dropping,    (* core 0: the tail it read to drop the oldest report         *)
  taking,      (* core 1: the tail it read                                   *)
  s_mouse,     (* buttons and movement of the mouse cell                     *)
  s_mouse_dirty,
  moving,      (* core 0: the mouse register being stored                    *)
  readButtons, (* core 1: the buttons it has read                            *)
  s_caps_pulse_phase,
  mounted,     (* tud_mounted()                                              *)
  endpoint,    (* the report in the endpoint                                 *)
  pcHeld,      (* the keys the PC takes for held                             *)
  pcLast,      (* number of the last keyboard report the PC has received     *)
  pcButtons,   (* the buttons the PC takes for held                          *)
  crowded,     (* history: more keys were held than fit a report             *)
  lost,        (* history: the reports the ring had no room for (see Losing) *)
  workload, keyEvents, pulses, moves   (* events so far (bounded)            *)

kbd_vars == <<adbHeld, events, s_keys, s_mod, serial, crowded>>
ring_vars == <<s_kbd_q, s_kbd_q_head, s_kbd_q_tail>>
mouse_vars == <<s_mouse, s_mouse_dirty, moving>>
pc_vars == <<pcHeld, pcLast, pcButtons>>
past_vars == <<workload, keyEvents, pulses, moves, lost>>
vars == <<kbd_vars, ring_vars, mouse_vars, pc_vars, past_vars, pc0, pc1, dropping, taking,
          readButtons, s_caps_pulse_phase, mounted, endpoint>>

Empty == [kind |-> "none"]
KbdReport == [n |-> serial, held |-> s_keys \cup s_mod]
NoRegister == [buttons |-> {}, moved |-> 0]

Init ==
  /\ adbHeld = {} /\ events = <<>>
  /\ s_keys = {} /\ s_mod = {}
  /\ serial = 0
  /\ s_kbd_q = [i \in Slot |-> [n |-> 0, held |-> {}]]
  /\ s_kbd_q_head = 0 /\ s_kbd_q_tail = 0
  /\ pc0 = "poll" /\ pc1 = "task"
  /\ dropping = 0 /\ taking = 0
  /\ s_mouse = NoRegister /\ s_mouse_dirty = FALSE
  /\ moving = NoRegister
  /\ readButtons = {}
  /\ s_caps_pulse_phase = 0
  /\ mounted = FALSE
  /\ endpoint = Empty
  /\ pcHeld = {} /\ pcLast = 0 /\ pcButtons = {}
  /\ crowded = FALSE /\ lost = "none"
  /\ workload \in Workload /\ keyEvents = 0 /\ pulses = 0 /\ moves = 0

Succ(i) == (i + 1) % KBD_REPORT_Q

(* ------------------------ core 0: adb_to_usb.cpp ----------------------- *)

\* One key event of an ADB keyboard holding "held".
KeyEvent(held) == [key : Key \ held, up : {FALSE}] \cup [key : held, up : {TRUE}]
AfterEvent(held, e) == IF e.up THEN held \ {e.key} ELSE held \cup {e.key}

\* The keyboard answers Talk 0 with one event or two.
adb_to_usb_keyboard_reg0 ==
  \E e \in KeyEvent(adbHeld) :
  \E rest \in {<<>>} \cup {<<f>> : f \in KeyEvent(AfterEvent(adbHeld, e))} :
    LET all == <<e>> \o rest
        held == IF rest = <<>> THEN AfterEvent(adbHeld, e)
                ELSE AfterEvent(AfterEvent(adbHeld, e), rest[1])
    IN
    /\ pc0 = "poll"
    /\ keyEvents + Len(all) <= workload.events
    /\ keyEvents' = keyEvents + Len(all)
    /\ events' = all
    /\ adbHeld' = held
    /\ pc0' = "push"
    /\ UNCHANGED <<s_keys, s_mod, serial, crowded, ring_vars, mouse_vars, pc_vars, workload,
                   pulses, moves, lost, pc1, dropping, taking, readButtons, s_caps_pulse_phase,
                   mounted, endpoint>>

\* Mutant: the key-up of a modifier is taken for a key-down.
Modifiers_NoUp(e) == s_mod \cup {e.key}
set_modifier(e) == IF e.up THEN s_mod \ {e.key} ELSE s_mod \cup {e.key}

\* A key-down finds a free slot or is dropped.
PushedKeys(e) ==
  IF e.up THEN s_keys \ {e.key}
  ELSE IF Cardinality(s_keys) < MaxKeys THEN s_keys \cup {e.key} ELSE s_keys

\* push_key() for the next event; its report is then sent on its own.
push_key ==
  LET e == Head(events) IN
  /\ pc0 = "push"
  /\ IF e.key \in Modifier
     THEN s_mod' = set_modifier(e) /\ UNCHANGED <<s_keys, crowded>>
     ELSE /\ s_keys' = PushedKeys(e)
          /\ crowded' = (crowded \/ (~e.up /\ e.key \notin s_keys'))
          /\ UNCHANGED s_mod
  /\ serial' = serial + 1
  /\ events' = Tail(events)
  /\ pc0' = "send"
  /\ UNCHANGED <<adbHeld, ring_vars, mouse_vars, pc_vars, past_vars, pc1, dropping, taking,
                 readButtons, s_caps_pulse_phase, mounted, endpoint>>

(* ---------------- core 0: usb_hid_send_keyboard() ---------------------- *)

Full == Succ(s_kbd_q_head) = s_kbd_q_tail

\* What a drop costs: "unread" reports of which the PC has seen none, or, while
\* core 1 takes reports too and both write the tail, any ("raced").
Losing == IF mounted THEN "raced" ELSE "unread"

\* head and next are computed; a full ring drops its oldest report
SendBegin ==
  /\ pc0 = "send"
  /\ IF Full THEN pc0' = "drop" /\ lost' = Losing ELSE pc0' = "fill" /\ lost' = lost
  /\ UNCHANGED <<kbd_vars, ring_vars, mouse_vars, pc_vars, workload, keyEvents, pulses, moves,
                 pc1, dropping, taking, readButtons, s_caps_pulse_phase, mounted, endpoint>>

DropRead ==
  /\ pc0 = "drop"
  /\ dropping' = s_kbd_q_tail
  /\ pc0' = "dropped"
  /\ UNCHANGED <<kbd_vars, ring_vars, mouse_vars, pc_vars, past_vars, pc1, taking, readButtons,
                 s_caps_pulse_phase, mounted, endpoint>>

DropWrite ==
  /\ pc0 = "dropped"
  /\ s_kbd_q_tail' = Succ(dropping)
  /\ dropping' = 0
  /\ pc0' = "fill"
  /\ UNCHANGED <<kbd_vars, s_kbd_q, s_kbd_q_head, mouse_vars, pc_vars, past_vars, pc1, taking,
                 readButtons, s_caps_pulse_phase, mounted, endpoint>>

Filled == [s_kbd_q EXCEPT ![s_kbd_q_head] = KbdReport]

Fill ==
  /\ pc0 = "fill"
  /\ s_kbd_q' = Filled
  /\ pc0' = "publish"
  /\ UNCHANGED <<kbd_vars, s_kbd_q_head, s_kbd_q_tail, mouse_vars, pc_vars, past_vars, pc1,
                 dropping, taking, readButtons, s_caps_pulse_phase, mounted, endpoint>>

Publish ==
  /\ pc0 = "publish"
  /\ s_kbd_q_head' = Succ(s_kbd_q_head)
  /\ pc0' = IF events = <<>> THEN "poll" ELSE "push"
  /\ UNCHANGED <<kbd_vars, s_kbd_q, s_kbd_q_tail, mouse_vars, pc_vars, past_vars, pc1, dropping,
                 taking, readButtons, s_caps_pulse_phase, mounted, endpoint>>

(* -------- core 0: usb_hid_send_mouse(), usb_hid_pulse_caps_lock() ------ *)

\* adb_to_usb_mouse_reg0(): a register with buttons and a movement
adb_to_usb_mouse_reg0 == \E b \in SUBSET Button :
  /\ pc0 = "poll"
  /\ moves < workload.moves
  /\ moves' = moves + 1
  /\ moving' = [buttons |-> b, moved |-> moves + 1]
  /\ pc0' = "buttons"
  /\ UNCHANGED <<kbd_vars, ring_vars, s_mouse, s_mouse_dirty, pc_vars, workload, keyEvents,
                 pulses, lost, pc1, dropping, taking, readButtons, s_caps_pulse_phase, mounted,
                 endpoint>>

StoreButtons ==
  /\ pc0 = "buttons"
  /\ s_mouse' = [s_mouse EXCEPT !.buttons = moving.buttons]
  /\ pc0' = "movement"
  /\ UNCHANGED <<kbd_vars, ring_vars, s_mouse_dirty, moving, pc_vars, past_vars, pc1, dropping,
                 taking, readButtons, s_caps_pulse_phase, mounted, endpoint>>

StoreMovement ==
  /\ pc0 = "movement"
  /\ s_mouse' = [s_mouse EXCEPT !.moved = moving.moved]
  /\ pc0' = "dirty"
  /\ UNCHANGED <<kbd_vars, ring_vars, s_mouse_dirty, moving, pc_vars, past_vars, pc1, dropping,
                 taking, readButtons, s_caps_pulse_phase, mounted, endpoint>>

MarkDirty ==
  /\ pc0 = "dirty"
  /\ s_mouse_dirty' = TRUE
  /\ moving' = NoRegister
  /\ pc0' = "poll"
  /\ UNCHANGED <<kbd_vars, ring_vars, s_mouse, pc_vars, past_vars, pc1, dropping, taking,
                 readButtons, s_caps_pulse_phase, mounted, endpoint>>

\* Register 2 of the keyboard disagrees with the PC about Caps Lock.
usb_hid_pulse_caps_lock ==
  /\ pc0 = "poll"
  /\ pulses < workload.pulses
  /\ pulses' = pulses + 1
  /\ s_caps_pulse_phase' = IF s_caps_pulse_phase = 0 THEN 1 ELSE s_caps_pulse_phase
  /\ UNCHANGED <<kbd_vars, ring_vars, mouse_vars, pc_vars, workload, keyEvents, moves, lost, pc0,
                 pc1, dropping, taking, readButtons, mounted, endpoint>>

Translate ==
  \/ push_key \/ SendBegin \/ DropRead \/ DropWrite \/ Fill \/ Publish
  \/ StoreButtons \/ StoreMovement \/ MarkDirty
Registers == adb_to_usb_keyboard_reg0 \/ adb_to_usb_mouse_reg0 \/ usb_hid_pulse_caps_lock

(* ------------------ core 1: usb_hid_device_task() ---------------------- *)

\* Mutant: the report before may still be there.
tud_mounted == mounted
tud_hid_ready == mounted /\ endpoint = Empty

\* Mutant: the phase is not put back to 0.
PhaseStuck == IF s_caps_pulse_phase = 1 THEN 2 ELSE 1
NextPhase == IF s_caps_pulse_phase = 1 THEN 2 ELSE 0

\* A pulse of Caps Lock, press or release, goes before everything else.
CapsPulse ==
  /\ pc1 = "task"
  /\ s_caps_pulse_phase # 0 /\ tud_hid_ready
  /\ endpoint' = [kind |-> "pulse", press |-> s_caps_pulse_phase = 1]
  /\ s_caps_pulse_phase' = NextPhase
  /\ UNCHANGED <<kbd_vars, ring_vars, mouse_vars, pc_vars, past_vars, pc0, pc1, dropping, taking,
                 readButtons, mounted>>

DeviceTask ==
  /\ pc1 = "task"
  /\ mounted
  /\ ~(s_caps_pulse_phase # 0 /\ tud_hid_ready)
  /\ pc1' = IF s_kbd_q_tail # s_kbd_q_head /\ tud_hid_ready THEN "take" ELSE "mouse"
  /\ UNCHANGED <<kbd_vars, ring_vars, mouse_vars, pc_vars, past_vars, pc0, dropping, taking,
                 readButtons, s_caps_pulse_phase, mounted, endpoint>>

Take ==
  /\ pc1 = "take"
  /\ taking' = s_kbd_q_tail
  /\ pc1' = "report"
  /\ UNCHANGED <<kbd_vars, ring_vars, mouse_vars, pc_vars, past_vars, pc0, dropping, readButtons,
                 s_caps_pulse_phase, mounted, endpoint>>

Report ==
  /\ pc1 = "report"
  /\ endpoint' = [kind |-> "keyboard", report |-> s_kbd_q[taking]]
  /\ pc1' = "advance"
  /\ UNCHANGED <<kbd_vars, ring_vars, mouse_vars, pc_vars, past_vars, pc0, dropping, taking,
                 readButtons, s_caps_pulse_phase, mounted>>

TailAfter == Succ(taking)

\* The tail is written from the value read before.
Advance ==
  /\ pc1 = "advance"
  /\ s_kbd_q_tail' = TailAfter
  /\ taking' = 0
  /\ pc1' = "mouse"
  /\ UNCHANGED <<kbd_vars, s_kbd_q, s_kbd_q_head, mouse_vars, pc_vars, past_vars, pc0, dropping,
                 readButtons, s_caps_pulse_phase, mounted, endpoint>>

Mouse ==
  /\ pc1 = "mouse"
  /\ IF s_mouse_dirty /\ tud_hid_ready
     THEN s_mouse_dirty' = FALSE /\ pc1' = "buttons"
     ELSE pc1' = "task" /\ UNCHANGED s_mouse_dirty
  /\ UNCHANGED <<kbd_vars, ring_vars, s_mouse, moving, pc_vars, past_vars, pc0, dropping, taking,
                 readButtons, s_caps_pulse_phase, mounted, endpoint>>

ReadButtons ==
  /\ pc1 = "buttons"
  /\ readButtons' = s_mouse.buttons
  /\ pc1' = "movement"
  /\ UNCHANGED <<kbd_vars, ring_vars, mouse_vars, pc_vars, past_vars, pc0, dropping, taking,
                 s_caps_pulse_phase, mounted, endpoint>>

MouseReport ==
  /\ pc1 = "movement"
  /\ endpoint' = [kind |-> "mouse", buttons |-> readButtons, moved |-> s_mouse.moved]
  /\ readButtons' = {}
  /\ pc1' = "task"
  /\ UNCHANGED <<kbd_vars, ring_vars, mouse_vars, pc_vars, past_vars, pc0, dropping, taking,
                 s_caps_pulse_phase, mounted>>

Task == CapsPulse \/ DeviceTask \/ Take \/ Report \/ Advance \/ Mouse \/ ReadButtons \/ MouseReport

(* -------------------------------- the PC ------------------------------- *)

\* The PC enumerates the adapter.
Mount ==
  /\ ~mounted
  /\ mounted' = TRUE
  /\ lost' = IF pc0 \in {"drop", "dropped"} THEN "raced" ELSE lost
  /\ UNCHANGED <<kbd_vars, ring_vars, mouse_vars, pc_vars, workload, keyEvents, pulses, moves,
                 pc0, pc1, dropping, taking, readButtons, s_caps_pulse_phase, endpoint>>

\* The PC polls the endpoint.
PcPolls ==
  /\ endpoint # Empty
  /\ endpoint' = Empty
  /\ pcHeld' = IF endpoint.kind = "keyboard" THEN endpoint.report.held
               ELSE IF endpoint.kind = "pulse" THEN {} ELSE pcHeld
  /\ pcLast' = IF endpoint.kind = "keyboard" THEN endpoint.report.n ELSE pcLast
  /\ pcButtons' = IF endpoint.kind = "mouse" THEN endpoint.buttons ELSE pcButtons
  /\ UNCHANGED <<kbd_vars, ring_vars, mouse_vars, past_vars, pc0, pc1, dropping, taking,
                 readButtons, s_caps_pulse_phase, mounted>>

Next == Registers \/ Translate \/ Task \/ Mount \/ PcPolls

Spec == Init /\ [][Next]_vars

\* Both cores keep running; the PC enumerates the adapter and polls it.
FairSpec == Spec /\ WF_vars(Translate) /\ WF_vars(Task) /\ WF_vars(Mount) /\ WF_vars(PcPolls)

(* ----------------------------- properties ------------------------------ *)

KbdReports == [n : Nat, held : SUBSET Key]

TypeOK ==
  /\ adbHeld \subseteq Key /\ s_keys \subseteq Key \ Modifier /\ s_mod \subseteq Modifier
  /\ Cardinality(s_keys) <= MaxKeys
  /\ events \in Seq([key : Key, up : BOOLEAN])
  /\ serial \in Nat
  /\ s_kbd_q \in [Slot -> KbdReports]
  /\ s_kbd_q_head \in Slot /\ s_kbd_q_tail \in Slot /\ dropping \in Slot /\ taking \in Slot
  /\ pc0 \in {"poll", "push", "send", "drop", "dropped", "fill", "publish", "buttons", "movement",
              "dirty"}
  /\ pc1 \in {"task", "take", "report", "advance", "mouse", "buttons", "movement"}
  /\ s_mouse.buttons \subseteq Button /\ s_mouse_dirty \in BOOLEAN
  /\ s_caps_pulse_phase \in 0 .. 2
  /\ lost \in {"none", "unread", "raced"} /\ mounted \in BOOLEAN
  /\ endpoint.kind \in {"none", "keyboard", "mouse", "pulse"}
  /\ pcHeld \subseteq Key /\ pcLast \in 0 .. serial /\ pcButtons \subseteq Button

\* Both cores rest and the PC has read everything there is to read.
Quiet ==
  /\ pc0 = "poll" /\ pc1 = "task" /\ mounted /\ endpoint = Empty
  /\ s_kbd_q_head = s_kbd_q_tail /\ ~s_mouse_dirty /\ s_caps_pulse_phase = 0

\* The PC gets the report of every key event, in order and once: a press and a
\* release in one register are two reports (docs/adb-host-mode.md, Architecture).
\* If the ring overflowed before the PC came, the oldest are missing, no other.
EveryReportArrives ==
  [][pcLast' # pcLast /\ lost # "raced" =>
       pcLast' = pcLast + 1 \/ (lost = "unread" /\ pcLast = 0 /\ pcLast' > 0)]_vars

\* When all is quiet no key is stuck at the PC, none is missing unless more
\* were held than a report has room for, and the mouse buttons are those of the
\* last register: although the ring may have overflown before the PC came and
\* the mouse cell is written and read without a lock.  (The release of a Caps
\* Lock pulse releases the keys too, until the next key event; an overflow while
\* the PC is there may lose the newest report.)
PcFollowsDevices ==
  Quiet =>
    /\ pulses = 0 /\ lost # "raced" => pcHeld \subseteq adbHeld /\ (crowded \/ pcHeld = adbHeld)
    /\ pcButtons = s_mouse.buttons

Inv == TypeOK /\ PcFollowsDevices

\* With a PC there the ring and the mouse cell are emptied and the pulses end,
\* whatever else is going on.
EverythingSent == (mounted /\ ~Quiet) ~> Quiet
=============================================================================
