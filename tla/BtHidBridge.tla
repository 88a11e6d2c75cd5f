---------------------------- MODULE BtHidBridge ----------------------------
(***************************************************************************)
(* The Bluetooth HID bridge (lib/QuokkADB/src/bt_hid_bridge.cpp): what the *)
(* keyboards, the mouse and the gamepad last sent becomes one keyboard     *)
(* report and one mouse report for the parsers.  Core 0 runs the callbacks *)
(* of Bluepad32 (bluepad32_poll) and then process_bluepad32_devices, so    *)
(* each is a step; a USB mouse reports to the same parser from core 1.     *)
(*                                                                         *)
(* Key codes are members of sets.  Movement is its sources: those whose    *)
(* movement is pending in the parser.  Modifiers, the wheel and the        *)
(* details of a report that KeyPipeline and MousePipeline model are left   *)
(* out; a parsed report replaces the keys, or the buttons, of the last.    *)
(***************************************************************************)
EXTENDS Naturals, FiniteSets, Sequences, SequencesExt

CONSTANTS
  Keyboards,      (* BLUEPAD32_MAX_BT_KEYBOARDS slots, 1 .. Keyboards        *)
  GamepadKeys,    (* the keys of D-pad and buttons, as the code takes them   *)
  Slots,          (* keys of a report (6)                                    *)
  Workload        (* which devices there may be and what they may do: the    *)
                  (* keyboards and the lists of keys (keys) they send, the   *)
                  (* buttons (mouse) of the mouse, those (pad) of L1 and R2, *)
                  (* whether the gamepad's keys and stick are used, the      *)
                  (* buttons (usb) of a USB mouse and whether there is one,  *)
                  (* and a bound (events) on connections, pauses and reports *)
                  (* of the USB mouse                                        *)

Keyboard == 1 .. Keyboards
GamepadKey == Range(GamepadKeys)

BridgeAssumption ==
  /\ Keyboards \in Nat \ {0} /\ Slots \in Nat \ {0}
  /\ GamepadKeys \in Seq(GamepadKey)
  /\ \A w \in Workload :
       /\ w.keyboards \subseteq Keyboard 
       /\ \A r \in w.keys : r \in Seq(Range(r)) /\ Len(r) <= Slots
       /\ w.padKeys \subseteq GamepadKey /\ w.stick \in BOOLEAN /\ w.usbMouse \in BOOLEAN
       /\ w.events \in Nat

VARIABLES
  kbd, mouse, gp,  (* the storage of bluepad32_platform.c: connected (on),   *)
                   (* updated (new) and the last data                        *)
  paused,          (* core1_get_bt_pause_depth() > 0                         *)
  prev_gp_mouse_btn, prev_buttons, s_bt_buttons_latched, s_gp_buttons_latched,
  gp_stick_was_moving, prev_gp_count,
  held,            (* keys of the last report KeyboardPrs parsed             *)
  pressed,         (* buttons of the last report MousePrs parsed             *)
  pending,         (* sources of its pending movement                        *)
  usb,             (* buttons held on the USB mouse                          *)
  workload,        (* what comes in this behaviour                            *)
  events           (* events so far (bounded)                                *)

store_vars == <<kbd, mouse, gp, paused>>
latch_vars == <<prev_gp_mouse_btn, prev_buttons, s_bt_buttons_latched,
                s_gp_buttons_latched, gp_stick_was_moving, prev_gp_count>>
parser_vars == <<held, pressed, pending>>
vars == <<store_vars, latch_vars, parser_vars, usb, workload, events>>

NoKeyboard == [on |-> FALSE, new |-> FALSE, keys |-> <<>>]
NoMouse == [on |-> FALSE, new |-> FALSE, buttons |-> {}, moves |-> FALSE]
NoGamepad == [on |-> FALSE, new |-> FALSE, keys |-> {}, buttons |-> {}, moves |-> FALSE]

Init ==
  /\ kbd = [k \in Keyboard |-> NoKeyboard] /\ mouse = NoMouse /\ gp = NoGamepad
  /\ paused = FALSE
  /\ prev_gp_mouse_btn = {} /\ prev_buttons = {}
  /\ s_bt_buttons_latched = {} /\ s_gp_buttons_latched = {}
  /\ gp_stick_was_moving = FALSE /\ prev_gp_count = 0
  /\ held = {} /\ pressed = {} /\ pending = {} /\ usb = {}
  /\ workload \in Workload /\ events = 0

(* ------------------------- Bluepad32's callbacks ----------------------- *)

Event == events < workload.events /\ events' = events + 1

\* device_ready and the disconnection of a device
KeyboardLink(k) ==
  /\ Event /\ k \in workload.keyboards
  /\ kbd' = [kbd EXCEPT ![k] = [NoKeyboard EXCEPT !.on = ~kbd[k].on]]
  /\ UNCHANGED <<mouse, gp, paused, latch_vars, parser_vars, usb, workload>>

MouseLink ==
  /\ Event
  /\ mouse' = [NoMouse EXCEPT !.on = ~mouse.on]
  /\ UNCHANGED <<kbd, gp, paused, latch_vars, parser_vars, usb, workload>>

GamepadLink ==
  /\ Event
  /\ gp' = [NoGamepad EXCEPT !.on = ~gp.on]
  /\ UNCHANGED <<kbd, mouse, paused, latch_vars, parser_vars, usb, workload>>

\* on_controller_data; the first report of a keyboard or a mouse connects it.
KeyboardData(k) ==
  /\ kbd[k].on
  /\ \E keys \in workload.keys :
       kbd' = [kbd EXCEPT ![k] = [on |-> TRUE, new |-> TRUE, keys |-> keys]]
  /\ UNCHANGED <<mouse, gp, paused, latch_vars, parser_vars, usb, workload, events>>

MouseData ==
  /\ mouse.on
  /\ \E b \in SUBSET workload.mouse, moves \in BOOLEAN :
       mouse' = [on |-> TRUE, new |-> TRUE, buttons |-> b, moves |-> moves]
  /\ UNCHANGED <<kbd, gp, paused, latch_vars, parser_vars, usb, workload, events>>

GamepadData ==
  /\ gp.on
  /\ \E keys \in SUBSET workload.padKeys, b \in SUBSET workload.pad,
        moves \in {FALSE, workload.stick} :
       gp' = [on |-> TRUE, new |-> TRUE, keys |-> keys, buttons |-> b, moves |-> moves]
  /\ UNCHANGED <<kbd, mouse, paused, latch_vars, parser_vars, usb, workload, events>>

\* Core 1 is paused for a pairing, or resumes.
Pause ==
  /\ Event
  /\ paused' = ~paused
  /\ UNCHANGED <<kbd, mouse, gp, latch_vars, parser_vars, usb, workload>>

(* ------------------------------ keyboards ------------------------------ *)

\* A key is added once, if there is room.
append_unique_key(keys, k) ==
  IF k \in Range(keys) \/ Len(keys) >= Slots THEN keys ELSE Append(keys, k)

\* The keys of "a", then those of "b" there is room for
merge_keyboard_reports(a, b) == FoldLeft(append_unique_key, a, b)
Connected == {k \in Keyboard : kbd[k].on}
bluepad32_get_keyboard == \E k \in Connected : kbd[k].new
bluepad32_get_gamepad == gp.on /\ gp.new

\* The reports of all keyboards as one
peek_keyboard_reports_merged ==
  FoldLeft(merge_keyboard_reports, <<>>, [k \in Keyboard |-> kbd[k].keys])

include_gamepad_keys_in_keyboard_report == gp.on /\ (Connected = {} \/ ~paused)

fill_keys_from_gamepad ==
  FoldLeft(LAMBDA keys, k : IF k \in gp.keys THEN append_unique_key(keys, k) ELSE keys,
           <<>>, GamepadKeys)

GamepadKeysIncluded ==
  IF include_gamepad_keys_in_keyboard_report THEN fill_keys_from_gamepad ELSE <<>>

\* build_merged_bt_keyboard_report and Parse: without a keyboard an empty
\* report is not parsed.
process_bluepad32_keyboard_and_gamepad ==
  LET gp_keys == GamepadKeysIncluded
  IN held' = IF /\ bluepad32_get_keyboard \/ bluepad32_get_gamepad
                /\ Connected # {} \/ gp_keys # <<>>
             THEN Range(merge_keyboard_reports(peek_keyboard_reports_merged, gp_keys))
             ELSE held

(* -------------------------------- mouse -------------------------------- *)

\* The last gamepad is gone since the last pass.
GamepadLost == prev_gp_count > 0 /\ ~gp.on
Kept(latch) == IF GamepadLost THEN {} ELSE latch

Moves == mouse.on /\ mouse.new /\ mouse.moves

\* Mutant: the latch is not released.
BtLatch_Sticky == IF mouse.buttons # {} THEN mouse.buttons ELSE Kept(s_bt_buttons_latched)

\* The latch of the Bluetooth mouse's buttons.  What get_mouse returns was last
\* seen by peek.
BtLatch ==
  IF mouse.buttons # {} THEN mouse.buttons
  ELSE IF ~Moves /\ Kept(s_gp_buttons_latched) = {} THEN {}
  ELSE Kept(s_bt_buttons_latched)

\* Mutant: a mouse report ends the gamepad's buttons.
GpLatch_Momentary == IF bluepad32_get_gamepad THEN gp.buttons ELSE {}
GpLatch == IF bluepad32_get_gamepad THEN gp.buttons ELSE Kept(s_gp_buttons_latched)

Buttons == mouse.buttons \cup BtLatch \cup GpLatch

StickMoves == bluepad32_get_gamepad /\ gp.moves
Recentred ==
  bluepad32_get_gamepad /\ ~gp.moves /\ gp_stick_was_moving /\ ~GamepadLost

Emitted ==
  \/ Moves \/ StickMoves
  \/ Buttons # Kept(prev_buttons)
  \/ bluepad32_get_gamepad /\ gp.buttons # Kept(prev_gp_mouse_btn)
  \/ bluepad32_get_gamepad /\ GpLatch # {}

Source == (IF Moves THEN {"mouse"} ELSE {}) \cup (IF StickMoves THEN {"stick"} ELSE {})
Cleared == IF GamepadLost \/ Recentred THEN {} ELSE pending

process_bluepad32_mouse_merged ==
  /\ prev_gp_count' = IF gp.on THEN 1 ELSE 0
  /\ s_bt_buttons_latched' = BtLatch
  /\ s_gp_buttons_latched' = GpLatch
  /\ gp_stick_was_moving' = (StickMoves \/ (gp_stick_was_moving /\ ~GamepadLost /\ ~Recentred))
  /\ pressed' = IF Emitted THEN Buttons ELSE pressed
  /\ pending' = IF StickMoves THEN Source ELSE Cleared \cup Source
  /\ prev_buttons' = IF Emitted THEN Buttons ELSE Kept(prev_buttons)
  /\ prev_gp_mouse_btn' = IF Emitted /\ bluepad32_get_gamepad THEN gp.buttons
                          ELSE Kept(prev_gp_mouse_btn)

process_bluepad32_devices ==
  /\ UNCHANGED <<paused, usb, workload, events>>
  /\ kbd' = [k \in Keyboard |-> [kbd[k] EXCEPT !.new = FALSE]]
  /\ mouse' = [mouse EXCEPT !.new = FALSE]
  /\ gp' = [gp EXCEPT !.new = FALSE]
  /\ process_bluepad32_mouse_merged
  /\ process_bluepad32_keyboard_and_gamepad

\* A USB mouse reports to the same parser; core 0 reads the movement.
UsbMouse ==
  /\ Event /\ workload.usbMouse
  /\ \E b \in SUBSET workload.usb, moves \in BOOLEAN :
       /\ usb' = b
       /\ pressed' = b
       /\ pending' = IF moves THEN pending \cup {"usb"} ELSE pending
  /\ UNCHANGED <<store_vars, latch_vars, held, workload>>

GetAdbRegister0 ==
  /\ pending # {}
  /\ pending' = {}
  /\ UNCHANGED <<store_vars, latch_vars, held, pressed, usb, workload, events>>

Link == MouseLink \/ GamepadLink \/ \E k \in Keyboard : KeyboardLink(k)
Data == MouseData \/ GamepadData \/ \E k \in Keyboard : KeyboardData(k)

Next ==
  \/ Link \/ Data \/ Pause
  \/ process_bluepad32_devices
  \/ UsbMouse \/ GetAdbRegister0

Spec == Init /\ [][Next]_vars

\* The loop of core 0 goes on, and the keyboards send reports again and again.
FairSpec ==
  /\ Spec /\ WF_vars(process_bluepad32_devices)
  /\ \A k \in Keyboard : WF_vars(KeyboardData(k))

(* ------------------------------ properties ----------------------------- *)

TypeOK ==
  /\ workload \in Workload
  /\ \A k \in Keyboard : kbd[k].keys \in workload.keys \cup {<<>>}
  /\ mouse.buttons \subseteq workload.mouse /\ gp.buttons \subseteq workload.pad
  /\ s_bt_buttons_latched \subseteq workload.mouse /\ s_gp_buttons_latched \subseteq workload.pad
  /\ pressed \subseteq workload.mouse \cup workload.pad \cup workload.usb
  /\ pending \subseteq {"mouse", "stick", "usb"}
  /\ Cardinality(held) <= Slots

\* The first keyboard's keys are always among those of the report, however many
\* keys the other keyboard and the gamepad hold.
KeyboardKeysHaveRoom ==
  kbd[1].on /\ ~kbd[1].new => Range(kbd[1].keys) \subseteq held

Inv == TypeOK /\ KeyboardKeysHaveRoom

\* "movement frames cannot spuriously release the button" (docs/gamepad-support.md):
\* a button held on the Bluetooth mouse, or on the gamepad as long as it is
\* there, is not released by any report of the other.  (A USB mouse releases it.)
DragHolds ==
  [][\A b \in pressed :
       /\ ~workload.usbMouse
       /\ \/ b \in mouse.buttons /\ b \in mouse'.buttons
          \/ b \in s_gp_buttons_latched /\ b \in gp.buttons
       => b \in pressed']_vars

Wanted == gp.keys \cup UNION {Range(kbd[k].keys) : k \in Keyboard}
Processed == ~gp.new /\ \A k \in Keyboard : ~kbd[k].new

\* With a keyboard that goes on reporting, the keys of a gamepad are held (if there
\* is room), and those of a device that was disconnected, or left out for a
\* pairing, do not stay behind; and when
\* every button is up and the mouse at rest the latches let go, as long as a
\* gamepad once connected stays: what is held settles on what the devices hold.
KeysSettle ==
  \A keys \in SUBSET GamepadKey :
    <>[](gp.keys = keys /\ gp.on /\ ~paused /\ Connected # {} /\ Connected = workload.keyboards)
      => <>[](Processed => /\ held \subseteq Wanted
                           /\ Cardinality(Wanted) <= Slots => keys \subseteq held)
ButtonsSettle ==
  /\ [](gp.on => []gp.on)
  /\ <>[](mouse.buttons = {} /\ gp.buttons = {} /\ usb = {} /\ ~Moves)
  => <>[](pressed = {})
HeldSettles == KeysSettle /\ ButtonsSettle
=============================================================================
