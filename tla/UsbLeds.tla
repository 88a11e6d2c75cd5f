------------------------------ MODULE UsbLeds ------------------------------
(***************************************************************************)
(* The lock LEDs of USB keyboards and register 2 of the ADB keyboard.      *)
(* Lock keys of USB keyboards (core 1) and Bluetooth keyboards (core 0),   *)
(* new keyboards, bus resets and Listen 2 of the host set the LEDs;        *)
(* ChangeUSBKeyboardLEDs() sends them on core 1 in rounds over the list of *)
(* keyboards; OnKeyDown keeps flags of its own, which register 2 is made   *)
(* of when core 0 packs an event.                                          *)
(* (lib/QuokkADB/src/platformkbdparser.cpp, usbhost.cpp, quokkadb.cpp,     *)
(* lib/usb/src/usbkbdparser.cpp, lib/adb/src/adbkbdparser.cpp)             *)
(*                                                                         *)
(* One LED stands for the three.  An access to kbdLockingKeys, to          *)
(* usb_set_leds or to the flags, which the cores share without a lock, is  *)
(* a step.  TinyUSB keeps the pointer it is given: the keyboard gets what  *)
(* usb_kbd_leds is when the data stage of the transfer runs.  A transfer   *)
(* may fail, which its callback does not look at, and that of a keyboard   *)
(* that is pulled out is dropped without a callback.  Of the queue only    *)
(* its length matters, and a report is packed at any time.                 *)
(***************************************************************************)
EXTENDS Naturals, FiniteSets, FiniteSetsExt

CONSTANTS
  Lock,          (* the lock key and its LED: "caps", "num" or "scroll"      *)
  Keyboard,      (* USB keyboards                                            *)
  MAX_KEYBOARDS, (* entries of keyboards_list (32)                           *)
  NoKeyboard,    (* an entry not in use, a transfer not in progress          *)
  Workload       (* what may come: whether tuh_hid_set_report() and its      *)
                 (* transfers may fail (fails), whether a keyboard may be    *)
                 (* pulled out in the middle of one (pulls), and how many    *)
                 (* Listens, presses on each core, plugs and resets          *)

Core == {0, 1}

LedsAssumption ==
  /\ Lock \in {"caps", "num", "scroll"}
  /\ MAX_KEYBOARDS \in Nat \ {0} /\ NoKeyboard \notin Keyboard
  /\ IsFiniteSet(Keyboard) /\ Cardinality(Keyboard) <= MAX_KEYBOARDS
  /\ \A w \in Workload :
       /\ w.fails \in BOOLEAN /\ w.pulls \in BOOLEAN
       /\ w.listens \in Nat /\ w.plugs \in Nat /\ w.resets \in Nat
       /\ w.presses \in [Core -> Nat]

Entry == 0 .. MAX_KEYBOARDS - 1
Led == {"on", "off"}
Other(led) == IF led = "on" THEN "off" ELSE "on"

VARIABLES
  kbdLockingKeys, usb_set_leds,
  keyboards_list,  (* the keyboard of each entry, or NoKeyboard              *)
  i, usb_kbd_leds, (* the statics of ChangeUSBKeyboardLEDs                   *)
  set_hid_report_ready,
  sending,         (* the keyboard a Set_Report is on its way to             *)
  sent,            (* its data stage has run                                 *)
  shown,           (* the LED each keyboard shows                            *)
  flag,            (* the lock's flags in m_custom_mod_keys                  *)
  queued,          (* events in m_keyboard_events                            *)
  kbdreg2,         (* the LED bit of register 2 (active low): "on" is 0      *)
  usb_reset,
  pc,              (* what each core does next                               *)
  leds,            (* the LED each core is setting                           *)
  held,            (* the cores whose keyboard holds the lock key            *)
  hurried,         (* history: the last round was asked for while another    *)
                   (* was under way, or one of its transfers did not succeed *)
  workload, listens, presses, plugs, resets   (* events so far (bounded)     *)

round_vars == <<i, usb_kbd_leds, set_hid_report_ready, sending, sent, shown>>
reg2_vars == <<flag, queued, kbdreg2>>
event_vars == <<workload, listens, presses, plugs, resets>>
vars == <<kbdLockingKeys, usb_set_leds, keyboards_list, round_vars, reg2_vars, usb_reset,
          pc, leds, held, hurried, event_vars>>

Init ==
  /\ kbdLockingKeys = "off" /\ usb_set_leds = FALSE
  /\ keyboards_list = [e \in Entry |-> NoKeyboard]
  /\ i = 0 /\ usb_kbd_leds = "off"
  /\ set_hid_report_ready = TRUE /\ sending = NoKeyboard /\ sent = FALSE
  /\ shown = [k \in Keyboard |-> "off"]
  /\ flag = FALSE /\ queued = 0 /\ kbdreg2 = "off"
  /\ usb_reset = FALSE
  /\ pc = [c \in Core |-> "task"] /\ leds = [c \in Core |-> "off"] /\ held = {}
  /\ hurried = FALSE
  /\ workload \in Workload
  /\ listens = 0 /\ presses = [c \in Core |-> 0] /\ plugs = 0 /\ resets = 0

InUse == {keyboards_list[e] : e \in Entry} \ {NoKeyboard}

\* A callback is waited for that never comes.
Abandoned == ~set_hid_report_ready /\ sending = NoKeyboard

Goto(c, label) == pc' = [pc EXCEPT ![c] = label]
SetsTo(c, led, label) == leds' = [leds EXCEPT ![c] = led] /\ Goto(c, label)

(* ------------------------- who sets the LEDs --------------------------- *)

\* Listen 2 and adb_set_leds, on core 0
adb_set_leds == \E led \in Led :
  /\ pc[0] = "task"
  /\ listens < workload.listens
  /\ listens' = listens + 1
  /\ SetsTo(0, led, "set")
  /\ UNCHANGED <<kbdLockingKeys, usb_set_leds, keyboards_list, round_vars, reg2_vars, usb_reset,
                 held, hurried, workload, presses, plugs, resets>>

\* The lock key goes down on a keyboard of either core: HandleLockingKeys.
HandleLockingKeys(c) ==
  /\ pc[c] = "task" /\ c \notin held
  /\ presses[c] < workload.presses[c]
  /\ c = 1 => InUse # {}
  /\ presses' = [presses EXCEPT ![c] = @ + 1]
  /\ held' = held \cup {c}
  /\ SetsTo(c, Other(kbdLockingKeys), "set key")
  /\ UNCHANGED <<kbdLockingKeys, usb_set_leds, keyboards_list, round_vars, reg2_vars, usb_reset,
                 hurried, workload, listens, plugs, resets>>

FirstFree == Min({e \in Entry : keyboards_list[e] = NoKeyboard})

\* tuh_hid_mount_cb and AddKeyboard
AddKeyboard(k) ==
  /\ pc[1] = "task"
  /\ plugs < workload.plugs
  /\ k \notin InUse
  /\ plugs' = plugs + 1
  /\ keyboards_list' = [keyboards_list EXCEPT ![FirstFree] = k]
  /\ shown' = [shown EXCEPT ![k] = "off"]
  /\ SetsTo(1, kbdLockingKeys, "set")
  /\ UNCHANGED <<kbdLockingKeys, usb_set_leds, i, usb_kbd_leds, set_hid_report_ready, sending,
                 sent, reg2_vars, usb_reset, held, hurried, workload, listens, presses, resets>>

\* tuh_hid_umount_cb and RemoveKeyboard; TinyUSB drops a transfer to the keyboard
\* without calling the adapter back.
RemoveKeyboard(k) ==
  /\ pc[1] = "task"
  /\ plugs < workload.plugs
  /\ k \in InUse
  /\ k = sending => workload.pulls
  /\ plugs' = plugs + 1
  /\ keyboards_list' = [e \in Entry |->
       IF keyboards_list[e] = k THEN NoKeyboard ELSE keyboards_list[e]]
  /\ IF k = sending
     THEN sending' = NoKeyboard /\ sent' = FALSE /\ hurried' = TRUE
     ELSE UNCHANGED <<sending, sent, hurried>>
  /\ UNCHANGED <<kbdLockingKeys, usb_set_leds, i, usb_kbd_leds, set_hid_report_ready, shown,
                 reg2_vars, usb_reset, pc, leds, held, workload, listens, presses, resets>>

\* A bus reset: adb.Reset() and the request to core 1
BusReset ==
  /\ pc[0] = "task"
  /\ resets < workload.resets
  /\ resets' = resets + 1
  /\ kbdreg2' = "off"
  /\ usb_reset' = TRUE
  /\ UNCHANGED <<kbdLockingKeys, usb_set_leds, keyboards_list, round_vars, flag, queued, pc, leds,
                 held, hurried, workload, listens, presses, plugs>>

\* KbdRptParser::Reset, which leaves the flags alone
Reset ==
  /\ pc[1] = "reset"
  /\ IF usb_reset THEN queued' = 0 /\ SetsTo(1, "off", "set reset")
     ELSE Goto(1, "task") /\ UNCHANGED <<queued, leds>>
  /\ UNCHANGED <<kbdLockingKeys, usb_set_leds, keyboards_list, round_vars, flag, kbdreg2,
                 usb_reset, held, hurried, event_vars>>

ResetDone ==
  /\ pc[1] = "reset done"
  /\ usb_reset' = FALSE
  /\ Goto(1, "task")
  /\ UNCHANGED <<kbdLockingKeys, usb_set_leds, keyboards_list, round_vars, reg2_vars, leds, held,
                 hurried, event_vars>>

\* SetUSBkeyboardLEDs: the LED, then the request for a round.
SetLeds(c) == \E label \in {"set", "set key", "set reset"} :
  /\ pc[c] = label
  /\ kbdLockingKeys' = leds[c]
  /\ Goto(c, CASE label = "set" -> "ask" [] label = "set key" -> "ask key" [] OTHER -> "ask reset")
  /\ UNCHANGED <<usb_set_leds, keyboards_list, round_vars, reg2_vars, usb_reset, leds, held,
                 hurried, event_vars>>

AskRound(c) == \E label \in {"ask", "ask key", "ask reset"} :
  /\ pc[c] = label
  /\ usb_set_leds' = TRUE
  /\ hurried' = (usb_set_leds \/ Abandoned)
  /\ Goto(c, CASE label = "ask" -> "task"
               [] label = "ask key" -> IF Lock = "caps" THEN "flag" ELSE "event"
               [] OTHER -> "reset done")
  /\ UNCHANGED <<kbdLockingKeys, keyboards_list, round_vars, reg2_vars, usb_reset, leds, held,
                 event_vars>>

(* ---------------------- OnKeyDown and register 2 ----------------------- *)

\* OnKeyDown unsets the flags of Caps Lock when its LED has just been lit and
\* sets them when it has gone out; for the other locks it is the other way round.
Flag(led) == IF Lock = "caps" THEN led = "off" ELSE led = "on"

\* The flags before the event for Caps Lock, after it for the others
SetFlag(c) ==
  /\ pc[c] = "flag"
  /\ flag' = Flag(kbdLockingKeys)
  /\ Goto(c, IF Lock = "caps" THEN "event" ELSE "task")
  /\ UNCHANGED <<kbdLockingKeys, usb_set_leds, keyboards_list, round_vars, queued, kbdreg2,
                 usb_reset, leds, held, hurried, event_vars>>

QueueEvent(c) ==
  /\ pc[c] = "event"
  /\ queued' = queued + 1
  /\ Goto(c, IF Lock = "caps" THEN "task" ELSE "flag")
  /\ UNCHANGED <<kbdLockingKeys, usb_set_leds, keyboards_list, round_vars, flag, kbdreg2,
                 usb_reset, leds, held, hurried, event_vars>>

\* OnKeyUp; the release of Caps Lock is no event.
KeyUp(c) ==
  /\ pc[c] = "task" /\ c \in held
  /\ held' = held \ {c}
  /\ queued' = IF Lock = "caps" THEN queued ELSE queued + 1
  /\ UNCHANGED <<kbdLockingKeys, usb_set_leds, keyboards_list, round_vars, flag, kbdreg2,
                 usb_reset, pc, leds, hurried, event_vars>>

\* GetAdbRegister2, after GetAdbRegister0 has taken one event or two
GetAdbRegister2 == \E taken \in 1 .. 2 :
  /\ pc[0] = "task"
  /\ taken <= queued
  /\ queued' = queued - taken
  /\ kbdreg2' = IF flag THEN "on" ELSE "off"
  /\ UNCHANGED <<kbdLockingKeys, usb_set_leds, keyboards_list, round_vars, flag, usb_reset, pc,
                 leds, held, hurried, event_vars>>

(* ------------------------- core 1: the transfers ----------------------- *)

\* The data stage of the transfer
DataStage ==
  /\ pc[1] = "task"
  /\ sending # NoKeyboard /\ ~sent
  /\ shown' = [shown EXCEPT ![sending] = usb_kbd_leds]
  /\ sent' = TRUE
  /\ UNCHANGED <<kbdLockingKeys, usb_set_leds, keyboards_list, i, usb_kbd_leds, reg2_vars,
                 set_hid_report_ready, sending, usb_reset, pc, leds, held, hurried, event_vars>>

\* Mutant: the callback forgets the flag.
ReadyForgotten == set_hid_report_ready
ReadyAgain == TRUE

\* The transfer has succeeded or failed: its length is not looked at.
tuh_hid_set_report_complete_cb ==
  /\ pc[1] = "task"
  /\ sending # NoKeyboard
  /\ sent \/ workload.fails
  /\ sending' = NoKeyboard /\ sent' = FALSE
  /\ hurried' = (hurried \/ ~sent)
  /\ set_hid_report_ready' = ReadyAgain
  /\ UNCHANGED <<kbdLockingKeys, usb_set_leds, keyboards_list, i, usb_kbd_leds, shown, reg2_vars,
                 usb_reset, pc, leds, held, event_vars>>

(* -------------------- core 1: ChangeUSBKeyboardLEDs -------------------- *)

\* tuh_task() returns.
RoundAsked ==
  /\ pc[1] = "task"
  /\ Goto(1, IF usb_set_leds THEN "round" ELSE "reset")
  /\ UNCHANGED <<kbdLockingKeys, usb_set_leds, keyboards_list, round_vars, reg2_vars, usb_reset,
                 leds, held, hurried, event_vars>>

Sends == set_hid_report_ready /\ keyboards_list[i] # NoKeyboard

\* Mutant: an entry not in use is not passed.
PassedSent == Sends
Passed == Sends \/ keyboards_list[i] = NoKeyboard

PastLast(entry) == entry >= MAX_KEYBOARDS

\* tuh_hid_set_report() takes the report, or fails.
Round ==
  /\ pc[1] = "round"
  /\ usb_kbd_leds' = kbdLockingKeys
  /\ \/ /\ Sends
        /\ set_hid_report_ready' = FALSE /\ sending' = keyboards_list[i] /\ sent' = FALSE
        /\ UNCHANGED hurried
     \/ /\ Sends => workload.fails
        /\ hurried' = (hurried \/ Sends)
        /\ UNCHANGED <<set_hid_report_ready, sending, sent>>
  /\ i' = IF Passed THEN i + 1 ELSE i
  /\ Goto(1, IF PastLast(i') THEN "end" ELSE "reset")
  /\ UNCHANGED <<kbdLockingKeys, usb_set_leds, keyboards_list, shown, reg2_vars, usb_reset, leds,
                 held, event_vars>>

IndexReset == 0

RoundEnds ==
  /\ pc[1] = "end"
  /\ usb_set_leds' = FALSE /\ i' = IndexReset
  /\ Goto(1, "reset")
  /\ UNCHANGED <<kbdLockingKeys, keyboards_list, usb_kbd_leds, set_hid_report_ready, sending,
                 sent, shown, reg2_vars, usb_reset, leds, held, hurried, event_vars>>

Sets(c) == SetLeds(c) \/ AskRound(c) \/ SetFlag(c) \/ QueueEvent(c)
Transfer == DataStage \/ tuh_hid_set_report_complete_cb
Loop == RoundAsked \/ Round \/ RoundEnds \/ Reset \/ ResetDone
Next ==
  \/ adb_set_leds \/ BusReset \/ GetAdbRegister2
  \/ \E c \in Core : HandleLockingKeys(c) \/ KeyUp(c) \/ Sets(c)
  \/ Transfer \/ Loop
  \/ \E k \in Keyboard : AddKeyboard(k) \/ RemoveKeyboard(k)

Spec == Init /\ [][Next]_vars

\* Both cores go on; core 1 alternates between tuh_task(), in which transfers
\* advance, and the rest of its loop; core 0 packs what is queued.
FairSpec ==
  /\ Spec
  /\ \A c \in Core : WF_vars(Sets(c))
  /\ SF_vars(Transfer) /\ SF_vars(Loop) /\ SF_vars(GetAdbRegister2)

(* ------------------------------ properties ----------------------------- *)

TypeOK ==
  /\ {kbdLockingKeys, usb_kbd_leds, kbdreg2, leds[0], leds[1]} \subseteq Led
  /\ shown \in [Keyboard -> Led]
  /\ {usb_set_leds, set_hid_report_ready, sent, flag, usb_reset, hurried} \subseteq BOOLEAN
  /\ keyboards_list \in [Entry -> Keyboard \cup {NoKeyboard}]
  /\ sending \in Keyboard \cup {NoKeyboard}
  /\ queued \in Nat /\ held \subseteq Core
  /\ pc[1] # "end" => i \in Entry

\* usb_kbd_leds, the buffer of a transfer, belongs to one keyboard at a time: no
\* report is handed to TinyUSB before the callback of the last, and none is
\* waited for that is not on its way (which stops the LEDs for good), but where a
\* keyboard was pulled out in the middle of a transfer.
OneAtATime ==
  /\ set_hid_report_ready => sending = NoKeyboard
  /\ Abandoned => workload.pulls /\ hurried

\* Whatever is plugged in, set, reset or refused meanwhile, and wherever the
\* round stands, it comes to its end and can be asked for again, until a transfer
\* is dropped.
RoundsEnd == usb_set_leds ~> ~usb_set_leds \/ Abandoned

\* "Host keyboard LED state is handled via ADB register 2 / USB OUT reports"
\* (docs/led-support.md:39): every keyboard ends up showing the LED as it was set
\* last, by whatever core.
LedsShown == <>[](\A k \in InUse : shown[k] = kbdLockingKeys)

\* It does if the round asked for last was asked for when no other was under way
\* and its transfers have succeeded: the LEDs may be set at any time, but the last
\* time not in the middle of a round.
LastRoundShown == <>[]~hurried => LedsShown

\* At rest: no lock key is held and every event has been packed.
AtRest == queued = 0 /\ held = {} /\ pc[0] = "task" /\ pc[1] \in {"task", "round", "end", "reset"}

\* The host reads in register 2 the LED the lock keys have set, although flags,
\* LED and event are written one after the other and read by the other core in
\* between.  (Listen 2 and a bus reset change the LED and not the flags; of two
\* cores that set the LED at once, one writes back what it read before, be it for
\* a key or for a new keyboard.)
OneCoreSets == listens = 0 /\ resets = 0 /\ (presses[0] = 0 \/ presses[1] + plugs = 0)
Reg2ShowsLed == AtRest /\ OneCoreSets => kbdreg2 = kbdLockingKeys
=============================================================================
