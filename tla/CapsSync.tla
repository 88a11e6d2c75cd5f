------------------------------ MODULE CapsSync ------------------------------
(***************************************************************************)
(* ADB host mode: Caps Lock is kept the same on the ADB keyboard, which    *)
(* locks it, and on the PC.  Core 0 reads the keyboard's register 2 and    *)
(* asks for a pulse of the key when it differs from what the PC last said  *)
(* (src/adb_to_usb.cpp, lib/adb/src/adb_host.cpp); core 1 sends the pulse  *)
(* and, in the callback of the PC's LED report, writes register 2          *)
(* (src/usb_hid_device.c).  Both cores drive the ADB bus and share         *)
(* variables, without a lock: an access to one of them is a step.          *)
(*                                                                         *)
(* Of the LEDs only Caps Lock is modelled; the others stay off.  The       *)
(* keyboard answers register 2 with its lock, as adb_to_usb_apply_reg2()   *)
(* takes it to.  The PC takes a pulse only after core 0 is done with the   *)
(* register that asked for it: a few instructions against a USB frame.     *)
(***************************************************************************)
EXTENDS Naturals

CONSTANT Workload
  (* what may come: whether the users press Caps Lock only when everything is *)
  (* at rest (spaced), and how many presses on the ADB keyboard (keyboards),  *)
  (* changes on the PC itself (pcs) and Talks 2 that fail for other reasons   *)
  (* (noise)                                                                  *)

ASSUME CapsAssumption == \A w \in Workload :
  w.spaced \in BOOLEAN /\ w.keyboards \in Nat /\ w.pcs \in Nat /\ w.noise \in Nat

Led == {"on", "off"}
\* What receive_register16() returns of register 2: silence reads as 0.
Answer == Led \cup {"zero", "error"}
Other(led) == IF led = "on" THEN "off" ELSE "on"

VARIABLES
  lock,           (* Caps Lock on the ADB keyboard                           *)
  pcCaps,         (* Caps Lock on the PC                                     *)
  reported,       (* the state in the PC's last LED report                   *)
  s_host_leds,    (* the Caps Lock bit of s_host_leds                        *)
  last_usb_leds_, (* the LEDs last written to or read from register 2        *)
  s_caps_pulse_phase,
  endpoint,       (* a report of the pulse in the endpoint, or none          *)
  pc0, pc1,       (* what each core does next                                *)
  reg2,           (* core 0: the register being applied                      *)
  host,           (* core 0: s_host_leds as read                             *)
  hid_leds,       (* core 1: the LED report in tud_hid_set_report_cb()       *)
  clash,          (* the cores whose transaction the other one disturbed     *)
  wanted,         (* history: Caps Lock as the users want it                 *)
  workload, keyboards, pcs, noise  (* events so far (bounded)                *)

core0_vars == <<pc0, reg2, host>>
core1_vars == <<pc1, hid_leds>>
event_vars == <<wanted, workload, keyboards, pcs, noise>>
pc_vars == <<pcCaps, reported, endpoint>>
shared_vars == <<s_host_leds, last_usb_leds_, s_caps_pulse_phase>>
vars == <<lock, pc_vars, shared_vars, core0_vars, core1_vars, clash, event_vars>>

Init ==
  /\ lock = "off" /\ pcCaps = "off" /\ reported = "off"
  /\ s_host_leds = "off" /\ last_usb_leds_ \in {"unknown", "off"}
  /\ s_caps_pulse_phase = 0 /\ endpoint = "none"
  /\ pc0 = "poll" /\ pc1 = "task"
  /\ reg2 = "off" /\ host = "off" /\ hid_leds = "off"
  /\ clash = {}
  /\ workload \in Workload /\ wanted = "off" /\ keyboards = 0 /\ pcs = 0 /\ noise = 0

Talking == pc0 \in {"r0", "r2"}
Listening == pc1 = "listen"
Clashing == IF Talking' /\ Listening' THEN {0, 1} ELSE {}

(* -------------------------------- core 0 ------------------------------- *)

\* poll_device_slot: Talk 0, then Talk 2 after an idle answer or the release of
\* Caps Lock, not after other keys or an error
TalkR0 ==
  /\ pc0 = "poll"
  /\ pc0' = "r0"
  /\ UNCHANGED <<lock, pc_vars, shared_vars, reg2, host, core1_vars, event_vars>>
  /\ clash' = clash \cup Clashing

TalkR2 ==
  /\ pc0 = "r0"
  /\ pc0' = "r2"
  /\ UNCHANGED <<lock, pc_vars, shared_vars, reg2, host, core1_vars, event_vars>>
  /\ clash' = (clash \ {0}) \cup Clashing

NoR2 ==
  /\ pc0 = "r0"
  /\ pc0' = "poll"
  /\ clash' = clash \ {0}
  /\ UNCHANGED <<lock, pc_vars, shared_vars, reg2, host, core1_vars, event_vars>>

\* receive_register16, of a Talk the other core may have disturbed
Answered ==
  /\ pc0 = "r2"
  /\ \/ reg2' = lock /\ UNCHANGED noise
     \/ /\ \/ 0 \in clash /\ UNCHANGED noise
           \/ noise < workload.noise /\ noise' = noise + 1
        /\ reg2' \in (IF 0 \in clash THEN Answer ELSE {"zero", "error"})
  /\ pc0' = IF reg2' = "error" THEN "poll" ELSE "apply"
  /\ clash' = clash \ {0}
  /\ UNCHANGED <<lock, pc_vars, shared_vars, host, core1_vars, wanted, workload, keyboards, pcs>>

\* Mutant: the LED bit of register 2 is taken for active high.
kbd_caps_ActiveHigh(reg) == Other(IF reg = "off" THEN "off" ELSE "on")
kbd_caps(reg) == IF reg = "off" THEN "off" ELSE "on"

\* Mutant: only the locking of the key is passed on.
Locks == kbd_caps(reg2) = "on" /\ s_host_leds = "off"
Differs == kbd_caps(reg2) # s_host_leds

\* adb_to_usb_apply_reg2, its read of s_host_leds
ApplyReg2 ==
  /\ pc0 = "apply"
  /\ pc0' = IF Differs THEN "pulse" ELSE "last"
  /\ UNCHANGED <<lock, pc_vars, shared_vars, reg2, host, core1_vars, clash, event_vars>>

PhaseAsked == IF s_caps_pulse_phase = 0 THEN 1 ELSE s_caps_pulse_phase

usb_hid_pulse_caps_lock ==
  /\ pc0 = "pulse"
  /\ s_caps_pulse_phase' = PhaseAsked
  /\ pc0' = "flip"
  /\ UNCHANGED <<lock, pc_vars, s_host_leds, last_usb_leds_, reg2, host, core1_vars, clash,
                 event_vars>>

\* s_host_leds ^= 0x02, a read and a write
ReadHostLeds ==
  /\ pc0 = "flip"
  /\ host' = s_host_leds
  /\ pc0' = "flipped"
  /\ UNCHANGED <<lock, pc_vars, shared_vars, reg2, core1_vars, clash, event_vars>>

Flipped(led) == Other(led)

FlipHostLeds ==
  /\ pc0 = "flipped"
  /\ s_host_leds' = Flipped(host)
  /\ pc0' = "last"
  /\ UNCHANGED <<lock, pc_vars, last_usb_leds_, s_caps_pulse_phase, reg2, host, core1_vars,
                 clash, event_vars>>

sync_keyboard_leds_from_device ==
  /\ pc0 = "last"
  /\ last_usb_leds_' = reg2
  /\ pc0' = "poll"
  /\ UNCHANGED <<lock, pc_vars, s_host_leds, s_caps_pulse_phase, reg2, host, core1_vars,
                 clash, event_vars>>

(* -------------------------------- core 1 ------------------------------- *)

\* tud_task(): the LED report of the PC arrives
tud_hid_set_report_cb ==
  /\ pc1 = "task"
  /\ reported # pcCaps
  /\ reported' = pcCaps /\ hid_leds' = pcCaps
  /\ pc1' = "note"
  /\ UNCHANGED <<lock, pcCaps, endpoint, shared_vars, core0_vars, clash, event_vars>>

adb_to_usb_note_host_leds ==
  /\ pc1 = "note"
  /\ s_host_leds' = hid_leds
  /\ pc1' = "compare"
  /\ UNCHANGED <<lock, pc_vars, last_usb_leds_, s_caps_pulse_phase, core0_vars, hid_leds,
                 clash, event_vars>>

\* apply_usb_leds
SameLeds ==
  /\ pc1 = "compare"
  /\ pc1' = IF hid_leds = last_usb_leds_ THEN "task" ELSE "store"
  /\ UNCHANGED <<lock, pc_vars, shared_vars, core0_vars, hid_leds, clash, event_vars>>

apply_usb_leds ==
  /\ pc1 = "store"
  /\ last_usb_leds_' = hid_leds
  /\ pc1' = "listen"
  /\ UNCHANGED <<lock, pc_vars, s_host_leds, s_caps_pulse_phase, core0_vars, hid_leds, event_vars>>
  /\ clash' = clash \cup Clashing

\* Listen 2 reaches the keyboard, or is spoiled by a Talk of core 0.
Listens == {hid_leds} \cup (IF 1 \in clash THEN {lock} ELSE {})

ListenR2 ==
  /\ pc1 = "listen"
  /\ lock' \in Listens
  /\ pc1' = "task"
  /\ clash' = clash \ {1}
  /\ UNCHANGED <<pc_vars, shared_vars, core0_vars, hid_leds, event_vars>>

\* usb_hid_device_task
PulseDown ==
  /\ pc1 = "task"
  /\ s_caps_pulse_phase = 1 /\ endpoint = "none"
  /\ endpoint' = "caps" /\ s_caps_pulse_phase' = 2
  /\ UNCHANGED <<lock, pcCaps, reported, s_host_leds, last_usb_leds_, core0_vars, core1_vars,
                 clash, event_vars>>

PhaseDone == 0

PulseUp ==
  /\ pc1 = "task"
  /\ s_caps_pulse_phase = 2 /\ endpoint = "none"
  /\ endpoint' = "no key" /\ s_caps_pulse_phase' = PhaseDone
  /\ UNCHANGED <<lock, pcCaps, reported, s_host_leds, last_usb_leds_, core0_vars, core1_vars,
                 clash, event_vars>>

(* ------------------------- the PC and the users ------------------------ *)

PcTakesReport ==
  /\ endpoint # "none"
  /\ pc0 \in {"poll", "r0", "r2"}
  /\ endpoint' = "none"
  /\ pcCaps' = IF endpoint = "caps" THEN Other(pcCaps) ELSE pcCaps
  /\ UNCHANGED <<lock, reported, shared_vars, core0_vars, core1_vars, clash, event_vars>>

Quiet ==
  /\ s_caps_pulse_phase = 0 /\ endpoint = "none" /\ reported = pcCaps /\ pc1 = "task"
  /\ pc0 \in {"poll", "r0"}
  /\ lock = s_host_leds
Pressed == (workload.spaced => Quiet) /\ wanted' = Other(wanted)

KeyboardPressed ==
  /\ keyboards < workload.keyboards
  /\ keyboards' = keyboards + 1
  /\ Pressed
  /\ lock' = Other(lock)
  /\ UNCHANGED <<pc_vars, shared_vars, core0_vars, core1_vars, clash, workload, pcs, noise>>

PcPressed ==
  /\ pcs < workload.pcs
  /\ pcs' = pcs + 1
  /\ Pressed
  /\ pcCaps' = Other(pcCaps)
  /\ UNCHANGED <<lock, reported, endpoint, shared_vars, core0_vars, core1_vars, clash,
                 workload, keyboards, noise>>

Core0 ==
  \/ TalkR0 \/ TalkR2 \/ NoR2 \/ Answered \/ ApplyReg2 \/ usb_hid_pulse_caps_lock
  \/ ReadHostLeds \/ FlipHostLeds \/ sync_keyboard_leds_from_device
Core1 ==
  \/ tud_hid_set_report_cb \/ adb_to_usb_note_host_leds \/ SameLeds \/ apply_usb_leds
  \/ ListenR2 \/ PulseDown \/ PulseUp
Next == Core0 \/ Core1 \/ PcTakesReport \/ KeyboardPressed \/ PcPressed

Spec == Init /\ [][Next]_vars

\* Both cores go on, the PC polls, and the keyboard is idle time and again, which
\* is when register 2 is read.
FairSpec ==
  /\ Spec
  /\ WF_vars(Core0) /\ WF_vars(Core1) /\ SF_vars(PcTakesReport)
  /\ SF_vars(TalkR2)
  /\ WF_vars(tud_hid_set_report_cb)

(* ------------------------------ properties ----------------------------- *)

TypeOK ==
  /\ {lock, pcCaps, reported, s_host_leds, host, hid_leds, wanted} \subseteq Led
  /\ last_usb_leds_ \in Led \cup {"unknown", "zero"} /\ reg2 \in Answer
  /\ s_caps_pulse_phase \in 0 .. 2 /\ endpoint \in {"none", "caps", "no key"}
  /\ clash \subseteq {0, 1}

\* However the presses, the pulses and the LED reports interleave, and whatever
\* the bus does, the adapter does not stay for ever with an idea of Caps Lock that
\* is not the keyboard's.
KeyboardIsFollowed == []<>(lock = s_host_leds)

\* A pulse ends: the PC never takes Caps Lock for held, and the next difference
\* of register 2 can ask for one again.
PulseEnds == s_caps_pulse_phase # 0 ~> s_caps_pulse_phase = 0

\* When everything is at rest Caps Lock is what the users made it: no press is
\* undone by the adapter, none is made up.
CapsFollowsUsers == Quiet /\ pc0 = "poll" => pcCaps = wanted

\* With presses one at a time on the ADB keyboard, and a bus free of noise, that
\* holds, though both cores write the LEDs they last saw.
Undisturbed == workload.spaced /\ workload.pcs = 0 /\ workload.noise = 0
OwnCapsFollowsUsers == Undisturbed => CapsFollowsUsers

\* All variables keep their types, and the above.
CapsKept == TypeOK /\ OwnCapsFollowsUsers

\* And keyboard, PC and the adapter's idea of the PC agree in the end.
CapsSettles == Undisturbed => <>[](lock = pcCaps /\ s_host_leds = pcCaps)
=============================================================================
