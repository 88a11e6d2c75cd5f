----------------------------- MODULE MCLockKeys -----------------------------
(* Lock keys and their LEDs, in both modes: Caps Lock of an ADB keyboard and of *)
(* the PC in host mode (CapsSync) and, in behaviours of their own, the LEDs of  *)
(* USB keyboards and register 2 in device mode (UsbLeds).  A behaviour runs one *)
(* of the two while the other rests.                                            *)
EXTENDS CapsSync

CONSTANTS Lock, Keyboard, MAX_KEYBOARDS, NoKeyboard,  (* of UsbLeds *)
          Presses,         (* Workload of UsbLeds *)
          Parts            (* the parts that may run: "leds", "caps" *)

(* ------------------------------ host mode ------------------------------ *)

\* The ADB keyboard alone, one press after the other; presses at any time on
\* either side; a press on the keyboard and a transaction that fails.
Spaced == [spaced |-> TRUE, keyboards |-> 3, pcs |-> 0, noise |-> 0]
AnyTime == [spaced |-> FALSE, keyboards |-> 1, pcs |-> 1, noise |-> 0]
Noisy == [spaced |-> FALSE, keyboards |-> 1, pcs |-> 0, noise |-> 1]
BothSides == {Spaced, AnyTime, Noisy}

(* ----------------------------- device mode ----------------------------- *)

\* Without bus resets, failures or presses
Idle == [fails |-> FALSE, pulls |-> FALSE, listens |-> 0, plugs |-> 1, resets |-> 0,
         presses |-> [c \in {0, 1} |-> 0]]
OneCore(c, n) == [Idle EXCEPT !.presses[c] = n]

\* Keyboards that come, go and return; both cores at once; transfers that fail, with
\* a reset, and that are dropped; the keys of one core only.
LedWorkload ==
  {[Idle EXCEPT !.presses[1] = 1, !.plugs = 3],
   [Idle EXCEPT !.listens = 1, !.presses[1] = 1],
   [Idle EXCEPT !.fails = TRUE, !.listens = 1, !.resets = 1],
   [Idle EXCEPT !.fails = TRUE, !.presses[0] = 1, !.plugs = 2],
   [Idle EXCEPT !.pulls = TRUE, !.listens = 1, !.plugs = 3],
   OneCore(1, 2), OneCore(0, 2)}

OneKeyboard == {OneCore(1, 2)}

(* ------------------------- one of the two runs ------------------------- *)

VARIABLES
  part,          \* which of the two runs in this behaviour
  kbdLockingKeys, usb_set_leds, keyboards_list, i, usb_kbd_leds, set_hid_report_ready, sending,
  sent, shown, flag, queued, kbdreg2, usb_reset, pc, leds, held, hurried, presser, listens, presses,
  plugs, resets

Leds == INSTANCE UsbLeds WITH
  Workload <- Presses, workload <- presser

ASSUME LedsAssumed == Leds!LedsAssumption

leds_vars ==
  <<kbdLockingKeys, usb_set_leds, keyboards_list, i, usb_kbd_leds, set_hid_report_ready, sending,
    sent, shown, flag, queued, kbdreg2, usb_reset, pc, leds, held, hurried, presser, listens,
    presses, plugs, resets>>
all_vars == <<vars, leds_vars, part>>

\* The part that rests has some workload, and always the same.
Resting(workloads) == CHOOSE w \in workloads : TRUE

LocksInit ==
  /\ Init /\ Leds!Init
  /\ part \in Parts
  /\ part # "leds" => presser = Resting(Presses)
  /\ part # "caps" => workload = Resting(Workload) /\ last_usb_leds_ = "unknown"

\* A step of the part that runs.
Step(led_step, caps_step) ==
  \/ part = "leds" /\ led_step /\ UNCHANGED <<vars, part>>
  \/ part = "caps" /\ caps_step /\ UNCHANGED <<leds_vars, part>>

LocksNext == Step(Leds!Next, Next)

\* The fairness of UsbLeds and of CapsSync, each where it runs.
LocksSpec ==
  /\ LocksInit /\ [][LocksNext]_all_vars
  /\ WF_all_vars(Step(Leds!Sets(0), Core0))
  /\ WF_all_vars(Step(Leds!Sets(1), Core1))
  /\ WF_all_vars(Step(FALSE, tud_hid_set_report_cb))
  /\ SF_all_vars(Step(Leds!Transfer, PcTakesReport))
  /\ SF_all_vars(Step(Leds!Loop, TalkR2))
  /\ SF_all_vars(Step(Leds!GetAdbRegister2, FALSE))

\* One LED report at a time is on its way, and register 2 shows the LED.
Reg2ShowsLed == Leds!Reg2ShowsLed
LedsKept == Leds!TypeOK /\ Leds!OneAtATime /\ Reg2ShowsLed

\* In device mode every round ends, and the last one reaches all keyboards if it
\* was asked for between rounds.
LedsSettle == part = "leds" => Leds!RoundsEnd /\ Leds!LastRoundShown

\* "Host keyboard LED state is handled via ADB register 2 / USB OUT reports"
\* (docs/led-support.md:39): however often a lock key is pressed, its LED ends up
\* on every keyboard.
TogglesShown == part = "leds" => Leds!LedsShown

\* In host mode pulses end and keyboard, adapter and PC agree in the end.
CapsSettle == part = "caps" => PulseEnds /\ KeyboardIsFollowed /\ CapsSettles
=============================================================================
