-------------------------- MODULE LockKeysProofs --------------------------
(***************************************************************************)
(* Proofs about the lock keys, for any number of presses and any workload. *)
(* Host mode (CapsSync): pressed one at a time on the ADB keyboard, over a *)
(* bus free of noise, Caps Lock ends up on the PC as the users made it,    *)
(* although both cores write the LEDs they saw last and poll and pulse go  *)
(* on meanwhile.  Device mode (UsbLeds): for any number of keyboards one   *)
(* LED report is on its way at a time, and register 2 shows the LED the    *)
(* keys of one core have set.                                              *)
(***************************************************************************)
EXTENDS MCLockKeys, TLAPS

(* ------------------------- the inductive invariant --------------------- *)

Typed ==
  /\ lock \in Led /\ pcCaps \in Led /\ reported \in Led
  /\ s_host_leds \in Led /\ host \in Led /\ hid_leds \in Led /\ wanted \in Led
  /\ last_usb_leds_ \in Led \cup {"unknown", "zero"} /\ reg2 \in Answer
  /\ s_caps_pulse_phase \in {0, 1, 2} /\ endpoint \in {"none", "caps", "no key"}
  /\ clash \subseteq {0, 1}
  /\ pc0 \in {"poll", "r0", "r2", "apply", "pulse", "flip", "flipped", "last"}
  /\ pc1 \in {"task", "note", "compare", "store", "listen"}
  /\ pc0 \in {"pulse", "flip", "flipped", "last", "apply"} => reg2 # "error"
  /\ workload \in Workload /\ keyboards \in Nat /\ pcs \in Nat /\ noise \in Nat
  /\ pcs <= workload.pcs /\ noise <= workload.noise

Applying == pc0 \in {"apply", "pulse", "flip", "flipped", "last"}
\* A pulse is asked for and the PC has not taken it.
Pulsing == s_caps_pulse_phase = 1 \/ endpoint = "caps"
\* The PC has news, and core 1 has not dealt with it.
Telling == reported # pcCaps \/ pc1 # "task"
\* Core 0 is on its way from the difference it saw to its own copy.
Catching == pc0 \in {"pulse", "flip", "flipped"}

\* Nothing disturbs the bus: core 1 has nothing to tell the keyboard, as core 0
\* wrote down the lock of the keyboard before the PC could take the pulse.
NoListen ==
  /\ clash = {} /\ pc1 \in {"task", "note", "compare"}
  /\ lock = wanted
  /\ Applying => reg2 = lock

\* Where a press is: not seen yet, being pulsed, being reported back, or done.
PressSeen ==
  /\ s_host_leds # lock => pcCaps = s_host_leds /\ ~Telling
  /\ s_host_leds # lock /\ pc0 \notin {"flip", "flipped"} =>
       s_caps_pulse_phase = 0 /\ endpoint = "none"
  /\ pc0 \in {"flip", "flipped"} => Pulsing
  /\ Catching => s_host_leds # lock
  /\ pc0 = "flipped" => host = s_host_leds
  /\ s_host_leds = lock => (Pulsing <=> pcCaps # lock)

PulseOnce ==
  /\ s_caps_pulse_phase = 1 => endpoint = "none"
  /\ endpoint = "caps" => s_caps_pulse_phase = 2
  /\ Pulsing => ~Telling
  /\ Telling => pcCaps = lock /\ s_host_leds = lock /\ last_usb_leds_ = lock
  /\ pc1 # "task" => hid_leds = lock
  /\ Pulsing /\ ~Applying => last_usb_leds_ = lock

Followed == Undisturbed => NoListen /\ PressSeen /\ PulseOnce
CapsInv == Typed /\ Followed

(* -------------------------------- types -------------------------------- *)

LEMMA Flip ==
  ASSUME NEW led \in Led
  PROVE  /\ Other(led) \in Led /\ Other(led) # led
         /\ \A other \in Led : other # led => other = Other(led)
  BY DEF Other, Led

LEMMA WorkloadType ==
  ASSUME Typed
  PROVE  /\ workload.pcs \in Nat /\ workload.noise \in Nat
         /\ Undisturbed => ~(pcs < workload.pcs) /\ ~(noise < workload.noise)
<1>1. workload.pcs \in Nat /\ workload.noise \in Nat
  BY CapsAssumption DEF CapsAssumption, Typed
<1>2. ASSUME Undisturbed PROVE workload.pcs = 0 /\ workload.noise = 0
  BY <1>2 DEF Undisturbed
<1>3. pcs \in Nat /\ noise \in Nat
  BY DEF Typed
<1>4. QED
  BY <1>1, <1>2, <1>3

\* A counter of events stays within its bound.
LEMMA Bounded ==
  ASSUME NEW n \in Nat, NEW m \in Nat, n <= m, NEW next, next = n \/ (n < m /\ next = n + 1)
  PROVE  next \in Nat /\ next <= m
  OBVIOUS

LEMMA TypedStep ==
  ASSUME Typed, [Next]_vars
  PROVE  Typed'
<1> USE DEF Typed, pc_vars, shared_vars, core0_vars, core1_vars, event_vars
<1>1. \A led \in Led : Other(led) \in Led
  BY Flip
<1>2. Clashing \in SUBSET {0, 1}
  BY DEF Clashing
<1>3. CASE TalkR0 \/ TalkR2 \/ NoR2
  BY <1>2, <1>3 DEF TalkR0, TalkR2, NoR2
<1>4. CASE Answered
  <2>1. reg2' \in Answer /\ pc0' \in {"poll", "apply"} /\ (pc0' = "apply" => reg2' # "error")
    BY <1>4 DEF Answered, Answer
  <2>2. noise' = noise \/ (noise < workload.noise /\ noise' = noise + 1)
    BY <1>4 DEF Answered
  <2>3. noise \in Nat /\ noise <= workload.noise /\ workload.noise \in Nat
    BY WorkloadType
  <2>4. noise' \in Nat /\ noise' <= workload.noise
    BY <2>2, <2>3, Bounded
  <2>5. QED
    BY <1>4, <2>1, <2>4 DEF Answered
<1>5. CASE ApplyReg2 \/ usb_hid_pulse_caps_lock \/ ReadHostLeds \/ FlipHostLeds
  BY <1>1, <1>5 DEF ApplyReg2, usb_hid_pulse_caps_lock, PhaseAsked, ReadHostLeds, FlipHostLeds, Flipped
<1>6. CASE sync_keyboard_leds_from_device
  BY <1>6 DEF sync_keyboard_leds_from_device, Answer
<1>7. CASE tud_hid_set_report_cb \/ adb_to_usb_note_host_leds \/ SameLeds \/ apply_usb_leds
  BY <1>2, <1>7 DEF tud_hid_set_report_cb, adb_to_usb_note_host_leds, SameLeds, apply_usb_leds
<1>8. CASE ListenR2 \/ PulseDown \/ PulseUp
  BY <1>8 DEF ListenR2, Listens, PulseDown, PulseUp, PhaseDone
<1>9. CASE PcTakesReport \/ KeyboardPressed
  <2>1. CASE PcTakesReport
    BY <1>1, <2>1 DEF PcTakesReport
  <2>2. CASE KeyboardPressed
    <3>1. keyboards' = keyboards + 1
      BY <2>2 DEF KeyboardPressed
    <3>2. keyboards \in Nat
      OBVIOUS
    <3>3. keyboards' \in Nat
      BY ONLY <3>1, <3>2
    <3>4. QED
      BY <1>1, <2>2, <3>3 DEF KeyboardPressed, Pressed
  <2>3. QED
    BY <1>9, <2>1, <2>2
<1>10. CASE PcPressed
  <2>1. pcs < workload.pcs /\ pcs' = pcs + 1
    BY <1>10 DEF PcPressed
  <2>2. pcs \in Nat /\ pcs <= workload.pcs /\ workload.pcs \in Nat
    BY WorkloadType
  <2>3. pcs' \in Nat /\ pcs' <= workload.pcs
    BY <2>1, <2>2, Bounded
  <2>4. QED
    BY <1>1, <1>10, <2>3 DEF PcPressed, Pressed
<1>11. CASE UNCHANGED vars
  BY <1>11 DEF vars
<1>12. QED
  BY <1>3, <1>4, <1>5, <1>6, <1>7, <1>8, <1>9, <1>10, <1>11 DEF Next, Core0, Core1

(* --------------------------- a press on its way ------------------------ *)

Good == NoListen /\ PressSeen /\ PulseOnce

LEMMA Core0Step ==
  ASSUME Typed, Undisturbed, Good, Core0
  PROVE  Good'
<1> USE DEF Good, NoListen, PressSeen, PulseOnce, Applying, Pulsing, Telling, Catching, Typed, Led,
        pc_vars, shared_vars, core0_vars, core1_vars, event_vars
<1>1. pc1 # "listen"
  OBVIOUS
<1>2. CASE TalkR0 \/ TalkR2 \/ NoR2
  BY <1>1, <1>2 DEF TalkR0, TalkR2, NoR2, Clashing, Listening
<1>3. CASE Answered
  <2>1. ~(noise < workload.noise)
    BY WorkloadType
  <2>2. reg2' = lock /\ pc0 = "r2" /\ pc0' = "apply" /\ clash' = {}
    BY <1>3, <2>1 DEF Answered
  <2>3. UNCHANGED <<lock, pcCaps, reported, endpoint, s_host_leds, last_usb_leds_, s_caps_pulse_phase,
                    host, pc1, hid_leds, wanted>>
    BY <1>3 DEF Answered
  <2>4. QED
    BY <2>2, <2>3
<1>4. CASE ApplyReg2
  <2>1. kbd_caps(reg2) = lock
    BY <1>4 DEF ApplyReg2, kbd_caps
  <2>2. QED
    BY <1>4, <2>1 DEF ApplyReg2, Differs
<1>5. CASE usb_hid_pulse_caps_lock
  BY <1>5 DEF usb_hid_pulse_caps_lock, PhaseAsked
<1>6. CASE ReadHostLeds
  BY <1>6 DEF ReadHostLeds
<1>7. CASE FlipHostLeds
  BY <1>7 DEF FlipHostLeds, Flipped, Other
<1>8. CASE sync_keyboard_leds_from_device
  BY <1>8 DEF sync_keyboard_leds_from_device
<1>9. QED
  BY <1>2, <1>3, <1>4, <1>5, <1>6, <1>7, <1>8 DEF Core0

\* The second report of a pulse: the pulse is with the PC or taken, and core 0
\* has its copy.
LEMMA PulseUpStep ==
  ASSUME Typed, Good, PulseUp
  PROVE  Good'
<1>1. /\ s_caps_pulse_phase = 2 /\ endpoint = "none"
      /\ s_caps_pulse_phase' = 0 /\ endpoint' = "no key"
  BY DEF PulseUp, PhaseDone
<1>2. UNCHANGED <<lock, pcCaps, reported, s_host_leds, last_usb_leds_, pc0, reg2, host, pc1,
                  hid_leds, clash, wanted>>
  BY DEF PulseUp, core0_vars, core1_vars, event_vars
<1>3. 2 # 1 /\ 2 # 0 /\ 0 # 1
  OBVIOUS
<1>4. s_caps_pulse_phase \notin {0, 1} /\ s_caps_pulse_phase' # 1
  BY ONLY <1>1, <1>3, Zenon
<1>5. ~Pulsing /\ ~Pulsing'
  BY <1>1, <1>4 DEF Pulsing
<1>6. pc0 \notin {"flip", "flipped"}
  BY <1>5 DEF Good, PressSeen
<1>7. s_host_leds = lock
  BY <1>4, <1>6 DEF Good, PressSeen
<1>8. Telling' = Telling /\ Applying' = Applying /\ Catching' = Catching
  BY <1>2 DEF Telling, Applying, Catching
<1>9. NoListen'
  BY <1>2, <1>8 DEF Good, NoListen
<1>10. PressSeen'
  BY <1>2, <1>5, <1>6, <1>7, <1>8 DEF Good, PressSeen
<1>11. PulseOnce'
  BY <1>1, <1>2, <1>4, <1>5, <1>8 DEF Good, PulseOnce
<1>12. QED
  BY <1>9, <1>10, <1>11 DEF Good

LEMMA OtherStep ==
  ASSUME Typed, Undisturbed, Good, Core1 \/ PcTakesReport \/ KeyboardPressed \/ PcPressed
  PROVE  Good'
<1> USE DEF Good, NoListen, PressSeen, PulseOnce, Applying, Pulsing, Telling, Catching, Typed, Led,
        pc_vars, shared_vars, core0_vars, core1_vars, event_vars
<1>1. CASE tud_hid_set_report_cb \/ adb_to_usb_note_host_leds \/ SameLeds
  BY <1>1 DEF tud_hid_set_report_cb, adb_to_usb_note_host_leds, SameLeds
<1>2. CASE apply_usb_leds \/ ListenR2
  BY <1>2 DEF apply_usb_leds, ListenR2
<1>3. CASE PulseDown \/ PulseUp
  <2>1. CASE PulseDown
    BY <2>1 DEF PulseDown
  <2>2. CASE PulseUp
    BY <2>2, PulseUpStep
  <2>3. QED
    BY <1>3, <2>1, <2>2
<1>4. CASE PcTakesReport
  BY <1>4 DEF PcTakesReport, Other
<1>5. CASE KeyboardPressed
  BY <1>5 DEF KeyboardPressed, Pressed, Quiet, Other, Undisturbed
<1>6. CASE PcPressed
  <2>1. ~(pcs < workload.pcs)
    BY WorkloadType
  <2>2. QED
    BY <1>6, <2>1 DEF PcPressed
<1>7. QED
  BY <1>1, <1>2, <1>3, <1>4, <1>5, <1>6 DEF Core1

LEMMA CapsStep ==
  ASSUME CapsInv, [Next]_vars
  PROVE  CapsInv'
<1>1. Typed'
  BY TypedStep DEF CapsInv
<1>2. workload' = workload
  BY DEF Next, Core0, Core1, TalkR0, TalkR2, NoR2, Answered, ApplyReg2, usb_hid_pulse_caps_lock,
    ReadHostLeds, FlipHostLeds, sync_keyboard_leds_from_device, tud_hid_set_report_cb,
    adb_to_usb_note_host_leds, SameLeds, apply_usb_leds, ListenR2, PulseDown, PulseUp, PcTakesReport,
    KeyboardPressed, PcPressed, vars, event_vars
<1>3. SUFFICES ASSUME Undisturbed' PROVE Good'
  BY <1>1 DEF CapsInv, Followed, Good
<1>4. Typed /\ Undisturbed /\ Good
  BY <1>2, <1>3 DEF CapsInv, Followed, Good, Undisturbed
<1>5. CASE UNCHANGED vars
  BY <1>4, <1>5 DEF Good, NoListen, PressSeen, PulseOnce, Applying, Pulsing, Telling, Catching, vars,
    pc_vars, shared_vars, core0_vars, core1_vars, event_vars
<1>6. QED
  BY <1>4, <1>5, Core0Step, OtherStep DEF Next

LEMMA CapsStart ==
  ASSUME Init
  PROVE  CapsInv
<1>1. Typed
  BY CapsAssumption DEF CapsAssumption, Init, Typed, Led, Answer
<1>2. Followed
  BY DEF Init, Followed, NoListen, PressSeen, PulseOnce, Applying, Pulsing, Telling, Catching
<1>3. QED
  BY <1>1, <1>2 DEF CapsInv

LEMMA CapsInvariant == Spec => []CapsInv
  BY CapsStart, CapsStep, PTL DEF Spec

(* ------------------------------- theorems ------------------------------ *)

\* When everything is at rest Caps Lock of the PC is what the users of the ADB
\* keyboard made it, after any number of presses one at a time: the two cores,
\* which both write s_host_leds and last_usb_leds_, neither undo a press nor make
\* one up.
THEOREM CapsIsKept == Spec => []CapsKept
<1>1. CapsInv => TypeOK
  <2>1. \A n \in {0, 1, 2} : n \in 0 .. 2
    OBVIOUS
  <2>2. QED
    BY <2>1 DEF CapsInv, Typed, TypeOK
<1>2. CapsInv => OwnCapsFollowsUsers
  BY DEF CapsInv, Followed, NoListen, PressSeen, Pulsing, Telling, OwnCapsFollowsUsers, CapsFollowsUsers, Quiet
<1>3. CapsInv => CapsKept
  BY <1>1, <1>2 DEF CapsKept
<1>4. QED
  BY <1>3, CapsInvariant, PTL

\* At any moment, at rest or not, a change of Caps Lock on the PC brings it to
\* what the users want: no pulse goes out twice, and none for a stale register 2.
THEOREM PulsesAreMeant ==
  Spec => [][Undisturbed /\ pcCaps' # pcCaps => pcCaps' = wanted]_vars
<1>1. ASSUME CapsInv, [Next]_vars
      PROVE  [Undisturbed /\ pcCaps' # pcCaps => pcCaps' = wanted]_vars
  <2>1. SUFFICES ASSUME Next, Undisturbed, pcCaps' # pcCaps PROVE pcCaps' = wanted
    BY <1>1 DEF vars, pc_vars
  <2>2. CASE PcTakesReport
    <3>1. endpoint = "caps" /\ pcCaps' = Other(pcCaps)
      BY <2>1, <2>2 DEF PcTakesReport
    <3>2. pcCaps # lock /\ lock = wanted /\ pcCaps \in Led /\ lock \in Led
      BY <1>1, <2>1, <3>1 DEF CapsInv, Typed, Followed, NoListen, PressSeen, Pulsing
    <3>3. QED
      BY <3>1, <3>2, Flip
  <2>3. CASE PcPressed
    <3>1. ~(pcs < workload.pcs)
      BY <1>1, <2>1, WorkloadType DEF CapsInv
    <3>2. QED
      BY <2>3, <3>1 DEF PcPressed
  <2>4. CASE Core0 \/ Core1 \/ KeyboardPressed
    BY <2>1, <2>4 DEF Core0, Core1, TalkR0, TalkR2, NoR2, Answered, ApplyReg2, usb_hid_pulse_caps_lock,
      ReadHostLeds, FlipHostLeds, sync_keyboard_leds_from_device, tud_hid_set_report_cb,
      adb_to_usb_note_host_leds, SameLeds, apply_usb_leds, ListenR2, PulseDown, PulseUp,
      KeyboardPressed, pc_vars
  <2>5. QED
    BY <2>1, <2>2, <2>3, <2>4 DEF Next
<1>2. QED
  BY <1>1, CapsInvariant, PTL DEF Spec

(* ------------------- device mode: types of UsbLeds --------------------- *)

LedsLabel == {"task", "round", "end", "reset", "set", "set key", "set reset",
              "ask", "ask key", "ask reset", "flag", "event", "reset done"}

LedsTyped ==
  /\ kbdLockingKeys \in Led /\ usb_kbd_leds \in Led /\ kbdreg2 \in Led
  /\ shown \in [Keyboard -> Led]
  /\ usb_set_leds \in BOOLEAN /\ set_hid_report_ready \in BOOLEAN /\ sent \in BOOLEAN
  /\ flag \in BOOLEAN /\ usb_reset \in BOOLEAN /\ hurried \in BOOLEAN
  /\ keyboards_list \in [Leds!Entry -> Keyboard \cup {NoKeyboard}]
  /\ sending \in Keyboard \cup {NoKeyboard}
  /\ queued \in Nat /\ held \subseteq Leds!Core
  /\ pc[1] # "end" => i \in Leds!Entry
  /\ leds \in [Leds!Core -> Led] /\ pc \in [Leds!Core -> LedsLabel]
  /\ presser \in Presses
  /\ listens \in Nat /\ plugs \in Nat /\ resets \in Nat /\ presses \in [Leds!Core -> Nat]

\* A press runs through the labels of its core with the key held; a new keyboard
\* takes the LED as it is.
KeyRuns(c) == pc[c] \in {"set key", "ask key", "event", "flag"}

OneSetter ==
  /\ usb_reset = FALSE
  /\ pc[0] = "task" \/ KeyRuns(0)
  /\ pc[1] \notin {"set reset", "ask reset", "reset done"}
  /\ presses[0] = 0 => pc[0] = "task" /\ 0 \notin held
  /\ presses[1] = 0 => ~KeyRuns(1) /\ 1 \notin held
  /\ plugs = 0 => pc[1] \notin {"set", "ask"}
  /\ pc[1] = "set" => leds[1] = kbdLockingKeys
  /\ \A c \in Leds!Core : KeyRuns(c) => c \in held

\* The flags are set once in a press, by the LED as it then is: those of Caps
\* Lock the other way round, and not before the first press.
Unsettled(c) == pc[c] \in {"set key", "ask key", "flag"} \/ (pc[c] = "event" /\ Lock # "caps")
FlagRight ==
  IF Lock = "caps" THEN (presses[0] = 0 /\ presses[1] = 0) \/ (flag <=> kbdLockingKeys = "off")
  ELSE flag <=> kbdLockingKeys = "on"

\* An event is queued after the flags are set, at the latest with the release.
KeysDone == \A c \in Leds!Core : ~KeyRuns(c) /\ (Lock # "caps" => c \notin held)
Register2(set) == IF set THEN "on" ELSE "off"

FlagsFollow ==
  /\ (\A c \in Leds!Core : ~Unsettled(c)) => FlagRight
  /\ queued = 0 /\ KeysDone => kbdreg2 = Register2(flag)

LedsInv ==
  /\ LedsTyped /\ Leds!OneAtATime
  /\ Leds!OneCoreSets => OneSetter /\ FlagsFollow

(* ------------------------ device mode: the steps ----------------------- *)

LEMMA LedsWorkload ==
  ASSUME LedsTyped
  PROVE  /\ presser.listens \in Nat /\ presser.plugs \in Nat /\ presser.resets \in Nat
         /\ MAX_KEYBOARDS \in Nat \ {0} /\ NoKeyboard \notin Keyboard
         /\ Lock \in {"caps", "num", "scroll"}
  BY LedsAssumed DEF Leds!LedsAssumption, LedsTyped

LEMMA LedsTypes ==
  ASSUME LedsTyped
  PROVE  Leds!TypeOK
<1>1. leds[0] \in Led /\ leds[1] \in Led
  BY DEF LedsTyped, Leds!Core
<1>2. QED
  BY <1>1 DEF LedsTyped, Leds!TypeOK, Led, Leds!Led

LEMMA GotoTyped ==
  ASSUME NEW c \in Leds!Core, NEW label \in LedsLabel, Leds!Goto(c, label), LedsTyped
  PROVE  /\ pc' \in [Leds!Core -> LedsLabel] /\ pc'[c] = label
         /\ \A d \in Leds!Core : d # c => pc'[d] = pc[d]
  BY DEF LedsTyped, Leds!Goto

LEMMA SetsTyped ==
  ASSUME NEW c \in Leds!Core, NEW label \in LedsLabel, NEW led \in Led, Leds!SetsTo(c, led, label), LedsTyped
  PROVE  /\ leds' \in [Leds!Core -> Led] /\ leds'[c] = led
         /\ \A d \in Leds!Core : d # c => leds'[d] = leds[d]
         /\ pc' \in [Leds!Core -> LedsLabel] /\ pc'[c] = label
         /\ \A d \in Leds!Core : d # c => pc'[d] = pc[d]
<1>1. leds' = [leds EXCEPT ![c] = led] /\ Leds!Goto(c, label)
  BY DEF Leds!SetsTo
<1>2. QED
  BY <1>1, GotoTyped DEF LedsTyped

LEMMA LedsOther ==
  ASSUME NEW led \in Led
  PROVE  Leds!Other(led) \in Led
  BY DEF Leds!Other, Led

\* Who sets the LEDs
LEMMA SettersTyped ==
  ASSUME LedsTyped, NEW c \in Leds!Core,
         Leds!adb_set_leds \/ Leds!HandleLockingKeys(c) \/ Leds!KeyUp(c) \/ Leds!Sets(c)
           \/ Leds!BusReset \/ Leds!GetAdbRegister2
  PROVE  LedsTyped'
<1> USE DEF Leds!round_vars, Leds!reg2_vars, Leds!event_vars
<1>t. 0 \in Leds!Core /\ 1 \in Leds!Core
  BY DEF Leds!Core
<1>s. \A x \in {"task", "round", "end", "reset", "set", "set key", "set reset",
              "ask", "ask key", "ask reset", "flag", "event", "reset done"} : x \in LedsLabel
  BY DEF LedsLabel
<1> USE DEF LedsTyped
<1>1. CASE Leds!adb_set_leds
  <2>1. PICK led \in Led : Leds!SetsTo(0, led, "set")
    BY <1>1 DEF Leds!adb_set_leds, Leds!Led, Led
  <2>2. leds' \in [Leds!Core -> Led] /\ pc' \in [Leds!Core -> LedsLabel] /\ pc'[1] = pc[1]
    <3>1. "set" \in LedsLabel
      BY <1>s
    <3>2. /\ leds' \in [Leds!Core -> Led] /\ pc' \in [Leds!Core -> LedsLabel]
          /\ \A d \in Leds!Core : d # 0 => pc'[d] = pc[d]
      BY <1>t, <3>1, <2>1, SetsTyped
    <3>3. QED
      BY <1>t, <3>2
  <2>3. listens' \in Nat
    BY <1>1 DEF Leds!adb_set_leds
  <2>4. QED
    BY <1>1, <2>2, <2>3 DEF Leds!adb_set_leds
<1>2. CASE Leds!HandleLockingKeys(c)
  <2>1. Leds!SetsTo(c, Leds!Other(kbdLockingKeys), "set key") /\ pc[c] = "task"
    BY <1>2 DEF Leds!HandleLockingKeys
  <2>2. /\ leds' \in [Leds!Core -> Led] /\ pc' \in [Leds!Core -> LedsLabel]
        /\ pc'[c] = "set key" /\ (c # 1 => pc'[1] = pc[1])
    BY <1>t, <1>s, <2>1, SetsTyped, LedsOther
  <2>3. pc[1] = "end" => pc'[1] = "end"
    BY <1>t, <2>1, <2>2
  <2>4. presses' = [presses EXCEPT ![c] = @ + 1] /\ held' = held \cup {c}
    BY <1>2 DEF Leds!HandleLockingKeys
  <2>5. presses' \in [Leds!Core -> Nat] /\ held' \subseteq Leds!Core
    BY <2>4
  <2>6. pc'[1] # "end" => i' \in Leds!Entry
    BY <1>2, <2>3 DEF Leds!HandleLockingKeys
  <2>7. QED
    BY <1>2, <2>2, <2>5, <2>6 DEF Leds!HandleLockingKeys
<1>3. CASE Leds!KeyUp(c)
  <2>1. queued' \in Nat
    BY <1>3 DEF Leds!KeyUp
  <2>2. QED
    BY <1>3, <2>1 DEF Leds!KeyUp
<1>4. CASE Leds!Sets(c)
  <2>1. /\ \E label \in LedsLabel \ {"end"} : Leds!Goto(c, label)
        /\ pc[c] # "end"
    BY <1>4 DEF Leds!Sets, Leds!SetLeds, Leds!AskRound, Leds!SetFlag, Leds!QueueEvent, LedsLabel
  <2>2. pc' \in [Leds!Core -> LedsLabel] /\ (pc[1] = "end" <=> pc'[1] = "end")
    BY <1>t, <2>1, GotoTyped
  <2>3. kbdLockingKeys' \in Led /\ queued' \in Nat /\ flag' \in BOOLEAN /\ usb_set_leds' \in BOOLEAN
    <3>1. CASE Leds!SetLeds(c)
      BY <3>1 DEF Leds!SetLeds
    <3>2. CASE Leds!AskRound(c)
      BY <3>2 DEF Leds!AskRound
    <3>3. CASE Leds!SetFlag(c)
      BY <3>3 DEF Leds!SetFlag, Leds!Flag
    <3>4. CASE Leds!QueueEvent(c)
      BY <3>4 DEF Leds!QueueEvent
    <3>5. QED
      BY <1>4, <3>1, <3>2, <3>3, <3>4 DEF Leds!Sets
  <2>4. /\ UNCHANGED <<usb_kbd_leds, kbdreg2, shown, set_hid_report_ready, sent, usb_reset,
                       keyboards_list, sending, held, i, leds, presser, listens, plugs, resets, presses>>
        /\ hurried' = hurried \/ hurried' = (usb_set_leds \/ Leds!Abandoned)
    BY <1>4 DEF Leds!Sets, Leds!SetLeds, Leds!AskRound, Leds!SetFlag, Leds!QueueEvent
  <2>5. hurried' \in BOOLEAN
    BY <2>4
  <2>6. QED
    BY <2>2, <2>3, <2>4, <2>5
<1>5. CASE Leds!BusReset
  <2>1. kbdreg2' \in Led /\ resets' \in Nat /\ usb_reset' \in BOOLEAN
    BY <1>5 DEF Leds!BusReset, Led
  <2>2. QED
    BY <1>5, <2>1 DEF Leds!BusReset
<1>6. CASE Leds!GetAdbRegister2
  <2>1. queued' \in Nat /\ kbdreg2' \in Led
    BY <1>6 DEF Leds!GetAdbRegister2, Led
  <2>2. QED
    BY <1>6, <2>1 DEF Leds!GetAdbRegister2
<1>7. QED
  BY <1>1, <1>2, <1>3, <1>4, <1>5, <1>6

\* Core 1: keyboards, transfers and the rounds
LEMMA RoundsTyped ==
  ASSUME LedsTyped,
         Leds!Transfer \/ Leds!Loop \/ \E k \in Keyboard : Leds!AddKeyboard(k) \/ Leds!RemoveKeyboard(k)
  PROVE  LedsTyped'
<1> USE DEF Leds!round_vars, Leds!reg2_vars, Leds!event_vars
<1>t. 0 \in Leds!Core /\ 1 \in Leds!Core
  BY DEF Leds!Core
<1>s. \A x \in {"task", "round", "end", "reset", "set", "set key", "set reset",
              "ask", "ask key", "ask reset", "flag", "event", "reset done"} : x \in LedsLabel
  BY DEF LedsLabel
<1> USE DEF LedsTyped
<1>n. MAX_KEYBOARDS \in Nat \ {0}
  BY LedsWorkload
<1>1. ASSUME NEW k \in Keyboard, Leds!AddKeyboard(k)
      PROVE  LedsTyped'
  <2>1. Leds!SetsTo(1, kbdLockingKeys, "set")
    BY <1>1 DEF Leds!AddKeyboard
  <2>2. leds' \in [Leds!Core -> Led] /\ pc' \in [Leds!Core -> LedsLabel] /\ i \in Leds!Entry
    BY <1>1, <1>t, <1>s, <2>1, SetsTyped DEF Leds!AddKeyboard
  <2>3. keyboards_list' \in [Leds!Entry -> Keyboard \cup {NoKeyboard}]
    BY <1>1 DEF Leds!AddKeyboard
  <2>4. shown' \in [Keyboard -> Led] /\ plugs' \in Nat
    BY <1>1 DEF Leds!AddKeyboard, Led
  <2>5. QED
    BY <1>1, <2>2, <2>3, <2>4 DEF Leds!AddKeyboard
<1>2. ASSUME NEW k \in Keyboard, Leds!RemoveKeyboard(k)
      PROVE  LedsTyped'
  <2>1. keyboards_list' \in [Leds!Entry -> Keyboard \cup {NoKeyboard}] /\ plugs' \in Nat
    BY <1>2 DEF Leds!RemoveKeyboard
  <2>2. sending' \in Keyboard \cup {NoKeyboard} /\ sent' \in BOOLEAN /\ hurried' \in BOOLEAN
    BY <1>2 DEF Leds!RemoveKeyboard
  <2>3. QED
    BY <1>2, <2>1, <2>2 DEF Leds!RemoveKeyboard
<1>3. CASE Leds!Transfer
  <2>1. CASE Leds!DataStage
    <3>1. shown' \in [Keyboard -> Led]
      BY <2>1 DEF Leds!DataStage
    <3>2. QED
      BY <2>1, <3>1 DEF Leds!DataStage
  <2>2. CASE Leds!tuh_hid_set_report_complete_cb
    <3>1. hurried' \in BOOLEAN /\ set_hid_report_ready' \in BOOLEAN
      BY <2>2 DEF Leds!tuh_hid_set_report_complete_cb, Leds!ReadyAgain
    <3>2. QED
      BY <2>2, <3>1 DEF Leds!tuh_hid_set_report_complete_cb
  <2>3. QED
    BY <1>3, <2>1, <2>2 DEF Leds!Transfer
<1>4. CASE Leds!RoundAsked
  <2>1. pc' \in [Leds!Core -> LedsLabel] /\ i' = i /\ i \in Leds!Entry
    BY <1>4, <1>t, <1>s, GotoTyped DEF Leds!RoundAsked
  <2>2. QED
    BY <1>4, <2>1 DEF Leds!RoundAsked
<1>5. CASE Leds!Round
  <2>1. i \in Leds!Entry
    BY <1>5 DEF Leds!Round
  <2>2. /\ i' = i \/ i' = i + 1
        /\ Leds!Goto(1, IF Leds!PastLast(i') THEN "end" ELSE "reset")
    BY <1>5 DEF Leds!Round
  <2>3. pc' \in [Leds!Core -> LedsLabel] /\ pc'[1] = IF Leds!PastLast(i') THEN "end" ELSE "reset"
    BY <1>t, <1>s, <2>2, GotoTyped
  <2>4. pc'[1] # "end" => i' \in Leds!Entry
    BY <1>n, <2>1, <2>2, <2>3 DEF Leds!PastLast, Leds!Entry
  <2>5. /\ usb_kbd_leds' \in Led /\ set_hid_report_ready' \in BOOLEAN /\ sent' \in BOOLEAN
        /\ sending' \in Keyboard \cup {NoKeyboard}
    BY <1>5, <2>1 DEF Leds!Round
  <2>6. hurried' \in BOOLEAN
    <3>1. hurried' = hurried \/ hurried' = (hurried \/ Leds!Sends)
      BY <1>5 DEF Leds!Round
    <3>2. QED
      BY <3>1
  <2>7. QED
    BY <1>5, <2>3, <2>4, <2>5, <2>6 DEF Leds!Round
<1>6. CASE Leds!RoundEnds
  <2>1. pc' \in [Leds!Core -> LedsLabel] /\ i' \in Leds!Entry
    <3>1. Leds!Goto(1, "reset") /\ i' = 0
      BY <1>6 DEF Leds!RoundEnds, Leds!IndexReset
    <3>2. 0 \in Leds!Entry
      BY <1>n DEF Leds!Entry
    <3>3. pc' \in [Leds!Core -> LedsLabel]
      BY <1>t, <1>s, <3>1, GotoTyped
    <3>4. QED
      BY <3>1, <3>2, <3>3
  <2>2. QED
    BY <1>6, <2>1 DEF Leds!RoundEnds
<1>7. CASE Leds!Reset
  <2>1. /\ pc' \in [Leds!Core -> LedsLabel] /\ leds' \in [Leds!Core -> Led] /\ queued' \in Nat
        /\ i \in Leds!Entry
    <3>1. CASE usb_reset
      <4>1. Leds!SetsTo(1, "off", "set reset") /\ "off" \in Led /\ queued' = 0 /\ pc[1] = "reset"
        BY <1>7, <3>1 DEF Leds!Reset, Led
      <4>2. pc' \in [Leds!Core -> LedsLabel] /\ leds' \in [Leds!Core -> Led]
        BY <1>t, <1>s, <4>1, SetsTyped
      <4>3. QED
        BY <4>1, <4>2
    <3>2. CASE ~usb_reset
      BY <1>7, <1>t, <1>s, <3>2, GotoTyped DEF Leds!Reset
    <3>3. QED
      BY <3>1, <3>2
  <2>2. QED
    BY <1>7, <2>1 DEF Leds!Reset
<1>8. CASE Leds!ResetDone
  <2>1. pc' \in [Leds!Core -> LedsLabel] /\ i \in Leds!Entry
    BY <1>8, <1>t, <1>s, GotoTyped DEF Leds!ResetDone
  <2>2. QED
    BY <1>8, <2>1 DEF Leds!ResetDone
<1>9. QED
  BY <1>1, <1>2, <1>3, <1>4, <1>5, <1>6, <1>7, <1>8 DEF Leds!Loop

LEMMA LedsTypedStep ==
  ASSUME LedsTyped, [Leds!Next]_(Leds!vars)
  PROVE  LedsTyped'
<1>1. CASE UNCHANGED Leds!vars
  BY <1>1 DEF LedsTyped, Leds!vars, Leds!round_vars, Leds!reg2_vars, Leds!event_vars, Leds!Core
<1>2. CASE Leds!Next
  <2>1. 0 \in Leds!Core
    BY DEF Leds!Core
  <2>2. QED
    BY <1>2, <2>1, SettersTyped, RoundsTyped DEF Leds!Next
<1>3. QED
  BY <1>1, <1>2

(* --------------- device mode: one core sets, flags follow --------------- *)

LEMMA OneCoreSetsOut ==
  Leds!OneCoreSets <=> listens = 0 /\ resets = 0 /\ (presses[0] = 0 \/ presses[1] + plugs = 0)
  BY DEF Leds!OneCoreSets

LEMMA PressesTyped ==
  ASSUME LedsTyped
  PROVE  presses[0] \in Nat /\ presses[1] \in Nat /\ (presses[1] + plugs = 0 <=> presses[1] = 0 /\ plugs = 0)
<1>1. presses[0] \in Nat /\ presses[1] \in Nat /\ plugs \in Nat
  BY DEF LedsTyped, Leds!Core
<1>2. QED
  BY <1>1

\* Whoever sets the LEDs besides, it is not undone.
LEMMA OneCoreStays ==
  ASSUME LedsTyped, [Leds!Next]_(Leds!vars), Leds!OneCoreSets'
  PROVE  Leds!OneCoreSets
<1> USE DEF Leds!round_vars, Leds!reg2_vars, Leds!event_vars
<1>1. \/ UNCHANGED <<listens, resets, presses, plugs>>
      \/ listens' = listens + 1 /\ UNCHANGED <<resets, presses, plugs>>
      \/ resets' = resets + 1 /\ UNCHANGED <<listens, presses, plugs>>
      \/ plugs' = plugs + 1 /\ UNCHANGED <<listens, resets, presses>>
      \/ /\ UNCHANGED <<listens, resets, plugs>>
         /\ \E c \in Leds!Core : presses' = [presses EXCEPT ![c] = @ + 1]
  <2>1. CASE UNCHANGED Leds!vars
    BY <2>1 DEF Leds!vars
  <2>2. ASSUME NEW c \in Leds!Core, Leds!HandleLockingKeys(c) \/ Leds!KeyUp(c) \/ Leds!Sets(c)
        PROVE  <1>1
    BY <2>2 DEF Leds!HandleLockingKeys, Leds!KeyUp, Leds!Sets, Leds!SetLeds, Leds!AskRound, Leds!SetFlag,
      Leds!QueueEvent
  <2>3. CASE Leds!adb_set_leds \/ Leds!BusReset \/ Leds!GetAdbRegister2
    BY <2>3 DEF Leds!adb_set_leds, Leds!BusReset, Leds!GetAdbRegister2
  <2>4. CASE Leds!Transfer \/ Leds!Loop
    BY <2>4 DEF Leds!Transfer, Leds!DataStage, Leds!tuh_hid_set_report_complete_cb, Leds!Loop,
      Leds!RoundAsked, Leds!Round, Leds!RoundEnds, Leds!Reset, Leds!ResetDone
  <2>5. ASSUME NEW k \in Keyboard, Leds!AddKeyboard(k) \/ Leds!RemoveKeyboard(k)
        PROVE  <1>1
    BY <2>5 DEF Leds!AddKeyboard, Leds!RemoveKeyboard
  <2>6. QED
    BY <2>1, <2>2, <2>3, <2>4, <2>5 DEF Leds!Next
<1>2. listens' = 0 /\ resets' = 0 /\ (presses'[0] = 0 \/ presses'[1] + plugs' = 0)
  BY DEF Leds!OneCoreSets
<1>3. listens \in Nat /\ resets \in Nat /\ plugs \in Nat /\ presses \in [{0, 1} -> Nat]
  BY DEF LedsTyped, Leds!Core
<1>4. listens = 0 /\ resets = 0
  BY <1>1, <1>2, <1>3
<1>5. plugs' \in Nat /\ (plugs' = 0 => plugs = 0)
  BY <1>1, <1>3
<1>6. \A d \in {0, 1} : presses'[d] \in Nat /\ (presses'[d] = 0 => presses[d] = 0)
  BY <1>1, <1>3 DEF Leds!Core
<1>7. presses[0] = 0 \/ (presses[1] = 0 /\ plugs = 0)
  BY <1>2, <1>5, <1>6
<1>8. QED
  BY <1>4, <1>7 DEF Leds!OneCoreSets

\* What a step of UsbLeds may rely on
SetsAlone == LedsTyped /\ Leds!OneCoreSets /\ OneSetter /\ FlagsFollow

LEMMA CoresOf ==
  ASSUME NEW c \in Leds!Core
  PROVE  c = 0 \/ c = 1
  BY DEF Leds!Core

LEMMA PressFollowed ==
  ASSUME SetsAlone, NEW c \in Leds!Core, Leds!HandleLockingKeys(c), Leds!OneCoreSets'
  PROVE  OneSetter' /\ FlagsFollow'
<1> USE DEF Leds!round_vars, Leds!reg2_vars, Leds!event_vars
<1>1. /\ pc' = [pc EXCEPT ![c] = "set key"] /\ pc[c] = "task"
      /\ held' = held \cup {c} /\ presses' = [presses EXCEPT ![c] = @ + 1]
      /\ leds' = [leds EXCEPT ![c] = Leds!Other(kbdLockingKeys)]
      /\ UNCHANGED <<kbdLockingKeys, usb_reset, flag, queued, kbdreg2, plugs>>
  BY DEF Leds!HandleLockingKeys, Leds!SetsTo, Leds!Goto
<1>2. /\ pc \in [{0, 1} -> LedsLabel] /\ presses \in [{0, 1} -> Nat] /\ leds \in [{0, 1} -> Led]
      /\ plugs \in Nat /\ c \in {0, 1}
  BY DEF SetsAlone, LedsTyped, Leds!Core
<1>3. presses'[c] # 0 /\ presses'[c] \in Nat /\ \A d \in {0, 1} : d # c => presses'[d] = presses[d]
  <2>1. presses[c] \in Nat /\ c \in DOMAIN presses
    BY <1>2
  <2>2. presses'[c] = presses[c] + 1
    BY <1>1, <2>1
  <2>3. \A d \in {0, 1} : d # c => presses'[d] = presses[d]
    BY <1>1, <1>2
  <2>4. QED
    BY <2>1, <2>2, <2>3
<1>4. pc'[c] = "set key" /\ \A d \in {0, 1} : d # c => pc'[d] = pc[d]
  BY <1>1, <1>2
<1>5. \A d \in {0, 1} : d # c => leds'[d] = leds[d]
  BY <1>1, <1>2
<1>6. c = 0 => presses[1] = 0 /\ plugs = 0
  <2>1. c = 0 => presses'[1] + plugs' = 0 /\ presses'[1] = presses[1]
    BY <1>3 DEF Leds!OneCoreSets
  <2>2. presses[1] \in Nat /\ plugs' = plugs
    BY <1>1, <1>2
  <2>3. QED
    BY <1>2, <2>1, <2>2
<1>7. c = 1 => presses[0] = 0
  <2>1. c = 1 => presses'[1] + plugs' # 0
    <3>1. c = 1 => presses'[1] \in Nat /\ presses'[1] # 0
      BY <1>3
    <3>2. plugs' = plugs
      BY <1>1
    <3>3. QED
      BY <1>2, <3>1, <3>2
  <2>2. c = 1 => presses'[0] = presses[0]
    BY <1>3
  <2>3. QED
    BY <2>1, <2>2 DEF Leds!OneCoreSets
<1>8. OneSetter'
  <2>1. OneSetter
    BY DEF SetsAlone
  <2>2. CASE c = 0
    BY <1>1, <1>3, <1>4, <1>5, <1>6, <2>1, <2>2 DEF OneSetter, KeyRuns, Leds!Core
  <2>3. CASE c = 1
    BY <1>1, <1>3, <1>4, <1>5, <1>7, <2>1, <2>3 DEF OneSetter, KeyRuns, Leds!Core
  <2>4. QED
    BY <1>2, <2>2, <2>3
<1>9. Unsettled(c)' /\ KeyRuns(c)'
  BY <1>4 DEF Unsettled, KeyRuns
<1>10. QED
  BY <1>8, <1>9 DEF FlagsFollow, KeysDone

LEMMA SetFollowed ==
  ASSUME SetsAlone, NEW c \in Leds!Core, Leds!SetLeds(c) \/ Leds!AskRound(c), Lock \in {"caps", "num", "scroll"}
  PROVE  OneSetter' /\ FlagsFollow'
<1> USE DEF Leds!round_vars, Leds!reg2_vars, Leds!event_vars
<1>1. /\ pc \in [{0, 1} -> LedsLabel] /\ c \in {0, 1} /\ OneSetter /\ FlagsFollow
  BY DEF SetsAlone, LedsTyped, Leds!Core
<1>2. /\ UNCHANGED <<usb_reset, presses, plugs, leds, held, flag, queued, kbdreg2>>
      /\ \A d \in {0, 1} : d # c => pc'[d] = pc[d]
  BY <1>1 DEF Leds!SetLeds, Leds!AskRound, Leds!Goto
\* the LED a new keyboard gets is the LED there is
<1>3. CASE c = 1 /\ pc[1] \in {"set", "ask"}
  <2>1. UNCHANGED kbdLockingKeys /\ pc'[1] \in {"ask", "task"} /\ pc[1] \in {"set", "ask"}
    BY <1>1, <1>3 DEF Leds!SetLeds, Leds!AskRound, Leds!Goto, OneSetter
  <2>2. OneSetter'
    BY <1>1, <1>2, <1>3, <2>1 DEF OneSetter, KeyRuns, Leds!Core, Leds!AskRound, Leds!SetLeds, Leds!Goto
  <2>3. \A d \in {0, 1} : (Unsettled(d)' <=> Unsettled(d)) /\ (KeyRuns(d)' <=> KeyRuns(d))
    BY <1>2, <1>3, <2>1 DEF Unsettled, KeyRuns
  <2>4. FlagsFollow'
    BY <1>1, <1>2, <2>1, <2>3 DEF FlagsFollow, FlagRight, KeysDone, Leds!Core
  <2>5. QED
    BY <2>2, <2>4
<1>4. CASE pc[c] \in {"set key", "ask key"}
  <2>1. /\ pc[c] = "set key" => pc'[c] = "ask key"
        /\ pc[c] = "ask key" => kbdLockingKeys' = kbdLockingKeys /\ pc'[c] = IF Lock = "caps" THEN "flag" ELSE "event"
    BY <1>1, <1>4 DEF Leds!SetLeds, Leds!AskRound, Leds!Goto
  <2>2. Unsettled(c)' /\ KeyRuns(c)' /\ KeyRuns(c)
    BY <1>4, <2>1 DEF Unsettled, KeyRuns
  <2>3. presses[c] # 0 /\ c \in held
    BY <1>1, <1>4, <2>2 DEF OneSetter, KeyRuns, Leds!Core
  <2>4. c = 0 => plugs = 0
    BY <2>3, PressesTyped DEF SetsAlone, Leds!OneCoreSets
  <2>5. OneSetter'
    <3>1. CASE c = 0
      BY <1>1, <1>2, <1>4, <2>1, <2>2, <2>3, <2>4, <3>1 DEF OneSetter, KeyRuns, Leds!Core
    <3>2. CASE c = 1
      BY <1>1, <1>2, <1>4, <2>1, <2>2, <2>3, <3>2 DEF OneSetter, KeyRuns, Leds!Core
    <3>3. QED
      BY <1>1, <3>1, <3>2
  <2>6. QED
    BY <2>2, <2>5 DEF FlagsFollow, KeysDone
<1>5. QED
  <2>1. pc[c] \in {"set", "set key", "set reset", "ask", "ask key", "ask reset"}
    BY DEF Leds!SetLeds, Leds!AskRound
  <2>2. c = 0 => pc[c] \in {"task", "set key", "ask key", "event", "flag"}
    BY <1>1 DEF OneSetter, KeyRuns
  <2>3. c = 1 => pc[c] \notin {"set reset", "ask reset"}
    BY <1>1 DEF OneSetter
  <2>4. QED
    BY <1>1, <1>3, <1>4, <2>1, <2>2, <2>3

LEMMA FlagFollowed ==
  ASSUME SetsAlone, NEW c \in Leds!Core, Leds!SetFlag(c)
  PROVE  OneSetter' /\ FlagsFollow'
<1> USE DEF Leds!round_vars, Leds!reg2_vars, Leds!event_vars
<1>1. /\ pc \in [{0, 1} -> LedsLabel] /\ c \in {0, 1} /\ OneSetter /\ FlagsFollow
      /\ kbdLockingKeys \in {"on", "off"}
  BY DEF SetsAlone, LedsTyped, Leds!Core, Led
<1>2. /\ UNCHANGED <<usb_reset, presses, plugs, leds, held, kbdLockingKeys, queued, kbdreg2>>
      /\ pc[c] = "flag" /\ pc'[c] = (IF Lock = "caps" THEN "event" ELSE "task")
      /\ \A d \in {0, 1} : d # c => pc'[d] = pc[d]
      /\ flag' = Leds!Flag(kbdLockingKeys)
  BY <1>1 DEF Leds!SetFlag, Leds!Goto
<1>3. OneSetter'
  BY <1>1, <1>2 DEF OneSetter, KeyRuns, Leds!Core
<1>4. FlagRight'
  BY <1>1, <1>2 DEF FlagRight, Leds!Flag
\* the event of Caps Lock is still to be queued, the key of the others still held
<1>5. ~KeysDone'
  <2>1. Lock # "caps" => c \in held'
    BY <1>1, <1>2 DEF OneSetter, KeyRuns, Leds!Core
  <2>2. Lock = "caps" => KeyRuns(c)'
    BY <1>2 DEF KeyRuns
  <2>3. QED
    BY <2>1, <2>2 DEF KeysDone
<1>6. QED
  BY <1>3, <1>4, <1>5 DEF FlagsFollow

LEMMA EventFollowed ==
  ASSUME SetsAlone, NEW c \in Leds!Core, Leds!QueueEvent(c) \/ Leds!KeyUp(c)
  PROVE  OneSetter' /\ FlagsFollow'
<1> USE DEF Leds!round_vars, Leds!reg2_vars, Leds!event_vars
<1>1. /\ pc \in [{0, 1} -> LedsLabel] /\ c \in {0, 1} /\ OneSetter /\ FlagsFollow /\ queued \in Nat
  BY DEF SetsAlone, LedsTyped, Leds!Core
<1>2. /\ UNCHANGED <<usb_reset, presses, plugs, leds, kbdLockingKeys, flag, kbdreg2>>
      /\ \A d \in {0, 1} : d # c => pc'[d] = pc[d]
  BY <1>1 DEF Leds!QueueEvent, Leds!KeyUp, Leds!Goto
<1>3. CASE Leds!QueueEvent(c)
  <2>1. /\ pc[c] = "event" /\ pc'[c] = (IF Lock = "caps" THEN "task" ELSE "flag")
        /\ UNCHANGED held /\ queued' = queued + 1
    BY <1>1, <1>3 DEF Leds!QueueEvent, Leds!Goto
  <2>2. OneSetter'
    BY <1>1, <1>2, <2>1 DEF OneSetter, KeyRuns, Leds!Core
  <2>3. queued' # 0
    BY <1>1, <2>1
  <2>4. \A d \in {0, 1} : Unsettled(d)' <=> Unsettled(d)
    BY <1>2, <2>1 DEF Unsettled
  <2>5. QED
    BY <1>1, <1>2, <2>2, <2>3, <2>4 DEF FlagsFollow, FlagRight, Leds!Core
<1>4. CASE Leds!KeyUp(c)
  <2>1. /\ pc' = pc /\ pc[c] = "task" /\ held' = held \ {c}
        /\ queued' = IF Lock = "caps" THEN queued ELSE queued + 1
    BY <1>4 DEF Leds!KeyUp
  <2>2. OneSetter'
    BY <1>1, <1>2, <2>1 DEF OneSetter, KeyRuns, Leds!Core
  <2>3. Lock # "caps" => queued' # 0
    BY <1>1, <2>1
  <2>4. QED
    BY <1>1, <1>2, <2>1, <2>2, <2>3 DEF FlagsFollow, FlagRight, KeysDone, Unsettled, KeyRuns
<1>5. QED
  BY <1>3, <1>4

LEMMA PackFollowed ==
  ASSUME SetsAlone, Leds!GetAdbRegister2
  PROVE  OneSetter' /\ FlagsFollow'
<1>1. /\ UNCHANGED <<usb_reset, presses, plugs, leds, kbdLockingKeys, flag, pc, held>>
      /\ kbdreg2' = Register2(flag)
  BY DEF Leds!GetAdbRegister2, Register2, Leds!round_vars, Leds!event_vars
<1>2. OneSetter /\ FlagsFollow
  BY DEF SetsAlone
<1>3. QED
  BY <1>1, <1>2 DEF OneSetter, FlagsFollow, FlagRight, KeysDone, KeyRuns, Unsettled

LEMMA KeyboardFollowed ==
  ASSUME SetsAlone, NEW k \in Keyboard, Leds!AddKeyboard(k) \/ Leds!RemoveKeyboard(k), Leds!OneCoreSets'
  PROVE  OneSetter' /\ FlagsFollow'
<1> USE DEF Leds!round_vars, Leds!reg2_vars, Leds!event_vars
<1>1. /\ pc \in [{0, 1} -> LedsLabel] /\ leds \in [{0, 1} -> Led] /\ OneSetter /\ FlagsFollow
      /\ plugs \in Nat /\ presses[1] \in Nat
  BY DEF SetsAlone, LedsTyped, Leds!Core
<1>2. /\ UNCHANGED <<usb_reset, presses, held, kbdLockingKeys, flag, queued, kbdreg2>>
      /\ plugs' = plugs + 1
  BY DEF Leds!AddKeyboard, Leds!RemoveKeyboard
<1>3. plugs' # 0 /\ presses[1] + plugs' # 0
  BY <1>1, <1>2
\* Core 0 has set nothing, so the keyboard gets the LED there is.
<1>4. presses[0] = 0
  BY <1>2, <1>3 DEF Leds!OneCoreSets
<1>5. CASE Leds!AddKeyboard(k)
  <2>1. /\ pc[1] = "task" /\ pc'[1] = "set" /\ pc'[0] = pc[0]
        /\ leds'[1] = kbdLockingKeys /\ leds'[0] = leds[0]
    BY <1>1, <1>5 DEF Leds!AddKeyboard, Leds!SetsTo, Leds!Goto
  <2>2. OneSetter'
    BY <1>1, <1>2, <1>3, <1>4, <2>1 DEF OneSetter, KeyRuns, Leds!Core
  <2>3. \A d \in {0, 1} : (Unsettled(d)' <=> Unsettled(d)) /\ (KeyRuns(d)' <=> KeyRuns(d))
    BY <2>1 DEF Unsettled, KeyRuns
  <2>4. QED
    BY <1>1, <1>2, <2>2, <2>3 DEF FlagsFollow, FlagRight, KeysDone, Leds!Core
<1>6. CASE Leds!RemoveKeyboard(k)
  <2>1. UNCHANGED <<pc, leds>>
    BY <1>6 DEF Leds!RemoveKeyboard
  <2>2. QED
    BY <1>1, <1>2, <1>3, <2>1 DEF OneSetter, FlagsFollow, FlagRight, KeysDone, KeyRuns, Unsettled
<1>7. QED
  BY <1>5, <1>6

LEMMA LoopFollowed ==
  ASSUME SetsAlone, Leds!Transfer \/ Leds!Loop
  PROVE  OneSetter' /\ FlagsFollow'
<1> USE DEF Leds!round_vars, Leds!reg2_vars, Leds!event_vars
<1>1. /\ pc \in [{0, 1} -> LedsLabel] /\ OneSetter /\ FlagsFollow /\ ~usb_reset
      /\ pc[1] # "reset done"
  BY DEF SetsAlone, LedsTyped, Leds!Core, OneSetter
<1>2. /\ UNCHANGED <<usb_reset, presses, plugs, leds, held, kbdLockingKeys, flag, queued, kbdreg2>>
      /\ \/ UNCHANGED pc
         \/ /\ pc[1] \in {"task", "round", "end", "reset"}
            /\ \E label \in {"task", "round", "end", "reset"} : Leds!Goto(1, label)
  <2>1. CASE Leds!Transfer
    BY <2>1 DEF Leds!Transfer, Leds!DataStage, Leds!tuh_hid_set_report_complete_cb
  <2>2. CASE Leds!Loop
    BY <1>1, <2>2 DEF Leds!Loop, Leds!RoundAsked, Leds!Round, Leds!RoundEnds, Leds!Reset, Leds!ResetDone
  <2>3. QED
    BY <2>1, <2>2
<1>3. /\ pc'[0] = pc[0]
      /\ \/ pc'[1] = pc[1]
         \/ {pc[1], pc'[1]} \subseteq {"task", "round", "end", "reset"}
  <2>1. CASE UNCHANGED pc
    BY <2>1
  <2>2. ASSUME pc[1] \in {"task", "round", "end", "reset"},
               NEW label \in {"task", "round", "end", "reset"}, Leds!Goto(1, label)
        PROVE  <1>3
    <3>1. label \in LedsLabel /\ 0 \in Leds!Core /\ 1 \in Leds!Core
      BY DEF LedsLabel, Leds!Core
    <3>2. pc'[0] = pc[0] /\ pc'[1] = label
      BY <2>2, <3>1, GotoTyped DEF SetsAlone
    <3>3. QED
      BY <2>2, <3>2
  <2>3. QED
    BY <1>2, <2>1, <2>2
<1>4. OneSetter'
  BY <1>1, <1>2, <1>3 DEF OneSetter, KeyRuns, Leds!Core
<1>5. \A d \in {0, 1} : (Unsettled(d)' <=> Unsettled(d)) /\ (KeyRuns(d)' <=> KeyRuns(d))
  BY <1>3 DEF Unsettled, KeyRuns
<1>6. QED
  BY <1>1, <1>2, <1>4, <1>5 DEF FlagsFollow, FlagRight, KeysDone, Leds!Core

LEMMA FollowedStep ==
  ASSUME SetsAlone, [Leds!Next]_(Leds!vars), Leds!OneCoreSets'
  PROVE  OneSetter' /\ FlagsFollow'
<1>1. CASE UNCHANGED Leds!vars
  BY <1>1 DEF SetsAlone, OneSetter, FlagsFollow, FlagRight, KeysDone, KeyRuns, Unsettled, Leds!vars,
    Leds!reg2_vars, Leds!event_vars
\* Listen 2 and a bus reset are not among what OneCoreSets speaks of.
<1>2. CASE Leds!adb_set_leds \/ Leds!BusReset
  <2>1. listens' = listens + 1 \/ resets' = resets + 1
    BY <1>2 DEF Leds!adb_set_leds, Leds!BusReset
  <2>2. listens = 0 /\ resets = 0 /\ listens' = 0 /\ resets' = 0
    BY DEF SetsAlone, Leds!OneCoreSets
  <2>3. QED
    BY <2>1, <2>2
<1>3. ASSUME NEW c \in Leds!Core, Leds!HandleLockingKeys(c) \/ Leds!KeyUp(c) \/ Leds!Sets(c)
      PROVE  OneSetter' /\ FlagsFollow'
  BY <1>3, LedsWorkload, PressFollowed, SetFollowed, FlagFollowed, EventFollowed DEF Leds!Sets, SetsAlone
<1>4. QED
  BY <1>1, <1>2, <1>3, PackFollowed, KeyboardFollowed, LoopFollowed DEF Leds!Next

\* The flag that says whether a report may be sent and the transfer go together, but
\* for a transfer that is dropped; what waits for its callback waits for good.
LEMMA OneReportStep ==
  ASSUME LedsTyped, Leds!OneAtATime, [Leds!Next]_(Leds!vars)
  PROVE  Leds!OneAtATime'
<1> USE DEF Leds!round_vars, Leds!reg2_vars, Leds!event_vars, Leds!OneAtATime, Leds!Abandoned
<1>1. CASE UNCHANGED Leds!vars
  BY <1>1 DEF Leds!vars
<1>2. ASSUME NEW c \in Leds!Core, Leds!HandleLockingKeys(c) \/ Leds!KeyUp(c) \/ Leds!Sets(c)
      PROVE  Leds!OneAtATime'
  <2>1. CASE Leds!HandleLockingKeys(c) \/ Leds!KeyUp(c)
    <3>1. UNCHANGED <<set_hid_report_ready, sending, presser, hurried>>
      BY <2>1 DEF Leds!HandleLockingKeys, Leds!KeyUp
    <3>2. QED
      BY <3>1
  <2>2. CASE Leds!Sets(c)
    <3>1. /\ UNCHANGED <<set_hid_report_ready, sending, presser>>
          /\ hurried' = hurried \/ hurried' = (usb_set_leds \/ Leds!Abandoned)
      BY <2>2 DEF Leds!Sets, Leds!SetLeds, Leds!AskRound, Leds!SetFlag, Leds!QueueEvent
    <3>2. QED
      BY <3>1
  <2>3. QED
    BY <1>2, <2>1, <2>2
<1>3. CASE Leds!adb_set_leds \/ Leds!BusReset \/ Leds!GetAdbRegister2
  BY <1>3 DEF Leds!adb_set_leds, Leds!BusReset, Leds!GetAdbRegister2
<1>4. CASE Leds!Transfer
  BY <1>4 DEF Leds!Transfer, Leds!DataStage, Leds!tuh_hid_set_report_complete_cb, Leds!ReadyAgain
<1>5. CASE Leds!Round
  <2>1. /\ presser' = presser
        /\ \/ Leds!Sends /\ set_hid_report_ready' = FALSE /\ sending' = keyboards_list[i]
           \/ UNCHANGED <<set_hid_report_ready, sending>> /\ hurried' = (hurried \/ Leds!Sends)
    BY <1>5 DEF Leds!Round
  <2>2. CASE Leds!Sends /\ set_hid_report_ready' = FALSE /\ sending' = keyboards_list[i]
    BY <2>2 DEF Leds!Sends
  <2>3. CASE UNCHANGED <<set_hid_report_ready, sending>> /\ hurried' = (hurried \/ Leds!Sends)
    BY <2>1, <2>3
  <2>4. QED
    BY <2>1, <2>2, <2>3
<1>6. CASE Leds!RoundAsked \/ Leds!RoundEnds \/ Leds!Reset \/ Leds!ResetDone
  <2>1. UNCHANGED <<set_hid_report_ready, sending, presser, hurried>>
    BY <1>6 DEF Leds!RoundAsked, Leds!RoundEnds, Leds!Reset, Leds!ResetDone
  <2>2. QED
    BY <2>1
<1>7. ASSUME NEW k \in Keyboard, Leds!AddKeyboard(k) \/ Leds!RemoveKeyboard(k)
      PROVE  Leds!OneAtATime'
  BY <1>7 DEF Leds!AddKeyboard, Leds!RemoveKeyboard
<1>8. QED
  BY <1>1, <1>2, <1>3, <1>4, <1>5, <1>6, <1>7 DEF Leds!Next, Leds!Loop

LEMMA LedsStep ==
  ASSUME LedsInv, [Leds!Next]_(Leds!vars)
  PROVE  LedsInv'
<1>1. LedsTyped' /\ Leds!OneAtATime'
  BY LedsTypedStep, OneReportStep DEF LedsInv
<1>2. ASSUME Leds!OneCoreSets' PROVE OneSetter' /\ FlagsFollow'
  BY <1>2, OneCoreStays, FollowedStep DEF LedsInv, SetsAlone
<1>3. QED
  BY <1>1, <1>2 DEF LedsInv

LEMMA LedsStart == Leds!Init => LedsInv
<1>1. SUFFICES ASSUME Leds!Init PROVE LedsInv
  OBVIOUS
<1>2. MAX_KEYBOARDS \in Nat \ {0}
  BY LedsAssumed DEF Leds!LedsAssumption
<1>3. LedsTyped
  <2>1. 0 \in Leds!Entry
    BY <1>2 DEF Leds!Entry
  <2>2. /\ pc = [c \in Leds!Core |-> "task"] /\ leds = [c \in Leds!Core |-> "off"]
        /\ presses = [c \in Leds!Core |-> 0] /\ shown = [k \in Keyboard |-> "off"]
        /\ keyboards_list = [e \in Leds!Entry |-> NoKeyboard]
    BY <1>1 DEF Leds!Init
  <2>3. /\ pc \in [Leds!Core -> LedsLabel] /\ leds \in [Leds!Core -> Led]
        /\ presses \in [Leds!Core -> Nat] /\ shown \in [Keyboard -> Led]
        /\ keyboards_list \in [Leds!Entry -> Keyboard \cup {NoKeyboard}]
    BY <2>2 DEF LedsLabel, Led
  <2>4. QED
    BY <1>1, <2>1, <2>3 DEF LedsTyped, Leds!Init, Led
<1>4. Leds!OneAtATime
  BY <1>1 DEF Leds!Init, Leds!OneAtATime, Leds!Abandoned
<1>5. OneSetter /\ FlagsFollow
  <2>1. \A c \in Leds!Core : pc[c] = "task" /\ presses[c] = 0
    BY <1>1 DEF Leds!Init
  <2>2. pc[0] = "task" /\ pc[1] = "task" /\ presses[0] = 0 /\ presses[1] = 0
    BY <2>1 DEF Leds!Core
  <2>3. OneSetter
    BY <1>1, <2>1, <2>2 DEF Leds!Init, OneSetter, KeyRuns
  <2>4. FlagsFollow
    BY <1>1, <2>2 DEF Leds!Init, FlagsFollow, FlagRight, Register2
  <2>5. QED
    BY <2>3, <2>4
<1>6. QED
  BY <1>3, <1>4, <1>5 DEF LedsInv

\* UsbLeds steps or rests in every behaviour of the two.
LEMMA LedsInvariant == LocksSpec => []LedsInv
<1>1. LocksInit => LedsInv
  BY LedsStart DEF LocksInit
<1>2. [LocksNext]_all_vars => [Leds!Next]_(Leds!vars)
  BY DEF LocksNext, Step, all_vars, leds_vars, Leds!vars, Leds!round_vars, Leds!reg2_vars, Leds!event_vars
<1>3. LedsInv /\ [LocksNext]_all_vars => LedsInv'
  BY <1>2, LedsStep
<1>4. QED
  BY <1>1, <1>3, PTL DEF LocksSpec

\* For Num Lock and Scroll Lock, any number of keyboards and entries, and any
\* presses, plugs, resets, Listens and failures: no LED report is handed to TinyUSB
\* before the callback of the last, and none is waited for that is not on its way,
\* but where a keyboard was pulled out in the middle; and at rest the host reads in register 2 the LED the keys of one core have set,
\* although flags, LED and event are written apart and read by the other core.
THEOREM LedsAreKept == ASSUME Lock # "caps" PROVE LocksSpec => []LedsKept
<1>1. LedsInv => LedsKept
  <2>1. SUFFICES ASSUME LedsInv PROVE LedsKept
    OBVIOUS
  <2>2. ASSUME Leds!AtRest, Leds!OneCoreSets PROVE kbdreg2 = kbdLockingKeys
    <3>1. OneSetter /\ FlagsFollow /\ queued = 0 /\ held = {}
      BY <2>1, <2>2 DEF LedsInv, Leds!AtRest
    <3>2. \A c \in Leds!Core : ~KeyRuns(c) /\ c \notin held
      BY <3>1 DEF OneSetter
    <3>3. kbdreg2 = Register2(flag) /\ FlagRight
      BY <3>1, <3>2 DEF FlagsFollow, KeysDone, Unsettled, KeyRuns
    <3>4. kbdLockingKeys \in {"on", "off"}
      BY <2>1 DEF LedsInv, LedsTyped, Led
    <3>5. QED
      BY <3>3, <3>4 DEF FlagRight, Register2
  <2>3. QED
    BY <2>1, <2>2, LedsTypes DEF LedsInv, LedsKept, Reg2ShowsLed, Leds!Reg2ShowsLed
<1>2. QED
  BY <1>1, LedsInvariant, PTL

\* For Caps Lock the code has the flags the other way round: from the first press
\* on, at rest, register 2 shows the opposite of the LED, whenever the keys of one
\* core have set it.
THEOREM CapsShownInverted ==
  ASSUME Lock = "caps"
  PROVE  LocksSpec =>
           [](Leds!AtRest /\ Leds!OneCoreSets /\ (presses[0] # 0 \/ presses[1] # 0) =>
                kbdreg2 = Leds!Other(kbdLockingKeys))
<1>1. LedsInv => (Leds!AtRest /\ Leds!OneCoreSets /\ (presses[0] # 0 \/ presses[1] # 0) =>
                    kbdreg2 = Leds!Other(kbdLockingKeys))
  <2>1. SUFFICES ASSUME LedsInv, Leds!AtRest, Leds!OneCoreSets, presses[0] # 0 \/ presses[1] # 0
                 PROVE  kbdreg2 = Leds!Other(kbdLockingKeys)
    OBVIOUS
  <2>2. OneSetter /\ FlagsFollow /\ queued = 0 /\ held = {}
    BY <2>1 DEF LedsInv, Leds!AtRest
  <2>3. \A c \in Leds!Core : ~KeyRuns(c)
    BY <2>2 DEF OneSetter
  <2>4. kbdreg2 = Register2(flag) /\ FlagRight
    BY <2>2, <2>3 DEF FlagsFollow, KeysDone, Unsettled, KeyRuns
  <2>5. kbdLockingKeys \in {"on", "off"}
    BY <2>1 DEF LedsInv, LedsTyped, Led
  <2>6. QED
    BY <2>1, <2>4, <2>5 DEF FlagRight, Register2, Leds!Other
<1>2. QED
  BY <1>1, LedsInvariant, PTL
=============================================================================
