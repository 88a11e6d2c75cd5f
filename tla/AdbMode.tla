------------------------------ MODULE AdbMode ------------------------------
(***************************************************************************)
(* The operating mode: chosen with the buttons of the OLED, kept in flash, *)
(* applied to the ADB side by core 0 and to the USB stack by core 1        *)
(* (src/adb_mode.cpp, src/display/display.c, flashsettings.cpp and the     *)
(* loops of quokkadb.cpp).                                                 *)
(*                                                                         *)
(* A save erases the settings' sector and programs one page, with the      *)
(* other core locked out; the power may fail at any moment.  Buttons are   *)
(* debounced presses.  Of the other settings there is the LED, which a key *)
(* combination on a USB keyboard toggles and saves from core 1.            *)
(***************************************************************************)
EXTENDS Naturals, FiniteSets

CONSTANTS
  MaxPresses,  (* bound on the presses of * and of # on the mode screen      *)
  MaxLosses,   (* bound on the losses of power                               *)
  MaxToggles   (* bound on the toggles of the LED                            *)

ASSUME ModeAssumption == MaxPresses \in Nat /\ MaxLosses \in Nat /\ MaxToggles \in Nat

Mode == {"device", "host"}
Core == {0, 1}
Screen == {"splash", "devices", "map", "bus", "mode"}
Erased == "erased"

VARIABLES
  flash,       (* the mode in the settings' page, or Erased                  *)
  settings,    (* the mode in the settings in memory                         *)
  power,       (* on or off                                                  *)
  s_mode, s_pending_mode, s_mode_pending, s_usb_sync_needed,
  stack,       (* the USB stack that runs: none, host or device              *)
  adb_host_was_active,
  screen, mode_ui_selection,
  banner,      (* the mode shown by the splash screen                        *)
  locker,      (* the core that has locked the other out, if any             *)
  pc,          (* what each core does next                                   *)
  choices,     (* history: the modes a cold boot may restore                 *)
  presses, losses, toggles  (* events so far (bounded)                       *)

mode_vars == <<s_mode, s_pending_mode, s_mode_pending, s_usb_sync_needed>>
flash_vars == <<flash, settings, locker>>
screen_vars == <<screen, mode_ui_selection, banner>>
event_vars == <<presses, losses, toggles>>
vars == <<mode_vars, flash_vars, screen_vars, event_vars, power, stack,
          adb_host_was_active, pc, choices>>

\* An erased page holds the default, and so does any byte that is no mode.
mode_from_flash(page) == IF page = "host" THEN "host" ELSE "device"

Init ==
  /\ flash \in Mode \cup {Erased}
  /\ settings = mode_from_flash(flash)
  /\ power = "on"
  /\ s_mode = settings /\ s_pending_mode = settings
  /\ s_mode_pending = FALSE /\ s_usb_sync_needed = TRUE
  /\ stack = "none" /\ adb_host_was_active = FALSE
  /\ screen = "splash" /\ mode_ui_selection = "device" /\ banner = s_mode
  /\ locker = {}
  /\ pc = [c \in Core |-> IF c = 0 THEN "buttons" ELSE "sync"]
  /\ choices = {settings}
  /\ presses = 0 /\ losses = 0 /\ toggles = 0

\* A step of a core at a label, the core not being locked out
At(c, label) == power = "on" /\ pc[c] = label /\ locker \subseteq {c}
Goto(c, label) == pc' = [pc EXCEPT ![c] = label]

(* ------------------------------- buttons ------------------------------- *)

Pressed == presses < MaxPresses /\ presses' = presses + 1

\* Mutant: the mode in force is saved again.
RequestedAlways(mode) == TRUE
\* adb_mode_request has something to do.
Requested(mode) == mode # s_mode \/ s_mode_pending

\* mode_screen_apply, up to the save; core 0 is the only one to write these.
mode_screen_apply(mode) ==
  /\ mode_ui_selection' = mode
  /\ IF Requested(mode)
     THEN /\ s_pending_mode' = mode /\ s_mode_pending' = TRUE
          /\ settings' = mode
          /\ choices' = choices \cup {mode}
          /\ Goto(0, "lock")
     ELSE /\ UNCHANGED <<s_pending_mode, s_mode_pending, settings, choices>>
          /\ Goto(0, "apply")
  /\ UNCHANGED <<flash, locker, power, s_mode, s_usb_sync_needed, stack, adb_host_was_active,
                 screen, banner, losses, toggles>>

Star ==
  /\ At(0, "buttons")
  /\ Pressed
  /\ \E mode \in Mode \ {s_mode} : mode_screen_apply(mode)

HashOnMode ==
  /\ At(0, "buttons")
  /\ screen = "mode"
  /\ Pressed
  /\ mode_screen_apply(mode_ui_selection)

NextScreen ==
  CASE screen = "splash" -> "devices" [] screen = "devices" -> "map"
    [] screen = "map" -> "bus" [] OTHER -> "mode"

Hash ==
  /\ At(0, "buttons")
  /\ screen # "mode"
  /\ screen' = NextScreen
  /\ mode_ui_selection' = IF screen = "bus" THEN s_mode ELSE mode_ui_selection
  /\ UNCHANGED <<flash_vars, mode_vars, event_vars, power, stack, adb_host_was_active,
                 banner, pc, choices>>

UpOrDown ==
  /\ At(0, "buttons")
  /\ screen = "mode"
  /\ \E mode \in Mode \ {mode_ui_selection} : mode_ui_selection' = mode
  /\ UNCHANGED <<flash_vars, mode_vars, event_vars, power, stack, adb_host_was_active,
                 screen, banner, pc, choices>>

(* -------------------------------- saving ------------------------------- *)

\* save(), by either core
LockOut(c) ==
  /\ At(c, "lock")
  /\ locker = {}
  /\ locker' = {c}
  /\ Goto(c, "erase")
  /\ UNCHANGED <<flash, settings, mode_vars, screen_vars, event_vars, power, stack,
                 adb_host_was_active, choices>>

\* There is one copy: until the page is programmed, a loss of power during core
\* 1's save of the LED leaves the default mode.
Erase(c) ==
  /\ At(c, "erase")
  /\ flash' = Erased
  /\ choices' = IF c = 1 THEN choices \cup {mode_from_flash(Erased)} ELSE choices
  /\ Goto(c, "program")
  /\ UNCHANGED <<settings, locker, mode_vars, screen_vars, event_vars, power, stack,
                 adb_host_was_active>>

Saved(c) == IF c = 0 THEN "apply" ELSE "sync"

\* What was saved is now the choice to restore, unless core 0 still has to save.
Program(c) ==
  /\ At(c, "program")
  /\ flash' = settings
  /\ locker' = {}
  /\ choices' = IF c = 1 /\ pc[0] = "lock" THEN choices ELSE {settings}
  /\ Goto(c, Saved(c))
  /\ UNCHANGED <<settings, mode_vars, screen_vars, event_vars, power, stack,
                 adb_host_was_active>>

\* adb_mode_apply_pending
ApplyMode ==
  /\ At(0, "apply")
  /\ IF s_mode_pending
     THEN s_mode' = s_pending_mode /\ s_mode_pending' = FALSE /\ Goto(0, "need sync")
     ELSE UNCHANGED <<s_mode, s_mode_pending>> /\ Goto(0, "splash")
  /\ UNCHANGED <<flash_vars, s_pending_mode, s_usb_sync_needed, screen_vars, event_vars,
                 power, stack, adb_host_was_active, choices>>

NeedSync ==
  /\ At(0, "need sync")
  /\ s_usb_sync_needed' = TRUE
  /\ Goto(0, "splash")
  /\ UNCHANGED <<flash_vars, s_mode, s_pending_mode, s_mode_pending, screen_vars, event_vars,
                 power, stack, adb_host_was_active, choices>>

\* Mutant: the splash screen shows what the ADB side did in its last pass.
SplashLastPass == IF adb_host_was_active THEN "host" ELSE "device"
SplashMode == s_mode

display_show_splash ==
  /\ At(0, "splash")
  /\ screen' = "splash" /\ banner' = SplashMode
  /\ Goto(0, "buttons")
  /\ UNCHANGED <<flash_vars, mode_vars, mode_ui_selection, event_vars, power, stack,
                 adb_host_was_active, choices>>

(* ------------------------------- the loops ----------------------------- *)

\* Core 0 goes on from the buttons: host mode is entered or left, then a pass
\* of polling, or of answering, follows.
Loop ==
  /\ At(0, "buttons")
  /\ adb_host_was_active' = (s_mode = "host")
  /\ Goto(0, "adb")
  /\ UNCHANGED <<flash_vars, mode_vars, screen_vars, event_vars, power, stack, choices>>

AdbPass ==
  /\ At(0, "adb")
  /\ Goto(0, "buttons")
  /\ UNCHANGED <<flash_vars, mode_vars, screen_vars, event_vars, power, stack,
                 adb_host_was_active, choices>>

\* adb_mode_usb_sync on core 1
UsbSync ==
  /\ At(1, "sync")
  /\ Goto(1, IF s_usb_sync_needed THEN "clear" ELSE "role")
  /\ UNCHANGED <<flash_vars, mode_vars, screen_vars, event_vars, power, stack,
                 adb_host_was_active, choices>>

SyncSeen ==
  /\ At(1, "clear")
  /\ s_usb_sync_needed' = FALSE
  /\ Goto(1, "deinit")
  /\ UNCHANGED <<flash_vars, s_mode, s_pending_mode, s_mode_pending, screen_vars, event_vars,
                 power, stack, adb_host_was_active, choices>>

tusb_deinit ==
  /\ At(1, "deinit")
  /\ stack' = "none"
  /\ Goto(1, "start")
  /\ UNCHANGED <<flash_vars, mode_vars, screen_vars, event_vars, power, adb_host_was_active, choices>>

\* In host mode the adapter is a USB device.
usb_stack_start ==
  /\ At(1, "start")
  /\ stack' = IF s_mode = "host" THEN "device" ELSE "host"
  /\ Goto(1, "role")
  /\ UNCHANGED <<flash_vars, mode_vars, screen_vars, event_vars, power, adb_host_was_active, choices>>

\* Mutant: the flag is cleared when the stack has started, not before.
SyncClearedLate == FALSE
SyncStillNeeded == s_usb_sync_needed

\* The task of the role, chosen by the mode
UsbRole ==
  /\ At(1, "role")
  /\ Goto(1, IF s_mode = "host" THEN "tud_task" ELSE "tuh_task")
  /\ s_usb_sync_needed' = SyncStillNeeded
  /\ UNCHANGED <<flash_vars, s_mode, s_pending_mode, s_mode_pending, screen_vars, event_vars,
                 power, stack, adb_host_was_active, choices>>

UsbTask ==
  /\ At(1, "tud_task") \/ At(1, "tuh_task")
  /\ Goto(1, "sync")
  /\ UNCHANGED <<flash_vars, mode_vars, screen_vars, event_vars, power, stack,
                 adb_host_was_active, choices>>

\* The combination that toggles the LED is typed on a USB keyboard.
ToggleLed ==
  /\ At(1, "tuh_task")
  /\ stack = "host"
  /\ toggles < MaxToggles
  /\ toggles' = toggles + 1
  /\ Goto(1, "lock")
  /\ UNCHANGED <<flash_vars, mode_vars, screen_vars, presses, losses, power, stack,
                 adb_host_was_active, choices>>

PowerFails ==
  /\ power = "on"
  /\ losses < MaxLosses
  /\ losses' = losses + 1
  /\ power' = "off"
  /\ UNCHANGED <<flash_vars, mode_vars, screen_vars, presses, toggles, stack,
                 adb_host_was_active, pc, choices>>

\* A cold boot: FlashSettings::init, adb_mode_init and the start of core 1
Boot ==
  /\ power = "off"
  /\ power' = "on"
  /\ settings' = mode_from_flash(flash)
  /\ s_mode' = settings' /\ s_pending_mode' = settings'
  /\ s_mode_pending' = FALSE /\ s_usb_sync_needed' = TRUE
  /\ stack' = "none" /\ adb_host_was_active' = FALSE
  /\ screen' = "splash" /\ mode_ui_selection' = "device" /\ banner' = s_mode'
  /\ locker' = {}
  /\ pc' = [c \in Core |-> IF c = 0 THEN "buttons" ELSE "sync"]
  /\ UNCHANGED <<flash, choices, event_vars>>

Save(c) == LockOut(c) \/ Erase(c) \/ Program(c)
Core0 == Save(0) \/ ApplyMode \/ NeedSync \/ display_show_splash \/ Loop \/ AdbPass
Core1 == Save(1) \/ UsbSync \/ SyncSeen \/ tusb_deinit \/ usb_stack_start \/ UsbRole \/ UsbTask

Next ==
  \/ Star \/ HashOnMode \/ Hash \/ UpOrDown
  \/ Core0 \/ Core1 \/ ToggleLed
  \/ PowerFails \/ Boot

Spec == Init /\ [][Next]_vars

\* Both cores go on and the power comes back.
FairSpec == Spec /\ WF_vars(Core0) /\ WF_vars(Core1) /\ WF_vars(Boot)

(* ------------------------------ properties ----------------------------- *)

TypeOK ==
  /\ flash \in Mode \cup {Erased} /\ settings \in Mode
  /\ {s_mode, s_pending_mode, mode_ui_selection, banner} \subseteq Mode
  /\ stack \in {"none", "host", "device"} /\ screen \in Screen
  /\ locker \subseteq Core /\ power \in {"on", "off"}

\* "Cold boot restores the last choice" (docs/adb-host-mode.md): a boot takes the
\* last mode saved, or the one being saved when the power failed; only a loss of
\* power within a save of the LED may leave the default instead.
BootRestoresChoice == [][power = "off" /\ power' = "on" => s_mode' \in choices]_vars

\* "toggles Device <-> Host, persists, returns to splash (banner updates
\* immediately)": whenever core 0 is done with the buttons the banner shows the
\* mode the ADB side is in, and that mode is the one saved.
BannerShowsMode ==
  power = "on" /\ pc[0] = "adb" =>
    /\ screen = "splash" => banner = s_mode
    /\ adb_host_was_active = (s_mode = "host") /\ settings = s_mode

Inv == TypeOK /\ BannerShowsMode

StackFollowsMode ==
  \A mode \in Mode : <>[](s_mode = mode) => <>[](stack = IF mode = "host" THEN "device" ELSE "host")

SavesEnd == \A c \in Core :
  pc[c] = "lock" ~> (pc[c] \notin {"lock", "erase", "program"} \/ power = "off")

\* The USB stack follows the mode in the end, however the switches of core 0 and
\* the restart on core 1 overlap; and neither core waits for ever for the other:
\* a save that one of them starts returns, unless the power fails, whatever the
\* other is doing, saving included (write_settings_page locks the other core out).
ModeTakesEffect == StackFollowsMode /\ SavesEnd
=============================================================================
