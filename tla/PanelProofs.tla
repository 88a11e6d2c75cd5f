---------------------------- MODULE PanelProofs ----------------------------
(***************************************************************************)
(* Proofs about the front panel.  The mode (AdbMode), for any number of    *)
(* presses, losses of power and toggles of the LED: a cold boot restores   *)
(* the last choice, and core 0 shows, saves and runs one and the same      *)
(* mode.  The screens (Screens), for any devices and any number of changes *)
(* and presses: the buttons act on what the OLED shows.                    *)
(***************************************************************************)
EXTENDS MCPanel, FiniteSetTheorems, SequenceTheorems, TLAPS

(* ------------------------- the inductive invariant --------------------- *)

Saving == {"lock", "erase", "program"}
Switching == {"apply", "need sync", "splash"}
Idling == {"buttons", "adb"}
UsbLoop == {"sync", "clear", "deinit", "start", "role", "tud_task", "tuh_task"}

Typed ==
  /\ flash \in Mode \cup {Erased} /\ settings \in Mode
  /\ s_mode \in Mode /\ s_pending_mode \in Mode
  /\ mode_ui_selection \in Mode /\ banner \in Mode
  /\ s_mode_pending \in BOOLEAN /\ s_usb_sync_needed \in BOOLEAN
  /\ stack \in {"none", "host", "device"} /\ screen \in Screen
  /\ locker \subseteq Core /\ power \in {"on", "off"}
  /\ adb_host_was_active \in BOOLEAN /\ choices \subseteq Mode
  /\ pc \in [Core -> Saving \cup Switching \cup Idling \cup UsbLoop]
  /\ pc[0] \in Saving \cup Switching \cup Idling
  /\ pc[1] \in Saving \cup UsbLoop
  /\ presses \in Nat /\ losses \in Nat /\ toggles \in Nat

\* A core works on the flash only while it has locked the other one out.
OneSaves ==
  /\ locker \in {{}, {0}, {1}}
  /\ \A c \in Core : pc[c] \in {"erase", "program"} <=> locker = {c}

\* What a boot would restore now, and what a save would leave, may be restored.
Restorable == settings \in choices /\ mode_from_flash(flash) \in choices

\* Core 0 saves the other mode, which it then changes to; the mode it leaves may
\* still be restored, so that whatever the erased page stands for may.
SavesTheOther ==
  pc[0] \in Saving =>
    /\ settings # s_mode /\ s_mode_pending /\ s_pending_mode = settings
    /\ s_mode \in choices

\* The mode core 0 runs, or is about to run, is the one in the settings.
RunsWhatIsSaved ==
  /\ pc[0] = "apply" => settings = (IF s_mode_pending THEN s_pending_mode ELSE s_mode)
  /\ pc[0] \in Idling \cup (Switching \ {"apply"}) => settings = s_mode /\ ~s_mode_pending

\* Between two saves the splash screen shows that mode.
SplashShowsMode ==
  /\ pc[0] \in Idling /\ screen = "splash" => banner = s_mode
  /\ pc[0] = "adb" => adb_host_was_active = (s_mode = "host")

ModeInv ==
  /\ Typed /\ OneSaves /\ Restorable /\ SavesTheOther /\ RunsWhatIsSaved /\ SplashShowsMode

(* ------------------------------ the actions ---------------------------- *)

LEMMA ErasedIsDefault ==
  /\ mode_from_flash(Erased) = "device"
  /\ \A mode \in Mode : mode_from_flash(mode) = mode
  /\ \A page \in Mode \cup {Erased} : mode_from_flash(page) \in Mode
  BY DEF mode_from_flash, Erased, Mode

LEMMA InitModeInv == Init => ModeInv
<1>. SUFFICES ASSUME Init PROVE ModeInv
  OBVIOUS
<1>1. mode_from_flash(flash) \in Mode
  BY ErasedIsDefault DEF Init
<1>2. pc[0] = "buttons" /\ pc[1] = "sync" /\ pc \in [Core -> {"buttons", "sync"}]
  BY DEF Init, Core
<1>3. Typed
  BY <1>1, <1>2 DEF Init, Typed, Mode, Screen, Core, Saving, Switching, Idling, UsbLoop
<1>4. OneSaves
  BY <1>2 DEF Init, OneSaves, Core
<1>5. QED
  BY <1>2, <1>3, <1>4
     DEF Init, ModeInv, Restorable, SavesTheOther, RunsWhatIsSaved, SplashShowsMode,
         Saving, Switching, Idling

\* A core that goes on leaves the other where it is.
LEMMA GotoMoves ==
  ASSUME Typed, NEW c \in Core, NEW label \in Saving \cup Switching \cup Idling \cup UsbLoop,
         Goto(c, label)
  PROVE  /\ pc' \in [Core -> Saving \cup Switching \cup Idling \cup UsbLoop]
         /\ pc'[c] = label /\ \A d \in Core \ {c} : pc'[d] = pc[d]
  BY DEF Typed, Goto

LEMMA ButtonsKeep ==
  ASSUME ModeInv, NEW mode \in Mode, At(0, "buttons"), Pressed, mode_screen_apply(mode)
  PROVE  ModeInv'
<1>. USE DEF ModeInv
<1>1. /\ pc[0] = "buttons" /\ pc[1] \notin {"erase", "program"} /\ locker = {}
      /\ settings = s_mode /\ ~s_mode_pending /\ presses' \in Nat
  <2>1. pc[0] = "buttons" /\ locker \subseteq {0}
    BY DEF At
  <2>2. locker = {} /\ pc[1] \notin {"erase", "program"}
    BY <2>1 DEF OneSaves, Core
  <2>3. settings = s_mode /\ ~s_mode_pending
    BY <2>1 DEF RunsWhatIsSaved, Idling
  <2>4. presses' \in Nat
    BY DEF Pressed, Typed
  <2>5. QED
    BY <2>1, <2>2, <2>3, <2>4
<1>2. UNCHANGED <<flash, locker, power, s_mode, s_usb_sync_needed, stack, adb_host_was_active,
                  screen, banner, losses, toggles>> /\ mode_ui_selection' = mode
  BY DEF mode_screen_apply
<1>3. CASE Requested(mode)
  <2>1. /\ s_pending_mode' = mode /\ s_mode_pending' = TRUE /\ settings' = mode
        /\ choices' = choices \cup {mode} /\ Goto(0, "lock") /\ mode # s_mode
    BY <1>1, <1>3 DEF mode_screen_apply, Requested
  <2>2. pc' \in [Core -> Saving \cup Switching \cup Idling \cup UsbLoop] /\ pc'[0] = "lock" /\ pc'[1] = pc[1]
    BY <2>1, GotoMoves DEF Core, Saving
  <2>3. QED
    BY <1>1, <1>2, <2>1, <2>2
       DEF Typed, OneSaves, Restorable, SavesTheOther, RunsWhatIsSaved, SplashShowsMode,
           Core, Saving, Switching, Idling
<1>4. CASE ~Requested(mode)
  <2>1. UNCHANGED <<s_pending_mode, s_mode_pending, settings, choices>> /\ Goto(0, "apply")
    BY <1>4 DEF mode_screen_apply
  <2>2. pc' \in [Core -> Saving \cup Switching \cup Idling \cup UsbLoop] /\ pc'[0] = "apply" /\ pc'[1] = pc[1]
    <3>1. 0 \in Core /\ 1 \in Core \ {0} /\ "apply" \in Saving \cup Switching \cup Idling \cup UsbLoop
      BY DEF Core, Switching
    <3>2. QED
      BY <2>1, <3>1, GotoMoves
  <2>3. QED
    BY <1>1, <1>2, <2>1, <2>2
       DEF Typed, OneSaves, Restorable, SavesTheOther, RunsWhatIsSaved, SplashShowsMode,
           Core, Saving, Switching, Idling
<1>5. QED
  BY <1>3, <1>4

LEMMA MenuKeeps ==
  ASSUME ModeInv, Hash \/ UpOrDown
  PROVE  ModeInv'
<1>1. /\ pc[0] = "buttons" /\ UNCHANGED <<flash_vars, mode_vars, event_vars, power, stack,
                                          adb_host_was_active, banner, pc, choices>>
      /\ mode_ui_selection' \in Mode /\ screen' \in Screen
      /\ screen' = "splash" => screen = "splash"
  BY DEF Hash, UpOrDown, At, NextScreen, ModeInv, Typed, Screen
<1>2. QED
  BY <1>1 DEF ModeInv, Typed, OneSaves, Restorable, SavesTheOther, RunsWhatIsSaved,
              SplashShowsMode, flash_vars, mode_vars, event_vars

LEMMA LockOutKeeps ==
  ASSUME ModeInv, NEW c \in Core, LockOut(c)
  PROVE  ModeInv'
<1>1. /\ pc[c] = "lock" /\ locker = {} /\ locker' = {c}
      /\ UNCHANGED <<flash, settings, mode_vars, screen_vars, event_vars, power, stack,
                     adb_host_was_active, choices>>
  BY DEF LockOut, At
<1>2. /\ pc' \in [Core -> Saving \cup Switching \cup Idling \cup UsbLoop]
      /\ pc'[c] = "erase" /\ \A d \in Core \ {c} : pc'[d] = pc[d]
  BY GotoMoves DEF LockOut, ModeInv, Saving
<1>3. Typed' /\ OneSaves'
  BY <1>1, <1>2 DEF ModeInv, Typed, OneSaves, Core, Saving, mode_vars, screen_vars, event_vars
<1>4. Restorable' /\ SavesTheOther' /\ RunsWhatIsSaved' /\ SplashShowsMode'
  BY <1>1, <1>2 DEF ModeInv, Restorable, SavesTheOther, RunsWhatIsSaved, SplashShowsMode, Core,
                    Saving, Idling, Switching, mode_vars, screen_vars, event_vars
<1>5. QED
  BY <1>3, <1>4 DEF ModeInv

\* The page stands for the default while it is erased: the mode core 0 leaves or
\* the one it goes to, and core 1's save may lose either.
LEMMA EraseKeeps ==
  ASSUME ModeInv, NEW c \in Core, Erase(c)
  PROVE  ModeInv'
<1>1. /\ pc[c] = "erase" /\ flash' = Erased
      /\ choices' = IF c = 1 THEN choices \cup {"device"} ELSE choices
      /\ UNCHANGED <<settings, locker, mode_vars, screen_vars, event_vars, power, stack,
                     adb_host_was_active>>
  BY ErasedIsDefault DEF Erase, At
<1>2. /\ pc' \in [Core -> Saving \cup Switching \cup Idling \cup UsbLoop]
      /\ pc'[c] = "program" /\ \A d \in Core \ {c} : pc'[d] = pc[d]
  BY GotoMoves DEF Erase, ModeInv, Saving
<1>3. "device" \in choices'
  BY <1>1 DEF ModeInv, SavesTheOther, Restorable, Saving, Core, Typed, Mode
<1>4. Typed' /\ OneSaves'
  BY <1>1, <1>2 DEF ModeInv, Typed, OneSaves, Core, Saving, mode_vars, screen_vars, event_vars,
                    Mode
<1>5. Restorable'
  BY <1>1, <1>3, ErasedIsDefault DEF ModeInv, Restorable
<1>6. SavesTheOther' /\ RunsWhatIsSaved' /\ SplashShowsMode'
  BY <1>1, <1>2 DEF ModeInv, SavesTheOther, RunsWhatIsSaved, SplashShowsMode, Core,
                    Saving, Idling, Switching, mode_vars, screen_vars, event_vars
<1>7. QED
  BY <1>4, <1>5, <1>6 DEF ModeInv

LEMMA ProgramKeeps ==
  ASSUME ModeInv, NEW c \in Core, Program(c)
  PROVE  ModeInv'
<1>1. /\ pc[c] = "program" /\ locker = {c} /\ flash' = settings /\ locker' = {}
      /\ choices' = IF c = 1 /\ pc[0] = "lock" THEN choices ELSE {settings}
      /\ UNCHANGED <<settings, mode_vars, screen_vars, event_vars, power, stack,
                     adb_host_was_active>>
  BY DEF Program, At, ModeInv, OneSaves
<1>2. /\ pc' \in [Core -> Saving \cup Switching \cup Idling \cup UsbLoop]
      /\ pc'[c] = Saved(c) /\ \A d \in Core \ {c} : pc'[d] = pc[d]
  BY GotoMoves DEF Program, ModeInv, Saved, Switching, UsbLoop
<1>3. Typed' /\ OneSaves'
  <2>1. pc'[0] \in Saving \cup Switching \cup Idling /\ pc'[1] \in Saving \cup UsbLoop
    <3>1. CASE c = 0
      <4>1. pc'[0] = "apply" /\ pc'[1] = pc[1]
        BY <1>2, <3>1 DEF Core, Saved
      <4>2. QED
        BY <4>1 DEF ModeInv, Typed, Switching
    <3>2. CASE c = 1
      <4>1. pc'[1] = "sync" /\ pc'[0] = pc[0]
        BY <1>2, <3>2 DEF Core, Saved
      <4>2. QED
        BY <4>1 DEF ModeInv, Typed, UsbLoop
    <3>3. QED
      BY <3>1, <3>2 DEF Core
  <2>2. choices' \subseteq Mode
    BY <1>1 DEF ModeInv, Typed
  <2>3. Typed'
    BY <1>1, <1>2, <2>1, <2>2 DEF ModeInv, Typed, mode_vars, screen_vars, event_vars
  <2>4. \A d \in Core : pc'[d] \notin {"erase", "program"}
    BY <1>1, <1>2 DEF ModeInv, OneSaves, Core, Saved
  <2>5. QED
    BY <1>1, <2>3, <2>4 DEF OneSaves
<1>4. Restorable'
  BY <1>1, ErasedIsDefault DEF ModeInv, Restorable, Typed
<1>5. CASE c = 0
  <2>1. pc[0] = "program" /\ pc'[0] = "apply"
    BY <1>1, <1>2, <1>5 DEF Saved
  <2>2. s_mode_pending' /\ s_pending_mode' = settings'
    BY <1>1, <2>1 DEF ModeInv, SavesTheOther, Saving, mode_vars
  <2>3. SavesTheOther' /\ RunsWhatIsSaved' /\ SplashShowsMode'
    BY <2>1, <2>2 DEF SavesTheOther, RunsWhatIsSaved, SplashShowsMode, Saving, Idling, Switching
  <2>4. QED
    BY <1>3, <1>4, <2>3 DEF ModeInv
<1>6. CASE c = 1
  <2>1. pc'[0] = pc[0] /\ pc[0] \notin {"erase", "program"}
    BY <1>1, <1>2, <1>6 DEF ModeInv, OneSaves, Core
  <2>2. QED
    BY <1>1, <1>6, <2>1, <1>3, <1>4
       DEF ModeInv, SavesTheOther, RunsWhatIsSaved, SplashShowsMode, Core, Saving, Idling,
           Switching, mode_vars, screen_vars, event_vars
<1>7. QED
  BY <1>3, <1>4, <1>5, <1>6 DEF ModeInv, Core

\* Core 0 outside a save
LEMMA Core0Keeps ==
  ASSUME ModeInv, ApplyMode \/ NeedSync \/ display_show_splash \/ Loop \/ AdbPass
  PROVE  ModeInv'
<1>1. /\ UNCHANGED <<flash_vars, event_vars, power, stack, choices>>
      /\ pc[0] \in Switching \cup Idling
  BY DEF ApplyMode, NeedSync, display_show_splash, Loop, AdbPass, At, Switching, Idling
<1>2. PICK label \in Switching \cup Idling : Goto(0, label)
  BY DEF ApplyMode, NeedSync, display_show_splash, Loop, AdbPass, Switching, Idling
<1>3. /\ pc' \in [Core -> Saving \cup Switching \cup Idling \cup UsbLoop]
      /\ pc'[0] = label /\ pc'[1] = pc[1]
  BY <1>2, GotoMoves DEF ModeInv, Core
<1>4. /\ s_mode' \in Mode /\ s_mode_pending' \in BOOLEAN /\ s_usb_sync_needed' \in BOOLEAN
      /\ UNCHANGED <<s_pending_mode, mode_ui_selection>> /\ banner' \in Mode /\ screen' \in Screen
      /\ adb_host_was_active' \in BOOLEAN
  BY DEF ApplyMode, NeedSync, display_show_splash, Loop, AdbPass, ModeInv, Typed, mode_vars,
         screen_vars, Screen, SplashMode
<1>5. Typed' /\ OneSaves' /\ Restorable'
  BY <1>1, <1>2, <1>3, <1>4 DEF ModeInv, Typed, OneSaves, Restorable, Core, Saving, Switching,
                                Idling, flash_vars, event_vars
<1>6. SavesTheOther'
  BY <1>2, <1>3 DEF SavesTheOther, Saving, Switching, Idling
<1>7. RunsWhatIsSaved' /\ SplashShowsMode'
  <2>. USE <1>1, <1>3 DEF ModeInv, At, RunsWhatIsSaved, SplashShowsMode, Idling, Switching,
                          flash_vars
  <2>1. CASE ApplyMode
    <3>1. pc'[0] = IF s_mode_pending THEN "need sync" ELSE "splash"
      BY <2>1 DEF ApplyMode, Goto, Typed, Core
    <3>2. QED
      BY <2>1, <3>1 DEF ApplyMode
  <2>2. CASE NeedSync
    <3>1. pc'[0] = "splash"
      BY <2>2 DEF NeedSync, Goto, Typed, Core
    <3>2. QED
      BY <2>2, <3>1 DEF NeedSync
  <2>3. CASE display_show_splash
    <3>1. pc'[0] = "buttons"
      BY <2>3 DEF display_show_splash, Goto, Typed, Core
    <3>2. QED
      BY <2>3, <3>1 DEF display_show_splash, SplashMode, mode_vars
  <2>4. CASE Loop
    <3>1. pc'[0] = "adb"
      BY <2>4 DEF Loop, Goto, Typed, Core
    <3>2. QED
      BY <2>4, <3>1 DEF Loop, mode_vars, screen_vars
  <2>5. CASE AdbPass
    <3>1. pc'[0] = "buttons"
      BY <2>5 DEF AdbPass, Goto, Typed, Core
    <3>2. QED
      BY <2>5, <3>1 DEF AdbPass, mode_vars, screen_vars
  <2>6. QED
    BY <2>1, <2>2, <2>3, <2>4, <2>5
<1>8. QED
  BY <1>5, <1>6, <1>7 DEF ModeInv

\* Core 1 outside a save
LEMMA Core1Keeps ==
  ASSUME ModeInv,
         UsbSync \/ SyncSeen \/ tusb_deinit \/ usb_stack_start \/ UsbRole \/ UsbTask \/ ToggleLed
  PROVE  ModeInv'
<1>. USE DEF UsbSync, SyncSeen, tusb_deinit, usb_stack_start, UsbRole, UsbTask, ToggleLed, At
<1>1. /\ UNCHANGED <<flash_vars, s_mode, s_pending_mode, s_mode_pending, screen_vars, presses,
                     losses, power, adb_host_was_active, choices>>
      /\ pc[1] \in UsbLoop
  BY DEF mode_vars, event_vars, UsbLoop
<1>2. stack' \in {"none", "host", "device"} /\ s_usb_sync_needed' \in BOOLEAN
  BY DEF ModeInv, Typed, mode_vars, SyncStillNeeded
<1>6. toggles' \in Nat
  <2>1. toggles' = toggles \/ toggles' = toggles + 1
    BY DEF event_vars
  <2>2. QED
    BY <2>1 DEF ModeInv, Typed
<1>3. PICK label \in UsbLoop \cup {"lock"} : Goto(1, label)
  BY DEF UsbLoop
<1>4. /\ pc' \in [Core -> Saving \cup Switching \cup Idling \cup UsbLoop]
      /\ pc'[1] = label /\ pc'[0] = pc[0]
  <2>1. 1 \in Core /\ 0 \in Core \ {1} /\ label \in Saving \cup Switching \cup Idling \cup UsbLoop
    BY DEF Core, Saving
  <2>2. QED
    BY <1>3, <2>1, GotoMoves DEF ModeInv
<1>5. QED
  BY <1>1, <1>2, <1>3, <1>4, <1>6
     DEF ModeInv, Typed, OneSaves, Restorable, SavesTheOther, RunsWhatIsSaved, SplashShowsMode,
         Core, Saving, UsbLoop, flash_vars, screen_vars

LEMMA PowerFailsKeeps ==
  ASSUME ModeInv, PowerFails
  PROVE  ModeInv'
  BY DEF PowerFails, ModeInv, Typed, OneSaves, Restorable, SavesTheOther, RunsWhatIsSaved,
         SplashShowsMode, flash_vars, mode_vars, screen_vars

\* Wherever the power failed, the boot begins anew with what the page stands for.
LEMMA BootKeeps ==
  ASSUME ModeInv, Boot
  PROVE  ModeInv'
<1>1. /\ settings' = mode_from_flash(flash) /\ flash' = flash /\ settings' \in Mode
      /\ settings' \in choices /\ choices' = choices /\ choices \subseteq Mode
      /\ flash \in Mode \cup {Erased}
  BY ErasedIsDefault DEF Boot, ModeInv, Restorable, Typed
<1>2. /\ s_mode' = settings' /\ s_pending_mode' = settings' /\ s_mode_pending' = FALSE
      /\ s_usb_sync_needed' = TRUE /\ power' = "on" /\ stack' = "none"
      /\ adb_host_was_active' = FALSE /\ screen' = "splash" /\ mode_ui_selection' = "device"
      /\ banner' = s_mode' /\ locker' = {} /\ UNCHANGED event_vars
  BY DEF Boot
<1>3. /\ pc' \in [Core -> Saving \cup Switching \cup Idling \cup UsbLoop]
      /\ pc'[0] = "buttons" /\ pc'[1] = "sync"
  BY DEF Boot, Core, Saving, Switching, Idling, UsbLoop
<1>4. presses' \in Nat /\ losses' \in Nat /\ toggles' \in Nat
  BY <1>2 DEF event_vars, ModeInv, Typed
<1>5. Typed'
  BY <1>1, <1>2, <1>3, <1>4 DEF Typed, Mode, Screen, Saving, Switching, Idling, UsbLoop
<1>6. QED
  BY <1>1, <1>2, <1>3, <1>5
     DEF ModeInv, OneSaves, Restorable, SavesTheOther, RunsWhatIsSaved, SplashShowsMode, Core,
         Saving, Switching, Idling

LEMMA NextKeepsModeInv == ModeInv /\ [Next]_vars => ModeInv'
<1>. SUFFICES ASSUME ModeInv, [Next]_vars PROVE ModeInv'
  OBVIOUS
<1>1. CASE Star \/ HashOnMode
  <2>1. PICK mode \in Mode : mode_screen_apply(mode)
    BY <1>1 DEF Star, HashOnMode, ModeInv, Typed
  <2>2. QED
    BY <1>1, <2>1, ButtonsKeep DEF Star, HashOnMode
<1>2. CASE Hash \/ UpOrDown
  BY <1>2, MenuKeeps
<1>3. CASE Save(0) \/ Save(1)
  BY <1>3, LockOutKeeps, EraseKeeps, ProgramKeeps DEF Save, Core
<1>4. CASE Core0 /\ ~Save(0)
  BY <1>4, Core0Keeps DEF Core0
<1>5. CASE (Core1 /\ ~Save(1)) \/ ToggleLed
  BY <1>5, Core1Keeps DEF Core1
<1>6. CASE PowerFails \/ Boot
  BY <1>6, PowerFailsKeeps, BootKeeps
<1>7. CASE UNCHANGED vars
  BY <1>7 DEF vars, ModeInv, Typed, OneSaves, Restorable, SavesTheOther, RunsWhatIsSaved,
              SplashShowsMode, flash_vars, mode_vars, screen_vars, event_vars
<1>8. QED
  BY <1>1, <1>2, <1>3, <1>4, <1>5, <1>6, <1>7 DEF Next

LEMMA ModeInvariant == Spec => []ModeInv
  BY InitModeInv, NextKeepsModeInv, PTL DEF Spec

(* ------------------------------ the theorems --------------------------- *)

\* Core 0 shows on the splash screen the mode its ADB side runs, and that mode is
\* the one in the settings (display_show_splash, adb_mode_apply_pending, the loop).
THEOREM ModeShownIsModeRun == Spec => []Inv
<1>1. ModeInv => Inv
  <2>. SUFFICES ASSUME ModeInv PROVE Inv
    OBVIOUS
  <2>1. TypeOK
    BY DEF ModeInv, Typed, TypeOK
  <2>2. BannerShowsMode
    BY DEF ModeInv, BannerShowsMode, RunsWhatIsSaved, SplashShowsMode, Idling, Switching
  <2>3. QED
    BY <2>1, <2>2 DEF Inv
<1>2. QED
  BY <1>1, ModeInvariant, PTL

\* The power may fail at any step of a save of either core: the mode booted into
\* is the last one saved or the one being saved, or the default if it was core 1
\* that saved (write_settings_page, FlashSettings::init).
THEOREM ColdBootRestores == Spec => BootRestoresChoice
<1>1. ModeInv /\ [Next]_vars => [power = "off" /\ power' = "on" => s_mode' \in choices]_vars
  <2>. SUFFICES ASSUME ModeInv, [Next]_vars, power = "off", power' = "on"
                PROVE  s_mode' \in choices
    OBVIOUS
  <2>1. power # power' /\ ~UNCHANGED vars
    BY DEF vars
  <2>2. CASE Boot
    BY <2>2 DEF Boot, ModeInv, Restorable
  <2>3. CASE ~Boot
    BY <2>1, <2>3
       DEF Next, Star, HashOnMode, Hash, UpOrDown, Core0, Core1, Save, LockOut, Erase, Program,
           ApplyMode, NeedSync, display_show_splash, Loop, AdbPass, UsbSync, SyncSeen,
           tusb_deinit, usb_stack_start, UsbRole, UsbTask, ToggleLed, PowerFails, At
  <2>4. QED
    BY <2>2, <2>3
<1>2. QED
  BY <1>1, ModeInvariant, PTL DEF Spec, BootRestoresChoice

\* The two cores never write the flash at once: a page is erased or programmed only
\* by the core that has locked the other out, and one save never meets another's.
THEOREM SavesExclude ==
  Spec => [](\A c, d \in Core :
               pc[c] \in {"erase", "program"} /\ pc[d] \in {"erase", "program"} => c = d)
<1>1. ModeInv => \A c, d \in Core :
        pc[c] \in {"erase", "program"} /\ pc[d] \in {"erase", "program"} => c = d
  BY DEF ModeInv, OneSaves, Core
<1>2. QED
  BY <1>1, ModeInvariant, PTL

(* --------------------- the screens: their invariant -------------------- *)

OledLabel == {"hold", "buttons", "loop", "usb", "counts", "bluetooth", "adb"}
MapType ==
  [keyboards : 0..Cardinality(Keyboards), mice : {0, 1},
   keyboard_present : BOOLEAN, keyboard_name : BOOLEAN,
   mouse_present : BOOLEAN, mouse_name : BOOLEAN]
KeyboardsThere == Cardinality(plugged \cap Keyboards)

Name == {"keyboard_present", "keyboard_name", "mouse_present", "mouse_name"}
Field == Name \cup {"keyboards", "mice"}
Stores == [field : Field, value : BOOLEAN \cup Nat]

\* What a callback may store: the count of the keyboards that are now connected
\* comes first, if at all.
StoreMeant(n, store, count) ==
  \/ n = 1 /\ store.field = "keyboards" /\ store.value = count
  \/ store.field = "mice" /\ store.value \in {0, 1}
  \/ store.field \in Name /\ store.value \in BOOLEAN
StoresMeant(stores, count) ==
  /\ stores \in Seq(Stores) /\ Len(stores) <= 3
  /\ \A n \in 1..Len(stores) : StoreMeant(n, stores[n], count)

MapCounts ==
  /\ plugged \subseteq Keyboards \cup Mice
  /\ map \in MapType
  /\ StoresMeant(todo, KeyboardsThere)
  /\ todo = <<>> \/ todo[1].field # "keyboards" => map.keyboards = KeyboardsThere

PanelTyped ==
  /\ shown_mode \in Mode /\ shown_selection \in Mode
  /\ current_screen \in Screen
  /\ held \in 0..(HoldSeconds - 1)
  /\ oled_pc \in OledLabel

OledInv == MapCounts /\ PanelTyped /\ Oled!ButtonsActOnPicture

(* ----------------- the screens: devices come and go -------------------- *)

LEMMA Concatenated ==
  ASSUME NEW T, NEW a \in T, NEW b \in T, NEW c \in T
  PROVE  <<a>> \o <<b, c>> = <<a, b, c>> /\ <<a>> \o <<>> = <<a>>
<1> DEFINE s == <<a>>  t == <<b, c>>  u == <<a, b, c>>
<1>1. s \in Seq(T) /\ t \in Seq(T) /\ u \in Seq(T) /\ Len(s) = 1 /\ Len(t) = 2 /\ Len(u) = 3
  OBVIOUS
<1>2. s[1] = a /\ t[1] = b /\ t[2] = c /\ u[1] = a /\ u[2] = b /\ u[3] = c
  OBVIOUS
<1> HIDE DEF s, t, u
<1>3. /\ s \o t \in Seq(T) /\ Len(s \o t) = Len(s) + Len(t)
      /\ \A n \in 1 .. Len(s) + Len(t) : (s \o t)[n] = IF n <= Len(s) THEN s[n] ELSE t[n - Len(s)]
  BY ONLY <1>1, ConcatProperties
<1>4. Len(s \o t) = Len(u)
  BY <1>1, <1>3
<1>5. \A n \in 1 .. Len(s \o t) : (s \o t)[n] = u[n]
  BY <1>1, <1>2, <1>3
<1>6. s \o t = u /\ s \o <<>> = s
  BY ONLY <1>1, <1>3, <1>4, <1>5, SeqEqual, ConcatEmptySeq
<1>7. QED
  BY <1>6 DEF s, t, u

LEMMA StoreOf ==
  ASSUME NEW field \in Field, NEW value \in BOOLEAN \cup Nat
  PROVE  /\ Oled!Count(field, value) \in Stores
         /\ Oled!Count(field, value).field = field /\ Oled!Count(field, value).value = value
         /\ Oled!Keep(field, value) \in Stores
         /\ Oled!Keep(field, value).field = field /\ Oled!Keep(field, value).value = value
  BY DEF Oled!Count, Oled!Keep, Stores

LEMMA OneStore ==
  ASSUME NEW store \in Stores, NEW count, StoreMeant(1, store, count)
  PROVE  StoresMeant(<<store>>, count) /\ <<store>>[1] = store /\ <<store>> # <<>>
<1> DEFINE stores == <<store>>
<1>1. stores \in Seq(Stores) /\ Len(stores) = 1 /\ stores[1] = store /\ stores # <<>>
  OBVIOUS
<1> HIDE DEF stores
<1>2. StoresMeant(stores, count)
  BY <1>1 DEF StoresMeant
<1>3. QED
  BY <1>1, <1>2 DEF stores

LEMMA ThreeStores ==
  ASSUME NEW a \in Stores, NEW b \in Stores, NEW c \in Stores, NEW count,
         StoreMeant(1, a, count), StoreMeant(2, b, count), StoreMeant(3, c, count)
  PROVE  StoresMeant(<<a, b, c>>, count) /\ <<a, b, c>>[1] = a /\ <<a, b, c>> # <<>>
<1> DEFINE stores == <<a, b, c>>
<1>1. /\ stores \in Seq(Stores) /\ Len(stores) = 3 /\ stores # <<>>
      /\ stores[1] = a /\ stores[2] = b /\ stores[3] = c
  OBVIOUS
<1> HIDE DEF stores
<1>2. StoresMeant(stores, count)
  BY <1>1 DEF StoresMeant
<1>3. QED
  BY <1>1, <1>2 DEF stores

\* A keyboard more or less
LEMMA KeyboardsChange ==
  ASSUME plugged \subseteq Keyboards \cup Mice
  PROVE  /\ KeyboardsThere \in Nat /\ Cardinality(Keyboards) \in Nat
         /\ KeyboardsThere <= Cardinality(Keyboards)
         /\ \A k \in Keyboards : k \notin plugged =>
              Cardinality((plugged \cup {k}) \cap Keyboards) = KeyboardsThere + 1
         /\ \A k \in Keyboards : k \in plugged =>
              /\ Cardinality((plugged \ {k}) \cap Keyboards) = KeyboardsThere - 1
              /\ KeyboardsThere - 1 \in Nat
<1>1. IsFiniteSet(Keyboards) /\ Keyboards \cap Mice = {}
  BY ScreensAssumed DEF Oled!ScreensAssumption, Oled!IsFiniteSet, IsFiniteSet
<1>2. /\ IsFiniteSet(plugged \cap Keyboards)
      /\ Cardinality(plugged \cap Keyboards) <= Cardinality(Keyboards)
  <2>1. plugged \cap Keyboards \in SUBSET Keyboards
    OBVIOUS
  <2>2. QED
    BY ONLY <1>1, <2>1, FS_Subset
<1>3. Cardinality(Keyboards) \in Nat /\ KeyboardsThere \in Nat
  BY <1>1, <1>2, FS_CardinalityType DEF KeyboardsThere
<1>4. ASSUME NEW k \in Keyboards, k \notin plugged
      PROVE  Cardinality((plugged \cup {k}) \cap Keyboards) = KeyboardsThere + 1
  <2>1. (plugged \cup {k}) \cap Keyboards = (plugged \cap Keyboards) \cup {k}
    BY <1>4
  <2>2. k \notin plugged \cap Keyboards
    BY <1>4
  <2>3. Cardinality((plugged \cap Keyboards) \cup {k}) = Cardinality(plugged \cap Keyboards) + 1
    BY ONLY <1>2, <2>2, FS_AddElement
  <2>4. QED
    BY <2>1, <2>3 DEF KeyboardsThere
<1>5. ASSUME NEW k \in Keyboards, k \in plugged
      PROVE  /\ Cardinality((plugged \ {k}) \cap Keyboards) = KeyboardsThere - 1
             /\ KeyboardsThere - 1 \in Nat
  <2>1. (plugged \ {k}) \cap Keyboards = (plugged \cap Keyboards) \ {k}
    BY <1>5
  <2>2. k \in plugged \cap Keyboards
    BY <1>5
  <2>3. /\ IsFiniteSet((plugged \cap Keyboards) \ {k})
        /\ Cardinality((plugged \cap Keyboards) \ {k}) = Cardinality(plugged \cap Keyboards) - 1
    BY ONLY <1>2, <2>2, FS_RemoveElement
  <2>4. Cardinality((plugged \cap Keyboards) \ {k}) \in Nat
    BY ONLY <2>3, FS_CardinalityType
  <2>5. QED
    BY <2>1, <2>3, <2>4 DEF KeyboardsThere
<1>6. KeyboardsThere <= Cardinality(Keyboards)
  BY <1>2 DEF KeyboardsThere
<1>7. QED
  BY <1>3, <1>4, <1>5, <1>6

\* The stores of a callback, once it is known what they are
LEMMA CallbackCounts ==
  ASSUME MapCounts, NEW stores, Oled!Callback(stores),
         plugged' \subseteq Keyboards \cup Mice,
         StoresMeant(stores, KeyboardsThere'), stores # <<>>,
         stores[1].field # "keyboards" => KeyboardsThere' = KeyboardsThere
  PROVE  MapCounts'
<1>1. todo' = stores /\ todo = <<>> /\ map' = map
  BY DEF Oled!Callback
<1>2. map \in MapType /\ map.keyboards = KeyboardsThere
  BY <1>1 DEF MapCounts
<1>3. MapType' = MapType
  BY DEF MapType
<1>4. QED
  BY <1>1, <1>2, <1>3 DEF MapCounts

\* Devices are called back for one at a time.
LEMMA CalledBack ==
  ASSUME MapCounts, NEW stores, Oled!Callback(stores)
  PROVE  todo = <<>> /\ map \in MapType /\ map.keyboards = KeyboardsThere
  BY DEF MapCounts, Oled!Callback

LEMMA MouseCounts ==
  ASSUME MapCounts, NEW present \in Stores, NEW count \in Stores, NEW name \in Stores,
         Oled!Callback(<<present, count, name>>),
         plugged' \subseteq Keyboards \cup Mice, KeyboardsThere' = KeyboardsThere,
         present.field = "mouse_present", present.value \in BOOLEAN,
         count.field = "mice", count.value \in {0, 1},
         name.field = "mouse_name", name.value \in BOOLEAN
  PROVE  MapCounts'
<1>1. /\ StoreMeant(1, present, KeyboardsThere') /\ StoreMeant(2, count, KeyboardsThere')
      /\ StoreMeant(3, name, KeyboardsThere')
  BY DEF StoreMeant, Name
<1>2. StoresMeant(<<present, count, name>>, KeyboardsThere') /\ <<present, count, name>> # <<>>
  BY <1>1, ThreeStores
<1>3. QED
  BY <1>2, CallbackCounts

LEMMA MountCounts ==
  ASSUME MapCounts, Oled!Mount
  PROVE  MapCounts'
<1>1. PICK device \in (Keyboards \cup Mice) \ plugged :
        /\ plugged' = plugged \cup {device}
        /\ Oled!Callback(IF device \in Keyboards THEN Oled!OnKeyboardMount ELSE Oled!SetMouse)
  BY DEF Oled!Mount
<1>2. map \in MapType /\ map.keyboards = KeyboardsThere /\ plugged \subseteq Keyboards \cup Mice
  BY <1>1, CalledBack DEF MapCounts
<1>3. plugged' \subseteq Keyboards \cup Mice
  BY <1>1, <1>2
<1>4. CASE device \in Keyboards
  <2>1. KeyboardsThere' = KeyboardsThere + 1
    <3>1. Cardinality((plugged \cup {device}) \cap Keyboards) = KeyboardsThere + 1
      BY <1>1, <1>2, <1>4, KeyboardsChange
    <3>2. QED
      BY <1>1, <3>1 DEF KeyboardsThere
  <2>2. KeyboardsThere \in Nat /\ KeyboardsThere' \in Nat
    BY <1>2, <2>1, KeyboardsChange
  <2> DEFINE count == Oled!Count("keyboards", map.keyboards + 1)
             present == Oled!Keep("keyboard_present", TRUE)
             name == Oled!Keep("keyboard_name", TRUE)
  <2>3. count \in Stores /\ count.field = "keyboards" /\ count.value = KeyboardsThere'
    BY <1>2, <2>1, <2>2, StoreOf DEF Field
  <2>4. /\ present \in Stores /\ present.field = "keyboard_present" /\ present.value = TRUE
        /\ name \in Stores /\ name.field = "keyboard_name" /\ name.value = TRUE
    BY StoreOf DEF Field, Name
  <2>5. Oled!OnKeyboardMount = IF map.keyboard_present THEN <<count>> ELSE <<count, present, name>>
    <3>1. Oled!OnKeyboardMount = <<count>> \o (IF map.keyboard_present THEN <<>> ELSE <<present, name>>)
      BY DEF Oled!OnKeyboardMount
    <3> HIDE DEF count, present, name
    <3>2. <<count>> \o <<present, name>> = <<count, present, name>> /\ <<count>> \o <<>> = <<count>>
      BY ONLY <2>3, <2>4, Concatenated
    <3>3. QED
      BY <3>1, <3>2
  <2> HIDE DEF count, present, name
  <2>6. StoreMeant(1, count, KeyboardsThere') /\ StoreMeant(2, present, KeyboardsThere')
          /\ StoreMeant(3, name, KeyboardsThere')
    BY <2>3, <2>4 DEF StoreMeant, Name
  <2>7. Oled!Callback(Oled!OnKeyboardMount)
    BY <1>1, <1>4
  <2>8. CASE Oled!OnKeyboardMount = <<count>>
    <3>1. Oled!Callback(<<count>>)
      BY <2>7, <2>8
    <3>2. QED
      BY <1>3, <2>3, <2>6, <3>1, OneStore, CallbackCounts
  <2>9. CASE Oled!OnKeyboardMount = <<count, present, name>>
    <3>1. Oled!Callback(<<count, present, name>>)
      BY <2>7, <2>9
    <3>2. /\ StoresMeant(<<count, present, name>>, KeyboardsThere')
          /\ <<count, present, name>>[1] = count /\ <<count, present, name>> # <<>>
      BY <2>3, <2>4, <2>6, ThreeStores
    <3>3. QED
      BY <1>3, <2>3, <3>1, <3>2, CallbackCounts
  <2>10. QED
    BY <2>5, <2>8, <2>9
<1>5. CASE device \in Mice /\ device \notin Keyboards
  <2>1. KeyboardsThere' = KeyboardsThere
    <3>1. (plugged \cup {device}) \cap Keyboards = plugged \cap Keyboards
      BY <1>5
    <3>2. QED
      BY <1>1, <3>1 DEF KeyboardsThere
  <2> DEFINE present == Oled!Keep("mouse_present", TRUE)
             count == Oled!Count("mice", 1)
             name == Oled!Keep("mouse_name", TRUE)
  <2>2. /\ present \in Stores /\ present.field = "mouse_present" /\ present.value = TRUE
        /\ count \in Stores /\ count.field = "mice" /\ count.value = 1
        /\ name \in Stores /\ name.field = "mouse_name" /\ name.value = TRUE
    BY StoreOf DEF Field, Name
  <2>3. Oled!Callback(<<present, count, name>>)
    BY <1>1, <1>5 DEF Oled!SetMouse
  <2> HIDE DEF count, present, name
  <2>4. QED
    BY <1>3, <2>1, <2>2, <2>3, MouseCounts
<1>6. QED
  BY <1>1, <1>4, <1>5

LEMMA UmountCounts ==
  ASSUME MapCounts, Oled!Umount
  PROVE  MapCounts'
<1>1. PICK device \in plugged :
        /\ plugged' = plugged \ {device}
        /\ Oled!Callback(IF device \in Keyboards THEN Oled!OnKeyboardUmount ELSE Oled!ClearMouse)
  BY DEF Oled!Umount
<1>2. map \in MapType /\ map.keyboards = KeyboardsThere /\ plugged \subseteq Keyboards \cup Mice
  BY <1>1, CalledBack DEF MapCounts
<1>3. plugged' \subseteq Keyboards \cup Mice
  BY <1>1, <1>2
<1>4. CASE device \in Keyboards
  <2>1. KeyboardsThere' = KeyboardsThere - 1 /\ KeyboardsThere - 1 \in Nat
    <3>1. /\ Cardinality((plugged \ {device}) \cap Keyboards) = KeyboardsThere - 1
          /\ KeyboardsThere - 1 \in Nat
      BY <1>1, <1>2, <1>4, KeyboardsChange
    <3>2. QED
      BY <1>1, <3>1 DEF KeyboardsThere
  <2>2. KeyboardsThere \in Nat /\ KeyboardsThere' \in Nat
    BY <1>2, <2>1, KeyboardsChange
  <2> DEFINE count == Oled!Count("keyboards", map.keyboards - 1)
             present == Oled!Keep("keyboard_present", FALSE)
             name == Oled!Keep("keyboard_name", FALSE)
  <2>3. count \in Stores /\ count.field = "keyboards" /\ count.value = KeyboardsThere'
    BY <1>2, <2>1, <2>2, StoreOf DEF Field
  <2>4. /\ present \in Stores /\ present.field = "keyboard_present" /\ present.value = FALSE
        /\ name \in Stores /\ name.field = "keyboard_name" /\ name.value = FALSE
    BY StoreOf DEF Field, Name
  <2>5. Oled!OnKeyboardUmount = IF map.keyboards = 1 THEN <<count, present, name>> ELSE <<count>>
    <3>1. Oled!OnKeyboardUmount = <<count>> \o (IF map.keyboards = 1 THEN <<present, name>> ELSE <<>>)
      BY DEF Oled!OnKeyboardUmount
    <3> HIDE DEF count, present, name
    <3>2. <<count>> \o <<present, name>> = <<count, present, name>> /\ <<count>> \o <<>> = <<count>>
      BY ONLY <2>3, <2>4, Concatenated
    <3>3. QED
      BY <3>1, <3>2
  <2> HIDE DEF count, present, name
  <2>6. StoreMeant(1, count, KeyboardsThere') /\ StoreMeant(2, present, KeyboardsThere')
          /\ StoreMeant(3, name, KeyboardsThere')
    BY <2>3, <2>4 DEF StoreMeant, Name
  <2>7. Oled!Callback(Oled!OnKeyboardUmount)
    BY <1>1, <1>4
  <2>8. CASE Oled!OnKeyboardUmount = <<count>>
    <3>1. Oled!Callback(<<count>>)
      BY <2>7, <2>8
    <3>2. QED
      BY <1>3, <2>3, <2>6, <3>1, OneStore, CallbackCounts
  <2>9. CASE Oled!OnKeyboardUmount = <<count, present, name>>
    <3>1. Oled!Callback(<<count, present, name>>)
      BY <2>7, <2>9
    <3>2. /\ StoresMeant(<<count, present, name>>, KeyboardsThere')
          /\ <<count, present, name>>[1] = count /\ <<count, present, name>> # <<>>
      BY <2>3, <2>4, <2>6, ThreeStores
    <3>3. QED
      BY <1>3, <2>3, <3>1, <3>2, CallbackCounts
  <2>10. QED
    BY <2>5, <2>8, <2>9
<1>5. CASE device \in Mice /\ device \notin Keyboards
  <2>1. KeyboardsThere' = KeyboardsThere
    <3>1. (plugged \ {device}) \cap Keyboards = plugged \cap Keyboards
      BY <1>5
    <3>2. QED
      BY <1>1, <3>1 DEF KeyboardsThere
  <2> DEFINE present == Oled!Keep("mouse_present", FALSE)
             count == Oled!Count("mice", 0)
             name == Oled!Keep("mouse_name", FALSE)
  <2>2. /\ present \in Stores /\ present.field = "mouse_present" /\ present.value = FALSE
        /\ count \in Stores /\ count.field = "mice" /\ count.value = 0
        /\ name \in Stores /\ name.field = "mouse_name" /\ name.value = FALSE
    BY StoreOf DEF Field, Name
  <2>3. Oled!Callback(<<present, count, name>>)
    BY <1>1, <1>5 DEF Oled!ClearMouse
  <2> HIDE DEF count, present, name
  <2>4. QED
    BY <1>3, <2>1, <2>2, <2>3, MouseCounts
<1>6. QED
  BY <1>1, <1>2, <1>4, <1>5

LEMMA StoreCounts ==
  ASSUME MapCounts, Oled!Store
  PROVE  MapCounts'
<1> DEFINE store == Head(todo)
<1>1. /\ todo # <<>> /\ todo' = Tail(todo) /\ plugged' = plugged
      /\ map' = [map EXCEPT ![store.field] = store.value]
  BY DEF Oled!Store
<1>2. plugged' \subseteq Keyboards \cup Mice /\ KeyboardsThere' = KeyboardsThere
  BY <1>1 DEF MapCounts, KeyboardsThere
<1>3. /\ todo \in Seq(Stores) /\ Len(todo) <= 3 /\ map \in MapType
      /\ \A n \in 1..Len(todo) : StoreMeant(n, todo[n], KeyboardsThere)
  BY DEF MapCounts, StoresMeant
<1>4. /\ store = todo[1] /\ store \in Stores /\ StoreMeant(1, store, KeyboardsThere)
      /\ todo' \in Seq(Stores) /\ Len(todo') = Len(todo) - 1 /\ Len(todo) \in Nat
      /\ \A n \in 1..Len(todo') : todo'[n] = todo[n + 1] /\ n + 1 \in 2..Len(todo)
  BY <1>1, <1>3
<1> HIDE DEF store
\* what is left is not the count of the keyboards
<1>5. \A n \in 1..Len(todo') : /\ StoreMeant(n, todo'[n], KeyboardsThere')
                              /\ todo'[n].field # "keyboards"
  BY <1>2, <1>3, <1>4 DEF StoreMeant, Name
<1>6. StoresMeant(todo, KeyboardsThere)'
  BY <1>3, <1>4, <1>5 DEF StoresMeant
<1>7. MapType' = MapType
  BY DEF MapType
<1>8. map' \in MapType /\ map'.keyboards = KeyboardsThere
  <2>1. KeyboardsThere \in 0..Cardinality(Keyboards)
    BY KeyboardsChange DEF MapCounts
  <2>2. CASE store.field = "keyboards"
    <3>1. map' = [map EXCEPT !.keyboards = KeyboardsThere]
      BY <1>1, <1>4, <2>2 DEF StoreMeant, Name
    <3>2. QED
      BY <1>3, <2>1, <3>1 DEF MapType
  <2>3. CASE store.field # "keyboards"
    <3>1. map.keyboards = KeyboardsThere
      BY <1>1, <1>4, <2>3 DEF MapCounts
    <3>2. CASE store.field = "mice"
      <4>1. map' = [map EXCEPT !.mice = store.value] /\ store.value \in {0, 1}
        BY <1>1, <1>4, <3>2 DEF StoreMeant, Name
      <4>2. QED
        BY <1>3, <3>1, <4>1 DEF MapType
    <3>3. CASE store.field \in Name
      <4>1. /\ \/ map' = [map EXCEPT !.keyboard_present = store.value]
               \/ map' = [map EXCEPT !.keyboard_name = store.value]
               \/ map' = [map EXCEPT !.mouse_present = store.value]
               \/ map' = [map EXCEPT !.mouse_name = store.value]
            /\ store.value \in BOOLEAN
        BY <1>1, <1>4, <3>3 DEF StoreMeant, Name
      <4>2. QED
        BY <1>3, <3>1, <4>1 DEF MapType
    <3>4. QED
      BY <1>4, <2>3, <3>2, <3>3 DEF StoreMeant
  <2>4. QED
    BY <2>2, <2>3
<1>9. QED
  BY <1>2, <1>6, <1>7, <1>8 DEF MapCounts

\* Core 0 only reads the map.
LEMMA CountsKept ==
  ASSUME MapCounts, [Oled!Next]_(Oled!vars)
  PROVE  MapCounts'
<1>1. ASSUME UNCHANGED <<plugged, map, todo>> PROVE MapCounts'
  <2>1. MapType' = MapType /\ KeyboardsThere' = KeyboardsThere
    BY <1>1 DEF MapType, KeyboardsThere
  <2>2. StoresMeant(todo, KeyboardsThere)' = StoresMeant(todo, KeyboardsThere)
    BY <1>1, <2>1 DEF StoresMeant, StoreMeant
  <2>3. QED
    BY <1>1, <2>1, <2>2 DEF MapCounts
<1> USE DEF Oled!device_vars
<1>2. Oled!Hold => UNCHANGED <<plugged, map, todo>>
  BY DEF Oled!Hold, Oled!HoldStarts, Oled!HoldGoesOn, Oled!HoldIsOver, Oled!HoldReleased, Oled!NoHold,
    Oled!HoldUnchanged
<1>3. Oled!Buttons => UNCHANGED <<plugged, map, todo>>
  BY DEF Oled!Buttons, Oled!Hash, Oled!HashOnMode, Oled!UpOrDown, Oled!Star, Oled!ApplyMode,
    Oled!ButtonsDone, Oled!ButtonsUnchanged
<1>4. Oled!Loop => UNCHANGED <<plugged, map, todo>>
  BY DEF Oled!Loop, Oled!Publish, Oled!display_set_adb_status, Oled!usb_map_get_counts,
    Oled!display_set_usb_counts, Oled!display_set_bt_counts, Oled!ProcessCommand, Oled!LoopUnchanged
<1>5. UNCHANGED Oled!vars => UNCHANGED <<plugged, map, todo>>
  BY DEF Oled!vars
<1>6. QED
  BY <1>1, <1>2, <1>3, <1>4, <1>5, MountCounts, UmountCounts, StoreCounts DEF Oled!Next, Oled!Core0, Oled!Core1

(* ---------------- the screens: what the buttons act on ----------------- *)

\* A screen that is drawn is the screen that is current.
LEMMA DrawShows ==
  ASSUME NEW new \in Screen, NEW noted, Oled!Draw(new, noted), shown_selection' \in Mode
  PROVE  /\ current_screen' = new /\ shown'.screen = new
         /\ (new = "mode" => shown'.selection = shown_selection')
<1>1. current_screen' = new /\ shown' = Oled!Picture'
  BY DEF Oled!Draw
<1>2. CASE new = "splash"
  BY <1>1, <1>2 DEF Oled!Picture
<1>3. CASE new = "devices"
  BY <1>1, <1>3 DEF Oled!Picture
<1>4. CASE new = "map"
  BY <1>1, <1>4 DEF Oled!Picture
<1>5. CASE new = "bus"
  BY <1>1, <1>5 DEF Oled!Picture
<1>6. CASE new = "mode"
  BY <1>1, <1>6 DEF Oled!Picture
<1>7. QED
  BY <1>2, <1>3, <1>4, <1>5, <1>6 DEF Screen

LEMMA DrawAgrees ==
  ASSUME NEW new \in Screen, NEW noted, Oled!Draw(new, noted), shown_selection' \in Mode
  PROVE  current_screen' \in Screen /\ Oled!ButtonsActOnPicture'
  BY DrawShows DEF Oled!ButtonsActOnPicture

LEMMA SameAgrees ==
  ASSUME PanelTyped, Oled!ButtonsActOnPicture,
         UNCHANGED <<current_screen, shown, shown_selection, pairing_clear_active>>
  PROVE  current_screen' \in Screen /\ Oled!ButtonsActOnPicture'
  BY DEF PanelTyped, Oled!ButtonsActOnPicture

LEMMA HoldShows ==
  ASSUME PanelTyped, Oled!ButtonsActOnPicture, Oled!Hold
  PROVE  PanelTyped' /\ Oled!ButtonsActOnPicture'
<1> USE DEF Oled!picture_vars, Oled!mode_vars
<1>1. /\ shown_mode \in Mode /\ shown_selection \in Mode /\ current_screen \in Screen
      /\ held \in 0..(HoldSeconds - 1) /\ HoldSeconds \in Nat \ {0}
  BY ScreensAssumed DEF PanelTyped, Oled!ScreensAssumption
<1>2. shown_mode' \in Mode /\ shown_selection' \in Mode
  BY <1>1 DEF Oled!Hold, Oled!HoldStarts, Oled!HoldGoesOn, Oled!HoldIsOver, Oled!HoldReleased,
    Oled!NoHold, Oled!HoldUnchanged
<1>3. oled_pc' \in OledLabel
  BY DEF Oled!Hold, Oled!HoldStarts, Oled!HoldGoesOn, Oled!HoldIsOver, Oled!HoldReleased, Oled!NoHold,
    Oled!Goto, OledLabel
<1>4. held' \in 0..(HoldSeconds - 1)
  <2>1. CASE Oled!HoldGoesOn
    <3>1. PICK second \in {0, 1} : Oled!HoldStillShort(held + second) /\ held' = held + second
      BY <2>1 DEF Oled!HoldGoesOn
    <3>2. QED
      BY <1>1, <3>1 DEF Oled!HoldStillShort
  <2>2. CASE ~Oled!HoldGoesOn
    <3>1. held' = 0 \/ held' = held
      BY <2>2 DEF Oled!Hold, Oled!HoldStarts, Oled!HoldIsOver, Oled!HoldReleased, Oled!NoHold
    <3>2. QED
      BY <1>1, <3>1
  <2>3. QED
    BY <2>1, <2>2
<1>5. current_screen' \in Screen /\ Oled!ButtonsActOnPicture'
  <2>1. CASE Oled!HoldStarts \/ Oled!HoldGoesOn
    <3>1. pairing_clear_active' = TRUE /\ current_screen' = current_screen
      BY <2>1 DEF Oled!HoldStarts, Oled!HoldGoesOn
    <3>2. QED
      BY <1>1, <3>1 DEF Oled!ButtonsActOnPicture
  <2>2. CASE Oled!HoldIsOver \/ Oled!HoldReleased
    <3>1. PICK new \in {Oled!AfterClear, Oled!AfterRelease} : Oled!Draw(new, last_drawn)
      BY <2>2 DEF Oled!HoldIsOver, Oled!HoldReleased, Oled!Show
    <3>2. new \in Screen
      BY <1>1, <3>1 DEF Oled!AfterClear, Oled!AfterRelease, Screen
    <3>3. QED
      BY <1>2, <3>1, <3>2, DrawAgrees
  <2>3. CASE Oled!NoHold
    <3>1. UNCHANGED <<current_screen, shown, shown_selection, pairing_clear_active>>
      BY <2>3 DEF Oled!NoHold, Oled!HoldUnchanged
    <3>2. QED
      BY <3>1, SameAgrees
  <2>4. QED
    BY <2>1, <2>2, <2>3 DEF Oled!Hold
<1>6. QED
  BY <1>2, <1>3, <1>4, <1>5 DEF PanelTyped

LEMMA ButtonsShow ==
  ASSUME PanelTyped, Oled!ButtonsActOnPicture, Oled!Buttons
  PROVE  PanelTyped' /\ Oled!ButtonsActOnPicture'
<1> USE DEF Oled!picture_vars, Oled!mode_vars, Oled!hold_vars
<1>1. /\ shown_mode \in Mode /\ shown_selection \in Mode /\ current_screen \in Screen
      /\ held \in 0..(HoldSeconds - 1) /\ oled_pc \in OledLabel
  BY DEF PanelTyped
<1>2. held' = held /\ pairing_clear_active' = pairing_clear_active /\ oled_pc' \in OledLabel
  BY <1>1 DEF Oled!Buttons, Oled!Hash, Oled!HashOnMode, Oled!UpOrDown, Oled!Star, Oled!ApplyMode,
    Oled!ButtonsDone, Oled!ButtonsUnchanged, Oled!Goto, OledLabel
<1>3. shown_mode' \in Mode /\ shown_selection' \in Mode
  BY <1>1 DEF Oled!Buttons, Oled!Hash, Oled!HashOnMode, Oled!UpOrDown, Oled!Star, Oled!ApplyMode,
    Oled!ButtonsDone, Oled!Mode, Mode
<1>4. current_screen' \in Screen /\ Oled!ButtonsActOnPicture'
  <2>1. CASE Oled!ButtonsDone
    <3>1. UNCHANGED <<current_screen, shown, shown_selection, pairing_clear_active>>
      BY <2>1 DEF Oled!ButtonsDone
    <3>2. QED
      BY <3>1, SameAgrees
  <2>2. CASE Oled!Hash \/ Oled!HashOnMode \/ Oled!UpOrDown \/ Oled!Star
    <3>1. PICK new \in {Oled!NextScreen, "splash", "mode"} : Oled!Draw(new, last_drawn)
      BY <2>2 DEF Oled!Hash, Oled!HashOnMode, Oled!UpOrDown, Oled!Star, Oled!ApplyMode, Oled!Show
    <3>2. new \in Screen
      BY <1>1, <3>1 DEF Oled!NextScreen, Screen
    <3>3. QED
      BY <1>3, <3>1, <3>2, DrawAgrees
  <2>3. QED
    BY <2>1, <2>2 DEF Oled!Buttons
<1>5. QED
  BY <1>1, <1>2, <1>3, <1>4 DEF PanelTyped

LEMMA LoopShows ==
  ASSUME PanelTyped, Oled!ButtonsActOnPicture, Oled!Loop
  PROVE  PanelTyped' /\ Oled!ButtonsActOnPicture'
<1> USE DEF Oled!mode_vars, Oled!hold_vars
<1>1. /\ UNCHANGED <<shown_mode, shown_selection, held, pairing_clear_active>>
      /\ oled_pc' \in OledLabel
  BY DEF Oled!Loop, Oled!Publish, Oled!display_set_adb_status, Oled!usb_map_get_counts,
    Oled!display_set_usb_counts, Oled!display_set_bt_counts, Oled!ProcessCommand, Oled!LoopUnchanged,
    Oled!Goto, OledLabel
\* A screen is redrawn where it is, or nothing is.
<1>2. \/ UNCHANGED <<current_screen, shown>>
      \/ \E noted : Oled!Draw(current_screen, noted)
  <2>1. CASE Oled!Publish
    BY <2>1 DEF Oled!Publish, Oled!Show, Oled!Same, Oled!picture_vars
  <2>2. CASE Oled!display_set_adb_status
    BY <2>2 DEF Oled!display_set_adb_status, Oled!Show, Oled!Same, Oled!picture_vars
  <2>3. CASE Oled!display_set_usb_counts
    BY <2>3 DEF Oled!display_set_usb_counts, Oled!Update, Oled!Same, Oled!picture_vars
  <2>4. CASE Oled!display_set_bt_counts
    BY <2>4 DEF Oled!display_set_bt_counts, Oled!Update, Oled!Same, Oled!picture_vars
  <2>5. CASE Oled!usb_map_get_counts \/ Oled!ProcessCommand
    BY <2>5 DEF Oled!usb_map_get_counts, Oled!ProcessCommand, Oled!picture_vars
  <2>6. QED
    BY <2>1, <2>2, <2>3, <2>4, <2>5 DEF Oled!Loop
<1>3. current_screen' \in Screen /\ Oled!ButtonsActOnPicture'
  <2>1. ASSUME NEW noted, Oled!Draw(current_screen, noted)
        PROVE  <1>3
    BY <1>1, <2>1, DrawAgrees DEF PanelTyped
  <2>2. CASE UNCHANGED <<current_screen, shown>>
    BY <1>1, <2>2, SameAgrees
  <2>3. QED
    BY <1>2, <2>1, <2>2
<1>4. QED
  BY <1>1, <1>3 DEF PanelTyped

LEMMA ShownStep ==
  ASSUME PanelTyped, Oled!ButtonsActOnPicture, [Oled!Next]_(Oled!vars)
  PROVE  PanelTyped' /\ Oled!ButtonsActOnPicture'
<1>1. CASE Oled!Core1 \/ UNCHANGED Oled!vars
  <2>1. UNCHANGED <<current_screen, shown, shown_selection, pairing_clear_active, held, oled_pc, shown_mode>>
    BY <1>1 DEF Oled!Core1, Oled!Mount, Oled!Umount, Oled!Callback, Oled!Store, Oled!vars, Oled!hold_vars,
      Oled!mode_vars, Oled!picture_vars
  <2>2. QED
    BY <2>1 DEF PanelTyped, Oled!ButtonsActOnPicture
<1>2. QED
  BY <1>1, HoldShows, ButtonsShow, LoopShows DEF Oled!Next, Oled!Core0

LEMMA OledStart == Oled!Init => OledInv
<1> SUFFICES ASSUME Oled!Init PROVE OledInv
  OBVIOUS
<1>1. MapCounts
  <2>1. plugged = {} /\ todo = <<>>
    BY DEF Oled!Init
  <2>2. KeyboardsThere = 0
    <3>1. plugged \cap Keyboards = {}
      BY <2>1
    <3>2. QED
      BY <3>1, FS_EmptySet DEF KeyboardsThere
  <2>3. Cardinality(Keyboards) \in Nat
    BY <2>1, KeyboardsChange
  <2>4. map \in MapType /\ map.keyboards = 0
    BY <2>3 DEF Oled!Init, MapType
  <2>5. StoresMeant(todo, KeyboardsThere)
    BY <2>1 DEF StoresMeant
  <2>6. QED
    BY <2>1, <2>2, <2>4, <2>5 DEF MapCounts
<1>2. PanelTyped
  <2>1. 0 \in 0..(HoldSeconds - 1)
    BY ScreensAssumed DEF Oled!ScreensAssumption
  <2>2. QED
    BY <2>1 DEF Oled!Init, PanelTyped, OledLabel, Oled!Mode, Mode, Screen
<1>3. Oled!ButtonsActOnPicture
  <2>1. current_screen = "splash" /\ shown = Oled!Picture
    BY DEF Oled!Init
  <2>2. QED
    BY <2>1 DEF Oled!ButtonsActOnPicture, Oled!Picture
<1>4. QED
  BY <1>1, <1>2, <1>3 DEF OledInv

(* ------------------------- the two of them ----------------------------- *)

\* In every behaviour of the panel the one part steps while the other rests.
LEMMA PanelInvariant == PanelSpec => [](ModeInv /\ OledInv)
<1>1. PanelInit => ModeInv /\ OledInv
  BY InitModeInv, OledStart DEF PanelInit
<1>2. [PanelNext]_all_vars => [Next]_vars /\ [Oled!Next]_(Oled!vars)
  <2>1. UNCHANGED oled_vars <=> UNCHANGED Oled!vars
    BY DEF oled_vars, Oled!vars, Oled!device_vars, Oled!copy_vars, Oled!hold_vars, Oled!mode_vars,
      Oled!world_vars, Oled!event_vars, Oled!picture_vars
  <2>2. QED
    BY <2>1 DEF PanelNext, all_vars
<1>3. ModeInv /\ OledInv /\ [PanelNext]_all_vars => (ModeInv /\ OledInv)'
  BY <1>2, NextKeepsModeInv, CountsKept, ShownStep DEF OledInv
<1>4. QED
  BY <1>1, <1>3, PTL DEF PanelSpec

LEMMA SameCardinality ==
  ASSUME NEW S
  PROVE  Oled!Cardinality(S) = Cardinality(S)
  BY DEF Oled!Cardinality, Cardinality

\* For any devices, any length of the hold and any presses: outside of a hold the
\* picture on the OLED is of the screen that # and Up and Down act on, and on the
\* menu it marks the mode that # applies; the counts core 1 stores are those of the
\* devices; and the banner, the bus and the saved mode agree.
THEOREM PanelAlwaysAgrees == PanelSpec => []PanelAgrees
<1>1. ModeInv => Inv
  <2> SUFFICES ASSUME ModeInv PROVE Inv
    OBVIOUS
  <2>1. TypeOK
    BY DEF ModeInv, Typed, TypeOK
  <2>2. BannerShowsMode
    BY DEF ModeInv, BannerShowsMode, RunsWhatIsSaved, SplashShowsMode, Idling, Switching
  <2>3. QED
    BY <2>1, <2>2 DEF Inv
<1>2. OledInv => Oled!Inv
  <2> SUFFICES ASSUME OledInv PROVE Oled!Inv
    OBVIOUS
  <2>1. Oled!TypeOK
    BY SameCardinality DEF OledInv, MapCounts, MapType, StoresMeant, PanelTyped, OledLabel, Oled!TypeOK,
      Oled!Mode, Mode, Oled!Screen, Screen
  <2>2. QED
    BY <2>1 DEF OledInv, Oled!Inv
<1>3. QED
  BY <1>1, <1>2, PanelInvariant, PTL DEF PanelAgrees

\* Whenever core 1 has stored all of a callback, the map counts the keyboards that
\* are connected, whatever core 0 read meanwhile.
THEOREM KeyboardsCounted ==
  PanelSpec => [](todo = <<>> => map.keyboards = Cardinality(plugged \cap Keyboards))
<1>1. OledInv => (todo = <<>> => map.keyboards = Cardinality(plugged \cap Keyboards))
  BY DEF OledInv, MapCounts, KeyboardsThere
<1>2. QED
  BY <1>1, PanelInvariant, PTL

\* The buttons are handled only outside of a hold.
ButtonsOutsideHold == oled_pc = "buttons" => ~pairing_clear_active

LEMMA OutsideHoldStep ==
  ASSUME ButtonsOutsideHold, [Oled!Next]_(Oled!vars)
  PROVE  ButtonsOutsideHold'
<1> USE DEF Oled!hold_vars, ButtonsOutsideHold, Oled!Goto
<1>1. CASE Oled!Hold
  BY <1>1 DEF Oled!Hold, Oled!HoldStarts, Oled!HoldGoesOn, Oled!HoldIsOver, Oled!HoldReleased, Oled!NoHold,
    Oled!At
<1>2. CASE Oled!Buttons
  BY <1>2 DEF Oled!Buttons, Oled!Hash, Oled!HashOnMode, Oled!UpOrDown, Oled!Star, Oled!ApplyMode,
    Oled!ButtonsDone, Oled!ButtonsUnchanged
<1>3. CASE Oled!Loop
  BY <1>3 DEF Oled!Loop, Oled!Publish, Oled!display_set_adb_status, Oled!usb_map_get_counts,
    Oled!display_set_usb_counts, Oled!display_set_bt_counts, Oled!ProcessCommand
<1>4. CASE Oled!Core1 \/ UNCHANGED Oled!vars
  BY <1>4 DEF Oled!Core1, Oled!Mount, Oled!Umount, Oled!Callback, Oled!Store, Oled!vars
<1>5. QED
  BY <1>1, <1>2, <1>3, <1>4 DEF Oled!Next, Oled!Core0

\* Whoever presses # on the menu gets the mode the OLED marks, although the menu is
\* left and entered, and holds and changes redraw it, between two presses.
THEOREM HashAppliesWhatIsMarked ==
  PanelSpec => [][Oled!HashOnMode => shown_mode' = shown.selection]_oled_vars
<1>1. PanelInit => ButtonsOutsideHold
  BY DEF PanelInit, Oled!Init, ButtonsOutsideHold
<1>2. [PanelNext]_all_vars => [Oled!Next]_(Oled!vars)
  BY DEF PanelNext, all_vars, oled_vars, Oled!vars, Oled!device_vars, Oled!copy_vars, Oled!hold_vars,
    Oled!mode_vars, Oled!world_vars, Oled!event_vars, Oled!picture_vars
<1>3. ButtonsOutsideHold /\ [PanelNext]_all_vars => ButtonsOutsideHold'
  BY <1>2, OutsideHoldStep
<1>4. ModeInv /\ OledInv /\ ButtonsOutsideHold =>
        [Oled!HashOnMode => shown_mode' = shown.selection]_oled_vars
  BY DEF OledInv, Oled!ButtonsActOnPicture, ButtonsOutsideHold, Oled!HashOnMode, Oled!ApplyMode, Oled!At
<1>5. QED
  BY <1>1, <1>3, <1>4, PanelInvariant, PTL DEF PanelSpec
=============================================================================
