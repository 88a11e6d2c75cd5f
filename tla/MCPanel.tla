------------------------------ MODULE MCPanel ------------------------------
(* The front panel: the mode its menu chooses, saves and boots into (AdbMode) *)
(* and, in behaviours of their own, what its screens show (Screens).  A       *)
(* behaviour runs one of the two while the other rests.                       *)
EXTENDS AdbMode, Sequences

CONSTANTS Keyboards, Mice, HoldSeconds, Limits   (* of Screens *)

\* devices come and go while two buttons are pressed; every screen is reached
\* and a hold begins, with a change of a bus
Plugging == [plugs |-> 3, changes |-> 1, presses |-> 2]
Pressing == [plugs |-> 0, changes |-> 1, presses |-> 6]
OledLimits == {Plugging, Pressing}

VARIABLES
  part,        \* which of the two runs in this behaviour
  plugged, map, todo, shown_mode, shown_selection, connected, addresses, bus, bt, usb_count,
  bt_count, adb_status, adb_host_status, last_drawn, read, current_screen, shown,
  pairing_clear_active, held, oled_pc, limit, plugs, changes, pushes

Oled == INSTANCE Screens WITH
  s_mode <- shown_mode, mode_ui_selection <- shown_selection, pc <- oled_pc, presses <- pushes

ASSUME ScreensAssumed == Oled!ScreensAssumption

oled_vars ==
  <<plugged, map, todo, shown_mode, shown_selection, connected, addresses, bus, bt, usb_count,
    bt_count, adb_status, adb_host_status, last_drawn, read, current_screen, shown,
    pairing_clear_active, held, oled_pc, limit, plugs, changes, pushes>>
all_vars == <<vars, oled_vars, part>>

PanelInit ==
  /\ Init /\ Oled!Init
  /\ part \in {"mode", "screens"}
  /\ part # "mode" => flash = Erased
  /\ part # "screens" => shown_mode = "device" /\ limit = CHOOSE l \in Limits : TRUE

PanelNext ==
  /\ \/ part = "mode" /\ Next /\ UNCHANGED oled_vars
     \/ part = "screens" /\ Oled!Next /\ UNCHANGED vars
  /\ part' = part

\* The fairness of AdbMode and of Screens, each where it runs.
PanelSpec ==
  /\ PanelInit /\ [][PanelNext]_all_vars
  /\ WF_vars(part = "mode" /\ Core0) /\ WF_vars(part = "mode" /\ Core1)
  /\ WF_vars(part = "mode" /\ Boot)
  /\ WF_oled_vars(part = "screens" /\ Oled!Core0) /\ WF_oled_vars(part = "screens" /\ Oled!Store)

\* The banner, the bus and the saved mode agree; buttons act on the screen shown.
PanelAgrees == Inv /\ Oled!Inv

\* The USB stack follows the mode, and no save waits for ever.
StackFollows == part = "mode" => ModeTakesEffect

\* The counts and states shown end up right.
PictureSettles == part = "screens" => Oled!PictureSettles
=============================================================================
