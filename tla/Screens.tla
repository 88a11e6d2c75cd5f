------------------------------ MODULE Screens ------------------------------
(***************************************************************************)
(* What the OLED shows (src/display/display.c) of the devices that are     *)
(* connected (src/usb_device_map.c, written by the callbacks of TinyUSB on *)
(* core 1, and the counts of Bluepad32), of the ADB bus and of the mode,   *)
(* and the hold of Up and Down that deletes the Bluetooth pairings.        *)
(*                                                                         *)
(* A screen is redrawn when a button asks for it or when the loop of       *)
(* core 0 sees a change of what was drawn, so a picture may be out of date.*)
(* A name is present or not, the addresses are one value, and # and * are  *)
(* debounced presses; the save of the mode and the restart of the USB      *)
(* stack are in AdbMode.  There are Bluetooth keyboards only.              *)
(***************************************************************************)
EXTENDS Naturals, Sequences, FiniteSets

CONSTANTS
  Keyboards, Mice,  (* the USB devices                                       *)
  HoldSeconds,      (* the hold of Up and Down that deletes the pairings     *)
  Limits            (* bounds, one for each behaviour: how many USB devices  *)
                    (* are plugged in or pulled out (plugs), changes of the  *)
                    (* ADB buses and of Bluetooth (changes), and presses of  *)
                    (* #, * and of Up with Down (presses)                    *)

ScreensAssumption ==
  /\ IsFiniteSet(Keyboards) /\ IsFiniteSet(Mice) /\ Keyboards \cap Mice = {}
  /\ HoldSeconds \in Nat \ {0}
  /\ Limits \subseteq [plugs : Nat, changes : Nat, presses : Nat]

Screen == {"splash", "devices", "map", "bus", "mode"}
Mode == {"device", "host"}
Addresses == {"default", "moved"}

VARIABLES
  plugged,      (* the USB devices that are connected                        *)
  map,          (* usb_device_map: counts, and which names are there         *)
  todo,         (* what the callback of core 1 has still to store            *)
  s_mode, mode_ui_selection,
  connected, addresses,  (* the Mac polls; the addresses the Mac gave        *)
  bus,          (* in host mode: how many ADB devices work                   *)
  bt,           (* the Bluetooth keyboards connected                         *)
  usb_count, bt_count, adb_status, adb_host_status,  (* copies in display.c  *)
  last_drawn,   (* the copies as they were last drawn                        *)
  read,         (* the counts core 0 has just read                           *)
  current_screen,
  shown,        (* the picture on the OLED                                   *)
  pairing_clear_active, held,  (* the hold, and its whole seconds            *)
  pc,           (* what core 0 does next                                     *)
  limit,        (* the bounds of this behaviour                              *)
  plugs, changes, presses

device_vars == <<plugged, map, todo>>
copy_vars == <<usb_count, bt_count, adb_status, adb_host_status>>
hold_vars == <<pairing_clear_active, held>>
mode_vars == <<s_mode, mode_ui_selection>>
world_vars == <<connected, addresses, bus, bt>>
event_vars == <<plugs, changes, presses, limit>>
picture_vars == <<current_screen, shown, last_drawn>>
vars == <<device_vars, copy_vars, hold_vars, mode_vars, world_vars, event_vars,
          picture_vars, read, pc>>

(* ------------------------------- pictures ------------------------------ *)

Nothing == [keyboards |-> 0, mice |-> 0]
Names == <<bt_count > 0 \/ (map.keyboard_present /\ map.keyboard_name),
           map.mouse_present /\ map.mouse_name>>

\* What the display_show_ function of the current screen draws
Picture ==
  CASE current_screen = "splash" ->
         [screen |-> "splash", mode |-> s_mode,
          status |-> IF s_mode = "host" THEN <<adb_host_status>> ELSE adb_status]
    [] current_screen = "devices" ->
         [screen |-> "devices", usb |-> usb_count, bt |-> bt_count, footer |-> addresses]
    [] current_screen = "map" -> [screen |-> "map", names |-> Names]
    [] current_screen = "bus" ->
         [screen |-> "bus", status |-> IF s_mode = "host" THEN <<adb_host_status>> ELSE <<>>]
    [] current_screen = "mode" -> [screen |-> "mode", selection |-> mode_ui_selection]

Overlay(seconds) == [screen |-> "clear", seconds |-> seconds]

\* Draw a screen; it notes the copies it shows as drawn.
Draw(screen, noted) ==
  /\ current_screen' = screen
  /\ shown' = Picture'
  /\ last_drawn' =
       [usb  |-> IF screen = "devices" THEN usb_count' ELSE noted.usb,
        bt   |-> IF screen \in {"splash", "devices", "map"} THEN bt_count' ELSE noted.bt,
        adb  |-> IF screen = "splash" THEN adb_status' ELSE noted.adb,
        host |-> IF screen = "bus" THEN adb_host_status' ELSE noted.host]
Show(screen) == Draw(screen, last_drawn)

Init ==
  /\ plugged = {} /\ todo = <<>>
  /\ map = [keyboards |-> 0, mice |-> 0, keyboard_present |-> FALSE, keyboard_name |-> FALSE,
            mouse_present |-> FALSE, mouse_name |-> FALSE]
  /\ s_mode \in Mode /\ mode_ui_selection = "device"
  /\ connected = FALSE /\ addresses = "default" /\ bus = 0 /\ bt = 0
  /\ usb_count = Nothing /\ bt_count = 0
  /\ adb_status = <<FALSE, "default">> /\ adb_host_status = 0
  /\ last_drawn = [usb |-> [keyboards |-> 255, mice |-> 255], bt |-> 0, adb |-> adb_status, host |-> 0]
  /\ read = Nothing
  /\ current_screen = "splash" /\ shown = Picture
  /\ pairing_clear_active = FALSE /\ held = 0
  /\ pc = "hold"
  /\ limit \in Limits /\ plugs = 0 /\ changes = 0 /\ presses = 0

(* --------------------- core 1: devices come and go --------------------- *)

Count(count, amount) == [field |-> count, value |-> amount]
Keep(field, there) == [field |-> field, value |-> there]

\* usb_map_on_keyboard_mount: the count, then the name if there is none
OnKeyboardMount ==
  <<Count("keyboards", map.keyboards + 1)>> \o
  (IF map.keyboard_present THEN <<>>
   ELSE <<Keep("keyboard_present", TRUE), Keep("keyboard_name", TRUE)>>)

\* Mutant: the count of keyboards never goes down.
UmountKeepsCount == <<Count("keyboards", map.keyboards)>>

\* usb_map_on_keyboard_umount
OnKeyboardUmount ==
  <<Count("keyboards", map.keyboards - 1)>> \o
  (IF map.keyboards = 1
   THEN <<Keep("keyboard_present", FALSE), Keep("keyboard_name", FALSE)>> ELSE <<>>)

\* usb_map_set_mouse and usb_map_clear_mouse
SetMouse == <<Keep("mouse_present", TRUE), Count("mice", 1), Keep("mouse_name", TRUE)>>
ClearMouse == <<Keep("mouse_present", FALSE), Count("mice", 0), Keep("mouse_name", FALSE)>>

\* The callbacks run on core 1 one after the other, while it hosts USB devices.
Callback(stores) ==
  /\ s_mode = "device" /\ todo = <<>> /\ plugs < limit.plugs
  /\ plugs' = plugs + 1
  /\ todo' = stores
  /\ UNCHANGED <<map, copy_vars, hold_vars, mode_vars, world_vars, changes, presses,
                 limit, picture_vars, read, pc>>

Mount ==
  \E device \in (Keyboards \cup Mice) \ plugged :
    /\ plugged' = plugged \cup {device}
    /\ Callback(IF device \in Keyboards THEN OnKeyboardMount ELSE SetMouse)

Umount ==
  \E device \in plugged :
    /\ plugged' = plugged \ {device}
    /\ Callback(IF device \in Keyboards THEN OnKeyboardUmount ELSE ClearMouse)

Store ==
  /\ todo # <<>>
  /\ map' = [map EXCEPT ![Head(todo).field] = Head(todo).value]
  /\ todo' = Tail(todo)
  /\ UNCHANGED <<plugged, copy_vars, hold_vars, mode_vars, world_vars, event_vars,
                 picture_vars, read, pc>>

(* ----------------- core 0: the hold of Up and Down --------------------- *)

At(label) == pc = label
Goto(label) == pc' = label
Press == presses < limit.presses /\ presses' = presses + 1
HoldUnchanged == UNCHANGED <<device_vars, copy_vars, mode_vars, world_vars, plugs, changes, limit, read>>

HoldStarts ==
  /\ At("hold") /\ ~pairing_clear_active
  /\ Press
  /\ pairing_clear_active' = TRUE /\ held' = 0
  /\ shown' = Overlay(HoldSeconds)
  /\ Goto("loop")
  /\ UNCHANGED <<current_screen, last_drawn>>
  /\ HoldUnchanged

\* Where the deletion leads, and where letting go leads
AfterClear == IF current_screen = "mode" THEN "splash" ELSE current_screen
AfterRelease == IF current_screen \in {"map", "devices"} THEN current_screen ELSE "splash"

HoldStillShort(seconds) == seconds < HoldSeconds

\* Both are down at this pass as well; part of a second may have gone by.
HoldGoesOn ==
  /\ At("hold") /\ pairing_clear_active
  /\ \E second \in {0, 1} :
       /\ HoldStillShort(held + second)
       /\ held' = held + second
       /\ shown' = IF second = 0 THEN shown ELSE Overlay(HoldSeconds - held')
  /\ Goto("loop")
  /\ UNCHANGED <<pairing_clear_active, current_screen, last_drawn, presses>>
  /\ HoldUnchanged

HoldIsOver ==
  /\ At("hold") /\ pairing_clear_active
  /\ held + 1 = HoldSeconds
  /\ held' = 0
  /\ pairing_clear_active' = FALSE
  /\ Goto("buttons")
  /\ UNCHANGED presses
  /\ HoldUnchanged
  /\ Show(AfterClear)

HoldReleased ==
  /\ At("hold") /\ pairing_clear_active
  /\ pairing_clear_active' = FALSE /\ held' = 0
  /\ Goto("buttons")
  /\ UNCHANGED presses
  /\ HoldUnchanged
  /\ Show(AfterRelease)

NoHold ==
  /\ At("hold") /\ ~pairing_clear_active
  /\ Goto("buttons")
  /\ UNCHANGED <<pairing_clear_active, held, picture_vars, presses>>
  /\ HoldUnchanged

Hold == HoldStarts \/ HoldGoesOn \/ HoldIsOver \/ HoldReleased \/ NoHold

(* ------------------- core 0: the buttons # and *, Up and Down ---------- *)

ButtonsUnchanged ==
  UNCHANGED <<device_vars, copy_vars, hold_vars, world_vars, plugs, changes, limit, read, pc>>

NextScreen ==
  CASE current_screen = "splash" -> "devices" [] current_screen = "devices" -> "map"
    [] current_screen = "map" -> "bus" [] OTHER -> "mode"

\* mode_screen_apply
ApplyMode(mode) ==
  /\ mode_ui_selection' = mode /\ s_mode' = mode
  /\ ButtonsUnchanged
  /\ Show("splash")

Hash ==
  /\ At("buttons") /\ Press
  /\ current_screen # "mode"
  /\ mode_ui_selection' = IF current_screen = "bus" THEN s_mode ELSE mode_ui_selection
  /\ UNCHANGED s_mode
  /\ ButtonsUnchanged
  /\ Show(NextScreen)

HashOnMode ==
  /\ At("buttons") /\ Press
  /\ current_screen = "mode"
  /\ ApplyMode(mode_ui_selection)

UpOrDown ==
  /\ At("buttons") /\ Press
  /\ current_screen = "mode"
  /\ \E mode \in Mode : mode_ui_selection' = mode
  /\ UNCHANGED s_mode
  /\ ButtonsUnchanged
  /\ Show("mode")

Star ==
  /\ At("buttons") /\ Press
  /\ \E mode \in Mode \ {s_mode} : ApplyMode(mode)

ButtonsDone ==
  /\ At("buttons")
  /\ Goto("loop")
  /\ UNCHANGED <<device_vars, copy_vars, hold_vars, mode_vars, world_vars, event_vars,
                 picture_vars, read>>

Buttons == Hash \/ HashOnMode \/ UpOrDown \/ Star \/ ButtonsDone

(* -------------------- core 0: the rest of the loop --------------------- *)

LoopUnchanged == UNCHANGED <<device_vars, hold_vars, mode_vars, plugs, presses, limit>>

Same == UNCHANGED picture_vars
\* Changes of the world, counted
Changed(old, new) ==
  changes' = IF new = old THEN changes ELSE changes + 1

\* One pass in host mode: AdbHost::poll() and display_set_adb_host_status
Publish ==
  /\ At("loop") /\ s_mode = "host"
  /\ Goto("hold")
  /\ UNCHANGED <<connected, addresses, bt, usb_count, bt_count, adb_status, read>>
  /\ LoopUnchanged
  /\ \E working \in 0..2 :
       /\ working = bus \/ changes < limit.changes
       /\ bus' = working /\ adb_host_status' = working
       /\ Changed(bus, working)
       /\ CASE current_screen = "bus" /\ working # last_drawn.host -> Show("bus")
            [] current_screen = "splash" -> Show("splash")
            [] OTHER -> Same

StatusChanged == last_drawn.adb # <<connected, addresses>>

display_set_adb_status ==
  /\ At("loop") /\ s_mode = "device"
  /\ adb_status' = <<connected, addresses>>
  /\ Goto("usb")
  /\ UNCHANGED <<usb_count, bt_count, adb_host_status, world_vars, changes, read>>
  /\ LoopUnchanged
  /\ IF current_screen = "splash" /\ StatusChanged THEN Show("splash") ELSE Same

usb_map_get_counts ==
  /\ At("usb")
  /\ read' = [keyboards |-> map.keyboards, mice |-> map.mice]
  /\ Goto("counts")
  /\ UNCHANGED <<copy_vars, world_vars, changes, picture_vars>>
  /\ LoopUnchanged

\* display_update_devices, on the screens it or its caller redraws
Update(screens, noted) ==
  IF current_screen \in screens THEN Draw(current_screen, noted)
  ELSE last_drawn' = noted /\ UNCHANGED <<current_screen, shown>>

display_set_usb_counts ==
  /\ At("counts")
  /\ usb_count' = read
  /\ Goto("bluetooth")
  /\ UNCHANGED <<bt_count, adb_status, adb_host_status, world_vars, changes, read>>
  /\ LoopUnchanged
  /\ IF read = last_drawn.usb THEN Same
     ELSE Update({"devices", "map", "bus"}, [last_drawn EXCEPT !.usb = read])

\* bluepad32_poll() may connect or disconnect a keyboard.
display_set_bt_counts ==
  /\ At("bluetooth")
  /\ Goto("adb")
  /\ UNCHANGED <<usb_count, adb_status, adb_host_status, connected, addresses, bus, read>>
  /\ LoopUnchanged
  /\ \E n \in 0..2 :
       /\ n = bt \/ changes < limit.changes
       /\ bt' = n /\ bt_count' = n
       /\ Changed(bt, n)
       /\ IF n = last_drawn.bt THEN Same
          ELSE Update({"splash", "devices", "map", "bus"}, [last_drawn EXCEPT !.bt = n])

\* The Mac starts or stops polling, moves the addresses or resets the bus.
ProcessCommand ==
  /\ At("adb")
  /\ \E c \in BOOLEAN, a \in Addresses :
       /\ <<c, a>> = <<connected, addresses>> \/ changes < limit.changes
       /\ connected' = c /\ addresses' = a
       /\ Changed(<<connected, addresses>>, <<c, a>>)
  /\ Goto("hold")
  /\ UNCHANGED <<copy_vars, bus, bt, picture_vars, read>>
  /\ LoopUnchanged

Loop ==
  \/ Publish \/ display_set_adb_status \/ usb_map_get_counts \/ display_set_usb_counts
  \/ display_set_bt_counts \/ ProcessCommand

Core0 == Hold \/ Buttons \/ Loop
Core1 == Mount \/ Umount \/ Store
Next == Core0 \/ Core1

\* Both cores keep running; nothing has to be plugged in or pressed.
Spec == Init /\ [][Next]_vars /\ WF_vars(Core0) /\ WF_vars(Store)

(* ------------------------------ properties ----------------------------- *)

TypeOK ==
  /\ plugged \subseteq Keyboards \cup Mice
  /\ map \in [keyboards : 0..Cardinality(Keyboards), mice : {0, 1},
              keyboard_present : BOOLEAN, keyboard_name : BOOLEAN,
              mouse_present : BOOLEAN, mouse_name : BOOLEAN]
  /\ Len(todo) <= 3
  /\ s_mode \in Mode /\ mode_ui_selection \in Mode
  /\ current_screen \in Screen
  /\ held \in 0..(HoldSeconds - 1)
  /\ pc \in {"hold", "buttons", "loop", "usb", "counts", "bluetooth", "adb"}

\* A user who presses # gets what is on the OLED: outside of a hold the picture
\* is of the screen that # and Up and Down act on, and on the menu it marks the
\* mode that # applies (display_handle_buttons and the redraws of the loop).
ButtonsActOnPicture ==
  ~pairing_clear_active =>
    /\ shown.screen = current_screen
    /\ current_screen = "mode" => shown.selection = mode_ui_selection

Inv == TypeOK /\ ButtonsActOnPicture

There == [keyboards |-> Cardinality(plugged \cap Keyboards), mice |-> Cardinality(plugged \cap Mice)]
Open(screen) == current_screen = screen /\ ~pairing_clear_active

CountsShown ==
  <>[](Open("devices") /\ s_mode = "device" => shown.usb = There /\ shown.bt = bt)

StatusShown ==
  <>[](/\ Open("splash") => /\ shown.mode = s_mode
                            /\ shown.status = IF s_mode = "host" THEN <<bus>>
                                              ELSE <<connected, addresses>>
       /\ Open("bus") => shown.status = IF s_mode = "host" THEN <<bus>> ELSE <<>>)

\* Once nothing changes any more, the Devices screen counts the devices that are
\* connected, and the home and ADB Bus screens show the mode in force and the
\* state of its bus, whatever was drawn before and whichever way the screen was
\* reached (the comparisons of the display_set_ functions).
PictureSettles == CountsShown /\ StatusShown
=============================================================================
