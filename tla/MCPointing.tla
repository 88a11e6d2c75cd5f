----------------------------- MODULE MCPointing -----------------------------
(* Pointing devices: a mouse on each core and the register of the ADB mouse   *)
(* (MousePipeline) and, in behaviours of their own, what the Bluetooth bridge *)
(* makes of keyboards, mice and a gamepad before it parses them (BtHidBridge).*)
(* A behaviour runs one of the two while the other rests.                     *)
EXTENDS MousePipeline, Functions

CONSTANTS   \* of BtHidBridge
  Keyboards, GamepadKeys, Slots, BridgeWorkload

(* ------------------ what a USB mouse and the bridge send --------------- *)

Reports(movements, buttons) == [dx : movements, buttons : buttons, replace : {FALSE}]
Stick(movements) == [dx : movements, buttons : {{}}, replace : {TRUE}]
PerCore(bt, usb) == [c \in Core |-> IF c = 0 THEN bt ELSE usb]

\* two mice and a stick that all move to the right; a mouse that is clicked, its
\* middle button too; a mouse that changes its buttons while it moves
BothMove ==
  [report |-> PerCore(Stick({2}) \cup Reports({3}, {{}}), Reports({3}, {{}})),
   count |-> PerCore(0, 0), resets |-> 1]
Clicked ==
  [report |-> PerCore({}, Reports({0}, SUBSET {"left", "right"})),
   count |-> PerCore(0, 3), resets |-> 0]
Switching ==
  [report |-> PerCore({}, Reports({0}, {{}, {"right"}, {"middle"}})),
   count |-> PerCore(0, 2), resets |-> 0]
Moving ==
  [report |-> PerCore({}, Reports({0, 1}, {{}, {"left"}})),
   count |-> PerCore(0, 2), resets |-> 0]
MouseWorkloads == {BothMove, Clicked, Switching, Moving}

(* ----------------------- what connects to the bridge ------------------- *)

Pad == <<"up", "a">>

NoDevices == [keyboards |-> {}, keys |-> {}, mouse |-> {}, pad |-> {}, padKeys |-> {},
            stick |-> FALSE, usb |-> {}, usbMouse |-> FALSE, events |-> 0]

\* two keyboards and a gamepad with more keys than a report has room for; one
\* keyboard and a gamepad; a mouse and a gamepad that press the same buttons; a
\* Bluetooth and a USB mouse
ManyKeys ==
  [NoDevices EXCEPT !.keyboards = {1, 2}, !.keys = {<<>>, <<"a">>, <<"a", "b">>},
                  !.padKeys = {"up"}, !.events = 3]
OneKeyboard ==
  [NoDevices EXCEPT !.keyboards = {1}, !.keys = {<<>>, <<"a">>}, !.padKeys = Range(Pad),
                  !.events = 4]
Dragging ==
  [NoDevices EXCEPT !.mouse = {"left", "right"}, !.pad = {"left", "right"}, !.stick = TRUE,
                  !.events = 3]
TwoMice ==
  [NoDevices EXCEPT !.mouse = {"left"}, !.usb = {"left"}, !.usbMouse = TRUE, !.events = 4]
BridgeWorkloads == {ManyKeys, OneKeyboard, Dragging, TwoMice}

(* ------------------------- one of the two runs ------------------------- *)

VARIABLES
  part,        \* which of the two
  kbd, mouse, gp, paused, prev_gp_mouse_btn, prev_buttons, s_bt_buttons_latched,
  s_gp_buttons_latched, gp_stick_was_moving, prev_gp_count, held, parsed, pending, usb, devices,
  events

Bridge == INSTANCE BtHidBridge WITH
  Workload <- BridgeWorkload, pressed <- parsed, workload <- devices

ASSUME BridgeAssumed == Bridge!BridgeAssumption

bridge_vars ==
  <<kbd, mouse, gp, paused, prev_gp_mouse_btn, prev_buttons, s_bt_buttons_latched,
    s_gp_buttons_latched, gp_stick_was_moving, prev_gp_count, held, parsed, pending, usb, devices,
    events>>
all_vars == <<vars, bridge_vars, part>>

\* In the part that rests always the same may come.
Resting(workloads) == CHOOSE w \in workloads : TRUE

PointingInit ==
  /\ Init /\ Bridge!Init
  /\ part \in {"mouse", "bridge"}
  /\ part # "mouse" => workload = Resting(Workload)
  /\ part # "bridge" => devices = Resting(BridgeWorkload)

PointingNext ==
  /\ \/ part = "mouse" /\ Next /\ UNCHANGED bridge_vars
     \/ part = "bridge" /\ Bridge!Next /\ UNCHANGED vars
  /\ part' = part

\* The fairness of MousePipeline, with a mouse that goes on moving, and of
\* BtHidBridge, each where it runs.
PointingSpec ==
  /\ PointingInit /\ [][PointingNext]_all_vars
  /\ WF_vars(part = "mouse" /\ ParserStep(1)) /\ WF_vars(part = "mouse" /\ Core0Step)
  /\ SF_vars(part = "mouse" /\ HostReads) /\ SF_vars(part = "mouse" /\ Moves)
  /\ WF_bridge_vars(part = "bridge" /\ Bridge!process_bluepad32_devices)
  /\ \A k \in 1 .. Keyboards : WF_bridge_vars(part = "bridge" /\ Bridge!KeyboardData(k))

\* No movement is turned round, no button and no Ctrl stays down with a mouse
\* that holds none, and the first keyboard's keys have room.
InputsKept == Inv /\ ReleasedWithTheMouse /\ Bridge!Inv

\* A held button is not released by a report of another device.
DragHolds == Bridge!DragHolds

\* What is held settles on what the devices hold.
HeldSettles == part = "bridge" => Bridge!HeldSettles
=============================================================================
