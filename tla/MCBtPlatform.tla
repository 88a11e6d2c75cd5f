--------------------------- MODULE MCBtPlatform ---------------------------
(* Devices and slots of BtPlatform, for TLC. *)
EXTENDS BtPlatform

CONSTANTS kb, xbox

KindOf == [d \in Device |->
  IF d = kb THEN "keyboard" ELSE "gamepad"]
\* the keyboard has a touch pad
SendsOf == [d \in Device |->
  IF d = kb THEN {"keyboard", "mouse"} ELSE {"gamepad"}]
\* discovery_needs_core1_pause() knows the Xbox controller by its name
ByName == Device \cap {xbox}
OneEach == [k \in Class |-> 1]
=============================================================================
