------------------------------ MODULE BtNames ------------------------------
(***************************************************************************)
(* The names of Bluetooth devices (src/bluepad32_platform.c): BtPlatform    *)
(* with the table of pending names and the name of each slot.              *)
(*                                                                         *)
(* A device announces itself, with or without a name, before there is a    *)
(* link; the name waits in a small table under the address of the device   *)
(* until device_ready gives it to a slot.  Every announcement of anything  *)
(* in range goes into the same table.  The OLED shows the names of slots.  *)
(*                                                                         *)
(* All of it runs in the callbacks of core 0, each a callback of           *)
(* BtPlatform with what it does to names; nothing else touches them.       *)
(***************************************************************************)
EXTENDS BtPlatform

CONSTANTS
  NoName,      (* the empty string                                           *)
  Version,     (* the names one device may announce itself by                *)
  Own,         (* the devices Bluepad32 knows the name of (d->name)          *)
  Bystander,   (* devices in range that never connect                        *)
  TableSize,   (* MAX_PENDING_NAMES_BY_ADDR                                  *)
  MaxHeard     (* bound on the announcements with a name                     *)

ASSUME NamesAssumption ==
  /\ Own \subseteq Device /\ Bystander \subseteq Device
  /\ "own" \notin Version
  /\ TableSize \in Nat \ {0} /\ MaxHeard \in Nat

VARIABLES
  table,       (* pending_names_by_addr                                      *)
  name,        (* storage->name of each slot                                 *)
  newest,      (* history: of each device, the last name stored since the    *)
               (* table last gave up one of its names                        *)
  heard        (* names announced (bounded)                                  *)

name_vars == <<table, name, newest, heard>>

\* A name is known by whose it is: announced by a device, its own, or that of
\* a class ("Keyboard", "Mouse", "Gamepad").
OwnName(d) == IF d \in Own THEN <<d, "own">> ELSE NoName
Generic(k) == <<NoDevice, k>>
NamesOf(d) == {<<d, v>> : v \in Version \cup {"own"}}

Entry == 1 .. TableSize
Free  == {e \in Entry : ~table[e].valid}
Of(d) == {e \in Entry : table[e].valid /\ table[e].addr = d}

NamesInit ==
  /\ Init
  /\ table = [e \in Entry |-> [addr |-> NoDevice, name |-> NoName, valid |-> FALSE]]
  /\ name = [k \in Class |-> [i \in 1 .. SlotCount[k] |-> NoName]]
  /\ newest = [d \in Device |-> NoName]
  /\ heard = 0

\* The entries store_pending_name_by_addr may take: it takes the first.
\* Mutant: a free entry before the device's own.
TakesFreeFirst(d) == IF Free # {} THEN Free ELSE Of(d)
Takes(d)          == Free \cup Of(d)

store_pending_name_by_addr(d, n) ==
  IF Takes(d) = {}
  THEN UNCHANGED <<table, newest>>
  ELSE /\ table' = [table EXCEPT ![Min(Takes(d))] = [addr |-> d, name |-> n, valid |-> TRUE]]
       /\ newest' = [newest EXCEPT ![d] = n]

get_pending_name_by_addr(d) == IF Of(d) = {} THEN NoName ELSE table[Min(Of(d))].name

\* Leaves a later entry of the same device behind.
clear_pending_name_by_addr(d) ==
  /\ table' = IF Of(d) = {} THEN table ELSE [table EXCEPT ![Min(Of(d))].valid = FALSE]
  /\ newest' = [newest EXCEPT ![d] = NoName]

\* my_platform_on_device_discovered, without and with a name
DiscoveredUnnamed(d) == Discovered(d) /\ UNCHANGED name_vars
DiscoveredNamed(d) == \E v \in Version :
  /\ heard < MaxHeard
  /\ heard' = heard + 1
  /\ Discovered(d)
  /\ store_pending_name_by_addr(d, <<d, v>>)
  /\ UNCHANGED name

ConnectedUnnamed(d) == d \notin Bystander /\ Connected(d) /\ UNCHANGED name_vars

\* what the device is called when it is ready: its own name before the stored
device_name(d) ==
  IF OwnName(d) # NoName THEN OwnName(d) ELSE get_pending_name_by_addr(d)

\* my_platform_on_device_ready names the slot, if there is one.
ReadyNamed(d) ==
  LET k == Kind[d]
      i == IF k = "other" THEN 0 ELSE FindSlot(k, d)
  IN
  /\ Ready(d)
  /\ UNCHANGED heard
  /\ IF i = 0
     THEN UNCHANGED <<table, name, newest>>
     ELSE IF device_name(d) = NoName
     THEN name' = [name EXCEPT ![k][i] = Generic(k)] /\ UNCHANGED <<table, newest>>
     ELSE /\ name' = [name EXCEPT ![k][i] = device_name(d)]
          /\ clear_pending_name_by_addr(d)

\* my_platform_on_controller_data: the first report names a slot that has no
\* name yet, and does not look into the table.
ControllerDataNamed(d, k) ==
  LET i == FindSlot(k, d) IN
  /\ ControllerData(d, k)
  /\ name' = IF k # "gamepad" /\ ~connected[k][i] /\ name[k][i] = NoName
             THEN [name EXCEPT ![k][i] = IF OwnName(d) # NoName THEN OwnName(d) ELSE Generic(k)]
             ELSE name
  /\ UNCHANGED <<table, newest, heard>>

\* Mutant: the name stays in the slot of the mouse.
NamesLeftInMouse(d) ==
  [k \in Class |-> [i \in 1 .. SlotCount[k] |->
    IF map[k][i] = d /\ k # "mouse" THEN NoName ELSE name[k][i]]]
NamesLeft(d) ==
  [k \in Class |-> [i \in 1 .. SlotCount[k] |-> IF map[k][i] = d THEN NoName ELSE name[k][i]]]

\* my_platform_on_device_disconnected
DisconnectedNamed(d) ==
  /\ Disconnected(d)
  /\ name' = NamesLeft(d)
  /\ UNCHANGED <<table, newest, heard>>

Callback(d) ==
  \/ DiscoveredUnnamed(d) \/ DiscoveredNamed(d)
  \/ ConnectedUnnamed(d) \/ ReadyNamed(d) \/ DisconnectedNamed(d)
  \/ \E k \in Sends[d] : ControllerDataNamed(d, k)

\* The loops of both cores, the clock and the wipe of the keys.
Unnamed == (Core0 \/ Core1 \/ DeletePairingKeys) /\ UNCHANGED name_vars

NamesNext == Unnamed \/ \E d \in Device : Callback(d)

NamesSpec == NamesInit /\ [][NamesNext]_<<vars, name_vars>>

(* ----------------------------- properties ------------------------------ *)

AllNames == (UNION {NamesOf(d) : d \in Device}) \cup {Generic(k) : k \in Class} \cup {NoName}

NamesTypeOK ==
  /\ table \in [Entry -> [addr : Device \cup {NoDevice}, name : AllNames, valid : BOOLEAN]]
  /\ \A k \in Class : name[k] \in [1 .. SlotCount[k] -> AllNames]
  /\ newest \in [Device -> AllNames]
  /\ heard \in 0 .. MaxHeard

\* bluepad32_get_device_name() never shows one device under the name of
\* another, nor an empty name: whatever order devices leave their slots, report
\* early and become ready in, the name of a connected slot is a name of the
\* device that has it, or that of its class.
SlotNamesItsDevice ==
  \A k \in Class : \A i \in 1 .. SlotCount[k] :
    connected[k][i] => name[k][i] \in NamesOf(map[k][i]) \cup {Generic(k)}

\* The table may hold several names of a device and be full of other devices';
\* the one a lookup finds is the last that was stored.
LookupFindsNewest ==
  \A d \in Device : newest[d] # NoName => get_pending_name_by_addr(d) = newest[d]

\* The tables of slots and of names keep their shape, and a lookup finds the name
\* stored last.
TablesKept == TypeOK /\ NamesTypeOK /\ LookupFindsNewest

\* No slot outlives its link or shows the name of another device.
SlotsKept == SlotsFollowLinks /\ SlotNamesItsDevice
=============================================================================
