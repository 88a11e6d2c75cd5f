------------------------------ MODULE AdbHost ------------------------------
(***************************************************************************)
(* ADB host mode, towards the ADB devices (lib/adb/src/adb_host.cpp): the  *)
(* table of poll targets, its enumeration, rescans and relocation, and the *)
(* polling.  All of it runs on core 0; devices are plugged, unplugged and  *)
(* answer as they like between and during the transactions.                *)
(*                                                                         *)
(* Time is left out: a rescan or the poll of a slot is due whenever the    *)
(* model takes it.  A transaction is its outcome: data, nothing (silence,  *)
(* which receive_register16() returns as 0) or a framing error.  The       *)
(* second Talk 3 of a keyboard address only replaces the first's outcome.  *)
(***************************************************************************)
EXTENDS Naturals, FiniteSets, Sequences

CONSTANTS
  Device,      (* ADB devices that may be on the bus                         *)
  Home,        (* the address of each after a reset                          *)
  Answers3,    (* those that answer Talk 3 with a handler                    *)
  Relocates,   (* those that obey only the first Listen 3, as the trackball  *)
               (* of the Quadra 700 does; the others obey each               *)
  Noise,       (* whether answers may be garbled: FALSE, TRUE or either      *)
  kMaxDevices, (* slots of the table (5)                                     *)
  kProbePollAttempts,  (* errors before a silent slot is dropped (16)        *)
  MaxPlugs,    (* bound on the plugging and unplugging                       *)
  MaxSwitches  (* bound on the mode switches                                 *)

kScanAddrs == {2, 3, 4, 5, 6, 7, 14, 15}
Address == 0 .. 15
KeyboardAddress == {2, 4, 5, 6, 7}
PointingAddress == {3, 14, 15}

HostAssumption ==
  /\ Home \in [Device -> Address]
  /\ Answers3 \subseteq Device /\ Relocates \subseteq Device
  /\ Noise \subseteq BOOLEAN
  /\ kMaxDevices \in Nat /\ kMaxDevices > 3   (* kMaxPointing and a keyboard *)
  /\ kProbePollAttempts \in Nat \ {0}
  /\ MaxPlugs \in Nat /\ MaxSwitches \in Nat

VARIABLES
  noisy,       (* answers may be garbled                                     *)
  plugged,     (* the devices on the bus                                     *)
  at,          (* their addresses                                            *)
  entered_,    (* host mode is on                                            *)
  devices_,    (* the table                                                  *)
  plugs, switches    (* events so far (bounded)                              *)

vars == <<noisy, plugged, at, entered_, devices_, plugs, switches>>

Kind(addr) == IF addr \in KeyboardAddress THEN "keyboard" ELSE "pointing"

Init ==
  /\ noisy \in Noise
  /\ plugged \in SUBSET Device
  /\ at = Home
  /\ entered_ = FALSE
  /\ devices_ = <<>>
  /\ plugs = 0 /\ switches = 0

Present(on, where, addr) == {d \in on : where[d] = addr}

\* The outcomes of Talk 0 at an address where the devices "here" are.
Talk0(here) ==
  {"nothing"} \cup (IF here = {} THEN {} ELSE {"data"})
              \cup (IF noisy /\ here # {} THEN {"error"} ELSE {})

(* ------------------------------ the table ------------------------------ *)

Indices(table) == 1 .. Len(table)
has_device_kind(table, kind) == \E i \in Indices(table) : table[i].active /\ Kind(table[i].addr) = kind
has_device_at(table, addr) == \E i \in Indices(table) : table[i].active /\ table[i].addr = addr
has_working_devices(table) == \E i \in Indices(table) : table[i].active /\ table[i].ever_responded

NewSlot(addr) ==
  [addr |-> addr, active |-> TRUE, poll_attempts |-> 0, ever_responded |-> FALSE]

Reactivated(table, addr) ==
  [i \in Indices(table) |-> IF table[i].addr = addr THEN [table[i] EXCEPT !.active = TRUE] ELSE table[i]]

\* Mutant: a single slot of each kind.
ensure_device_OneEach(table, addr) ==
  IF \E i \in Indices(table) : table[i].addr = addr THEN Reactivated(table, addr)
  ELSE IF has_device_kind(table, Kind(addr)) THEN table
  ELSE Append(table, NewSlot(addr))

\* A slot of the address is used again; otherwise one keyboard and kMaxDevices
\* slots are the limit (kMaxPointing is the number of pointing addresses).
ensure_device(table, addr) ==
  IF \E i \in Indices(table) : table[i].addr = addr THEN Reactivated(table, addr)
  ELSE IF Kind(addr) = "keyboard" /\ has_device_kind(table, "keyboard") THEN table
  ELSE IF Len(table) >= kMaxDevices THEN table
  ELSE Append(table, NewSlot(addr))

\* Mutant: the default keyboard is left out.
NoDefaultKeyboard(table) == table
try_keyboard_default(table) ==
  IF has_device_kind(table, "keyboard") THEN table ELSE ensure_device(table, 2)

\* Talk 3 at every address, "heard" being those with an answer
Scanned(table, heard, addr) == IF addr \in heard THEN ensure_device(table, addr) ELSE table
Scanned4(table, heard, a, b, c, d) ==
  Scanned(Scanned(Scanned(Scanned(table, heard, a), heard, b), heard, c), heard, d)
scan_r3(table, heard) == Scanned4(Scanned4(table, heard, 2, 3, 4, 5), heard, 6, 7, 14, 15)

\* A garbled answer is passed over like silence.
Heard(on, where) ==
  LET answering == {where[d] : d \in on \cap Answers3} \cap kScanAddrs
  IN IF noisy THEN SUBSET answering ELSE {answering}

Ghost(slot) == slot.addr = 15 /\ slot.active /\ ~slot.ever_responded
prune_relocation_ghost(table) ==
  [i \in Indices(table) |-> IF Ghost(table[i]) THEN [table[i] EXCEPT !.active = FALSE] ELSE table[i]]

RelocationDue(table) == ~has_device_at(table, 3) /\ ~has_device_at(table, 15)

\* try_mouse_relocation: Listen 3 at 3 with address 15, then at 15 with
\* address 14.
Relocated(where) ==
  LET first == [d \in Device |-> IF d \in plugged /\ where[d] = 3 THEN 15 ELSE where[d]]
  IN [d \in Device |-> IF d \in plugged \ Relocates /\ first[d] = 15 THEN 14 ELSE first[d]]

Pruned(table) == IF has_device_at(table, 3) THEN prune_relocation_ghost(table) ELSE table

\* discover_pointing_devices after a scan, and the default keyboard
Discovered(table, where) ==
  IF RelocationDue(table)
  THEN /\ at' = Relocated(where)
       /\ devices_' = try_keyboard_default(ensure_device(table, 15))
  ELSE /\ at' = where
       /\ devices_' = try_keyboard_default(Pruned(table))

\* Every device on the bus goes back to its address.
GlobalReset(where) == [d \in Device |-> IF d \in plugged THEN Home[d] ELSE where[d]]

(* ------------------------------- actions ------------------------------- *)

\* on_enter_mode: reset and enumeration with an empty table
on_enter_mode ==
  /\ ~entered_
  /\ entered_' = TRUE
  /\ \E heard \in Heard(plugged, GlobalReset(at)) :
       Discovered(scan_r3(<<>>, heard), GlobalReset(at))
  /\ UNCHANGED <<noisy, plugged, plugs, switches>>

leave_mode ==
  /\ entered_
  /\ switches < MaxSwitches
  /\ switches' = switches + 1
  /\ entered_' = FALSE
  /\ devices_' = <<>>
  /\ UNCHANGED <<noisy, plugged, at, plugs>>

\* poll() finds a rescan due while a device works: no reset, no relocation.
light_rescan ==
  /\ entered_
  /\ has_working_devices(devices_)
  /\ \E heard \in Heard(plugged, at) :
       devices_' = try_keyboard_default(scan_r3(devices_, heard))
  /\ UNCHANGED <<noisy, plugged, at, entered_, plugs, switches>>

\* The same while none works.
rescan_bus ==
  /\ entered_
  /\ ~has_working_devices(devices_)
  /\ \E heard \in Heard(plugged, GlobalReset(at)) :
       Discovered(scan_r3(devices_, heard), GlobalReset(at))
  /\ UNCHANGED <<noisy, plugged, entered_, plugs, switches>>

Dropped(slot) == ~slot.ever_responded /\ slot.poll_attempts + 1 >= kProbePollAttempts

Count(n) == IF n < kProbePollAttempts THEN n + 1 ELSE n

\* What the outcome of Talk 0 does to its slot: silence counts as an answer.
PolledSlot(slot, outcome) ==
  IF outcome = "error"
  THEN [slot EXCEPT !.poll_attempts = Count(@), !.active = ~Dropped(slot)]
  ELSE [slot EXCEPT !.poll_attempts = 0, !.ever_responded = TRUE]

\* poll_device_slot of a slot that is due
poll_device_slot(i) ==
  /\ entered_
  /\ devices_[i].active
  /\ \E outcome \in Talk0(Present(plugged, at, devices_[i].addr)) :
       devices_' = [devices_ EXCEPT ![i] = PolledSlot(@, outcome)]
  /\ UNCHANGED <<noisy, plugged, at, entered_, plugs, switches>>

\* The user plugs a device in, or out: it comes up at its own address.
Plug(d) ==
  /\ plugs < MaxPlugs
  /\ plugs' = plugs + 1
  /\ plugged' = IF d \in plugged THEN plugged \ {d} ELSE plugged \cup {d}
  /\ at' = [at EXCEPT ![d] = Home[d]]
  /\ UNCHANGED <<noisy, entered_, devices_, switches>>

Rescan == light_rescan \/ rescan_bus
Poll == on_enter_mode \/ Rescan \/ \E i \in Indices(devices_) : poll_device_slot(i)

Next == Poll \/ leave_mode \/ \E d \in Device : Plug(d)

Spec == Init /\ [][Next]_vars

(* ----------------------------- properties ------------------------------ *)

TypeOK ==
  /\ noisy \in Noise
  /\ plugged \subseteq Device /\ at \in [Device -> Address]
  /\ entered_ \in BOOLEAN
  /\ devices_ \in Seq([addr : kScanAddrs, active : BOOLEAN,
                       poll_attempts : 0 .. kProbePollAttempts, ever_responded : BOOLEAN])
  /\ Len(devices_) <= kMaxDevices

\* Through scans, relocation, drops and hot plugging no address has two slots:
\* the table cannot fill with copies, and no device is polled twice.
OneSlotPerAddress ==
  \A i, j \in Indices(devices_) : devices_[i].addr = devices_[j].addr => i = j

\* The addresses a slot may be for: the default keyboard's, those of relocation
\* and those of the devices that answer Talk 3.
Places == ({2, 14, 15} \cup {Home[d] : d \in Answers3}) \cap kScanAddrs

\* After the enumeration and after each rescan an active slot polls a keyboard
\* address, whatever has answered and been dropped: a keyboard that never answers
\* Talk 3 is found all the same.  (A slot that is dropped keeps its address for
\* good: on a noisy bus with more places than slots they may all be taken.)
KeyboardPolled ==
  [][(noisy => Cardinality(Places) <= kMaxDevices) /\ entered_'
       /\ ~has_device_kind(devices_', "keyboard") => ~(on_enter_mode \/ Rescan)]_vars

\* On a bus without noise a pointing device that answers at 3 stays there,
\* whatever enumerations and rescans relocate: it "must not receive Mac-style
\* relocation" (adb_host.cpp:489).
DirectDeviceStays == ~noisy => \A d \in Answers3 : Home[d] = 3 => at[d] = 3

\* On a bus without noise the next scan finds every pointing device that answers
\* Talk 3, wherever earlier relocations have put it: no phantom, dropped or
\* relocated slot takes the room it needs in the table.
AnsweringDeviceFound ==
  entered_ /\ ~noisy =>
    \A heard \in Heard(plugged, at) : \A d \in plugged \cap Answers3 :
      Home[d] \in PointingAddress => has_device_at(scan_r3(devices_, heard), at[d])

\* The table is as above, and a pointing device that answers is left at its
\* address and has its slot.
TableKept == TypeOK /\ OneSlotPerAddress /\ DirectDeviceStays /\ AnsweringDeviceFound
=============================================================================
