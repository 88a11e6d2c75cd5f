# UltraUSBT Apple ADB adapter: a TLA+ verification project

The firmware in `src/src/firmware` (called *the firmware* below) runs on an
RP2040 or RP2350.  It is an adapter between USB or Bluetooth keyboards, mice and
gamepads on one side and the Apple Desktop Bus on the other, in either of two
modes:

- **device mode** — the adapter *is* an ADB keyboard and an ADB mouse; it hosts
  USB and Bluetooth devices and answers a Macintosh or an Apple IIgs;
- **host mode** — the adapter is the ADB *host*; it polls real ADB keyboards and
  mice and shows itself to a modern computer as a USB keyboard and mouse.

Two cores share the work without an operating system.  Core 0 runs the loop of
`quokkadb.cpp`: buttons and OLED, the ADB bus, the Bluetooth stack, the packing
of events into ADB registers.  Core 1 runs the USB stack (`core1_main`) and the
callbacks of TinyUSB.  They meet in plain variables, one mutex-protected queue,
a ring, a pause protocol and the flash lock-out.  That is where this project
looks: one core between two statements of the other, a command or a callback in
an order nobody tried, a reset in the middle of a retry.

Contents: [Inventory](#inventory) · [Modules and the code](#modules-and-the-code) ·
[Runs](#runs) · [Bounds](#bounds-and-why-they-are-enough) · [Fairness](#fairness) ·
[Proofs](#proofs) · [Known deviations](#known-deviations) ·
[Not modelled](#what-is-not-modelled) · [Plan](#plan) ·
[Running the checks](#running-the-checks)

## Inventory

Paths are relative to the firmware.

| Component (files) | State it keeps | Operations | Talks to |
|---|---|---|---|
| **Event queue** `lib/usb/include/scqueue.{h,tpp}` | ring, `first_`, `last_`, `is_empty_`, hardware mutex | `enqueue`, `dequeue`, `peek`, `isEmpty` | both cores |
| **ADB device** `lib/adb/src/adb.cpp`, `src/adb_hub.c`, loop of `quokkadb.cpp` | two addresses, handler, skip and collision flags, latched registers 0, pending and service-request flags, reset flags | capture, one command (Talk, Listen, Flush, resets), apply a reset | host on the bus; parsers; core 1 (`usb_reset`); Bluetooth (deferral) |
| **Keyboard pipeline** `platformkbdparser.cpp`, `usbkbdparser.cpp`, `adbkbdparser.cpp` | previous report, Caps state, queue of events, the register being packed | parse a report slot by slot, enqueue, pack two events, ghost typing, drain on reset | USB callbacks (core 1), Bluetooth bridge (core 0), ADB device |
| **Mouse pipeline** `usbmouseparser.cpp`, `platformmouseparser.cpp`, `adbmouseparser.cpp` | movement owed, buttons, change mark, Ctrl of a Ctrl-click | accumulate, replace, button edges, read and clear | as above |
| **Bluetooth platform** `src/bluepad32_platform.c`, `src/bt_host_coop.c` | slots per kind, names told before a link, links being set up, settle deadline, pause depth, phase, watchdog | discovered, connected, ready, data, disconnected; pause, resume, force release, watchdog tick | BTstack; core 1; ADB reset |
| **Bluetooth bridge** `bt_hid_bridge.cpp` | button latches, previous buttons, stick and gamepad counts | merge keyboards and gamepad; merge mice and gamepad | platform slots; both parsers |
| **ADB host** `lib/adb/src/adb_host.cpp` | table of poll targets with attempts and *ever responded*, relocation ghosts | enter, leave, scan, relocate, poll, drop, rescan | ADB devices; USB HID device |
| **USB HID device** `src/usb_hid_device.c`, `src/adb_to_usb.cpp` | ring of keyboard reports, mouse cell, Caps pulse, keys held | translate a register (core 0); send (core 1) | modern computer |
| **Mode and settings** `src/adb_mode.cpp`, `flashsettings.cpp`, `display.c` | mode, pending mode, sync flag, one flash page | choose, save, apply, restart the USB stack, boot | both cores |
| **Screens and device map** `src/display/display.c`, `src/usb_device_map.c` | current screen, what was drawn last, counts and names | buttons, hold, redraw on a change, mount and unmount callbacks | mode, Bluetooth counts, ADB status |
| **Lock LEDs** `platformkbdparser.cpp`, `usbhost.cpp`, `usbkbdparser.cpp`, `adbkbdparser.cpp` | the LEDs wanted, the list of keyboards, one LED buffer, flags of register 2 | lock keys, Listen 2, a round of Set_Reports, new keyboards | host on the bus; USB keyboards |
| **Caps Lock in host mode** `adb_host.cpp`, `src/adb_to_usb.cpp`, `src/usb_hid_device.c` | the LEDs the computer reported, those last written, the pulse | Talk 2 and pulse (core 0 asks, core 1 sends), LED report to Listen 2 (core 1) | ADB keyboard; modern computer |
| **ADB line** `adb_platform.cpp`, `adb.h`, `adb.cpp`, `adb_host.cpp`; `src/src/adbmon` | levels and times, bits received, collision flag | send and receive a command or a register, on either side; the collision interrupt; the monitor's decoder | the wire |
| **Key codes** `usbtoadb.cpp`, `usb_hid_keys.h`, `char2usbkeycode.cpp`, `src/adb_to_usb.cpp` | tables; what each host takes for held | usage to ADB code and back, keys queued twice, typed messages | both pipelines |
| GPIO set-up, OLED driver, serial debug | – | – | (not modelled, see below) |

What makes each of them correct, and what is hard about it:

- **Queue.** Between `last_` moving and the slot being written the ring is
  inconsistent; only the mutex hides it.  Every early return must release it.
  *A bounded FIFO, and no path keeps the mutex.*
- **ADB device.** A transmission may collide at any time, and the report must be
  sent again, once.  Which Listen 3 the loser of a collision skips depends on
  flags that several commands and the reset change.  The reset may be put off by
  Bluetooth.  *Reports in order, none lost or sent twice; a service request
  exactly when something waits, and then it is served; addresses only from the
  host; a reset takes effect.*
- **Keyboard pipeline.** Two cores run the same parser; core 1 empties the queue
  on a reset while core 0 packs; ghost typing waits for the queue.  *Events are
  packed once and in order; the host ends with the keys that are held; Caps Lock
  agrees with the LED; the typing ends.*
- **Mouse pipeline.** Unlocked read, modify and clear of one delta by two cores;
  saturation; three buttons on one ADB bit and Ctrl.  *Movement is not turned
  round; a button change reaches the host; nothing stays down.*
- **Bluetooth platform.** Callbacks of several devices interleave; one counter
  and one deadline serve all.  *A slot is held exactly by a link; links being set
  up are counted once; the deferral ends; a paused core stays paused; no slot
  shows another device's name.*
- **Bridge.** Devices merge into one report, latches outlive reports.  *No button
  or key is dropped by another device, none stays behind.*
- **ADB host.** What is known of a device is what it last answered on a noisy
  bus.  *One slot per address, a keyboard is always polled, a device that
  answers is found and left where it is.*
- **USB HID device.** A ring without a lock between the cores; the computer may
  come at any time.  *Every report arrives once and in order; the computer ends with
  what is held.*
- **Mode.** A save is erase and program with the other core locked out; the power
  may fail; the USB stack is restarted by the other core.  *Banner, bus and flash
  agree; a boot takes the choice; the stack follows; saves return.*
- **Screens.** A picture is redrawn only when a comparison says so.  *The buttons
  act on the picture shown; the picture becomes right.*
- **Lock LEDs.** One buffer and one position serve all keyboards, while LEDs change
  on both cores and keyboards come and go.  *Rounds end, reports do not overlap,
  LEDs arrive, register 2 shows them.*
- **Caps Lock in host mode.** Both ends lock the key, and both cores write what they
  last saw, on one bus.  *No press is undone; the ends agree.*
- **ADB line.** Lengths of a few microseconds tell a bit, a command, a register, a
  request and a reset apart, while delays are random and edges are seen late.  *What
  is sent is received, a collision is noticed by the loser, every wait ends.*
- **Key codes.** Three tables written by hand, with keys that share a code.  *Both
  hosts hold what is held, and nothing when nothing is held; messages read right.*

## Modules and the code

One module per component.  Actions carry the names of the functions they stand
for where TLA+ allows it; `PROJECT.json` maps each definition to its lines.  A
step is one function when one core alone touches its state, and one statement, or
one access to a shared variable, where the other core can come in between.

| Module | Component | Grain of a step |
|---|---|---|
| `BoundedFifo` | abstract: what a queue promises | one operation |
| `SCQueue` | event queue | statements under the mutex; implements `BoundedFifo` |
| `SCQueueProofs`, `BtNamesProofs` | theorems about the module each is named after | – |
| `TypingProofs`, `HostModeProofs`, `PointingProofs`, `PanelProofs`, `LockKeysProofs` | theorems about both components of the MC module each is named after | – |
| `AdbDevice` | ADB device | one command; capture and reset are passes of the loop |
| `ReportLatch` | abstract: what a register 0 that waits promises | one report |
| `AdbDeviceProofs` | theorems about `AdbDevice` | – |
| `KeyPipeline` | keyboard pipeline | one slot of a report, one queue operation |
| `MousePipeline` | mouse pipeline | one access to the delta or to a flag |
| `BtPlatform` | Bluetooth platform and pause of core 1 | a callback (core 0); one access to a pause variable (core 1) |
| `BtNames` | names of Bluetooth devices; extends `BtPlatform` | a callback |
| `BtHidBridge` | Bluetooth bridge | a callback or a whole pass (all on core 0) |
| `AdbHost` | ADB host | one poll, scan or rescan |
| `UsbHidDevice` | USB HID device | one access to head, tail or slot of the ring |
| `AdbMode` | mode and settings | one store; erase and program apart |
| `Screens` | OLED screens and device map | one store of core 1; one `display_` call of core 0 |
| `UsbLeds` | lock LEDs and register 2 | one access to a shared variable; one entry of the list |
| `CapsSync` | Caps Lock in host mode | one access to a shared variable; one transaction |
| `AdbWire` | ADB line, both sides and `adbmon` | one edge, one time-out |
| `KeyTables` | the tables `KeyCodes` uses, as constants | – |
| `KeyCodes` | key codes and characters | a key, a message |
| `MCAdbDevice`, `MCBtPlatform` | constants of one component for TLC | – |
| `MCServing` | `SCQueue` and `AdbDevice`, with the host's fairness | – |
| `MCTyping` | `KeyCodes` and `KeyPipeline` | – |
| `MCHostMode` | `UsbHidDevice` and `AdbHost` | – |
| `MCPointing` | `MousePipeline` and `BtHidBridge` | – |
| `MCPanel` | `AdbMode` and `Screens` | – |
| `MCLockKeys` | `CapsSync` and `UsbLeds` | – |
| `MCBluetooth` | `BtPlatform` and `BtNames` | – |
| `MCAdbWire` | two scenes of `AdbWire` | – |

An MC module with two components checks both in one run.  It extends one of them and
instantiates the other, whose constants are its own CONSTANTS; a rigid variable `part` (or `scene`) says
which of the two a behaviour is about, and the other rests in one initial state (`Resting`, one workload chosen for it).  The
two share no variable, so this adds no interleaving and no assumption: the behaviours
are those of either component, and a property of one is a property of the run.  A
component's fairness is stated for the behaviours it runs in, and a liveness property
that could fail while its component rests says so (`part = "leds" => …`).  Assumptions
about the constants of an instantiated component are assumed in the MC module by name
(`AdbAssumed`, `LedsAssumed`, `ScreensAssumed`, `BusAssumed`, `BridgeAssumed`), where TLC evaluates them and
the proofs cite them.

Notes that a reader of code and model side by side will want:

- **SCQueue.** Clients call any operation at any time.  `Span`, `Ring` and
  `Contents` are the refinement mapping: the FIFO's contents are what lies
  between the indices, with an operation counted when it releases the mutex.
  `KeyPipeline` treats queue operations as atomic *because* of this refinement.
- **AdbDevice.** The content of a register is the number of the report.  A
  command names one address; each device at the address takes part, and each
  answer may collide or not (`\E clear \in SUBSET Device`).  Bit timing becomes
  the outcome of `ReceiveCommand`.  Talk 2 changes no state.  A Listen register 2
  that failed passes its error code to `adb_set_leds` unchecked; the model keeps
  this visible as a value of `leds`.  When both devices share an address the
  mouse consumes the payload of a Listen.  `LinkForms` happens before a capture
  only, which is where `bluepad32_poll()` runs.  Nothing sets
  `kbdskip`, so `kbskiptimer` stays 0 and the branch on it can only be taken in
  the first 90 ms after boot; both are left out.
- **KeyPipeline.** `Workload` lists what the keyboards may send.  A null or
  freed event that is dereferenced yields an arbitrary register (`Garbage`).
  Register 2 is in `UsbLeds`.  `lost` remembers the keys whose latest event met a
  full queue: `NoStuckKey` says that all others are right at the host.  It is stated
  for a single core typing; what it excludes is a deviation below.  The keys of `Doubled`
  are queued twice when pressed and when released (`USB_KEY_PAUSE` and F15 in the code, `"pause"` in
  the run); the power key stands for those of ADB code 0x7F, which are queued once and
  packed as two codes.
- **ReportLatch.** The latch between the parsers and the bus (`kbdpending` with the
  register, and the mouse's), stated once.  `AdbDevice` implements it with a mapping
  for each device (`ImplementsLatches`), and
  `KeyPipeline`, which models of the bus only that the host reads, with another
  (`ImplementsLatch`): so the two modules fit together.
- **MousePipeline.** One axis with the code's saturation and halving; a register holds
  `-Reach..Reach-1` (64 in the code), a delta twice that, as the code's seven and eight bits do.
  The static `mouse_info` of `Parse` is one variable for both cores: it is filled in two
  steps (buttons, movement), and each later test, addition and store reads it again, after whatever the other
  core has put there.  The parts of the addition to the delta are steps too.  A test for an edge
  and what it stores in the flag is one step, the mark is the next.  The three buttons
  of a report are stored at once.  Ctrl is the last
  event given to the keyboard parser; a bus reset is one step.
- **BtPlatform.** Time is counted modulo `Clock`, and every comparison is the
  sign of a wrapped difference as in the code.  "No deadline" is a value of its
  own (the code uses 0).  A pass of the loop takes at most one tick.  `__wfe`
  wakes from outside.  `unforeseen` remembers that a keyboard or a mouse reported before
  `device_ready`, or that a device that is ready found no slot: its end is then counted
  wrongly (a deviation below), and `LinksCounted` says nothing more.
- **BtNames.** Each callback of `BtPlatform` with what it does to names; all its other
  steps leave names alone (`Unnamed`).  A name is known by the device it belongs to.
  `uni_hid_device_has_name()` is a constant of the device (`Own`).
- **BtHidBridge.** Callbacks and `process_bluepad32_devices` are atomic: all of
  them run on core 0.  The loops that merge keys, one by one where there is room, are folds over
  the lists of keys.  A movement is only known by its source.  Modifiers and the
  wheel are left out.
- **AdbHost.** A transaction is its outcome; `heard` is the set of addresses whose
  Talk 3 answer came through, on a bus that is quiet or noisy for a whole
  behaviour.  Intervals of time are left out: a poll or a rescan may come next at
  any time.  `kMaxPointing` equals the number of pointing addresses, so its limit
  is that of the table.  A tablet at 4..7 is classified by its address, as the
  code does.
- **UsbHidDevice.** The computer comes at any time.  `lost` remembers what an overflow
  of the ring costs: `"unread"` reports when no computer is there, any report when both
  cores move the tail (`"raced"`, a deviation below).  Stores become visible in program order.  Movement itself is
  not counted.  The computer does not unplug the adapter.  The power key's 0x7F7F
  and 0xFFFF are among the registers; keys and Caps Lock pulses are compared
  separately (see the deviations).
- **AdbMode.** A page torn by a loss of power reads as erased.  Button presses
  are debounced.  The LED is the only other saved setting, toggled on core 1.
  The lock-out handshake of the SDK is atomic.
- **UsbLeds.** One LED stands for the three; `Lock` says which.  The keyboard gets
  what the buffer holds when the data stage runs, as TinyUSB keeps the pointer.  A
  transfer may fail, refused at once or in its callback (which ignores the length), and that of a keyboard
  pulled out in the middle is dropped without a callback: TinyUSB is not in the repository, and this
  is the worst it may do.  `hurried` remembers whether the last round was asked for
  in the middle of another, or had a transfer that did not succeed; `LastRoundShown` speaks of the rest, with the LEDs set
  at any time before.  Of the event queue only the length matters.
- **CapsSync.** `last_usb_leds_`, `s_host_leds` and the pulse phase are stepped
  through access by access.  A transaction that overlaps one of the other core
  yields any answer.  The keyboard locks Caps Lock itself and reads it out in
  register 2.
- **AdbWire.** Real lengths in microseconds; time passes from event to event.  A
  sender follows a plan of levels, a listener is in a stage with the window the code
  gives it.  `Jitter` prolongs a delay, `Late` an edge.  Addresses and registers are
  shorter than on the wire (the loops over bits do not depend on the number), the
  devices do not interpret what they receive, and after a transaction all wait for
  the next one.  In the scene `apart` one device may stretch any stop bit, and the
  random delay of the host's register covers its range (`Limits`): `ListenHeard` and
  `MonitorFollows` say that a register is received, or dropped as a whole when its sender began too late or a stop
  bit was stretched (`MayBeDropped`, deviation 21), and that nothing else is taken for it.  The scene
  `together` has the collisions; its two delays differ by 25 µs, so the device that begins
  later collides while it still waits, and edges in each phase of a bit are not compared.
- **KeyCodes.** The tables as functions, with the codes of the source; what they have in
  common is an assumption that TLC evaluates and the proof uses (`KeyAssumption`).  The
  consumers (what a Macintosh takes for held, the report of the second adapter) as
  sets.  Events arrive at once and in order: the queue, the packing and the ring are
  other modules'.  `SetHandler` is taken while no right-hand modifier is held.
- **Screens.** A name is present or not, the addresses are one value, there are
  Bluetooth keyboards only.  The gamepad entries of the map are never written by
  any code and are left out; plug events come in device mode; the suffixes for
  service requests and collisions are not compared by the redraw and are left
  out.  The deletion that ends a hold is in `BtPlatform` (`DeletePairingKeys`).

Several models have a *rigid* variable (`workload`, `noisy`, `limit`): it is
chosen in `Init` and never changes, so one run covers several situations, each
with bounds that suit it.

## Runs

Every property of a passing run is broken by a mutant, a definition with a
plausible bug (listed in `PROJECT.json`), so none of them holds by the shape of
the model.

| Run | Module / cfg | Properties | Shows |
|---|---|---|---|
| `serving` | `MCServing` / `MCServing` | `TypeOK`, `ImplementsFifo`, `MutexReleased`; `NothingWaits` | two cores, any calls, a ring of three: a bounded FIFO, the mutex always released; a report that waits is read although the host polls only on a service request, and resets are applied |
| `adb_bus` | `MCAdbDevice` / `MCAdbBus` | `ReportsKept`, `AddressesMeant`, `LoserStays`, `ResetNotLost`, `ImplementsLatches` | reports, collisions, enumeration, resets and deferred resets together |
| `wire` | `MCAdbWire` / `MCAdbWire` | `CommandsHeard`, `ListenHeard`, `AnswersHeard`, `MonitorFollows`, `TransactionEnds` | Talks, Listens and resets reach two devices, one of which requests service, and `adbmon`, with short and long random delays; two devices that answer one Talk, either may be unplugged |
| `typing` | `MCTyping` / `MCTyping` | `QueueKept`, `KeysSettle`, `GhostTypingEnds`, `ImplementsLatch`; `CodesAgree` | USB typing, Bluetooth typing, ghost typing, both with a reset; all pairs of keys, seven keys, messages, changes of handler |
| `host_mode` | `MCHostMode` / `MCHostMode` | `TableKept`, `KeyboardPolled`; `Inv`, `EveryReportArrives`, `EverythingSent` | the poll table under plugging, noise, re-entry; reports cross from core 0 to core 1, with a computer that comes at any time and a ring that overflows |
| `pointing` | `MCPointing` / `MCPointing` | `InputsKept`, `ButtonsFollowMovement`; `DragHolds`, `HeldSettles` | two mice and a stick against reads of core 0; keyboards, mice and a gamepad that overlap |
| `panel` | `MCPanel` / `MCPanel` | `PanelAgrees`, `BootRestoresChoice`, `StackFollows`; `PictureSettles` | mode switches, saves of both cores, losses of power; redraws against device callbacks and buttons |
| `lock_keys` | `MCLockKeys` / `MCLockKeys` | `LedsKept`, `LedsSettle`; `CapsKept`, `CapsSettle` | LED rounds against lock keys, Listen 2, resets, plugging, transfers that fail or are dropped; Caps Lock pressed on both ends, both cores on the bus |
| `leds_caps` | `MCLockKeys` / `MCLockKeysCaps` | `Reg2ShowsLed` — **violated** | with Caps Lock the flag of register 2 is the wrong way round |
| `leds_toggled` | `MCLockKeys` / `MCLockKeysToggle` | `TogglesShown` — **violated** | a lock key pressed in the middle of a round: a keyboard keeps the old LED |
| `bluetooth` | `MCBluetooth` / `MCBluetooth` | `TablesKept`, `SlotsKept`, `LinksCounted`, `ResetsGoOn` | links come and go during pauses of core 1 and a deletion of pairings; names announced, taken over and forgotten |
| `bt_stale_phase` | `MCBtPlatform` / `MCBtStalePhase` | `PausedCoreStaysOut` — **violated** | core 0 believes a pause that core 1 has not taken |

Most properties are conjunctions of named parts, stated and explained where the
component is:

| Property | Parts |
|---|---|
| `ReportsKept` | `TypeOK`, `NoIdleServiceRequest`, `KeyReportsInOrder`, `PendingReportIsFresh` |
| `AddressesMeant` | `MovedByHost`, `HubLeavesDefault` |
| `ImplementsLatches` | `ImplementsKeyLatch`, `ImplementsMouseLatch` |
| `NothingWaits` | `ReportsServed`, `ResetApplied` |
| `CommandsHeard` | `TypeOK`, `CommandsUnderstood` of `AdbWire` |
| `AnswersHeard` | `SentIsHeard`, `NothingInvented`, `OneGetsThrough`, `CollisionNoticed` |
| `QueueKept` | `TypeOK`, `PackedInOrder` of `KeyPipeline` |
| `KeysSettle` | `NoStuckKey`, `CapsLockFollowsLed` |
| `CodesAgree` | `TypeOK`, `HostHoldsKeys`, `PcHoldsKeys`, `NothingStuck`, `MessageReads` of `KeyCodes` |
| `Inv` (of `UsbHidDevice`) | `TypeOK`, `PcFollowsDevices`: when everything is sent the computer holds what is held |
| `TableKept` | `TypeOK`, `OneSlotPerAddress`, `DirectDeviceStays`, `AnsweringDeviceFound` of `AdbHost` |
| `InputsKept` | `TypeOK`, `DirectionKept`, `ReleasedWithTheMouse` of `MousePipeline`; `TypeOK`, `KeyboardKeysHaveRoom` of `BtHidBridge` |
| `HeldSettles` | `KeysSettle`, `ButtonsSettle` of `BtHidBridge` |
| `PanelAgrees` | `TypeOK`, `BannerShowsMode` of `AdbMode`; `TypeOK`, `ButtonsActOnPicture` of `Screens` |
| `StackFollows` | `StackFollowsMode`, `SavesEnd` |
| `PictureSettles` | `CountsShown`, `StatusShown` |
| `LedsKept`, `LedsSettle` | `TypeOK`, `OneAtATime`, `Reg2ShowsLed`; `RoundsEnd`, `LastRoundShown` |
| `CapsKept`, `CapsSettle` | `TypeOK`, `OwnCapsFollowsUsers`; `PulseEnds`, `KeyboardIsFollowed`, `CapsSettles` |
| `TablesKept`, `SlotsKept` | `TypeOK`, `NamesTypeOK`, `LookupFindsNewest`; `SlotsFollowLinks`, `SlotNamesItsDevice` |
| `ResetsGoOn` | `DeferralEnds` |

`CHECK_DEADLOCK` is left on everywhere but in the runs of `MCLockKeys`: with `UsbLeds`
nothing more is to be done once the bounded events are over and the LEDs are set.

## Bounds and why they are enough

| Run | Bounds | Why |
|---|---|---|
| `serving`, queue | 2 cores, 2 items, capacity 3 | wraps around, fills and empties in every phase; nothing in the code depends on the capacity but the wrap |
| `serving`, reports | 1 report of each kind, 1 link | liveness of one report is that of each |
| `adb_bus` | addresses 2, 3, 5 in commands, 5 assigned, 9 random; 2 keyboard and 1 mouse report; 1 link | a second report after a collided one; both default addresses, one to move both devices to, hub slots 4..7 by the code; the theorems cover all others |
| `typing`, pipeline | 2 slots, 2 reports of a core (or 1 of each and 1 reset; 3 for a key that is queued twice), queue of 3 | two reports show every change of a slot, rollover and exchange; the queue fills, also between the two events of one key |
| `bluetooth`, pauses | keyboard with a touch pad and a controller, one slot of each kind, 2 links, 1 deletion, clock of 4 | both links overlap in every way; a clock of 4 wraps with each settle time |
| `bluetooth`, names | a keyboard with a touch pad, a mouse, a bystander; 1 slot of each kind; a table of 2; 4 names announced, 3 links | the table fills, an address gets two entries, each slot passes from one device to the other |
| `bt_stale_phase` | one controller, 3 links | the second pause needs a phase left by the first |
| `host_mode`, reports | ring of 3 and one key slot; 4 key events, or 2 with a Caps Lock pulse and a mouse register, or 1 with a pulse and 2 registers; the computer comes at any time | overflow with and without a computer, and wrap; a second key finds no slot; the theorems cover any ring and any workload |
| `host_mode`, bus | mouse, tablet, trackball; table of 5, 2 polls before a drop, 2 plugs, 1 re-entry | one device of each reaction to Talk 3 and to relocation |
| `pointing`, mouse | `Reach` = 2: deltas of -4..3, registers of -2..1; a mouse on each core in the workloads of `DirectionKept`, one otherwise | saturation, halving and sign with two reports; one core's report overwrites the other's at each step |
| `pointing`, bridge | 2 slots, 3 or 4 connections and pauses | more keys than slots; a device leaves and returns |
| `panel`, mode | 3 presses, 2 losses, 1 LED toggle | there, back and there again, with a loss in each |
| `panel`, screens | 3 plug events with 2 presses, or 6 presses; 1 change of a bus | every screen is reached with 4 presses, a hold and a choice follow |
| `lock_keys`, LEDs | 2 keyboards, 3 entries; 7 mixes of up to 2 presses, 1 Listen, 3 plugs, 1 reset, with or without failures and dropped transfers, at any point of a round | an entry before, at and after the position; a keyboard that returns; a keyboard left when another's transfer is dropped |
| `leds_toggled` | the same keyboards and entries; 1 plug and 2 presses on one core, nothing fails | a round of two or more steps and a press in it |
| `lock_keys`, Caps | 1 press on each end with 1 failure at any time; 3 presses at rest | on, off and on again; each pair of events overlaps in every way |
| `wire` | 2 devices, addresses of 2 bits, registers of 3, delays prolonged by 0 or 5 µs, edges seen 3 µs late (0 where two senders compete); random delays at both ends of their range, for the host's register also 73, 74, 83 and 84 µs; for the collision two delays that differ by 25 µs | a first, a middle and a last bit, 0 and 1 in each place; registers that differ in each bit; just inside and just outside the 260 µs a receiver waits for a register, with the least and the most jitter. Lengths near 1040 and 2800 µs, which nothing sends, are not driven |
| `typing`, codes | every pair of keys the tables know and of 4 they do not, 7 keys at once, the combination for messages; each character a message | two keys show every sharing of codes; a report holds six |

## Fairness

- The loops of both cores go on: weak fairness of each core's steps.  There is no
  scheduler and no blocking call that the models do not show.
- `SCQueue`: an operation that holds the mutex runs to its end; waiting for the
  mutex is not assumed to succeed.
- `AdbDevice`: weak fairness of core 0 and of the links settling.  The host is
  taken as the documents describe it: it goes on polling, of other devices too
  (`HostPolls`), and after a stretched stop bit asks each address in turn
  (`HostServes`), and not every answer collides; as these steps need a pass of the
  loop each, fairness is strong.
- `KeyPipeline`, `MousePipeline`: the host reads a register again and again
  (strong, as other commands come in between).  `MCPointing` adds a USB mouse
  that keeps moving (`Moves`); a change of a button without further movement may be lost
  (see the hazards).
- `BtPlatform`: time passes, the watchdog is looked at, and a connected link
  becomes ready or drops out.
- `UsbHidDevice`: the computer enumerates the adapter and polls its endpoint.
- `BtHidBridge`: keyboards that are connected go on reporting.
- `AdbMode`: the power comes back.
- `AdbHost`: none; no liveness property is stated, as the intervals are not modelled.
- `UsbLeds`: both cores go on, transfers that are on their way end, well or with an error, and events are packed (strong, as these
  alternate with others).
- `CapsSync`: both cores go on, the computer takes reports and reports its LEDs;
  register 2 is read again and again (strong: not after every Talk 0).
- `AdbWire`: time passes while a transaction is under way.

## Proofs

Eight modules prove theorems for **every** value of the constants, of which the runs try
one or a few.  Nothing is assumed but what the component assumes of its constants, and in
one place of its tables, which TLC evaluates in the runs:

| Module | Holds for every | Assumption |
|---|---|---|
| `AdbDeviceProofs` | set of addresses, outcomes of `rand()`, mix of commands, hub mode or not, number of reports and links | `AdbAssumption`: the constants are of their types, `rand()` has an outcome |
| `SCQueueProofs` | capacity, set of clients and of items | `QueueAssumption`: a capacity of at least 1, null is no item |
| `TypingProofs` | set of keys, those queued twice among them, and order of modifiers, number of slots, capacity, message, reports from either core and number of resets; sets of usages a user may press, messages | `PipelineAssumption`: no key is a modifier, Caps Lock and the power key have codes and are not queued twice; `CodesAssumed`: what the code tables have in common (see there) |
| `HostModeProofs` | size of the ring and of a report, set of keys and buttons, workload; set of devices, where each comes up and what it is, size of the poll table, polls before a drop, noise or not | `HidAssumption`: a ring of at least 2; `BusAssumed`: at least four slots, a home for each device |
| `PointingProofs` | range of a delta, mice on either core; number of keyboards and slots, keys, devices and events | `MouseAssumption`: a range of at least 1; `BridgeAssumed`: at least one keyboard and one slot, no report longer than a report |
| `PanelProofs` | number of presses, losses of power and toggles of the LED; set of devices, length of a hold, number of changes | `ModeAssumption`: the bounds are numbers; `ScreensAssumed`: finite sets, a hold of at least a second |
| `BtNamesProofs` | set of devices of any kind, number of slots, size of the table, settle times and clock, names and announcements | `PlatformAssumption`, `NamesAssumption`: at least one slot of each kind and one entry |
| `LockKeysProofs` | number of presses on either end and of failed transactions; set of keyboards, entries of the list, workload | `CapsAssumption`: the bounds are numbers; `LedsAssumed`: at least one entry, and no more keyboards than entries |

Each proof has the same shape: lemmas about the operators, an inductive invariant with a
name for each part, a lemma that the initial states satisfy it, a lemma for each action
(or for a group of actions that leave the same part alone), and theorems that combine
them by temporal reasoning.  Each invariant was checked with TLC on the instance of the
component's run before it was proved.  Where a module proves about two components, the
invariant of each is kept by its own steps and by the other's, which leave its variables
alone.

### The queue (`SCQueueProofs`)

| Theorem | States | Argument |
|---|---|---|
| `TypeCorrect` | `[]TypeOK` | inductive by itself; `NextSlot` keeps indices in the ring |
| `OperationsAreSerial` | `[]Serial`: a client inside an operation holds the mutex | inductive by itself |
| `RingImplementsFifo` | `ImplementsFifo` | refinement: what lies between the indices is the FIFO's contents, and each operation takes effect when it gives the mutex back |

`RingInv` adds to types and `Serial` that the flag `is_empty_` is set only when the
indices meet (`EmptyMeets`) and that the item and the index an operation took are still
those of the slot it works on (`LocalsAgree`): between the move of an index and the
access to the slot the fields alone do not say what the queue contains.  Equal indices
mean full or empty, which only the flag tells apart; the lemmas on `Pos` and `Count` turn
this into the length of the FIFO.

### The ADB device (`AdbDeviceProofs`)

| Theorem | States | Argument |
|---|---|---|
| `TypeCorrect` | `[]TypeOK` | inductive by itself; `AddressFieldType` bounds what Talk 3 proposes |
| `ServiceRequestsAreMeant` | `[]NoIdleServiceRequest` | inductive with `TypeOK` |
| `StretchesAreMeant` | `StretchMeansReport` | action property, from the two above |
| `KeyReportsAreInOrder`, `PendingReportsAreFresh` | `[]KeyReportsInOrder`, `[]PendingReportIsFresh` | corollaries of `ReportInv` |
| `ReportsAreKept` | `[]ReportsKept` | the four above together |
| `AddressesComeFromHost`, `LosersStay` | `[]MovedByHost`, `LoserStays` | corollaries of `AddressInv` |
| `HubLeavesDefaultFree` | `[]HubLeavesDefault` | from the collision flag, command by command |
| `AddressesAreMeant` | `[]AddressesMeant` | the two about addresses together |
| `KeyboardIsALatch`, `MouseIsALatch` | `ImplementsKeyLatch`, `ImplementsMouseLatch` | refinement of `ReportLatch`: each step fills, empties or leaves the latch of the mapping |
| `DevicesAreLatches` | `ImplementsLatches` | both refinements together |
| `ResetsAreNotLost` | `ResetNotLost` | action property: only `ApplyReset` clears the flag |

The inductive invariants:

- `ReportInv` adds to the two properties that *a report that was sent had been
  captured* (`SentWasCaptured`).  Without it a capture could not be shown to take
  a number greater than all that were sent.
- `AddressInv` adds to `MovedByHost` that *a contested device will skip the next
  Listen* (`ContestIsRemembered`): between the collision and the Listen other
  commands come, and the flag must survive them.

Each is proved by one lemma for a step (`ReportStep`, `AddressStep`, …), with a case
for each action and lemmas of their own for the actions that disturb it
(`CaptureKeepsReports`, `Talk0KeepsReports`, `ResetKeepsReports`).  The refinements
rest on `LatchStep`: whatever command, capture or reset a step is, a latch is filled
when it was empty, emptied into what the host has heard, dropped (the mouse's, by a
reset) or kept with its report.  TLC checks all properties of the table but
`StretchMeansReport` on the small instance `adb_bus`.

### Typing: the keyboard pipeline (`TypingProofs`)

| Theorem | States | Argument |
|---|---|---|
| `TypeCorrect` | `[]TypeOK` | inductive by itself, with a lemma for each function of the parsers that finds events |
| `QueueIsKept` | `[]QueueKept` | `Numbered`: events wait in the order of their numbers, above the one packed last |
| `PackingGoesForward` | `packed` never decreases | the same invariant |
| `RegisterIsLatch` | `ImplementsLatch` | refinement of `ReportLatch`: `PackedWhenRead`, the register is packed only once it was read |
| `NoKeyStuck` | `[]KeysSettle` | `KeysInv` |

`KeysInv` is the argument for `NoKeyStuck`.  Its core, `EventsAccountFor`, says of each
key at any moment: *what the host will hold once it has read the register on its way and
all events queued and about to be queued is what the reports say, as far as they have been
compared.*  It is this that a full queue breaks for a key, and that the next event of the key
mends, wherever in the comparison of two reports the core is.  It holds whether a key is queued once or twice: the second event repeats the first.  It needs that nobody else
takes events from the packer before the first reset (`Undisturbed`), that the second place
of a register is free until it is filled (`RegisterKept`), and that a core without
keyboards does not parse (`Orderly`).  The proof showed that the power key has to be left
out: it sends two codes at once.

### Typing: the codes of keys (`TypingProofs`)

| Theorem | States | Argument |
|---|---|---|
| `CodesAlwaysAgree` | `[]CodesAgree`: `TypeOK`, `HostHoldsKeys`, `PcHoldsKeys`, `NothingStuck` and `MessageReads` of `KeyCodes` | `CodesInv` |

The run tries every pair of keys, two larger sets and messages of one character; the
theorem is about any sets of usages, pressed and released in any order with changes of
handler between, and any messages.  The tables themselves are not reasoned about but through
`KeyAssumption` (`CodesAssumed` in `MCTyping`), which TLC evaluates over the tables of the
code: keys of one code share it by intent (`CodesApart`), an inverse table leads from the code of a
key to that key or to one that shares it (`InverseFits`), and each character of a message has a key
that the Macintosh reads as its sign (`Readable`).  What is proved is that these facts are enough.

`CodesInv` says, apart from types, that neither end ever holds what no key holds
(`NothingElse`, unconditional: it is what leaves nothing stuck), that without a clash all that
is held is at the Macintosh and no two keys share a code (`MacFollows`), and that if nothing was
dropped all of it is at the PC and had room (`PcHasAll`; `Room` counts the entries of the report by the keys they come
from).  A release is where it could fail: `OnlyIts` shows that the code and the usage taken away belong
to no other key.  A message is a fold over its characters: `Calm` holds between two of them
(no modifier and no Caps Lock that the Macintosh would read with the next), `ForcedCalm` says that
the releases sent before it establish it, `TypesOne` that a keystroke keeps it and adds one
character, and `WrittenIs` is the induction over the message.

### Host mode: the USB HID device (`HostModeProofs`)

| Theorem | States | Argument |
|---|---|---|
| `PcFollows` | `[]Inv` | `HidInv` |
| `ReportsArrive` | `EveryReportArrives` | `HidInv`: what the endpoint has is the next number |

`HidInv` has a part for each thing on its way: keys not yet translated (`KeysFollow`:
the report holds what the keyboard held before the events still to come), buttons
(`ButtonsOnTheirWay`: unless the cell is dirty or about to be, its buttons are on their
way), and the ring, as long as the two cores have not both moved its tail (`Ends`, who may
move which end; `Numbered`, the slots that wait have consecutive numbers; `Delivered`, the
computer has the last one handed over or has it before it; `NewestIsCurrent`, the newest
report, in the ring, the endpoint or the computer, holds the keys of now).  That the ring
has one writer at each end is proved, not assumed: `lost = "raced"` is exactly where it
fails.

### Host mode: the ADB host (`HostModeProofs`)

| Theorem | States | Argument |
|---|---|---|
| `TableAlwaysKept` | `[]TableKept` | `HostInv` |
| `KeyboardIsPolled` | `KeyboardPolled` | `HostInv` |

`HostInv` says where a device may be (`Somewhere`: at home, 14 or 15, and a pointing
device at a pointing address), that slots are distinct and for such addresses only
(`Distinct`, `Known`), and that without noise nothing but the phantom of a relocation at 15 is
dropped and no second keyboard is added (`Kept`).  From the last part follows that there is room: three slots
at most before a missing pointing device is added (`RoomForPointing`) or the default keyboard
(`RoomForKeyboard`).  A device that answers at 3 stays there because the scan before
any relocation finds it (`Discovery`).  The attempt to prove `KeyboardPolled` without its
condition showed the full table of deviation 13.

### Pointing devices: the mouse register (`PointingProofs`)

| Theorem | States | Argument |
|---|---|---|
| `InputsAlwaysKept` | `[]InputsKept`: `DirectionKept`, `ReleasedWithTheMouse`, and the bridge's `KeyboardKeysHaveRoom` | `MouseInv`, `BridgeInv` |
| `DragsHold` | `DragHolds` | action property, from `BridgeInv` |

`MouseInv` has a part for each claim.  `ForwardOnly`: with mice that only move one way,
nothing on the way to the host points back, neither the shared `mouse_info`, nor the delta, nor the copies either core has
taken of it, whichever of the unlocked writes comes last.  `ButtonsFollow`, with one mouse: at each label of
the parser, what the buttons and the Ctrl of a Ctrl-click owe to what `mouse_info` holds and to
the report before; a release between the two tests of left and right is where a button could stay down.

### Pointing devices: the bridge (`PointingProofs`)

`BridgeInv` says that the keys parsed last had room in a report (`HeldHasRoom`) and
that those of the first keyboard are among them.  This is about the code's loops: keyboards
are merged one after the other, a key is added once and only while there is room.  The model
states them as folds, and the proof needs what a fold is for a list of any length.  `Induction` states
induction over the numbers with a set for the induction hypothesis (from `WFMin` of
`WellFoundedInduction`, which has no operator parameter), `FoldDefined` gives the sequence of
intermediate results of a fold, and `MergeFacts`, `FillFacts` and `PeekFacts` say of each loop that
the result is no longer than a report, loses nothing it started from, and, if it started empty, has all
keys of the first list.  `DragsHold` rests on the two latches: each is what its device holds.

### The panel: the mode (`PanelProofs`)

| Theorem | States | Argument |
|---|---|---|
| `ColdBootRestores` | `BootRestoresChoice` | `ModeInv` |
| `ModeShownIsModeRun` | `[]Inv`: types and `BannerShowsMode` | `ModeInv` |
| `SavesExclude` | the cores are never in one save together, and only the one that locked the other out writes | `OneSaves` |

`ModeInv` adds what holds in the middle of a save: *settings and flash, erased or not,
may be restored* (`Restorable`), and *core 0 saves the mode it does not run*
(`SavesTheOther`), without which the default mode a torn page stands for would not be
among those chosen; then the labels of core 0 at which settings and mode agree
(`RunsWhatIsSaved`) and at which the splash shows it (`SplashShowsMode`).

### The panel: the screens (`PanelProofs`)

| Theorem | States | Argument |
|---|---|---|
| `PanelAlwaysAgrees` | `[]PanelAgrees` | `ModeInv`, `OledInv` |
| `KeyboardsCounted` | after a callback the map has the number of keyboards that are connected | `OledInv` |
| `HashAppliesWhatIsMarked` | `#` on the menu applies what the OLED marks | action property, from `ButtonsOutsideHold` |

`OledInv` follows the stores of a callback while core 0 reads between them (`StoresMeant`: the
count is stored first and is that of the devices now connected; `MapCounts`: once it is stored the map agrees), and says that the
picture belongs to the screen the buttons act on.  The count is a cardinality, so each
mount and unmount changes it by one (`FiniteSetTheorems`).

### Bluetooth (`BtNamesProofs`)

The specification is `NamesSpec`, in which all steps of `BtPlatform` take part: both
cores, the pause and its watchdog, the clock, the deletion of pairings and every callback.

| Theorem | States | Argument |
|---|---|---|
| `SlotsFollowDevices` | `[]SlotsKept` | `SlotInv` |
| `LookupsFindNewest` | `[]TablesKept` | `TableInv`, `Typed` |
| `LinksAreCounted` | `[]LinksCounted` | `CountInv` |
| `ReadyDevicesHaveSlots` | `[]ReadyMeansSlot` | `CountInv` |

The parts of `NamesInv`: a free slot has no name and the name of a slot is its
device's or its class's even before it counts as connected (`SlotsNamed`), which the
disconnection and the next owner rely on; what waits in the table under an address is a
name of that device (`TableHolds`); and a device has a connected slot exactly from
`device_ready` on (`ReadyMeansSlot`), because its disconnection goes by the slot, not by the
link, to tell whether it was still counted.  `MinFacts` says that the search from the front
of the table finds the least entry, as the code's loops do.

### The lock keys: Caps Lock in host mode (`LockKeysProofs`)

| Theorem | States | Argument |
|---|---|---|
| `CapsIsKept` | `[]CapsKept` | `CapsInv` |
| `PulsesAreMeant` | undisturbed, a change of Caps Lock on the computer is to what the users want, at rest or not | `CapsInv` |

`CapsInv` says where a press is (`PressSeen`: not seen yet, being pulsed, being reported
back, or done), that a pulse is out only while there is no news from the computer
(`PulseOnce`), and that core 1 then never has anything to write to the keyboard
(`NoListen`), as core 0 wrote down the keyboard's lock before the computer could take the
pulse.  So the two cores do not meet on the bus: this is proved of `Undisturbed`
behaviours and is false of the others (deviation 19).

### The lock keys: LEDs and register 2 (`LockKeysProofs`)

| Theorem | States | Argument |
|---|---|---|
| `LedsAreKept` | `[]LedsKept`, for Num Lock and Scroll Lock | `LedsInv` |
| `CapsShownInverted` | for Caps Lock: once it was pressed, register 2 is at rest the opposite of the LED | `LedsInv` |

`LedsInv` adds to `OneAtATime` (a report on its way is waited for, and a wait is for one on its way unless its
keyboard was pulled out) the course of a
press: who may change the LED when the keys of one core alone do (`OneSetter`), that the flags agree with the LED but
between its change and theirs (`FlagsFollow`, `Unsettled`), and that register 2 is what the flags
say when no event is queued.  The same invariant, with the flags the other way round, turns
the violation the run `leds_caps` finds into a theorem: it is not a race but holds after every press.

### What is only model-checked

- All liveness (`NothingWaits`, `TransactionEnds`, `EverythingSent`, `StackFollows`,
  `CapsSettle`, `ResetsGoOn`, …), and `MutexReleased`: fairness and `ENABLED` are out of
  the prover's reach.
- The values of the code tables: that they have what `KeyAssumption` says is evaluated by TLC, entry
  by entry, on each run of `MCTyping`.
- The safety of `AdbWire` (`CommandsHeard`, `ListenHeard`, `AnswersHeard`, `MonitorFollows`): it is a comparison of
  lengths in microseconds over the whole course of a transaction, with the constants of the
  code; a proof for all of them would say little more than the run.
- `ButtonsFollowMovement`, as it is about what comes eventually.
- What Bluetooth does to time and pauses beyond `LinksCounted`.

## Known deviations

Met while modelling.  Those with a run in brackets are shown by it; the others are
excluded by the guards or the conditions named, so that the properties say what the
code does otherwise.

1. **A stale phase ends the wait for a pause** (`bt_stale_phase`,
   `src/bt_host_coop.c:51`).  `core1_wait_for_pause_active()` takes the phase left
   from the previous pause for the new one, while core 1 has passed the test and is
   on its way into `tuh_task()`.
2. **Skip flags survive a reset** (`lib/adb/src/adb.cpp:695`).  After a collision
   and a reset the first Listen 3/0xFE of the new enumeration is ignored.
   `LoserStays` speaks of the loser until that Listen or a reset.
3. **`SendString` on core 0 waits for core 0** (`platformkbdparser.cpp:228`).
   A ghost-typing combination on a Bluetooth keyboard is parsed on the core that
   packs the queue.  `GhostReport` is typed on USB keyboards in the run.
4. **USB and Bluetooth keyboards share one previous report**
   (`platformkbdparser.cpp:123-150`): reports parsed by both cores at once lose a
   transition.  `NoStuckKey` speaks of one core typing.
5. **A reset empties the queue between a test and its use**
   (`adbkbdparser.cpp:57`, `usbkbdparser.cpp:52`): the event may be null or freed.
   The model packs an arbitrary one then.
6. **The power key's release** (`adbkbdparser.cpp:81`) sets the bit of the first key
   twice: the register is 0xFF7F.  `NoStuckKey` leaves the power key out.
7. **Links are counted twice, or never, as finished**
   (`bluepad32_platform.c:284, 356, 367`): twice for a device of no supported kind,
   or one that finds no free slot, never for a keyboard or mouse that reports before
   `device_ready` and drops out.  The model does all of it and remembers it
   (`unforeseen`); this, or a deletion of pairings, ends what `LinksCounted` claims.
8. **The settle deadline is never cleared** (`bluepad32_platform.c:543`): half a period
   of the 32-bit microsecond clock later it seems to lie ahead again.  `DeferralEnds`
   holds as the clock goes on.
9. **Any device's `device_ready` or disconnection ends a pause** taken for another
   (`bluepad32_platform.c:241, 351`).
10. **The ring's tail has two writers on overflow** (`src/usb_hid_device.c:82, 130`):
    a drop by core 0 between the accesses of core 1 loses the newest reports.  In
    `host_mode` the model does this and remembers it (`lost = "raced"`), which ends what
    `EveryReportArrives` and `PcFollowsDevices` claim.  The release of a Caps
    Lock pulse is an empty report, so held keys are compared without pulses.
11. **Movement is dropped or counted twice** (`usbmouseparser.cpp:55, 96`) when core 0
    reads and clears while core 1 adds.  `DirectionKept` is what remains true.
12. **The bridge and a USB mouse**: a Bluetooth report releases the USB mouse's
    button (`bt_hid_bridge.cpp:308`), a stick that recentres or moves clears or
    replaces a mouse's movement (`:287`, `:308`); a second Bluetooth report in one
    poll overwrites the first (`bluepad32_platform.c:395`); without a keyboard the
    release of the last gamepad key is not parsed (`bt_hid_bridge.cpp:157`).
13. **ADB host.** A relocating trackball that is plugged into a running host is not
    found (`adb_host.cpp:845`, against the comment at `:459`, "so hot-plugged trackballs can be
    relocated"), as silence counts as working, and noise at an address can
    make a working device the target of relocation.  The properties about devices
    that answer are stated for a quiet bus.  A slot that is dropped keeps its address
    (`adb_host.cpp:384`): on a noisy bus with two keyboard addresses and all three pointing ones
    the table may be full of dropped slots, and the default keyboard finds no place.
    `KeyboardPolled` leaves this out.
14. **One copy of the settings** (`flashsettings.cpp:100`): a loss of power while core 1
    saves the LED leaves the default mode.  `BootRestoresChoice` allows for it.
15. **Screens.** A keyboard's name stored after the count was drawn does not appear
    (`usb_device_map.c:146`); pulling out one of two mice makes the count zero
    (`:135`); the footer keeps old addresses (`display.c:244`).  `PictureSettles`
    speaks of the counts with one mouse, and of the states.
16. **Names of Bluetooth devices.** Announcements of devices that never connect fill
    the table for good, and a device is then shown as "Keyboard" or "Mouse"
    (`bluepad32_platform.c:125`).  An address that has two entries gives up the newer
    first, so a later link without a new announcement shows an older name (`:147`).
17. **Rounds of LEDs** (`leds_toggled`).  A LED set while a round is under way is forgotten when it ends
    (`platformkbdparser.cpp:309`), and keyboards the round has passed go on showing the old one.
    `docs/led-support.md:41` knows the symptom: "repeatedly toggling Caps/Num/Scroll can stop the
    **keyboard's own** lock LEDs from updating while typing still works".  `LedsSettle` says what remains: the last round reaches
    all keyboards if it was asked for when no other was under way and its transfers succeeded; a
    failed one is not repeated.  The LEDs of all keyboards stop for good when a transfer is dropped without a callback, as
    nothing but the callback sets `set_hid_report_ready` again (`usbhost.cpp:175`).
    A new keyboard on core 1 may write back LEDs that core 0 has just changed (`:74`).
18. **Register 2.** The Caps Lock flag is the reverse of its LED (`leds_caps`,
    `usbkbdparser.cpp:110`); a Listen 2 and a reset change the LEDs and not the flags
    register 2 is made of.
19. **Caps Lock in host mode.** Core 1 drives the bus from a USB callback (`usb_hid_device.c:201`)
    while core 0 may be in a Talk, which `docs/adb-host-mode.md` excludes; a register 2 read before and applied after that undoes
    Caps Lock on the computer (`adb_to_usb.cpp:55`): `CapsFollowsUsers`
    fails where `OwnCapsFollowsUsers`, about the ADB keyboard's users, holds.
20. **A tie on the bus.** Devices that start in the same microsecond do not notice that
    they collide (no edge falls, so no interrupt comes, `adb_platform.cpp:58`): both take their reports for
    delivered and the host reads a mixture.
21. **Registers of the host that are dropped.**  The host begins its register 140 to 240 µs, and
    the times its timer adds, after the 35 µs high of its stop bit (`adb_host.cpp:245`), up to 277 µs after the
    line rose, and a receiver accepts 260 (`adb.h:120`): with a random delay above 73 µs a Listen may be, and above
    83 µs it always is, dropped by an adapter or `adbmon`.  The delay is counted from the host's own stop bit, which
    another device may still stretch (`adb_host.cpp:277`): the Listen after a request for service is
    always dropped.  `ListenHeard` and `MonitorFollows` except both (`MayBeDropped`) and say that nothing is taken in part.
22. **The collision mark** is cleared before the display is told (`quokkadb.cpp:242`),
    so the "!" of `docs/release-notes.md` is never shown.
23. **`adbmon`** leaves a register out of its frame when two devices stretch the stop bit
    by different lengths (`adbmon_bus.cpp:208`).  `MonitorFollows` is checked with one
    device that requests service.
24. **Key codes.** Pause and F15, of code 0x71, are queued twice when pressed and when released (`usbkbdparser.cpp:138, 204`,
    where the comment speaks of the power key, whose code 0x7F is queued once); the models queue the keys of `Doubled` and of `QueuedTwice` so.  Keys that share a code (both Command keys, or left and
    right of the others while the keyboard is not extended) release each other; a
    handler set between press and release of a right-hand modifier leaves the left
    hand's code down (`usbtoadb.cpp:263`); a register of the power key or without a
    code makes an adapter in host mode let go of everything.

25. **Two mice share one `mouse_info`** (`platformmouseparser.cpp:35`).  A USB mouse (core 1) and a Bluetooth mouse
    (core 0) that are parsed at once fill and read one static object: a report may be added,
    compared and stored as the other's.  A button of one mouse can then stay pressed at the host with both mice
    released, when `prevState` is stored from the other's report; in any interleaving one mouse also
    releases the other's button (12).  The model does all of it.  `DirectionKept` is stated for both mice; `ReleasedWithTheMouse` and
    `ButtonsFollowMovement` speak of one.

## What is not modelled

- The set-up of pins and the two-wire variant of the host (`adb_host_gpio.h`): which
  pin is driven, with no influence on what is sent.  `AdbDevice` and `AdbHost` keep the
  outcomes of a transaction as choices; `AdbWire` shows which outcomes the line gives.
- The OLED driver and font, drawing, serial debug: output without a state that others
  read.
- BTstack, Bluepad32, TinyUSB and the Pico SDK are not in the repository; they
  appear as the callbacks and calls the firmware makes.
- `src/src/adbmon` beyond its decoder: printing of frames, the console, the older
  Arduino sketch.
- The visual copy of the gamepad's state and the end of Bluetooth's initialisation.
- Hardware design, scripts, captures.

## Plan

The order in which the modules were written, most important first: the queue and
its FIFO; the ADB device with its proofs; the keyboard pipeline; the Bluetooth
platform and pause; the USB HID device; the ADB host; the mouse pipeline; the
bridge; the mode; the screens; then the LEDs and Caps Lock; the latch that joins
keyboard pipeline and ADB device; the line; the key codes; the names.

What would come next:

1. **Proofs about `AdbWire`**, with the lengths as constants and the inequalities between
   them as the assumption: which margins the line really needs.
2. **Time in `AdbHost`**, so that its intervals can be compared with the devices' own.

## Running the checks

    tlc -workers 2 -config MCTyping.cfg MCTyping.tla
    tlapm AdbDeviceProofs.tla       # and the other modules *Proofs

Each run ends within about four minutes on two workers; the largest, `adb_bus`, has
about a million states.
