----------------------------- MODULE BtPlatform -----------------------------
(***************************************************************************)
(* The Bluetooth platform callbacks (src/bluepad32_platform.c) and the     *)
(* pause of core 1 around pairing (src/bt_host_coop.c).                    *)
(*                                                                         *)
(* Core 0 polls Bluepad32 from its main loop; the callbacks run inside     *)
(* that call, to their end, except where they wait for core 1.  Core 1     *)
(* asks before every tuh_task() whether it is paused.  Discovery,          *)
(* connection, reports and disconnection of devices are the environment's. *)
(*                                                                         *)
(* time_us_32() is a counter modulo Clock; deadlines are compared by the   *)
(* sign of a difference, as the code does.                                 *)
(***************************************************************************)
EXTENDS Naturals, FiniteSets, FiniteSetsExt

CONSTANTS
  Device,      (* Bluetooth devices                                          *)
  NoDevice,    (* a free entry of a device map                               *)
  Kind,        (* what device_ready takes a device for                       *)
  Sends,       (* the report classes a device sends                          *)
  Pausing,     (* the devices discovery_needs_core1_pause() recognises       *)
  EarlyData,   (* the devices that may send reports before device_ready      *)
  SlotCount,   (* MAX_BT_KEYBOARDS, MAX_BT_MICE, MAX_BT_GAMEPADS             *)
  Clock,       (* values of the clock (2^32)                                 *)
  Watchdog,    (* BT_CORE1_PAUSE_WATCHDOG_MS, in ticks                       *)
  Settle,      (* BT_POST_READY_ADB_SETTLE_MS, in ticks                      *)
  MaxLinks,    (* bound on the connections                                   *)
  MaxWipes     (* bound on the key wipes by the user                         *)

Class == {"keyboard", "mouse", "gamepad"}

ASSUME PlatformAssumption ==
  /\ NoDevice \notin Device
  /\ Kind \in [Device -> Class \cup {"other"}]
  /\ Sends \in [Device -> SUBSET Class]
  /\ Pausing \subseteq Device /\ EarlyData \subseteq Device
  /\ SlotCount \in [Class -> Nat \ {0}]
  /\ Clock \in Nat /\ Watchdog \in 1 .. (Clock \div 2) - 1 /\ Settle \in 1 .. (Clock \div 2) - 1
  /\ MaxLinks \in Nat /\ MaxWipes \in Nat

VARIABLES
  link,        (* of each device: none, found, connected, ready              *)
  map,         (* keyboard_device_map, mouse_device_map, gamepad_device_map  *)
  connected,   (* storage->connected of each slot                            *)
  unforeseen,  (* history: a device reported as a keyboard or a mouse before *)
               (* device_ready, or became ready without a slot               *)
  awaiting,    (* s_bt_awaiting_ready                                        *)
  settle,      (* s_bt_settle_until_us, or Unset                             *)
  depth,       (* g_bt_pause_depth                                           *)
  deadline,    (* g_pause_watchdog_deadline_us, or Unset                     *)
  phase,       (* g_core1_phase                                              *)
  spun,        (* g_core1_pause_spins > 0                                    *)
  now,         (* time_us_32()                                               *)
  pc0, pc1,    (* what each core does next                                   *)
  believed,    (* history: core 0 has seen core 1 paused, in this pause      *)
  links, wipes (* connections and key wipes (bounded)                        *)

\* The deadlines 0 of the code mean none; here a value the clock does not take.
Unset == Clock

slot_vars == <<map, connected, unforeseen>>
coop_vars == <<depth, deadline, phase, spun>>
vars == <<link, slot_vars, awaiting, settle, coop_vars, now, pc0, pc1, believed, links, wipes>>

Init ==
  /\ link = [d \in Device |-> "none"]
  /\ map = [k \in Class |-> [i \in 1 .. SlotCount[k] |-> NoDevice]]
  /\ connected = [k \in Class |-> [i \in 1 .. SlotCount[k] |-> FALSE]]
  /\ unforeseen = FALSE
  /\ awaiting = 0
  /\ settle = Unset
  /\ depth = 0
  /\ deadline = Unset
  /\ phase = "running"
  /\ spun = FALSE
  /\ now = 0
  /\ pc0 = "loop"
  /\ pc1 = "check"
  /\ believed = FALSE
  /\ links = 0
  /\ wipes = 0

\* (int32_t)(now - t) >= 0
Reached(t) == (now + Clock - t) % Clock < Clock \div 2
After(ticks) == (now + ticks) % Clock

(* --------------------------- pause of core 1 --------------------------- *)

DeadlineAtPause == IF depth = 0 THEN After(Watchdog) ELSE deadline

core1_pause_for_bt_enumeration ==
  /\ spun' = (spun /\ depth # 0)
  /\ depth' = depth + 1
  /\ deadline' = DeadlineAtPause
  /\ UNCHANGED phase

\* only when the depth is not 0
core1_resume_after_bt_enumeration ==
  /\ depth' = depth - 1
  /\ IF depth = 1
     THEN deadline' = Unset /\ phase' = "running"
     ELSE UNCHANGED <<deadline, phase>>
  /\ UNCHANGED spun

\* Leaves the phase as it is.
core1_force_release_bt_pause ==
  /\ depth' = 0
  /\ deadline' = Unset
  /\ UNCHANGED <<phase, spun>>

ReleaseIfPaused ==
  IF depth > 0 THEN core1_force_release_bt_pause ELSE UNCHANGED coop_vars

DeadlinePassed == deadline # Unset /\ Reached(deadline)

\* The top of core 0's loop: core1_bt_pause_watchdog_tick().  An iteration is
\* far shorter than half the clock's period; here it takes at most one tick.
Loop == \E dt \in {0, 1} :
  /\ pc0 = "loop"
  /\ now' = After(dt)
  /\ pc0' = "watchdog"
  /\ UNCHANGED <<link, slot_vars, awaiting, settle, coop_vars, pc1, believed, links, wipes>>

WatchdogTick ==
  /\ pc0 = "watchdog"
  /\ pc0' = "poll"
  /\ IF depth > 0 /\ DeadlinePassed
     THEN core1_force_release_bt_pause
     ELSE UNCHANGED coop_vars
  /\ believed' = (believed /\ depth' > 0)
  /\ UNCHANGED <<link, slot_vars, awaiting, settle, now, pc1, links, wipes>>

\* bluepad32_poll() returns
Polled ==
  /\ pc0 = "poll"
  /\ pc0' = "loop"
  /\ UNCHANGED <<link, slot_vars, awaiting, settle, coop_vars, now, pc1, believed, links, wipes>>

(* ------------------------------- core 1 -------------------------------- *)

bt_host_coop_usb_host_is_paused == depth > 0

Check ==
  /\ pc1 = "check"
  /\ pc1' = IF bt_host_coop_usb_host_is_paused THEN "pause" ELSE "run"
  /\ UNCHANGED <<link, slot_vars, awaiting, settle, coop_vars, now, pc0, believed, links, wipes>>

\* bt_host_coop_core1_pause_iteration(): the phase, the spins, then __wfe()
PauseIteration ==
  /\ pc1 = "pause"
  /\ phase' = "paused"
  /\ pc1' = "spin"
  /\ UNCHANGED <<link, slot_vars, awaiting, settle, depth, deadline, spun, now, pc0,
                 believed, links, wipes>>

Spin ==
  /\ pc1 = "spin"
  /\ spun' = TRUE
  /\ pc1' = "wfe"
  /\ UNCHANGED <<link, slot_vars, awaiting, settle, depth, deadline, phase, now, pc0,
                 believed, links, wipes>>

\* an event, one of the locks of core 0 for instance, wakes core 1
Wake ==
  /\ pc1 = "wfe"
  /\ pc1' = "check"
  /\ UNCHANGED <<link, slot_vars, awaiting, settle, coop_vars, now, pc0, believed, links, wipes>>

\* bt_host_coop_core1_set_running(), then tuh_task() from flash
SetRunning ==
  /\ pc1 = "run"
  /\ phase' = "running"
  /\ pc1' = "task"
  /\ UNCHANGED <<link, slot_vars, awaiting, settle, depth, deadline, spun, now, pc0,
                 believed, links, wipes>>

TaskDone ==
  /\ pc1 = "task"
  /\ pc1' = "check"
  /\ UNCHANGED <<link, slot_vars, awaiting, settle, coop_vars, now, pc0, believed, links, wipes>>

Core1 == Check \/ PauseIteration \/ Spin \/ Wake \/ SetRunning \/ TaskDone

(* ------------------------------- callbacks ----------------------------- *)

Held(k, d) == {i \in 1 .. SlotCount[k] : map[k][i] = d}
\* find_slot: the entry of the device, or the first free one; 0 for none.
FindSlot(k, d) ==
  IF Held(k, d) # {} THEN Min(Held(k, d)) ELSE
  IF Held(k, NoDevice) # {} THEN Min(Held(k, NoDevice)) ELSE 0

\* my_platform_on_device_discovered, for each advertisement of a device
Discovered(d) ==
  /\ pc0 = "poll"
  /\ link[d] \in {"none", "found"}
  /\ link' = [link EXCEPT ![d] = "found"]
  /\ IF d \in Pausing /\ depth = 0
     THEN /\ core1_pause_for_bt_enumeration
          /\ pc0' = "wait"
     ELSE UNCHANGED <<coop_vars, pc0>>
  /\ UNCHANGED <<slot_vars, awaiting, settle, now, pc1, believed, links, wipes>>

\* core1_wait_for_pause_active: core 1 is seen paused, or 20 ms pass
PauseSeen ==
  /\ pc0 = "wait"
  /\ phase = "paused" \/ spun
  /\ pc0' = "poll"
  /\ believed' = TRUE
  /\ UNCHANGED <<link, slot_vars, awaiting, settle, coop_vars, now, pc1, links, wipes>>

WaitTimeout ==
  /\ pc0 = "wait"
  /\ pc0' = "poll"
  /\ UNCHANGED <<link, slot_vars, awaiting, settle, coop_vars, now, pc1, believed, links, wipes>>

\* Mutant: the start of a connection is not counted.
StartedUncounted == awaiting
bt_link_mark_connect_started == awaiting + 1
bt_link_mark_connect_finished == IF awaiting > 0 THEN awaiting - 1 ELSE 0

\* my_platform_on_device_connected
Connected(d) ==
  /\ pc0 = "poll"
  /\ link[d] \in {"none", "found"}
  /\ links < MaxLinks
  /\ links' = links + 1
  /\ link' = [link EXCEPT ![d] = "connected"]
  /\ awaiting' = bt_link_mark_connect_started
  /\ UNCHANGED <<slot_vars, settle, coop_vars, now, pc0, pc1, believed, wipes>>

\* my_platform_on_device_ready: any device's ends the pause.
Ready(d) ==
  LET k == Kind[d]
      i == IF k = "other" THEN 0 ELSE FindSlot(k, d)
  IN
  /\ pc0 = "poll"
  /\ link[d] = "connected"
  /\ link' = [link EXCEPT ![d] = "ready"]
  /\ IF i = 0
     THEN unforeseen' = TRUE /\ UNCHANGED <<map, connected>>
     ELSE /\ map' = [map EXCEPT ![k][i] = d]
          /\ connected' = [connected EXCEPT ![k][i] = TRUE]
          /\ UNCHANGED unforeseen
  /\ IF depth > 0
     THEN core1_resume_after_bt_enumeration
     ELSE UNCHANGED coop_vars
  /\ awaiting' = bt_link_mark_connect_finished
  /\ settle' = After(Settle)
  /\ believed' = (believed /\ depth' > 0)
  /\ UNCHANGED <<now, pc0, pc1, links, wipes>>

\* my_platform_on_controller_data: a keyboard or a mouse is connected from its
\* first report on, a gamepad only takes its slot.
ControllerData(d, k) ==
  LET i == FindSlot(k, d) IN
  /\ pc0 = "poll"
  /\ link[d] = "ready" \/ (link[d] = "connected" /\ d \in EarlyData)
  /\ i # 0
  /\ map' = [map EXCEPT ![k][i] = d]
  /\ connected' = [connected EXCEPT ![k][i] = @ \/ k # "gamepad"]
  /\ unforeseen' = (unforeseen \/ (link[d] = "connected" /\ k # "gamepad"))
  /\ UNCHANGED <<link, awaiting, settle, coop_vars, now, pc0, pc1, believed, links, wipes>>

Cleared(d) ==
  [k \in Class |-> [i \in 1 .. SlotCount[k] |-> IF map[k][i] = d THEN NoDevice ELSE map[k][i]]]

\* my_platform_on_device_disconnected: any device's ends the pause.
Disconnected(d) ==
  LET was_ready == \E k \in Class : \E i \in Held(k, d) : connected[k][i] IN
  /\ pc0 = "poll"
  /\ link[d] \in {"connected", "ready"}
  /\ link' = [link EXCEPT ![d] = "none"]
  /\ ReleaseIfPaused
  /\ map' = Cleared(d)
  /\ connected' = [k \in Class |-> [i \in 1 .. SlotCount[k] |-> connected[k][i] /\ map[k][i] # d]]
  /\ awaiting' = IF was_ready THEN awaiting ELSE bt_link_mark_connect_finished
  /\ believed' = (believed /\ depth' > 0)
  /\ UNCHANGED <<unforeseen, settle, now, pc0, pc1, links, wipes>>

\* bluepad32_delete_pairing_keys, from the buttons
DeletePairingKeys ==
  /\ pc0 = "poll"
  /\ wipes < MaxWipes
  /\ wipes' = wipes + 1
  /\ core1_force_release_bt_pause
  /\ awaiting' = 0
  /\ settle' = Unset
  /\ believed' = (believed /\ depth' > 0)
  /\ UNCHANGED <<link, slot_vars, now, pc0, pc1, links>>

bt_any_device_connected == \E k \in Class : \E i \in 1 .. SlotCount[k] : connected[k][i]

\* Mutant: the settling time is not compared with the clock.
DefersUnclocked ==
  \/ depth > 0
  \/ awaiting > 0
  \/ bt_any_device_connected /\ settle # Unset

\* bluepad32_bt_defer_adb_reset()
Defers ==
  \/ depth > 0
  \/ awaiting > 0
  \/ bt_any_device_connected /\ settle # Unset /\ ~Reached(settle)

Core0 == Loop \/ WatchdogTick \/ Polled \/ PauseSeen \/ WaitTimeout
Environment(d) ==
  \/ Discovered(d) \/ Connected(d) \/ Ready(d) \/ Disconnected(d)
  \/ \E k \in Sends[d] : ControllerData(d, k)

Next ==
  \/ Core0 \/ Core1 \/ DeletePairingKeys
  \/ \E d \in Device : Environment(d)

Spec == Init /\ [][Next]_vars

\* Both cores keep running, the clock does not stand still, and the set-up of a
\* link comes to an end one way or the other.
FairSpec ==
  /\ Spec
  /\ WF_vars(Core0) /\ WF_vars(Core1)
  /\ SF_vars(Loop /\ now' # now) /\ SF_vars(WatchdogTick)
  /\ \A d \in Device : SF_vars(Ready(d) \/ (link[d] = "connected" /\ Disconnected(d)))

(* ----------------------------- properties ------------------------------ *)

TypeOK ==
  /\ link \in [Device -> {"none", "found", "connected", "ready"}]
  /\ \A k \in Class :
       /\ map[k] \in [1 .. SlotCount[k] -> Device \cup {NoDevice}]
       /\ connected[k] \in [1 .. SlotCount[k] -> BOOLEAN]
  /\ awaiting \in Nat /\ unforeseen \in BOOLEAN
  /\ settle \in 0 .. Unset /\ deadline \in 0 .. Unset
  /\ depth \in Nat /\ phase \in {"running", "paused"} /\ spun \in BOOLEAN
  /\ now \in 0 .. Clock - 1
  /\ pc0 \in {"loop", "watchdog", "poll", "wait"}
  /\ believed \in BOOLEAN
  /\ pc1 \in {"check", "pause", "spin", "wfe", "run", "task"}

Forming == {d \in Device : link[d] = "connected"}

\* No slot outlives the link of its device, no device has two slots of a kind,
\* and a slot counts as connected only while a device has it.
SlotsFollowLinks ==
  \A k \in Class : \A i \in 1 .. SlotCount[k] :
    /\ connected[k][i] => map[k][i] # NoDevice
    /\ map[k][i] # NoDevice =>
         /\ link[map[k][i]] \in {"connected", "ready"}
         /\ \A j \in 1 .. SlotCount[k] : map[k][j] = map[k][i] => i = j

\* s_bt_awaiting_ready, on which the reset of the host waits, is the number of
\* links between device_connected and device_ready, over every order of the
\* callbacks of any devices: until one of them reports as a keyboard or a mouse
\* before it is ready, or finds no slot, for its disconnection is then counted
\* wrongly, and until the pairing keys are deleted, which clears the count.
LinksCounted == ~unforeseen /\ wipes = 0 => awaiting = Cardinality(Forming)

\* A reset of the host is not put off for ever: every pause of core 1 ends (by
\* device_ready, a disconnection or the watchdog), every link being set up is
\* counted as finished, and the settling time passes.
DeferralEnds == Defers ~> ~Defers

\* When core 0 has seen core 1 paused, core 1 stays out of tuh_task() until the
\* pause ends (include/bt_host_coop.h:3-5).
PausedCoreStaysOut == believed => pc1 # "task"
=============================================================================
