---------------------------- MODULE KeyPipeline ----------------------------
(***************************************************************************)
(* From keyboard reports to ADB register 0.  PlatformKbdParser::Parse      *)
(* compares a report with the previous one and queues a KeyEvent for every *)
(* key that changed; GetAdbRegister0 (lib/adb/src/adbkbdparser.cpp) packs  *)
(* up to two events into a register, which the host reads.                 *)
(*                                                                         *)
(* Parse runs on core 1 for USB keyboards and on core 0 for Bluetooth, on  *)
(* one parser object; core 0 packs; core 1 empties the queue after a bus   *)
(* reset.  The queue is the one BoundedFifo specifies and SCQueue          *)
(* implements, so each of its operations is one step, and so is everything *)
(* a core does between two operations on the queue or on prevState.  That  *)
(* registers reach the host in order is KeyReportsInOrder of AdbDevice.    *)
(***************************************************************************)
EXTENDS Naturals, FiniteSets, Sequences, Functions

CONSTANTS
  Key,         (* the keys of the keyboards, modifiers excepted             *)
  NoKey,       (* USB_KEY_NONE in a report, ADB_REG_0_NO_KEY in a register  *)
  Overflow,    (* USB_KEY_ERR_OVF, too many keys held                       *)
  CapsLock, Power,   (* Caps Lock; a key of ADB_POWER_KEYCODE (SYSRQ, F13)  *)
  Doubled,     (* USB_KEY_PAUSE and USB_KEY_F15, whose events come twice    *)
  Unmapped,    (* the keys usb_keycode_to_adb_code does not know            *)
  ModifierOrder,     (* the modifiers as OnControlKeysChanged takes them    *)
  Slots,       (* the key slots of a report (6)                             *)
  Capacity,    (* KEYBOARD_QUEUE_CAPACITY (20)                              *)
  GhostReport, (* the reports that make SpecialKeyCombo type a message      *)
  Message,     (* the keys of that message                                  *)
  Workload     (* what may come: for each core the reports its keyboards    *)
               (* send (report) and how many of them (count), and how many  *)
               (* bus resets (resets)                                       *)

Core == {0, 1}
Mapped == Key \ Unmapped
Modifier == Range(ModifierOrder)
SlotKey == Key \cup {NoKey, Overflow}
EventKey == Key \cup Modifier
Report == [mods : SUBSET Modifier, keys : [1 .. Slots -> SlotKey]]

ASSUME PipelineAssumption ==
  /\ ModifierOrder \in Seq(Modifier) /\ IsInjective(ModifierOrder)
  /\ Modifier \cap Key = {} /\ NoKey \notin EventKey /\ Overflow \notin EventKey
  /\ Unmapped \subseteq Key /\ {CapsLock, Power} \subseteq Mapped /\ CapsLock # Power
  /\ Doubled \subseteq Mapped \ {CapsLock, Power}
  /\ Slots \in Nat \ {0} /\ Capacity \in Nat \ {0}
  /\ \A w \in Workload :
       /\ w.count \in [Core -> Nat] /\ w.resets \in Nat
       /\ w.report \in [Core -> SUBSET Report]
  /\ Message \in Seq(Key)

VARIABLES
  prevState,   (* the last report, shared by every keyboard                *)
  caps,        (* kbdLockingKeys.kbdLeds.bmCapsLock                        *)
  queue,       (* m_keyboard_events, oldest first                          *)
  serial,      (* events queued so far; an event carries its number        *)
  pc,          (* what each core does next                                 *)
  parsing,     (* the report each core is parsing                          *)
  slot,        (* the slot of it that was compared last                    *)
  todo,        (* events found and not queued yet, by core                 *)
  chars,       (* keystrokes SendString has still to type, by core         *)
  peeked,      (* GetAdbRegister0: the event seen by peek()                *)
  register,    (* kbdreg0                                                  *)
  pending,     (* kbdpending                                               *)
  usb_reset,   (* core 1 has been asked to empty the queue                 *)
  host,        (* the keys the ADB host takes for held                     *)
  packed,      (* history: number of the last event packed                 *)
  lost,        (* history: the keys whose latest event met a full queue    *)
  workload,          (* what comes in this behaviour                       *)
  reports, resets    (* reports parsed and resets seen (bounded)           *)

parser_vars == <<prevState, caps, parsing, slot, chars>>
queue_vars == <<queue, serial, lost>>
packer_vars == <<peeked, register, packed>>
host_vars == <<pending, host>>
env_vars == <<workload, reports, resets>>
vars == <<parser_vars, queue_vars, packer_vars, host_vars, env_vars, pc, todo, usb_reset>>

NoReport == [mods |-> {}, keys |-> [i \in 1 .. Slots |-> NoKey]]
NoEvent == [n |-> 0, key |-> NoKey, up |-> FALSE]
EmptyRegister == [k1 |-> NoKey, up1 |-> FALSE, k2 |-> NoKey, up2 |-> FALSE]

Init ==
  /\ prevState = NoReport
  /\ caps = FALSE
  /\ queue = <<>>
  /\ serial = 0
  /\ pc = [c \in Core |-> "task"]
  /\ parsing = [c \in Core |-> NoReport]
  /\ slot = [c \in Core |-> 0]
  /\ todo = [c \in Core |-> <<>>]
  /\ chars = [c \in Core |-> 0]
  /\ peeked = NoEvent
  /\ register = EmptyRegister
  /\ pending = FALSE
  /\ usb_reset = FALSE
  /\ host = {}
  /\ packed = 0
  /\ lost = {}
  /\ workload \in Workload
  /\ reports = [c \in Core |-> 0]
  /\ resets = 0

Goto(c, label) == pc' = [pc EXCEPT ![c] = label]

\* Where the loop of a core goes on after its keyboards: core 0 fills the ADB
\* registers, core 1 looks for a reset.
AfterTask(c) == IF c = 0 THEN "look" ELSE "reset"

(* ------------------------------ the parser ----------------------------- *)

Down(k) == [key |-> k, up |-> FALSE]
Up(k) == [key |-> k, up |-> TRUE]

\* OnKeyDown: Caps Lock alternates with the LED just toggled, the replacements
\* of the power button are queued twice (their code is not that of Power).
OnKeyDown(k, led) ==
  CASE k \in {NoKey, Overflow} -> <<>>
    [] k = CapsLock -> << IF led THEN Down(k) ELSE Up(k) >>
    [] k \in Doubled -> <<Down(k), Down(k)>>
    [] OTHER -> <<Down(k)>>

\* OnKeyUp: Caps Lock has none.
OnKeyUp(k) ==
  CASE k \in {NoKey, Overflow, CapsLock} -> <<>>
    [] k \in Doubled -> <<Up(k), Up(k)>>
    [] OTHER -> <<Up(k)>>

ModifierEvent(m, after) == IF m \in after THEN Down(m) ELSE Up(m)

\* The one way to go through a set of places from first to last.
InOrder(places) ==
  {p \in [1 .. Cardinality(places) -> places] : \A i, j \in DOMAIN p : i < j => p[i] < p[j]}

\* The events of the modifiers that changed, in their order (one sequence).
OnControlKeysChanged(before, after) ==
  LET changed == {i \in DOMAIN ModifierOrder :
                    (ModifierOrder[i] \in before) # (ModifierOrder[i] \in after)}
  IN {[i \in DOMAIN p |-> ModifierEvent(ModifierOrder[p[i]], after)] : p \in InOrder(changed)}

\* Mutant: a key in another slot counts as new.
NewIn_SameSlot(i, keys, other) == keys[i] # other[i]

\* The key in slot i of one report does not occur in the other.
NewIn(i, keys, other) == keys[i] = Overflow \/ keys[i] \notin Range(other)

\* Parse: a report comes in; a special combination types a message instead,
\* otherwise the modifiers are compared first.
Parse(c) == \E r \in workload.report[c] :
  /\ pc[c] = "task"
  /\ reports[c] < workload.count[c]
  /\ reports' = [reports EXCEPT ![c] = @ + 1]
  /\ parsing' = [parsing EXCEPT ![c] = r]
  /\ slot' = [slot EXCEPT ![c] = 0]
  /\ IF r \in GhostReport
     THEN /\ Goto(c, "ghost")
          /\ chars' = [chars EXCEPT ![c] = Len(Message) + 1]
          /\ UNCHANGED todo
     ELSE /\ Goto(c, "parse")
          /\ \E events \in OnControlKeysChanged(prevState.mods, r.mods) :
               todo' = [todo EXCEPT ![c] = events]
          /\ UNCHANGED chars
  /\ UNCHANGED <<prevState, caps, queue_vars, packer_vars, host_vars, workload, resets, usb_reset>>

NothingToParse(c) ==
  /\ pc[c] = "task"
  /\ Goto(c, AfterTask(c))
  /\ UNCHANGED <<parser_vars, queue_vars, packer_vars, host_vars, env_vars, todo, usb_reset>>

\* The next slot: HandleLockingKeys and OnKeyDown for a new key, OnKeyUp for
\* the key that left the same slot.  prevState is read afresh for each slot.
CompareSlot(c) ==
  LET i == slot[c] + 1
      keys == parsing[c].keys
      old == prevState.keys
      down == NewIn(i, keys, old)
      led == IF down /\ keys[i] = CapsLock THEN ~caps ELSE caps
  IN
  /\ pc[c] = "parse" /\ todo[c] = <<>> /\ slot[c] < Slots
  /\ slot' = [slot EXCEPT ![c] = i]
  /\ caps' = led
  /\ todo' = [todo EXCEPT ![c] = (IF down THEN OnKeyDown(keys[i], led) ELSE <<>>)
                                 \o (IF NewIn(i, old, keys) THEN OnKeyUp(old[i]) ELSE <<>>)]
  /\ UNCHANGED <<prevState, parsing, chars, queue_vars, packer_vars, host_vars, env_vars, pc, usb_reset>>

\* The report becomes the previous one.
StoreState(c) ==
  /\ pc[c] = "parse" /\ todo[c] = <<>> /\ slot[c] = Slots
  /\ prevState' = parsing[c]
  /\ Goto(c, AfterTask(c))
  /\ UNCHANGED <<caps, parsing, slot, chars, queue_vars, packer_vars, host_vars, env_vars, todo,
                 usb_reset>>

\* The twin of an event is not tried when the first was refused.
AfterRefusal(events) ==
  IF Len(events) > 1 /\ events[1] = events[2] THEN Tail(Tail(events)) ELSE Tail(events)

\* Mutant: off by one.
FullLate == Len(queue) > Capacity
Full == Len(queue) = Capacity

\* enqueue(new KeyEvent(...))
Enqueue(c) ==
  /\ todo[c] # <<>>
  /\ IF Full
     THEN /\ lost' = lost \cup {todo[c][1].key}
          /\ todo' = [todo EXCEPT ![c] = AfterRefusal(@)]
          /\ UNCHANGED <<queue, serial>>
     ELSE /\ serial' = serial + 1
          /\ queue' = Append(queue, [n |-> serial + 1, key |-> todo[c][1].key, up |-> todo[c][1].up])
          /\ todo' = [todo EXCEPT ![c] = Tail(@)]
          /\ lost' = lost \ {todo[c][1].key}
  /\ UNCHANGED <<parser_vars, packer_vars, host_vars, env_vars, pc, usb_reset>>

(* ----------------------------- SendString ------------------------------ *)

\* The first keystroke releases what the combination holds.
Keystroke(k) ==
  IF k = 0 THEN [i \in 1 .. Len(ModifierOrder) |-> Up(ModifierOrder[i])] \o <<Up(CapsLock)>>
  ELSE <<Down(Message[k]), Up(Message[k])>>

\* Mutant: the test of PendingKeyboardEvent() inverted.
GhostReadyInverted == queue # <<>>
GhostReady == queue = <<>>

\* while (PendingKeyboardEvent()); then the next character
GhostType(c) ==
  /\ pc[c] = "ghost" /\ todo[c] = <<>> /\ chars[c] > 0
  /\ GhostReady
  /\ todo' = [todo EXCEPT ![c] = Keystroke(Len(Message) + 1 - chars[c])]
  /\ chars' = [chars EXCEPT ![c] = @ - 1]
  /\ caps' = (caps /\ chars[c] <= Len(Message))
  /\ UNCHANGED <<prevState, parsing, slot, queue_vars, packer_vars, host_vars, env_vars, pc, usb_reset>>

GhostDone(c) ==
  /\ pc[c] = "ghost" /\ todo[c] = <<>> /\ chars[c] = 0
  /\ Goto(c, AfterTask(c))
  /\ UNCHANGED <<parser_vars, queue_vars, packer_vars, host_vars, env_vars, todo, usb_reset>>

Keyboards(c) ==
  \/ Parse(c) \/ NothingToParse(c) \/ CompareSlot(c) \/ StoreState(c) \/ Enqueue(c)
  \/ GhostType(c) \/ GhostDone(c)

(* ------------------- core 0: GetAdbRegister0 and the host -------------- *)

\* usb_keycode_to_adb_code and the status bit: an unmapped key is "no key",
\* never released.
AdbKey(e) == IF e.key \in Unmapped THEN NoKey ELSE e.key
AdbUp(e) == e.up /\ e.key \notin Unmapped

\* What a core finds behind a pointer that is null or freed: anything.
Garbage == [n : {packed}, key : EventKey, up : BOOLEAN]

\* Mutant: the test of kbdpending dropped.
MayPackUnread == queue # <<>>

\* kbdpending is down and PendingKeyboardEvent()
MayPack == ~pending /\ queue # <<>>

Look ==
  /\ pc[0] = "look"
  /\ Goto(0, IF MayPack THEN "first" ELSE "command")
  /\ UNCHANGED <<parser_vars, queue_vars, packer_vars, host_vars, env_vars, todo, usb_reset>>

\* the second look, isEmpty() at the top of GetAdbRegister0
First ==
  /\ pc[0] = "first"
  /\ register' = EmptyRegister
  /\ Goto(0, IF queue # <<>> THEN "take" ELSE "second")
  /\ UNCHANGED <<parser_vars, queue_vars, peeked, packed, host_vars, env_vars, todo, usb_reset>>

\* The queue after dequeue().
Taken == IF queue = <<>> THEN <<>> ELSE Tail(queue)

\* dequeue() and the use of its result: the null pointer is not looked for.
Dequeue(e) ==
  /\ IF queue = <<>> THEN e \in Garbage ELSE e = Head(queue)
  /\ queue' = Taken
  /\ packed' = e.n
  /\ UNCHANGED <<serial, lost, peeked>>

TakeFirst == \E e \in Garbage \cup Range(queue) :
  /\ pc[0] = "take"
  /\ Dequeue(e)
  /\ register' = [EmptyRegister EXCEPT !.k1 = AdbKey(e), !.up1 = AdbUp(e)]
  /\ Goto(0, "second")
  /\ UNCHANGED <<parser_vars, host_vars, env_vars, todo, usb_reset>>

\* The status bit of the second key when the power key fills both places: bit
\* 7 is never set, KEY_1_STATUS_BIT is set twice.
PowerUp2(up1) == FALSE

\* The power key takes both places; otherwise the second place is for the next event.
Second ==
  /\ pc[0] = "second"
  /\ register' = IF register.k1 = Power
                 THEN [register EXCEPT !.k2 = Power, !.up2 = PowerUp2(register.up1)]
                 ELSE register
  /\ Goto(0, IF register.k1 = Power \/ queue = <<>> THEN "latch" ELSE "peek")
  /\ UNCHANGED <<parser_vars, queue_vars, peeked, packed, host_vars, env_vars, todo, usb_reset>>

\* peek(), which may find nothing any more
Peek ==
  /\ pc[0] = "peek"
  /\ peeked' = IF queue = <<>> THEN NoEvent ELSE Head(queue)
  /\ Goto(0, IF queue = <<>> THEN "latch" ELSE "inspect")
  /\ UNCHANGED <<parser_vars, queue_vars, register, packed, host_vars, env_vars, todo, usb_reset>>

SecondAllowed(e) == AdbKey(e) # Power

\* event->GetKeycode() of the peeked event: core 1 may have freed it.
Inspect == \E e \in Garbage \cup {peeked} :
  LET freed == peeked \notin Range(queue) IN
  /\ pc[0] = "inspect"
  /\ IF freed THEN e \in Garbage ELSE e = peeked
  /\ peeked' = NoEvent
  /\ Goto(0, IF SecondAllowed(e) THEN "take2" ELSE "latch")
  /\ UNCHANGED <<parser_vars, queue_vars, register, packed, host_vars, env_vars, todo, usb_reset>>

TakeSecond == \E e \in Garbage \cup Range(queue) :
  /\ pc[0] = "take2"
  /\ Dequeue(e)
  /\ register' = [register EXCEPT !.k2 = AdbKey(e), !.up2 = AdbUp(e)]
  /\ Goto(0, "latch")
  /\ UNCHANGED <<parser_vars, host_vars, env_vars, todo, usb_reset>>

Latch ==
  /\ pc[0] = "latch"
  /\ pending' = TRUE
  /\ Goto(0, "command")
  /\ UNCHANGED <<parser_vars, queue_vars, packer_vars, host, env_vars, todo, usb_reset>>

\* The host takes the first key, then the second.
Heard(held, k, up) == IF k = NoKey THEN held ELSE IF up THEN held \ {k} ELSE held \cup {k}
Hears(held, r) == Heard(Heard(held, r.k1, r.up1), r.k2, r.up2)

\* One command of the host: its Talk 0 reads the register.
HostReads ==
  /\ pc[0] = "command"
  /\ pending
  /\ pending' = FALSE
  /\ host' = Hears(host, register)
  /\ Goto(0, "task")
  /\ UNCHANGED <<parser_vars, queue_vars, packer_vars, env_vars, todo, usb_reset>>

OtherCommand ==
  /\ pc[0] = "command"
  /\ Goto(0, "task")
  /\ UNCHANGED <<parser_vars, queue_vars, packer_vars, host_vars, env_vars, todo, usb_reset>>

\* A bus reset: quokkadb() asks core 1 to reset the keyboards.
BusReset ==
  /\ pc[0] = "command"
  /\ resets < workload.resets
  /\ resets' = resets + 1
  /\ usb_reset' = TRUE
  /\ Goto(0, "task")
  /\ UNCHANGED <<parser_vars, queue_vars, packer_vars, host_vars, workload, reports, todo>>

Packer ==
  \/ Look \/ First \/ TakeFirst \/ Second \/ Peek \/ Inspect \/ TakeSecond \/ Latch
  \/ OtherCommand

(* ----------------------- core 1: KbdRptParser::Reset ------------------- *)

ResetRequested ==
  /\ pc[1] = "reset"
  /\ Goto(1, IF usb_reset THEN "drain" ELSE "task")
  /\ UNCHANGED <<parser_vars, queue_vars, packer_vars, host_vars, env_vars, todo, usb_reset>>

\* while (PendingKeyboardEvent()); once empty the LEDs go dark
Drain ==
  /\ pc[1] = "drain"
  /\ Goto(1, IF queue # <<>> THEN "free" ELSE "clear")
  /\ caps' = (caps /\ queue # <<>>)
  /\ UNCHANGED <<prevState, parsing, slot, chars, queue_vars, packer_vars, host_vars, env_vars, todo,
                 usb_reset>>

\* free(dequeue()), harmless when core 0 has been faster
Free ==
  /\ pc[1] = "free"
  /\ queue' = Taken
  /\ Goto(1, "drain")
  /\ UNCHANGED <<parser_vars, serial, lost, packer_vars, host_vars, env_vars, todo, usb_reset>>

ResetDone ==
  /\ pc[1] = "clear"
  /\ usb_reset' = FALSE
  /\ Goto(1, "task")
  /\ UNCHANGED <<parser_vars, queue_vars, packer_vars, host_vars, env_vars, todo>>

Reset == ResetRequested \/ Drain \/ Free \/ ResetDone

Next ==
  \/ \E c \in Core : Keyboards(c)
  \/ Packer \/ HostReads \/ BusReset
  \/ Reset

Spec == Init /\ [][Next]_vars

\* Both cores keep running and the host keeps reading the keyboard, which
\* ReportsServed of AdbDevice grants.
FairSpec ==
  /\ Spec
  /\ \A c \in Core : WF_vars(Keyboards(c))
  /\ WF_vars(Packer) /\ SF_vars(HostReads)
  /\ WF_vars(Reset)

(* ----------------------------- properties ------------------------------ *)

Labels0 == {"task", "parse", "ghost", "look", "first", "take", "second", "peek", "inspect",
            "take2", "latch", "command"}
Labels1 == {"task", "parse", "ghost", "reset", "drain", "free", "clear"}

KeyChange == [key : EventKey, up : BOOLEAN]
Event == [n : Nat, key : EventKey, up : BOOLEAN]

TypeOK ==
  /\ prevState \in Report
  /\ caps \in BOOLEAN
  /\ queue \in Seq(Event) /\ Len(queue) <= Capacity
  /\ serial \in Nat
  /\ pc \in [Core -> Labels0 \cup Labels1] /\ pc[0] \in Labels0 /\ pc[1] \in Labels1
  /\ parsing \in [Core -> Report]
  /\ slot \in [Core -> 0 .. Slots]
  /\ todo \in [Core -> Seq(KeyChange)]
  /\ chars \in [Core -> 0 .. Len(Message) + 1]
  /\ peeked \in Event \cup {NoEvent}
  /\ register \in [k1 : EventKey \cup {NoKey}, up1 : BOOLEAN, k2 : EventKey \cup {NoKey}, up2 : BOOLEAN]
  /\ pending \in BOOLEAN /\ usb_reset \in BOOLEAN
  /\ host \subseteq EventKey
  /\ packed \in Nat
  /\ lost \subseteq EventKey
  /\ workload \in Workload /\ reports \in [Core -> Nat] /\ resets \in Nat

\* Through two producers, the packing of pairs and the emptying by core 1, no
\* event is packed twice, and none is packed after a younger one.
PackedInOrder ==
  /\ \A i \in 1 .. Len(queue) : packed < queue[i].n /\ queue[i].n <= serial
  /\ \A i, j \in 1 .. Len(queue) : i < j => queue[i].n < queue[j].n

\* The queue and the packing of events: typed, and each packed once, in order.
QueueKept == TypeOK /\ PackedInOrder

\* Both parsers rest and every event has reached the host.
Quiet ==
  /\ \A c \in Core : pc[c] \notin {"parse", "ghost"} /\ todo[c] = <<>>
  /\ pc[0] \in {"task", "look", "command"}
  /\ queue = <<>> /\ ~pending

HeldKeys(r) == (r.mods \cup Range(r.keys)) \cap (Mapped \cup Modifier)

\* Keyboards on one core only, no bus reset and no special combination.
Plain ==
  /\ \E c \in Core : workload.count[c] = 0
  /\ workload.resets = 0
  /\ \A c \in Core : workload.report[c] \cap GhostReport = {}

\* Once all is quiet the host holds exactly the keys of the last report: no
\* key is stuck and no press is missing, whatever the order of presses,
\* releases, rollover and changes of slot (Caps Lock apart, which latches, and
\* the power key, whose release the register does not show).  A full queue
\* harms only the keys whose own last event it refused.
Surely(keys) == keys \ (lost \cup {CapsLock, Power})
NoStuckKey == Plain /\ Quiet => Surely(host) = Surely(HeldKeys(prevState))

\* The Caps Lock key of the host is down exactly while the Caps Lock LED is
\* lit, a message typed by the adapter included (a bus reset darkens the LED
\* behind the host's back).
CapsLockFollowsLed ==
  Quiet /\ CapsLock \notin lost /\ resets = 0 /\ (\E c \in Core : workload.count[c] = 0)
    => (CapsLock \in host <=> caps)

\* When all is quiet neither a key nor Caps Lock is stuck at the host.
KeysSettle == NoStuckKey /\ CapsLockFollowsLed

\* Typing a message comes to an end and the keyboards work again (when it is
\* a USB keyboard that asked for it: SendString waits for core 0).
GhostTypingEnds == \A c \in Core : (pc[c] = "ghost") ~> (pc[c] # "ghost")

\* The register with kbdpending is the ReportLatch that AdbDevice serves: it is
\* not packed again over a report the host has not read.
RegisterLatch == INSTANCE ReportLatch WITH
  Nothing <- {}, MayDrop <- FALSE,
  latch <- IF pending THEN <<register>> ELSE <<>>, heard <- host
ImplementsLatch == RegisterLatch!Spec
=============================================================================
