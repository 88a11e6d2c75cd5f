---------------------------- MODULE TypingProofs ----------------------------
(***************************************************************************)
(* Proofs about typing.  KeyPipeline, for any keys, any number of slots,   *)
(* any capacity of the queue and anything that may come: the events of the *)
(* two parsers are packed in the order in which they were queued, the      *)
(* register is a ReportLatch, and no key is stuck.  KeyCodes, for any sets *)
(* of keys and any messages: both hosts hold the keys that are held.  What *)
(* the proof needs of the code tables is CodesAssumed, which TLC evaluates *)
(* over the tables themselves.                                             *)
(***************************************************************************)
EXTENDS MCTyping, SequenceTheorems, FiniteSetTheorems, WellFoundedInduction, TLAPS

(* ------------------- the events the parser finds are typed ------------- *)

\* The events of changed modifiers are key changes, whatever changed.
LEMMA ControlKeysTyped ==
  ASSUME NEW before, NEW after
  PROVE  OnControlKeysChanged(before, after) \subseteq Seq(KeyChange)
<1>. DEFINE changed == {i \in DOMAIN ModifierOrder :
                          (ModifierOrder[i] \in before) # (ModifierOrder[i] \in after)}
<1>1. changed \subseteq 1 .. Len(ModifierOrder) /\ Len(ModifierOrder) \in Nat
  BY PipelineAssumption DEF PipelineAssumption
<1>2. Cardinality(changed) \in Nat
  <2>1. IsFiniteSet(changed)
    BY <1>1, FS_Interval, FS_Subset
  <2>2. QED
    BY <2>1, FS_CardinalityType
<1>3. \A i \in changed : ModifierEvent(ModifierOrder[i], after) \in KeyChange
  <2>1. \A i \in changed : ModifierOrder[i] \in Modifier
    BY <1>1, PipelineAssumption DEF PipelineAssumption
  <2>2. QED
    BY <2>1 DEF ModifierEvent, Down, Up, KeyChange, EventKey
<1>4. ASSUME NEW p \in InOrder(changed)
      PROVE  [i \in DOMAIN p |-> ModifierEvent(ModifierOrder[p[i]], after)] \in Seq(KeyChange)
  <2>1. p \in [1 .. Cardinality(changed) -> changed]
    BY DEF InOrder
  <2>. HIDE DEF changed
  <2>2. QED
    BY <1>2, <1>3, <2>1
<1>5. QED
  BY <1>4, Zenon DEF OnControlKeysChanged

LEMMA KeyEventsTyped ==
  ASSUME NEW k \in SlotKey, NEW led \in BOOLEAN
  PROVE  OnKeyDown(k, led) \in Seq(KeyChange) /\ OnKeyUp(k) \in Seq(KeyChange)
<1>1. CASE k \in {NoKey, Overflow}
  BY <1>1, PipelineAssumption DEF PipelineAssumption, Mapped, EventKey, OnKeyDown, OnKeyUp
<1>2. CASE k \notin {NoKey, Overflow}
  <2>1. Down(k) \in KeyChange /\ Up(k) \in KeyChange
    BY <1>2 DEF SlotKey, Down, Up, KeyChange, EventKey
  <2>2. QED
    BY <1>2, <2>1 DEF OnKeyDown, OnKeyUp
<1>3. QED
  BY <1>1, <1>2

LEMMA KeystrokeTyped ==
  ASSUME NEW k \in 0 .. Len(Message)
  PROVE  Keystroke(k) \in Seq(KeyChange)
<1>1. CASE k = 0
  <2>1. [i \in 1 .. Len(ModifierOrder) |-> Up(ModifierOrder[i])] \in Seq(KeyChange)
    <3>1. Len(ModifierOrder) \in Nat /\ \A i \in 1 .. Len(ModifierOrder) : ModifierOrder[i] \in Modifier
      BY PipelineAssumption DEF PipelineAssumption
    <3>2. \A i \in 1 .. Len(ModifierOrder) : Up(ModifierOrder[i]) \in KeyChange
      BY <3>1 DEF Up, KeyChange, EventKey
    <3>3. QED
      BY <3>1, <3>2
  <2>2. Up(CapsLock) \in KeyChange
    BY PipelineAssumption DEF PipelineAssumption, Up, KeyChange, EventKey, Mapped
  <2>3. QED
    BY <1>1, <2>1, <2>2 DEF Keystroke
<1>2. CASE k # 0
  <2>1. Message[k] \in Key
    BY <1>2, PipelineAssumption DEF PipelineAssumption
  <2>2. Down(Message[k]) \in KeyChange /\ Up(Message[k]) \in KeyChange
    BY <2>1 DEF Down, Up, KeyChange, EventKey
  <2>3. QED
    BY <1>2, <2>2 DEF Keystroke
<1>3. QED
  BY <1>1, <1>2

LEMMA AfterRefusalTyped ==
  ASSUME NEW events \in Seq(KeyChange), events # <<>>
  PROVE  AfterRefusal(events) \in Seq(KeyChange)
<1>1. Tail(events) \in Seq(KeyChange) /\ Len(Tail(events)) = Len(events) - 1 /\ Len(events) \in Nat
  OBVIOUS
<1>2. \A t \in Seq(KeyChange) : Len(t) # 0 => Tail(t) \in Seq(KeyChange)
  OBVIOUS
<1>3. Len(events) > 1 => Tail(Tail(events)) \in Seq(KeyChange)
  <2>. DEFINE t == Tail(events)
  <2>1. t \in Seq(KeyChange) /\ (Len(events) > 1 => Len(t) # 0)
    BY <1>1, SMTT(30)
  <2>. HIDE DEF t
  <2>2. Len(events) > 1 => Tail(t) \in Seq(KeyChange)
    BY <1>2, <2>1
  <2>3. QED
    BY <2>2 DEF t
<1>4. QED
  BY <1>1, <1>3 DEF AfterRefusal

(* ------------------------------ the types ------------------------------ *)

\* What the actions leave alone.
USE DEF parser_vars, queue_vars, packer_vars, host_vars, env_vars, vars

LEMMA WorkloadFacts ==
  ASSUME workload \in Workload
  PROVE  /\ \A c \in Core : workload.report[c] \subseteq Report
         /\ workload.count \in [Core -> Nat] /\ workload.resets \in Nat
  BY PipelineAssumption DEF PipelineAssumption, Report

\* An event taken from the queue, or found behind a null or freed pointer.
LEMMA TakenTyped ==
  ASSUME TypeOK, NEW e \in Garbage \cup Range(queue)
  PROVE  e \in Event /\ AdbKey(e) \in EventKey \cup {NoKey} /\ AdbUp(e) \in BOOLEAN
         /\ Taken \in Seq(Event) /\ Len(Taken) <= Capacity
<1>1. Range(queue) \subseteq Event
  BY DEF TypeOK, Range
<1>2. Garbage \subseteq Event
  BY Zenon DEF TypeOK, Garbage, Event
<1>3. e \in Event
  BY <1>1, <1>2
<1>4. AdbKey(e) \in EventKey \cup {NoKey} /\ AdbUp(e) \in BOOLEAN
  BY <1>3 DEF Event, AdbKey, AdbUp
<1>5. Taken \in Seq(Event) /\ Len(Taken) <= Capacity
  BY PipelineAssumption DEF TypeOK, Taken, PipelineAssumption
<1>6. QED
  BY <1>3, <1>4, <1>5

LEMMA InitTyped == Init => TypeOK
<1>1. NoReport \in Report
  BY DEF NoReport, Report, SlotKey
<1>2. EmptyRegister \in [k1 : EventKey \cup {NoKey}, up1 : BOOLEAN, k2 : EventKey \cup {NoKey}, up2 : BOOLEAN]
  BY DEF EmptyRegister
<1>3. Len(Message) \in Nat
  BY PipelineAssumption DEF PipelineAssumption
<1>4. ASSUME Init
      PROVE  TypeOK
  <2>1. workload \in Workload /\ reports \in [Core -> Nat] /\ resets \in Nat
    BY <1>4 DEF Init
  <2>2. slot \in [Core -> 0 .. Slots] /\ chars \in [Core -> 0 .. Len(Message) + 1]
    BY <1>3, <1>4, PipelineAssumption DEF PipelineAssumption, Init
  <2>3. queue \in Seq(Event) /\ Len(queue) <= Capacity
    BY <1>4, PipelineAssumption DEF PipelineAssumption, Init
  <2>4. todo \in [Core -> Seq(KeyChange)]
    BY <1>4 DEF Init
  <2>5. pc \in [Core -> Labels0 \cup Labels1] /\ pc[0] \in Labels0 /\ pc[1] \in Labels1
    BY <1>4 DEF Init, Core, Labels0, Labels1
  <2>6. QED
    BY <1>1, <1>2, <1>4, <2>1, <2>2, <2>3, <2>4, <2>5, Zenon DEF Init, TypeOK
<1>5. QED
  BY <1>4

LEMMA KeyboardsTyped ==
  ASSUME TypeOK, NEW c \in Core, Keyboards(c)
  PROVE  TypeOK'
<1>0. Len(Message) \in Nat /\ Slots \in Nat \ {0} /\ c \in {0, 1}
  BY PipelineAssumption DEF PipelineAssumption, Core
<1>1. CASE Parse(c)
  <2>1. PICK r \in workload.report[c] :
          /\ reports' = [reports EXCEPT ![c] = @ + 1]
          /\ parsing' = [parsing EXCEPT ![c] = r]
          /\ slot' = [slot EXCEPT ![c] = 0]
          /\ IF r \in GhostReport
             THEN /\ Goto(c, "ghost")
                  /\ chars' = [chars EXCEPT ![c] = Len(Message) + 1]
                  /\ UNCHANGED todo
             ELSE /\ Goto(c, "parse")
                  /\ \E events \in OnControlKeysChanged(prevState.mods, r.mods) :
                       todo' = [todo EXCEPT ![c] = events]
                  /\ UNCHANGED chars
          /\ UNCHANGED <<prevState, caps, queue_vars, packer_vars, host_vars, workload, resets, usb_reset>>
    BY <1>1, Zenon DEF Parse
  <2>2. r \in Report
    BY WorkloadFacts DEF TypeOK
  <2>3. todo' \in [Core -> Seq(KeyChange)]
    <3>1. CASE r \in GhostReport
      BY <2>1, <3>1 DEF TypeOK
    <3>2. CASE r \notin GhostReport
      <4>1. PICK events \in OnControlKeysChanged(prevState.mods, r.mods) :
              todo' = [todo EXCEPT ![c] = events]
        BY <2>1, <3>2
      <4>2. events \in Seq(KeyChange)
        BY ControlKeysTyped
      <4>3. QED
        BY <4>1, <4>2 DEF TypeOK
    <3>3. QED
      BY <3>1, <3>2
  <2>4. parsing' \in [Core -> Report] /\ slot' \in [Core -> 0 .. Slots] /\ reports' \in [Core -> Nat]
    <3>1. parsing' \in [Core -> Report]
      BY <2>1, <2>2 DEF TypeOK
    <3>2. slot' \in [Core -> 0 .. Slots]
      <4>1. 0 \in 0 .. Slots
        BY <1>0
      <4>2. QED
        BY <2>1, <4>1 DEF TypeOK
    <3>3. reports' \in [Core -> Nat]
      <4>1. reports[c] + 1 \in Nat
        BY DEF TypeOK
      <4>2. QED
        BY <2>1, <4>1 DEF TypeOK
    <3>4. QED
      BY <3>1, <3>2, <3>3
  <2>5. chars' \in [Core -> 0 .. Len(Message) + 1]
    <3>1. Len(Message) + 1 \in 0 .. Len(Message) + 1
      BY <1>0
    <3>2. chars' = chars \/ chars' = [chars EXCEPT ![c] = Len(Message) + 1]
      BY <2>1
    <3>3. QED
      BY <3>1, <3>2, Zenon DEF TypeOK
  <2>6. pc' \in [Core -> Labels0 \cup Labels1] /\ pc'[0] \in Labels0 /\ pc'[1] \in Labels1
    BY <1>0, <2>1 DEF TypeOK, Goto, Core, Labels0, Labels1
  <2>7. QED
    BY <2>1, <2>3, <2>4, <2>5, <2>6, Zenon DEF TypeOK
<1>2. CASE NothingToParse(c)
  BY <1>0, <1>2 DEF TypeOK, NothingToParse, AfterTask, Goto, Core, Labels0, Labels1
<1>3. CASE CompareSlot(c)
  <2>. DEFINE i == slot[c] + 1
             new == parsing[c].keys
             old == prevState.keys
             led == IF NewIn(i, new, old) /\ new[i] = CapsLock THEN ~caps ELSE caps
             found == (IF NewIn(i, new, old) THEN OnKeyDown(new[i], led) ELSE <<>>)
                      \o (IF NewIn(i, old, new) THEN OnKeyUp(old[i]) ELSE <<>>)
  <2>1. slot[c] < Slots /\ slot' = [slot EXCEPT ![c] = i] /\ caps' = led /\ todo' = [todo EXCEPT ![c] = found]
    BY <1>3 DEF CompareSlot
  <2>2. i \in 1 .. Slots
    BY <1>0, <2>1, SMTT(30) DEF TypeOK
  <2>3. new[i] \in SlotKey /\ old[i] \in SlotKey
    BY <2>2, Zenon DEF TypeOK, Report
  <2>4. led \in BOOLEAN
    BY Zenon DEF TypeOK
  <2>5. found \in Seq(KeyChange)
    <3>. HIDE DEF led, i, new, old
    <3>1. OnKeyDown(new[i], led) \in Seq(KeyChange) /\ OnKeyUp(old[i]) \in Seq(KeyChange)
      BY <2>3, <2>4, KeyEventsTyped
    <3>2. QED
      BY <3>1
  <2>6. todo' \in [Core -> Seq(KeyChange)] /\ slot' \in [Core -> 0 .. Slots] /\ caps' \in BOOLEAN
    <3>. HIDE DEF led, found, i
    <3>1. QED
      BY <1>0, <2>1, <2>2, <2>4, <2>5 DEF TypeOK
  <2>7. QED
    BY <1>3, <2>6, Zenon DEF TypeOK, CompareSlot
<1>4. CASE StoreState(c)
  BY <1>0, <1>4 DEF TypeOK, StoreState, AfterTask, Goto, Core, Labels0, Labels1
<1>5. CASE Enqueue(c)
  <2>1. todo[c] # <<>> /\ todo[c] \in Seq(KeyChange) /\ todo[c][1] \in KeyChange
    BY <1>5 DEF TypeOK, Enqueue
  <2>2. todo[c][1].key \in EventKey /\ todo[c][1].up \in BOOLEAN
    BY <2>1 DEF KeyChange
  <2>3. Tail(todo[c]) \in Seq(KeyChange) /\ AfterRefusal(todo[c]) \in Seq(KeyChange)
    BY <2>1, AfterRefusalTyped
  <2>4. todo' \in [Core -> Seq(KeyChange)]
    BY <1>5, <2>3, Zenon DEF TypeOK, Enqueue
  <2>5. queue' \in Seq(Event) /\ Len(queue') <= Capacity /\ serial' \in Nat
    <3>1. CASE Full
      BY <1>5, <3>1 DEF TypeOK, Enqueue
    <3>2. CASE ~Full
      <4>1. [n |-> serial + 1, key |-> todo[c][1].key, up |-> todo[c][1].up] \in Event
        BY <2>2 DEF TypeOK, Event
      <4>2. Len(queue) < Capacity
        BY <3>2, PipelineAssumption DEF TypeOK, Full, PipelineAssumption
      <4>3. /\ serial' = serial + 1
            /\ queue' = Append(queue, [n |-> serial + 1, key |-> todo[c][1].key, up |-> todo[c][1].up])
        BY <1>5, <3>2 DEF Enqueue
      <4>4. queue \in Seq(Event) /\ serial \in Nat /\ Capacity \in Nat
        BY PipelineAssumption DEF TypeOK, PipelineAssumption
      <4>5. queue' \in Seq(Event) /\ Len(queue') = Len(queue) + 1 /\ Len(queue) \in Nat
        BY <4>1, <4>3, <4>4
      <4>6. QED
        BY <4>2, <4>3, <4>4, <4>5
    <3>3. QED
      BY <3>1, <3>2
  <2>6. lost' \subseteq EventKey
    BY <1>5, <2>2 DEF TypeOK, Enqueue
  <2>7. QED
    BY <1>5, <2>4, <2>5, <2>6, Zenon DEF TypeOK, Enqueue
<1>6. CASE GhostType(c)
  <2>1. chars[c] \in 1 .. Len(Message) + 1 /\ chars[c] - 1 \in 0 .. Len(Message) + 1
        /\ Len(Message) + 1 - chars[c] \in 0 .. Len(Message)
    <3>1. chars[c] \in 0 .. Len(Message) + 1 /\ chars[c] > 0
      BY <1>6 DEF TypeOK, GhostType
    <3>2. QED
      BY <1>0, <3>1, SMTT(30)
  <2>2. Keystroke(Len(Message) + 1 - chars[c]) \in Seq(KeyChange)
    BY <2>1, KeystrokeTyped
  <2>3. todo' \in [Core -> Seq(KeyChange)] /\ chars' \in [Core -> 0 .. Len(Message) + 1]
    BY <1>6, <2>1, <2>2, Zenon DEF TypeOK, GhostType
  <2>4. caps' \in BOOLEAN
    BY <1>6 DEF GhostType
  <2>5. QED
    BY <1>6, <2>3, <2>4, Zenon DEF TypeOK, GhostType
<1>7. CASE GhostDone(c)
  BY <1>0, <1>7 DEF TypeOK, GhostDone, AfterTask, Goto, Core, Labels0, Labels1
<1>8. QED
  BY <1>1, <1>2, <1>3, <1>4, <1>5, <1>6, <1>7 DEF Keyboards

LEMMA PackerTyped ==
  ASSUME TypeOK, Packer \/ HostReads \/ BusReset
  PROVE  TypeOK'
<1>. USE DEF Goto, Core, Labels0, Labels1
<1>1. CASE Look
  BY <1>1 DEF TypeOK, Look
<1>2. CASE First
  BY <1>2 DEF TypeOK, First, EmptyRegister
<1>3. CASE TakeFirst
  <2>1. PICK e \in Garbage \cup Range(queue) :
          /\ Dequeue(e)
          /\ register' = [EmptyRegister EXCEPT !.k1 = AdbKey(e), !.up1 = AdbUp(e)]
    BY <1>3, Zenon DEF TakeFirst
  <2>2. e \in Event /\ AdbKey(e) \in EventKey \cup {NoKey} /\ AdbUp(e) \in BOOLEAN
        /\ Taken \in Seq(Event) /\ Len(Taken) <= Capacity
    BY TakenTyped
  <2>3. packed' \in Nat /\ queue' \in Seq(Event) /\ Len(queue') <= Capacity
        /\ UNCHANGED <<serial, lost, peeked>>
    BY <2>1, <2>2 DEF Dequeue, Event
  <2>4. register' \in [k1 : EventKey \cup {NoKey}, up1 : BOOLEAN, k2 : EventKey \cup {NoKey}, up2 : BOOLEAN]
    BY <2>1, <2>2, Zenon DEF EmptyRegister
  <2>5. QED
    BY <1>3, <2>3, <2>4 DEF TypeOK, TakeFirst
<1>4. CASE Second
  BY <1>4, Zenon DEF TypeOK, Second, PowerUp2
<1>5. CASE Peek
  BY <1>5 DEF TypeOK, Peek
<1>6. CASE Inspect
  BY <1>6 DEF TypeOK, Inspect
<1>7. CASE TakeSecond
  <2>1. PICK e \in Garbage \cup Range(queue) :
          /\ Dequeue(e)
          /\ register' = [register EXCEPT !.k2 = AdbKey(e), !.up2 = AdbUp(e)]
    BY <1>7, Zenon DEF TakeSecond
  <2>2. e \in Event /\ AdbKey(e) \in EventKey \cup {NoKey} /\ AdbUp(e) \in BOOLEAN
        /\ Taken \in Seq(Event) /\ Len(Taken) <= Capacity
    BY TakenTyped
  <2>3. packed' \in Nat /\ queue' \in Seq(Event) /\ Len(queue') <= Capacity
        /\ UNCHANGED <<serial, lost, peeked>>
    BY <2>1, <2>2 DEF Dequeue, Event
  <2>4. register' \in [k1 : EventKey \cup {NoKey}, up1 : BOOLEAN, k2 : EventKey \cup {NoKey}, up2 : BOOLEAN]
    BY <2>1, <2>2, Zenon DEF TypeOK
  <2>5. QED
    BY <1>7, <2>3, <2>4 DEF TypeOK, TakeSecond
<1>8. CASE Latch
  BY <1>8 DEF TypeOK, Latch
<1>9. CASE HostReads
  BY <1>9, Zenon DEF TypeOK, HostReads, Hears, Heard
<1>10. CASE OtherCommand
  BY <1>10 DEF TypeOK, OtherCommand
<1>11. CASE BusReset
  BY <1>11 DEF TypeOK, BusReset
<1>12. QED
  BY <1>1, <1>2, <1>3, <1>4, <1>5, <1>6, <1>7, <1>8, <1>9, <1>10, <1>11 DEF Packer

LEMMA ResetTyped ==
  ASSUME TypeOK, Reset
  PROVE  TypeOK'
<1>. USE DEF Goto, Core, Labels0, Labels1
<1>1. CASE ResetRequested
  BY <1>1 DEF TypeOK, ResetRequested
<1>2. CASE Drain
  BY <1>2 DEF TypeOK, Drain
<1>3. CASE Free
  BY <1>3, PipelineAssumption DEF PipelineAssumption, TypeOK, Free, Taken
<1>4. CASE ResetDone
  BY <1>4, Zenon DEF TypeOK, ResetDone
<1>5. QED
  BY <1>1, <1>2, <1>3, <1>4 DEF Reset

LEMMA StutterTyped == TypeOK /\ UNCHANGED vars => TypeOK'
  BY Zenon DEF TypeOK

THEOREM TypeCorrect == Spec => []TypeOK
<1>1. TypeOK /\ [Next]_vars => TypeOK'
  <2>. HIDE DEF vars
  <2>1. QED
    BY KeyboardsTyped, PackerTyped, ResetTyped, StutterTyped DEF Next
<1>. HIDE DEF vars
<1>2. QED
  BY <1>1, InitTyped, PTL DEF Spec

(* ------------------------- the order of packing ------------------------ *)

\* The numbers in the queue ascend from the last packed to the last given out.
\* PackedInOrder alone says nothing of an empty queue, so a new event could
\* have a number that is packed already.
Numbered == PackedInOrder /\ packed <= serial

\* Only three steps touch the queue and its numbers.
LEMMA ElsewhereUntouched ==
  ASSUME [Next]_vars
  PROVE  \/ UNCHANGED <<queue, serial, packed>>
         \/ \E c \in Core : Enqueue(c)
         \/ TakeFirst \/ TakeSecond \/ Free
<1>1. CASE UNCHANGED vars
  BY <1>1, SMTT(30)
<1>2. ASSUME NEW c \in Core, Keyboards(c)
      PROVE  Enqueue(c) \/ UNCHANGED <<queue, serial, packed>>
  BY <1>2, Zenon DEF Keyboards, Parse, NothingToParse, CompareSlot, StoreState, GhostType, GhostDone
<1>3. ASSUME Packer \/ HostReads \/ BusReset
      PROVE  TakeFirst \/ TakeSecond \/ UNCHANGED <<queue, serial, packed>>
  BY <1>3 DEF Packer, Look, First, Second, Peek, Inspect, Latch, OtherCommand, HostReads, BusReset
<1>4. ASSUME Reset
      PROVE  Free \/ UNCHANGED <<queue, serial, packed>>
  BY <1>4 DEF Reset, ResetRequested, Drain, ResetDone
<1>5. QED
  BY <1>1, <1>2, <1>3, <1>4 DEF Next

LEMMA TakenInOrder ==
  ASSUME TypeOK, Numbered, queue' = Taken,
         packed' = packed \/ (queue # <<>> /\ packed' = Head(queue).n), serial' = serial
  PROVE  Numbered' /\ packed' >= packed
<1>1. queue \in Seq(Event) /\ packed \in Nat /\ serial \in Nat /\ Len(queue) \in Nat
  BY DEF TypeOK
<1>2. CASE queue = <<>>
  BY <1>1, <1>2 DEF Numbered, PackedInOrder, Taken
<1>3. CASE queue # <<>>
  <2>1. /\ Len(queue') = Len(queue) - 1 /\ Len(queue) \in Nat \ {0}
        /\ \A i \in 1 .. Len(queue') : queue'[i] = queue[i + 1]
        /\ Head(queue) = queue[1]
    BY <1>1, <1>3 DEF Taken
  <2>2. \A i \in 1 .. Len(queue) : queue[i].n \in Nat
    <3>1. \A i \in 1 .. Len(queue) : queue[i] \in Event
      BY <1>1
    <3>2. \A x \in Event : x.n \in Nat
      BY DEF Event
    <3>3. QED
      BY <3>1, <3>2
  <2>3. packed' \in Nat /\ packed <= packed' /\ packed' <= queue[1].n /\ queue[1].n <= serial
    BY <1>1, <2>1, <2>2 DEF Numbered, PackedInOrder
  <2>4. \A i \in 1 .. Len(queue') : i + 1 \in 1 .. Len(queue) /\ 1 < i + 1 /\ 1 \in 1 .. Len(queue)
    BY <2>1
  <2>5. \A i \in 1 .. Len(queue') : packed' < queue'[i].n /\ queue'[i].n <= serial'
    BY <1>1, <2>1, <2>2, <2>3, <2>4 DEF Numbered, PackedInOrder
  <2>6. \A i, j \in 1 .. Len(queue') : i < j => queue'[i].n < queue'[j].n
    BY <2>1, <2>4 DEF Numbered, PackedInOrder
  <2>7. QED
    BY <1>1, <2>2, <2>3, <2>5, <2>6 DEF Numbered, PackedInOrder
<1>4. QED
  BY <1>2, <1>3

LEMMA EnqueuedInOrder ==
  ASSUME TypeOK, Numbered, NEW c \in Core, Enqueue(c)
  PROVE  Numbered' /\ packed' = packed
<1>1. queue \in Seq(Event) /\ packed \in Nat /\ serial \in Nat /\ Len(queue) \in Nat
  BY DEF TypeOK
<1>2. CASE Full
  BY <1>2 DEF Enqueue, Numbered, PackedInOrder
<1>3. CASE ~Full
  <2>. DEFINE e == [n |-> serial + 1, key |-> todo[c][1].key, up |-> todo[c][1].up]
  <2>1. queue' = Append(queue, e) /\ serial' = serial + 1 /\ packed' = packed
    BY <1>3 DEF Enqueue
  <2>2. e.n = serial + 1
    OBVIOUS
  <2>. HIDE DEF e
  <2>3. /\ Len(queue') = Len(queue) + 1
        /\ \A i \in 1 .. Len(queue) : queue'[i] = queue[i]
        /\ queue'[Len(queue) + 1] = e
    BY <1>1, <2>1
  <2>4. \A i \in 1 .. Len(queue) : queue[i].n \in Nat
    <3>1. \A i \in 1 .. Len(queue) : queue[i] \in Event
      BY <1>1
    <3>2. \A x \in Event : x.n \in Nat
      BY DEF Event
    <3>3. QED
      BY <3>1, <3>2
  <2>5. \A i \in 1 .. Len(queue') : i \in 1 .. Len(queue) \/ i = Len(queue) + 1
    BY <1>1, <2>3
  <2>6. \A i \in 1 .. Len(queue') : packed' < queue'[i].n /\ queue'[i].n <= serial'
    BY <1>1, <2>1, <2>2, <2>3, <2>4, <2>5 DEF Numbered, PackedInOrder
  <2>7. ASSUME NEW i \in 1 .. Len(queue'), NEW j \in 1 .. Len(queue'), i < j
        PROVE  queue'[i].n < queue'[j].n
    <3>1. i \in 1 .. Len(queue)
      BY <1>1, <2>3, <2>7
    <3>2. CASE j \in 1 .. Len(queue)
      BY <2>3, <2>7, <3>1, <3>2 DEF Numbered, PackedInOrder
    <3>3. CASE j = Len(queue) + 1
      BY <1>1, <2>2, <2>3, <2>4, <3>1, <3>3, SMTT(30) DEF Numbered, PackedInOrder
    <3>4. QED
      BY <2>5, <3>2, <3>3
  <2>8. QED
    BY <1>1, <2>1, <2>6, <2>7, SMTT(30) DEF Numbered, PackedInOrder
<1>4. QED
  BY <1>2, <1>3

LEMMA StepInOrder ==
  ASSUME TypeOK, Numbered, [Next]_vars
  PROVE  Numbered' /\ packed' >= packed
<1>0. packed \in Nat
  BY DEF TypeOK
<1>1. CASE UNCHANGED <<queue, serial, packed>>
  BY <1>0, <1>1 DEF Numbered, PackedInOrder
<1>2. ASSUME NEW c \in Core, Enqueue(c)
      PROVE  Numbered' /\ packed' >= packed
  BY <1>0, <1>2, EnqueuedInOrder
<1>3. ASSUME NEW e \in Garbage \cup Range(queue), Dequeue(e)
      PROVE  Numbered' /\ packed' >= packed
  <2>1. packed' = packed \/ (queue # <<>> /\ packed' = Head(queue).n)
    BY <1>3 DEF Dequeue, Garbage
  <2>2. queue' = Taken /\ serial' = serial
    BY <1>3 DEF Dequeue
  <2>3. QED
    BY <2>1, <2>2, TakenInOrder
<1>4. CASE Free
  BY <1>4, TakenInOrder DEF Free
<1>5. QED
  BY <1>1, <1>2, <1>3, <1>4, ElsewhereUntouched, Zenon DEF TakeFirst, TakeSecond

\* Through two producers, the packing of pairs and the emptying by core 1, the
\* queue stays typed and bounded, no event is packed twice, and none is packed
\* after a younger one.
THEOREM QueueIsKept == Spec => []QueueKept
<1>1. Init => Numbered
  BY DEF Init, Numbered, PackedInOrder
<1>2. TypeOK /\ Numbered /\ [Next]_vars => Numbered'
  BY StepInOrder
<1>3. TypeOK /\ Numbered => QueueKept
  BY DEF Numbered, QueueKept
<1>. HIDE DEF vars
<1>4. QED
  BY <1>1, <1>2, <1>3, TypeCorrect, PTL DEF Spec

\* The number of the event packed last never goes back.
THEOREM PackingGoesForward == Spec => [][packed' >= packed]_vars
<1>1. Init => Numbered
  BY DEF Init, Numbered, PackedInOrder
<1>2. TypeOK /\ Numbered /\ [Next]_vars => Numbered' /\ [packed' >= packed]_vars
  BY StepInOrder
<1>. HIDE DEF vars
<1>3. QED
  BY <1>1, <1>2, TypeCorrect, PTL DEF Spec

(* ------------------------------ the latch ------------------------------ *)

\* The packing of a register goes on only when the last one has been read:
\* kbdpending is looked at once, when it begins.
Packing == {"first", "take", "second", "peek", "inspect", "take2", "latch"}
PackedWhenRead == pc[0] \in Packing => ~pending

LEMMA PackedWhenReadKept ==
  ASSUME TypeOK, PackedWhenRead, [Next]_vars
  PROVE  PackedWhenRead'
<1>. USE DEF PackedWhenRead, Packing, Goto
<1>0. pc \in [Core -> Labels0 \cup Labels1]
  BY DEF TypeOK
<1>1. CASE UNCHANGED vars
  BY <1>1, SMTT(30)
<1>2. ASSUME NEW c \in Core, Keyboards(c)
      PROVE  PackedWhenRead'
  BY <1>0, <1>2, Zenon DEF Core, AfterTask, Keyboards, Parse, NothingToParse, CompareSlot, StoreState, Enqueue, GhostType, GhostDone
<1>3. CASE Packer
  <2>1. CASE Look
    BY <1>0, <2>1 DEF Core, Look, MayPack
  <2>2. CASE First \/ TakeFirst \/ Second \/ Peek \/ Inspect \/ TakeSecond
    BY <1>0, <2>2, Zenon DEF First, TakeFirst, Second, Peek, Inspect, TakeSecond
  <2>3. CASE Latch \/ OtherCommand
    BY <1>0, <2>3 DEF Core, Latch, OtherCommand
  <2>4. QED
    BY <1>3, <2>1, <2>2, <2>3 DEF Packer
<1>4. CASE HostReads \/ BusReset
  BY <1>0, <1>4 DEF Core, HostReads, BusReset
<1>5. CASE Reset
  BY <1>0, <1>5 DEF Core, Reset, ResetRequested, Drain, Free, ResetDone
<1>6. QED
  BY <1>1, <1>2, <1>3, <1>4, <1>5 DEF Next

\* What RegisterLatch sees of a step: the register is written only while no
\* report waits, and it is read as it was latched.
LEMMA StepOfLatch ==
  ASSUME TypeOK, PackedWhenRead, [Next]_vars
  PROVE  \/ UNCHANGED <<pending, host>> /\ (pending => register' = register)
         \/ ~pending /\ pending' /\ host' = host
         \/ pending /\ ~pending' /\ host' = Hears(host, register)
<1>1. CASE UNCHANGED vars
  BY <1>1, SMTT(30)
<1>2. ASSUME NEW c \in Core, Keyboards(c)
      PROVE  UNCHANGED <<pending, host, register>>
  BY <1>2, Zenon DEF Keyboards, Parse, NothingToParse, CompareSlot, StoreState, Enqueue, GhostType, GhostDone
<1>3. CASE Packer
  <2>1. CASE Look \/ OtherCommand
    BY <2>1 DEF Look, OtherCommand
  <2>2. CASE First \/ TakeFirst \/ Second \/ Peek \/ Inspect \/ TakeSecond
    BY <2>2, Zenon DEF PackedWhenRead, Packing, First, TakeFirst, Second, Peek, Inspect, TakeSecond, Dequeue
  <2>3. CASE Latch
    BY <2>3, Zenon DEF PackedWhenRead, Packing, Latch
  <2>4. QED
    BY <1>3, <2>1, <2>2, <2>3 DEF Packer
<1>4. CASE HostReads
  BY <1>4, Zenon DEF HostReads
<1>5. CASE BusReset
  BY <1>5 DEF BusReset
<1>6. CASE Reset
  BY <1>6 DEF Reset, ResetRequested, Drain, Free, ResetDone
<1>7. QED
  BY <1>1, <1>2, <1>3, <1>4, <1>5, <1>6 DEF Next

LEMMA LatchInit == Init => RegisterLatch!Init
  BY DEF Init, RegisterLatch!Init

LEMMA LatchStep ==
  ASSUME TypeOK, PackedWhenRead, [Next]_vars
  PROVE  [RegisterLatch!Next]_(<<IF pending THEN <<register>> ELSE <<>>, host>>)
<1>0. pending \in BOOLEAN /\ <<register>> # <<>> /\ <<register>>[1] = register
      /\ Len(<<register'>>) = 1
  BY DEF TypeOK
<1>1. CASE UNCHANGED <<pending, host>> /\ (pending => register' = register)
  BY <1>0, <1>1
<1>2. CASE ~pending /\ pending' /\ host' = host
  BY <1>0, <1>2 DEF RegisterLatch!Next, RegisterLatch!Take
<1>3. CASE pending /\ ~pending' /\ host' = Hears(host, register)
  BY <1>0, <1>3 DEF RegisterLatch!Next, RegisterLatch!Deliver
<1>4. QED
  BY <1>1, <1>2, <1>3, StepOfLatch

\* The register with kbdpending is a ReportLatch: it is not packed again over a
\* report the host has not read, and each report reaches the host once.
THEOREM RegisterIsLatch == Spec => ImplementsLatch
<1>1. Init => PackedWhenRead
  BY DEF Init, PackedWhenRead, Packing
<1>2. TypeOK /\ PackedWhenRead /\ [Next]_vars => PackedWhenRead'
  BY PackedWhenReadKept
<1>3. TypeOK /\ PackedWhenRead /\ [Next]_vars
        => [RegisterLatch!Next]_(<<IF pending THEN <<register>> ELSE <<>>, host>>)
  BY LatchStep
<1>. HIDE DEF vars
<1>4. QED
  BY <1>1, <1>2, <1>3, LatchInit, TypeCorrect, PTL DEF Spec, ImplementsLatch, RegisterLatch!Spec

(* ------------------------ the keys that are held ----------------------- *)

\* What a run of events makes of a key that was held, or not.
Has(s, k) == \E i \in 1 .. Len(s) : s[i].key = k
LastDown(s, k) ==
  \E i \in 1 .. Len(s) : s[i].key = k /\ ~s[i].up /\ \A j \in 1 .. Len(s) : i < j => s[j].key # k
After(s, k, was) == LastDown(s, k) \/ (~Has(s, k) /\ was)

\* The keys the host holds once it has read the register on its way to it.
Live == pending \/ pc[0] \in {"second", "peek", "inspect", "take2", "latch"}
OnTheWay == IF Live THEN Hears(host, register) ELSE host

\* The host will hold k when it has read everything that is queued (Told); it
\* ought to when the events found are queued too (Owed).
Told(k) == After(queue, k, k \in OnTheWay)
Owed(c, k) == After(todo[c], k, Told(k))

\* What the reports say of k, as far as they have been compared.
SlotsSay(c, k) ==
  LET new == parsing[c].keys
      old == prevState.keys
      seen == 1 .. slot[c]
  IN /\ k \in Range(old) \/ \E i \in seen : new[i] = k
     /\ k \in Range(new) \/ ~\E i \in seen : old[i] = k
Found(c, k) ==
  IF pc[c] = "parse"
  THEN k \in parsing[c].mods \/ SlotsSay(c, k)
  ELSE k \in prevState.mods \cup Range(prevState.keys)

\* Only core c has keyboards, and nothing has reset the bus.
Solo(c) == workload.count[1 - c] = 0 /\ resets = 0
NoGhosts == \A c \in Core : workload.report[c] \cap GhostReport = {}

\* A core without keyboards does not parse, events are found by parsing, and a
\* message is typed with the Caps Lock LED dark.
Orderly ==
  /\ resets <= workload.resets
  /\ \A c \in Core :
       /\ workload.count[c] = 0 => pc[c] \notin {"parse", "ghost"}
       /\ pc[c] \notin {"parse", "ghost"} => todo[c] = <<>>
       /\ NoGhosts => pc[c] # "ghost"
       /\ Solo(c) /\ pc[c] = "ghost" /\ chars[c] <= Len(Message) => ~caps

\* Until the bus is reset nobody takes events away from GetAdbRegister0.
Undisturbed ==
  resets = 0 =>
    /\ ~usb_reset /\ pc[1] \notin {"drain", "free", "clear"}
    /\ pc[0] \in {"take", "inspect", "take2"} => queue # <<>>
    /\ pc[0] = "inspect" => peeked = Head(queue)

\* The second place of a register is free until it is filled, and no key
\* without a code gets this far.
RegisterKept ==
  /\ pc[0] \in {"second", "peek", "inspect", "take2"} => register.k2 = NoKey
  /\ register.k1 \notin Unmapped /\ register.k2 \notin Unmapped /\ host \cap Unmapped = {}

\* The events in the register, in the queue and about to be queued make up for
\* the difference between the keys the host holds and those the reports say
\* are held: this is what a full queue breaks for a key, and the next event of
\* that key mends.
Watched == (Mapped \cup Modifier) \ {Power}
Due(c, k) == IF k = CapsLock THEN caps ELSE Found(c, k)
KeyKept(c, k) == k \notin lost \/ Has(todo[c], k) => (Owed(c, k) <=> Due(c, k))
EventsAccountFor ==
  \A c \in Core : Solo(c) => \A k \in Watched : k = CapsLock \/ NoGhosts => KeyKept(c, k)

KeysInv == Orderly /\ Undisturbed /\ RegisterKept /\ PackedWhenRead /\ EventsAccountFor

(* ------------------------ what events amount to ------------------------ *)

LEMMA AfterNone ==
  ASSUME NEW k, NEW was
  PROVE  ~Has(<<>>, k) /\ (After(<<>>, k, was) <=> was)
<1>1. ~Has(<<>>, k) /\ ~LastDown(<<>>, k)
  BY DEF Has, LastDown
<1>2. QED
  BY <1>1 DEF After

\* Events that do not name a key leave it alone, those that do settle it.
LEMMA AfterDecides ==
  ASSUME NEW s, NEW k, NEW was
  PROVE  /\ ~Has(s, k) => (After(s, k, was) <=> was)
         /\ Has(s, k) => \A other : After(s, k, was) <=> After(s, k, other)
  BY DEF After, LastDown, Has

LEMMA AfterFirst ==
  ASSUME NEW T, NEW s \in Seq(T), s # <<>>, NEW k, NEW was
  PROVE  /\ Has(s, k) <=> (s[1].key = k \/ Has(Tail(s), k))
         /\ s[1].key = k => (After(s, k, was) <=> After(Tail(s), k, ~s[1].up))
         /\ s[1].key # k => (After(s, k, was) <=> After(Tail(s), k, was))
<1>. DEFINE t == Tail(s)
<1>1. /\ Len(s) \in Nat \ {0} /\ Len(t) = Len(s) - 1
      /\ \A i \in 1 .. Len(t) : t[i] = s[i + 1]
  OBVIOUS
<1>. HIDE DEF t
<1>2. \A i \in 1 .. Len(s) : i = 1 \/ (i - 1 \in 1 .. Len(t) /\ s[i] = t[i - 1])
  BY <1>1
<1>3. \A i \in 1 .. Len(t) : i + 1 \in 1 .. Len(s)
  BY <1>1
<1>4. Has(s, k) <=> (s[1].key = k \/ Has(t, k))
  BY <1>1, <1>2, <1>3 DEF Has
<1>5. LastDown(s, k) <=> (LastDown(t, k) \/ (~Has(t, k) /\ s[1].key = k /\ ~s[1].up))
  <2>1. ASSUME LastDown(t, k) PROVE LastDown(s, k)
    <3>1. PICK i \in 1 .. Len(t) : t[i].key = k /\ ~t[i].up /\ \A j \in 1 .. Len(t) : i < j => t[j].key # k
      BY <2>1 DEF LastDown
    <3>2. i + 1 \in 1 .. Len(s) /\ s[i + 1].key = k /\ ~s[i + 1].up
      BY <1>1, <1>3, <3>1
    <3>3. ASSUME NEW j \in 1 .. Len(s), i + 1 < j
          PROVE  s[j].key # k
      <4>1. j - 1 \in 1 .. Len(t) /\ s[j] = t[j - 1] /\ i < j - 1
        BY <1>1, <1>2, <3>3
      <4>2. QED
        BY <3>1, <4>1
    <3>4. QED
      BY <3>2, <3>3 DEF LastDown
  <2>2. ASSUME ~Has(t, k), s[1].key = k, ~s[1].up PROVE LastDown(s, k)
    <3>1. \A j \in 1 .. Len(s) : 1 < j => s[j].key # k
      BY <1>1, <1>2, <2>2 DEF Has
    <3>2. 1 \in 1 .. Len(s)
      BY <1>1
    <3>3. QED
      BY <2>2, <3>1, <3>2 DEF LastDown
  <2>3. ASSUME LastDown(s, k) PROVE LastDown(t, k) \/ (~Has(t, k) /\ s[1].key = k /\ ~s[1].up)
    <3>1. PICK i \in 1 .. Len(s) : s[i].key = k /\ ~s[i].up /\ \A j \in 1 .. Len(s) : i < j => s[j].key # k
      BY <2>3 DEF LastDown
    <3>2. CASE i = 1
      <4>1. \A j \in 1 .. Len(t) : t[j].key # k
        BY <1>1, <1>3, <3>1, <3>2
      <4>2. QED
        BY <3>1, <3>2, <4>1 DEF Has
    <3>3. CASE i # 1
      <4>1. i - 1 \in 1 .. Len(t) /\ t[i - 1].key = k /\ ~t[i - 1].up
        BY <1>2, <3>1, <3>3
      <4>2. ASSUME NEW j \in 1 .. Len(t), i - 1 < j
            PROVE  t[j].key # k
        <5>1. j + 1 \in 1 .. Len(s) /\ i < j + 1 /\ t[j] = s[j + 1]
          BY <1>1, <1>3, <4>2
        <5>2. QED
          BY <3>1, <5>1
      <4>3. QED
        BY <4>1, <4>2 DEF LastDown
    <3>4. QED
      BY <3>2, <3>3
  <2>4. QED
    BY <2>1, <2>2, <2>3
<1>6. QED
  BY <1>4, <1>5 DEF After, t

LEMMA AfterOne ==
  ASSUME NEW e, NEW k, NEW was
  PROVE  /\ Has(<<e>>, k) <=> e.key = k
         /\ e.key = k => (After(<<e>>, k, was) <=> ~e.up)
  BY DEF After, Has, LastDown

LEMMA AfterBoth ==
  ASSUME NEW T, NEW s \in Seq(T), NEW t \in Seq(T), NEW k, NEW was
  PROVE  /\ Has(s \o t, k) <=> (Has(s, k) \/ Has(t, k))
         /\ After(s \o t, k, was) <=> After(t, k, After(s, k, was))
<1>. DEFINE u == s \o t
            n == Len(s)
<1>1. /\ n \in Nat /\ Len(t) \in Nat /\ Len(u) = n + Len(t)
      /\ \A i \in 1 .. n : u[i] = s[i]
      /\ \A i \in 1 .. Len(t) : u[n + i] = t[i]
  OBVIOUS
<1>. HIDE DEF u
<1>2. \A i \in 1 .. Len(u) : i \in 1 .. n \/ (i - n \in 1 .. Len(t) /\ u[i] = t[i - n])
  <2>1. ASSUME NEW i \in 1 .. Len(u), i \notin 1 .. n
        PROVE  i - n \in 1 .. Len(t) /\ u[i] = t[i - n]
    <3>1. i - n \in 1 .. Len(t) /\ n + (i - n) = i
      BY <1>1, <2>1
    <3>2. QED
      BY <1>1, <3>1
  <2>2. QED
    BY <2>1
<1>3. /\ \A i \in 1 .. n : i \in 1 .. Len(u) /\ i < n + 1
      /\ \A i \in 1 .. Len(t) : n + i \in 1 .. Len(u) /\ n < n + i
  BY <1>1
<1>. HIDE DEF n
<1>4. Has(u, k) <=> (Has(s, k) \/ Has(t, k))
  <2>1. ASSUME Has(u, k) PROVE Has(s, k) \/ Has(t, k)
    <3>1. PICK i \in 1 .. Len(u) : u[i].key = k
      BY <2>1 DEF Has
    <3>2. CASE i \in 1 .. n
      BY <1>1, <3>1, <3>2 DEF Has, n
    <3>3. CASE i - n \in 1 .. Len(t) /\ u[i] = t[i - n]
      BY <3>1, <3>3 DEF Has
    <3>4. QED
      BY <1>2, <3>2, <3>3
  <2>2. ASSUME Has(s, k) PROVE Has(u, k)
    <3>1. PICK i \in 1 .. n : s[i].key = k
      BY <2>2 DEF Has, n
    <3>2. QED
      BY <1>1, <1>3, <3>1 DEF Has
  <2>3. ASSUME Has(t, k) PROVE Has(u, k)
    <3>1. PICK i \in 1 .. Len(t) : t[i].key = k
      BY <2>3 DEF Has
    <3>2. QED
      BY <1>1, <1>3, <3>1 DEF Has
  <2>4. QED
    BY <2>1, <2>2, <2>3
<1>5. LastDown(u, k) <=> (LastDown(t, k) \/ (~Has(t, k) /\ LastDown(s, k)))
  <2>1. ASSUME LastDown(t, k) PROVE LastDown(u, k)
    <3>1. PICK i \in 1 .. Len(t) : t[i].key = k /\ ~t[i].up /\ \A j \in 1 .. Len(t) : i < j => t[j].key # k
      BY <2>1 DEF LastDown
    <3>2. n + i \in 1 .. Len(u) /\ u[n + i].key = k /\ ~u[n + i].up
      BY <1>1, <1>3, <3>1
    <3>3. ASSUME NEW j \in 1 .. Len(u), n + i < j
          PROVE  u[j].key # k
      <4>1. j - n \in 1 .. Len(t) /\ u[j] = t[j - n] /\ i < j - n
        BY <1>1, <1>2, <3>3
      <4>2. QED
        BY <3>1, <4>1
    <3>4. QED
      BY <3>2, <3>3 DEF LastDown
  <2>2. ASSUME ~Has(t, k), LastDown(s, k) PROVE LastDown(u, k)
    <3>1. PICK i \in 1 .. n : s[i].key = k /\ ~s[i].up /\ \A j \in 1 .. n : i < j => s[j].key # k
      BY <2>2 DEF LastDown, n
    <3>2. i \in 1 .. Len(u) /\ u[i].key = k /\ ~u[i].up
      BY <1>1, <1>3, <3>1
    <3>3. ASSUME NEW j \in 1 .. Len(u), i < j
          PROVE  u[j].key # k
      <4>1. CASE j \in 1 .. n
        BY <1>1, <3>1, <3>3, <4>1
      <4>2. CASE j - n \in 1 .. Len(t) /\ u[j] = t[j - n]
        BY <2>2, <4>2 DEF Has
      <4>3. QED
        BY <1>2, <4>1, <4>2
    <3>4. QED
      BY <3>2, <3>3 DEF LastDown
  <2>3. ASSUME LastDown(u, k) PROVE LastDown(t, k) \/ (~Has(t, k) /\ LastDown(s, k))
    <3>1. PICK i \in 1 .. Len(u) : u[i].key = k /\ ~u[i].up /\ \A j \in 1 .. Len(u) : i < j => u[j].key # k
      BY <2>3 DEF LastDown
    <3>2. CASE i \in 1 .. n
      <4>1. \A j \in 1 .. Len(t) : t[j].key # k
        <5>1. ASSUME NEW j \in 1 .. Len(t)
              PROVE  t[j].key # k
          <6>1. n + j \in 1 .. Len(u) /\ i < n + j /\ u[n + j] = t[j]
            BY <1>1, <3>2
          <6>2. QED
            BY <3>1, <6>1
        <5>2. QED
          BY <5>1
      <4>2. s[i].key = k /\ ~s[i].up /\ \A j \in 1 .. n : i < j => s[j].key # k
        BY <1>1, <1>3, <3>1, <3>2
      <4>3. QED
        BY <3>2, <4>1, <4>2 DEF Has, LastDown, n
    <3>3. CASE i - n \in 1 .. Len(t) /\ u[i] = t[i - n]
      <4>1. ASSUME NEW j \in 1 .. Len(t), i - n < j
            PROVE  t[j].key # k
        <5>1. n + j \in 1 .. Len(u) /\ i < n + j /\ t[j] = u[n + j]
          BY <1>1, <4>1
        <5>2. QED
          BY <3>1, <5>1
      <4>2. QED
        BY <3>1, <3>3, <4>1 DEF LastDown
    <3>4. QED
      BY <1>2, <3>2, <3>3
  <2>4. QED
    BY <2>1, <2>2, <2>3
<1>6. QED
  BY <1>4, <1>5 DEF After, u

LEMMA AfterAppend ==
  ASSUME NEW T, NEW s \in Seq(T), NEW e \in T, NEW k, NEW was
  PROVE  /\ Has(Append(s, e), k) <=> (Has(s, k) \/ e.key = k)
         /\ e.key = k => (After(Append(s, e), k, was) <=> ~e.up)
         /\ e.key # k => (After(Append(s, e), k, was) <=> After(s, k, was))
<1>. DEFINE t == <<e>>
<1>1. Append(s, e) = s \o t /\ t \in Seq(T)
  OBVIOUS
<1>2. /\ Has(t, k) <=> e.key = k
      /\ \A h : e.key = k => (After(t, k, h) <=> ~e.up)
  BY AfterOne, Zenon
<1>. HIDE DEF t
<1>3. /\ Has(s \o t, k) <=> (Has(s, k) \/ Has(t, k))
      /\ After(s \o t, k, was) <=> After(t, k, After(s, k, was))
  BY <1>1, AfterBoth
<1>4. e.key # k => (After(t, k, After(s, k, was)) <=> After(s, k, was))
  BY <1>2, AfterDecides
<1>5. QED
  BY <1>1, <1>2, <1>3, <1>4

\* The events of a key that came down or went up name that key alone.
LEMMA DownEvents ==
  ASSUME NEW j \in SlotKey, NEW led \in BOOLEAN, NEW k \in EventKey, NEW was
  PROVE  /\ Has(OnKeyDown(j, led), k) <=> j = k
         /\ j = k /\ k # CapsLock => After(OnKeyDown(j, led), k, was)
         /\ j = k /\ k = CapsLock => (After(OnKeyDown(j, led), k, was) <=> led)
<1>1. k \notin {NoKey, Overflow} /\ CapsLock \notin Doubled /\ CapsLock \notin {NoKey, Overflow}
      /\ NoKey \notin Doubled /\ Overflow \notin Doubled
  BY PipelineAssumption DEF PipelineAssumption, Mapped, EventKey
<1>2. CASE j \in {NoKey, Overflow}
  BY <1>1, <1>2, AfterNone DEF OnKeyDown
<1>3. CASE j = CapsLock
  BY <1>1, <1>3, AfterOne DEF OnKeyDown, Down, Up
<1>4. CASE j \in Doubled
  <2>. DEFINE t == <<Down(j)>>
  <2>1. OnKeyDown(j, led) = t \o t
    BY <1>1, <1>4 DEF OnKeyDown
  <2>2. t \in Seq({Down(j)}) /\ Down(j).key = j /\ ~Down(j).up
    BY DEF Down
  <2>3. (Has(t, k) <=> j = k) /\ \A h : j = k => After(t, k, h)
    BY <2>2, AfterOne
  <2>. HIDE DEF t
  <2>4. (Has(t \o t, k) <=> Has(t, k)) /\ (After(t \o t, k, was) <=> After(t, k, After(t, k, was)))
    BY <2>2, AfterBoth
  <2>5. QED
    BY <1>1, <1>4, <2>1, <2>3, <2>4
<1>5. CASE j \notin {NoKey, Overflow, CapsLock} \cup Doubled
  <2>1. OnKeyDown(j, led) = <<Down(j)>> /\ Down(j).key = j /\ ~Down(j).up
    BY <1>5, Zenon DEF OnKeyDown, Down
  <2>2. (Has(<<Down(j)>>, k) <=> j = k) /\ (j = k => After(<<Down(j)>>, k, was))
    BY <2>1, AfterOne
  <2>3. QED
    BY <1>1, <1>5, <2>1, <2>2
<1>6. QED
  BY <1>2, <1>3, <1>4, <1>5

LEMMA UpEvents ==
  ASSUME NEW j \in SlotKey, NEW k \in EventKey, NEW was
  PROVE  /\ Has(OnKeyUp(j), k) <=> j = k /\ k # CapsLock
         /\ j = k /\ k # CapsLock => ~After(OnKeyUp(j), k, was)
<1>1. k \notin {NoKey, Overflow} /\ CapsLock \notin Doubled /\ CapsLock \notin {NoKey, Overflow}
      /\ NoKey \notin Doubled /\ Overflow \notin Doubled
  BY PipelineAssumption DEF PipelineAssumption, Mapped, EventKey
<1>2. CASE j \in {NoKey, Overflow, CapsLock}
  BY <1>1, <1>2, AfterNone DEF OnKeyUp
<1>4. CASE j \in Doubled
  <2>. DEFINE t == <<Up(j)>>
  <2>1. OnKeyUp(j) = t \o t
    BY <1>1, <1>4 DEF OnKeyUp
  <2>2. t \in Seq({Up(j)}) /\ Up(j).key = j /\ Up(j).up
    BY DEF Up
  <2>3. (Has(t, k) <=> j = k) /\ \A h : j = k => ~After(t, k, h)
    BY <2>2, AfterOne
  <2>. HIDE DEF t
  <2>4. (Has(t \o t, k) <=> Has(t, k)) /\ (After(t \o t, k, was) <=> After(t, k, After(t, k, was)))
    BY <2>2, AfterBoth
  <2>5. QED
    BY <1>1, <1>4, <2>1, <2>3, <2>4
<1>5. CASE j \notin {NoKey, Overflow, CapsLock} \cup Doubled
  <2>1. OnKeyUp(j) = <<Up(j)>> /\ Up(j).key = j /\ Up(j).up
    BY <1>5, Zenon DEF OnKeyUp, Up
  <2>2. (Has(<<Up(j)>>, k) <=> j = k) /\ (j = k => ~After(<<Up(j)>>, k, was))
    BY <2>1, AfterOne
  <2>3. QED
    BY <1>1, <1>5, <2>1, <2>2
<1>6. QED
  BY <1>2, <1>4, <1>5

\* The events of changed modifiers name those that changed, as they are now.
LEMMA ControlKeyEvents ==
  ASSUME NEW before, NEW after, NEW events \in OnControlKeysChanged(before, after),
         NEW k \in EventKey, NEW was
  PROVE  /\ Has(events, k) <=> k \in Modifier /\ (k \in before) # (k \in after)
         /\ Has(events, k) => (After(events, k, was) <=> k \in after)
<1>. DEFINE changed == {i \in DOMAIN ModifierOrder :
                          (ModifierOrder[i] \in before) # (ModifierOrder[i] \in after)}
            n == Cardinality(changed)
<1>1. changed \subseteq 1 .. Len(ModifierOrder) /\ Len(ModifierOrder) \in Nat
      /\ DOMAIN ModifierOrder = 1 .. Len(ModifierOrder)
  BY PipelineAssumption DEF PipelineAssumption
<1>2. IsFiniteSet(changed) /\ n \in Nat
  <2>1. IsFiniteSet(changed)
    <3>. HIDE DEF changed
    <3>1. IsFiniteSet(1 .. Len(ModifierOrder))
      BY <1>1, FS_Interval
    <3>2. QED
      BY <1>1, <3>1, FS_Subset, Zenon
  <2>2. QED
    BY <2>1, FS_CardinalityType
<1>3. PICK p \in [1 .. n -> changed] :
        /\ \A i, j \in 1 .. n : i < j => p[i] < p[j]
        /\ events = [i \in 1 .. n |-> ModifierEvent(ModifierOrder[p[i]], after)]
  <2>1. PICK p \in InOrder(changed) :
          events = [i \in DOMAIN p |-> ModifierEvent(ModifierOrder[p[i]], after)]
    BY DEF OnControlKeysChanged
  <2>2. p \in [1 .. n -> changed] /\ \A i, j \in DOMAIN p : i < j => p[i] < p[j]
    BY <2>1 DEF InOrder
  <2>3. DOMAIN p = 1 .. n
    BY <2>2
  <2>4. QED
    BY <2>1, <2>2, <2>3, Zenon
<1>. HIDE DEF n
<1>4. \A i, j \in 1 .. n : p[i] = p[j] => i = j
  <2>1. \A i, j \in 1 .. n : i < j => p[i] # p[j]
    <3>1. \A i \in 1 .. n : p[i] \in Nat
      BY <1>1, <1>3
    <3>2. QED
      BY <1>3, <3>1
  <2>2. \A i, j \in 1 .. n : i = j \/ i < j \/ j < i
    BY <1>2
  <2>3. QED
    BY <2>1, <2>2
<1>5. \A x \in changed : \E i \in 1 .. n : p[i] = x
  <2>1. p \in Injection(1 .. n, changed)
    BY <1>3, <1>4 DEF Injection, IsInjective
  <2>2. IsFiniteSet(1 .. n) /\ Cardinality(1 .. n) = n
    BY <1>2, FS_Interval
  <2>3. p \in Surjection(1 .. n, changed)
    BY <1>2, <2>1, <2>2, FS_Injection DEF n
  <2>4. QED
    BY <2>3 DEF Surjection
<1>. DEFINE e(i) == ModifierEvent(ModifierOrder[p[i]], after)
<1>6. events \in Seq({e(i) : i \in 1 .. n}) /\ Len(events) = n /\ \A i \in 1 .. n : events[i] = e(i)
  BY <1>2, <1>3
<1>7. \A i \in 1 .. n : /\ ModifierOrder[p[i]] \in Modifier
                        /\ e(i).key = ModifierOrder[p[i]]
                        /\ e(i).up <=> ModifierOrder[p[i]] \notin after
                        /\ (ModifierOrder[p[i]] \in before) # (ModifierOrder[p[i]] \in after)
  BY <1>3 DEF ModifierEvent, Down, Up, Modifier, Range
<1>8. \A i, j \in 1 .. n : i # j => e(i).key # e(j).key
  <2>1. IsInjective(ModifierOrder)
    BY PipelineAssumption DEF PipelineAssumption
  <2>2. \A a, b \in DOMAIN ModifierOrder : ModifierOrder[a] = ModifierOrder[b] => a = b
    BY <2>1 DEF IsInjective
  <2>3. \A i \in 1 .. n : p[i] \in DOMAIN ModifierOrder
    BY <1>3
  <2>4. QED
    BY <1>4, <1>7, <2>2, <2>3
<1>9. Has(events, k) <=> k \in Modifier /\ (k \in before) # (k \in after)
  <2>1. ASSUME Has(events, k)
        PROVE  k \in Modifier /\ (k \in before) # (k \in after)
    BY <1>6, <1>7, <2>1 DEF Has
  <2>2. ASSUME k \in Modifier, (k \in before) # (k \in after)
        PROVE  Has(events, k)
    <3>1. PICK x \in DOMAIN ModifierOrder : ModifierOrder[x] = k
      BY <2>2 DEF Modifier, Range
    <3>2. PICK i \in 1 .. n : p[i] = x
      BY <1>5, <2>2, <3>1
    <3>3. QED
      BY <1>6, <1>7, <3>1, <3>2 DEF Has
  <2>3. QED
    BY <2>1, <2>2
<1>10. ASSUME Has(events, k) PROVE After(events, k, was) <=> k \in after
  <2>1. PICK i \in 1 .. n : events[i].key = k
    BY <1>6, <1>10 DEF Has
  <2>2. \A j \in 1 .. n : events[j].key = k => j = i
    BY <1>6, <1>8, <2>1
  <2>3. events[i].up <=> k \notin after
    BY <1>6, <1>7, <2>1
  <2>4. LastDown(events, k) <=> ~events[i].up
    BY <1>2, <1>6, <2>1, <2>2 DEF LastDown
  <2>5. QED
    BY <1>10, <2>3, <2>4 DEF After
<1>11. QED
  BY <1>9, <1>10

(* ---------------- the control around the events is kept ---------------- *)

LEMMA CoreFacts ==
  /\ Core = {0, 1} /\ \A c \in Core : 1 - c \in Core /\ 1 - c # c
  /\ \A c, d \in Core : d # c => d = 1 - c
  BY DEF Core

LEMMA OrderlyKept ==
  ASSUME TypeOK, Orderly, [Next]_vars
  PROVE  Orderly'
<1>. USE DEF Goto
<1>0. /\ pc \in [Core -> Labels0 \cup Labels1] /\ todo \in [Core -> Seq(KeyChange)]
      /\ chars \in [Core -> 0 .. Len(Message) + 1] /\ reports \in [Core -> Nat]
      /\ resets \in Nat /\ Len(Message) \in Nat /\ caps \in BOOLEAN
      /\ workload.resets \in Nat /\ workload.count \in [Core -> Nat]
  <2>1. workload \in Workload /\ Len(Message) \in Nat
    BY PipelineAssumption DEF PipelineAssumption, TypeOK
  <2>2. QED
    BY <2>1, WorkloadFacts, Zenon DEF TypeOK
<1>1. CASE UNCHANGED vars
  BY <1>1 DEF Orderly, Solo, NoGhosts
<1>2. ASSUME NEW c \in Core, Keyboards(c)
      PROVE  Orderly'
  <2>1. workload' = workload /\ resets' = resets
    BY <1>2, ZenonT(30) DEF Keyboards, Parse, NothingToParse, CompareSlot, StoreState, Enqueue, GhostType, GhostDone
  <2>2. \A d \in Core : d # c => pc'[d] = pc[d] /\ todo'[d] = todo[d] /\ chars'[d] = chars[d]
    BY <1>0, <1>2, ZenonT(30) DEF Keyboards, Parse, NothingToParse, CompareSlot, StoreState, Enqueue, GhostType, GhostDone
  <2>3. workload.count[c] = 0 => /\ pc'[c] \notin {"parse", "ghost"}
                                 /\ todo'[c] = todo[c] /\ caps' = caps
    <3>1. ASSUME workload.count[c] = 0
          PROVE  NothingToParse(c)
      <4>1. pc[c] \notin {"parse", "ghost"} /\ todo[c] = <<>>
        BY <3>1 DEF Orderly
      <4>2. ~(reports[c] < workload.count[c])
        BY <1>0, <3>1
      <4>3. QED
        BY <1>2, <4>1, <4>2, Zenon DEF Keyboards, Parse, CompareSlot, StoreState, Enqueue, GhostType, GhostDone
    <3>2. NothingToParse(c) => pc'[c] = AfterTask(c) /\ todo' = todo /\ caps' = caps
      BY <1>0, SMTT(30) DEF NothingToParse
    <3>3. QED
      BY <3>1, <3>2 DEF AfterTask
  <2>4. pc'[c] \notin {"parse", "ghost"} => todo'[c] = <<>>
    BY <1>0, <1>2, ZenonT(30) DEF Orderly, Keyboards, Parse, NothingToParse, CompareSlot, StoreState, Enqueue, GhostType, GhostDone, AfterTask
  <2>5. NoGhosts => pc'[c] # "ghost"
    <3>1. ASSUME NoGhosts, Parse(c) PROVE pc'[c] # "ghost"
      BY <1>0, <3>1 DEF Parse, NoGhosts
    <3>2. ASSUME NoGhosts, ~Parse(c) PROVE pc'[c] # "ghost"
      BY <1>0, <1>2, <3>2, CoreFacts, Zenon DEF Orderly, Keyboards, NothingToParse, CompareSlot, StoreState, Enqueue, GhostType, GhostDone, AfterTask
    <3>3. QED
      BY <3>1, <3>2
  <2>6. Solo(c) /\ pc'[c] = "ghost" /\ chars'[c] <= Len(Message) => ~caps'
    <3>1. CASE Parse(c)
      BY <1>0, <3>1 DEF Parse
    <3>2. CASE GhostType(c)
      <4>1. pc[c] = "ghost" /\ (caps' <=> caps /\ chars[c] <= Len(Message))
        BY <3>2, Zenon DEF GhostType
      <4>2. QED
        BY <4>1 DEF Orderly
    <3>3. CASE NothingToParse(c) \/ CompareSlot(c) \/ StoreState(c) \/ GhostDone(c)
      BY <1>0, <3>3, CoreFacts, Zenon DEF NothingToParse, CompareSlot, StoreState, GhostDone, AfterTask
    <3>4. CASE Enqueue(c)
      BY <1>0, <3>4 DEF Orderly, Enqueue
    <3>5. QED
      BY <1>2, <3>1, <3>2, <3>3, <3>4 DEF Keyboards
  <2>7. ASSUME NEW d \in Core, d # c
        PROVE  Solo(d) /\ pc'[d] = "ghost" /\ chars'[d] <= Len(Message) => ~caps'
    <3>1. Solo(d) => workload.count[c] = 0
      BY <2>7, CoreFacts DEF Solo
    <3>2. QED
      BY <2>2, <2>3, <2>7, <3>1 DEF Orderly
  <2>8. ASSUME NEW d \in Core
        PROVE  /\ workload'.count[d] = 0 => pc'[d] \notin {"parse", "ghost"}
               /\ pc'[d] \notin {"parse", "ghost"} => todo'[d] = <<>>
               /\ NoGhosts' => pc'[d] # "ghost"
               /\ Solo(d)' /\ pc'[d] = "ghost" /\ chars'[d] <= Len(Message) => ~caps'
    <3>1. Solo(d)' <=> Solo(d)
      BY <2>1 DEF Solo
    <3>2. NoGhosts' <=> NoGhosts
      BY <2>1 DEF NoGhosts
    <3>3. CASE d = c
      BY <2>1, <2>3, <2>4, <2>5, <2>6, <3>1, <3>2, <3>3
    <3>4. CASE d # c
      BY <2>1, <2>2, <2>7, <3>1, <3>2, <3>4 DEF Orderly
    <3>5. QED
      BY <3>3, <3>4
  <2>9. resets' <= workload'.resets
    BY <2>1 DEF Orderly
  <2>10. QED
    BY <2>8, <2>9, SMTT(30) DEF Orderly
<1>3. ASSUME Packer \/ HostReads \/ BusReset \/ Reset
      PROVE  Orderly'
  <2>1. /\ workload' = workload /\ todo' = todo /\ chars' = chars
        /\ resets' = resets \/ (resets' = resets + 1 /\ resets < workload.resets)
    BY <1>3, Zenon DEF Packer, Look, First, TakeFirst, Second, Peek, Inspect, TakeSecond, Latch, OtherCommand, HostReads, BusReset,
                Reset, ResetRequested, Drain, Free, ResetDone, Dequeue
  <2>2. \A c \in Core : pc'[c] = pc[c] \/ (pc'[c] \notin {"parse", "ghost"} /\ pc[c] \notin {"parse", "ghost"})
    <3>1. CASE Packer \/ HostReads \/ BusReset
      BY <1>0, <3>1, CoreFacts, Zenon DEF Packer, Look, First, TakeFirst, Second, Peek, Inspect, TakeSecond, Latch, OtherCommand, HostReads, BusReset
    <3>2. CASE Reset
      BY <1>0, <3>2, CoreFacts DEF Reset, ResetRequested, Drain, Free, ResetDone
    <3>3. QED
      BY <1>3, <3>1, <3>2
  <2>3. caps' => caps
    BY <1>0, <1>3, Zenon DEF Packer, Look, First, TakeFirst, Second, Peek, Inspect, TakeSecond, Latch, OtherCommand, HostReads, BusReset,
                Reset, ResetRequested, Drain, Free, ResetDone
  <2>4. \A c \in Core : Solo(c)' => Solo(c)
    BY <1>0, <2>1 DEF Solo
  <2>5. NoGhosts' <=> NoGhosts
    BY <2>1 DEF NoGhosts
  <2>6. resets' <= workload'.resets
    BY <1>0, <2>1 DEF Orderly
  <2>7. QED
    BY <2>1, <2>2, <2>3, <2>4, <2>5, <2>6 DEF Orderly
<1>4. QED
  BY <1>1, <1>2, <1>3 DEF Next

LEMMA UndisturbedKept ==
  ASSUME TypeOK, Undisturbed, [Next]_vars
  PROVE  Undisturbed'
<1>. USE DEF Goto
<1>0. /\ pc \in [Core -> Labels0 \cup Labels1] /\ resets \in Nat /\ queue \in Seq(Event)
  BY DEF TypeOK
<1>1. CASE UNCHANGED vars
  BY <1>1 DEF Undisturbed
<1>2. ASSUME NEW c \in Core, Enqueue(c)
      PROVE  Undisturbed'
  <2>1. pc' = pc /\ resets' = resets /\ usb_reset' = usb_reset /\ peeked' = peeked
    BY <1>2 DEF Enqueue
  <2>2. queue' = queue \/ \E e \in Event : queue' = Append(queue, e)
    <3>1. todo[c][1] \in KeyChange
      BY <1>2 DEF TypeOK, Enqueue
    <3>2. [n |-> serial + 1, key |-> todo[c][1].key, up |-> todo[c][1].up] \in Event
      <4>1. todo[c][1].key \in EventKey /\ todo[c][1].up \in BOOLEAN
        BY <3>1 DEF KeyChange
      <4>2. QED
        BY <4>1 DEF TypeOK, Event
    <3>3. QED
      BY <1>2, <3>2 DEF Enqueue
  <2>3. queue # <<>> => queue' # <<>> /\ Head(queue') = Head(queue)
    BY <1>0, <2>2
  <2>4. QED
    BY <2>1, <2>3 DEF Undisturbed
<1>3. ASSUME NEW c \in Core, Keyboards(c), ~Enqueue(c)
      PROVE  Undisturbed'
  <2>1. queue' = queue /\ resets' = resets /\ usb_reset' = usb_reset /\ peeked' = peeked
    BY <1>3, ZenonT(30) DEF Keyboards, Parse, NothingToParse, CompareSlot, StoreState, GhostType, GhostDone
  <2>2. \A d \in Core : pc'[d] = pc[d] \/ pc'[d] \in {"parse", "ghost", "look", "reset"}
    BY <1>0, <1>3, Zenon DEF Keyboards, Parse, NothingToParse, CompareSlot, StoreState, GhostType, GhostDone, AfterTask
  <2>3. QED
    BY <2>1, <2>2, CoreFacts, SMTT(30) DEF Undisturbed
<1>4. CASE Packer \/ HostReads \/ BusReset
  <2>1. pc'[1] = pc[1]
    BY <1>0, <1>4, CoreFacts, Zenon DEF Packer, Look, First, TakeFirst, Second, Peek, Inspect, TakeSecond, Latch, OtherCommand, HostReads, BusReset
  <2>2. CASE Look \/ First \/ Second \/ Latch \/ OtherCommand \/ HostReads
    BY <1>0, <2>1, <2>2, CoreFacts DEF Undisturbed, Look, First, Second, Latch, OtherCommand, HostReads
  <2>3. CASE TakeFirst \/ TakeSecond
    BY <1>0, <2>1, <2>3, CoreFacts, Zenon DEF Undisturbed, TakeFirst, TakeSecond
  <2>4. CASE Peek
    BY <1>0, <2>1, <2>4, CoreFacts DEF Undisturbed, Peek
  <2>5. CASE Inspect
    BY <1>0, <2>1, <2>5, CoreFacts DEF Undisturbed, Inspect
  <2>6. CASE BusReset
    BY <1>0, <2>6 DEF Undisturbed, BusReset
  <2>7. QED
    BY <1>4, <2>2, <2>3, <2>4, <2>5, <2>6 DEF Packer
<1>5. CASE Reset
  BY <1>0, <1>5, CoreFacts DEF Undisturbed, Reset, ResetRequested, Drain, Free, ResetDone
<1>6. QED
  BY <1>1, <1>2, <1>3, <1>4, <1>5 DEF Next

\* What the host holds when it has read a register.
LEMMA HearsOne ==
  ASSUME NEW was, NEW r, NEW k, k # NoKey
  PROVE  k \in Hears(was, r) <=> IF r.k2 = k THEN ~r.up2 ELSE IF r.k1 = k THEN ~r.up1 ELSE k \in was
  BY DEF Hears, Heard

LEMMA RegisterIsKept ==
  ASSUME TypeOK, RegisterKept, [Next]_vars
  PROVE  RegisterKept'
<1>. USE DEF Goto
<1>0. pc \in [Core -> Labels0 \cup Labels1] /\ NoKey \notin Unmapped /\ Power \notin Unmapped
  BY PipelineAssumption DEF PipelineAssumption, TypeOK, EventKey, Mapped
<1>1. CASE UNCHANGED vars
  BY <1>1 DEF RegisterKept
<1>2. ASSUME NEW c \in Core, Keyboards(c)
      PROVE  RegisterKept'
  <2>1. register' = register /\ host' = host
    BY <1>2, ZenonT(30) DEF Keyboards, Parse, NothingToParse, CompareSlot, StoreState, Enqueue, GhostType, GhostDone
  <2>2. pc'[0] = pc[0] \/ pc'[0] \in {"parse", "ghost", "look", "reset"}
    BY <1>0, <1>2, CoreFacts, Zenon DEF Keyboards, Parse, NothingToParse, CompareSlot, StoreState, Enqueue, GhostType, GhostDone, AfterTask
  <2>3. QED
    BY <2>1, <2>2, SMTT(30) DEF RegisterKept
<1>3. CASE Packer
  <2>1. CASE Look \/ Peek \/ Inspect \/ Latch \/ OtherCommand
    BY <1>0, <2>1, CoreFacts DEF RegisterKept, Look, Peek, Inspect, Latch, OtherCommand
  <2>2. CASE First
    BY <1>0, <2>2, CoreFacts DEF RegisterKept, First, EmptyRegister
  <2>3. CASE TakeFirst
    BY <1>0, <2>3, CoreFacts DEF RegisterKept, TakeFirst, EmptyRegister, AdbKey
  <2>4. CASE Second
    BY <1>0, <2>4, CoreFacts DEF RegisterKept, Second, TypeOK
  <2>5. CASE TakeSecond
    BY <1>0, <2>5, CoreFacts DEF RegisterKept, TakeSecond, AdbKey, TypeOK
  <2>6. QED
    BY <1>3, <2>1, <2>2, <2>3, <2>4, <2>5 DEF Packer
<1>4. CASE HostReads
  <2>1. register' = register /\ host' = Hears(host, register) /\ pc'[0] = "task"
    BY <1>0, <1>4, CoreFacts DEF HostReads
  <2>2. Hears(host, register) \cap Unmapped = {}
    BY <1>0, HearsOne DEF RegisterKept
  <2>3. QED
    BY <2>1, <2>2 DEF RegisterKept
<1>5. CASE BusReset \/ Reset
  BY <1>0, <1>5, CoreFacts DEF RegisterKept, BusReset, Reset, ResetRequested, Drain, Free, ResetDone
<1>6. QED
  BY <1>1, <1>2, <1>3, <1>4, <1>5 DEF Next

(* --------------- events on their way to the host are kept -------------- *)

LEMMA WatchedFacts ==
  ASSUME NEW k \in Watched
  PROVE  k \in EventKey /\ k # NoKey /\ k # Overflow /\ k # Power /\ k \notin Unmapped
  BY PipelineAssumption DEF PipelineAssumption, Watched, Mapped, EventKey

\* An event that is packed changes what the register says of its key and of no
\* other.
LEMMA PackedIsHeard ==
  ASSUME TypeOK, NEW e \in Event, NEW k \in Watched, NEW was,
         NEW r, r \in [k1 : EventKey \cup {NoKey}, up1 : BOOLEAN, k2 : EventKey \cup {NoKey}, up2 : BOOLEAN],
         r.k2 = NoKey
  PROVE  LET first == [EmptyRegister EXCEPT !.k1 = AdbKey(e), !.up1 = AdbUp(e)]
             second == [r EXCEPT !.k2 = AdbKey(e), !.up2 = AdbUp(e)]
         IN /\ k \in Hears(was, first) <=> IF e.key = k THEN ~e.up ELSE k \in was
            /\ k \in Hears(was, second) <=> IF e.key = k THEN ~e.up ELSE k \in Hears(was, r)
<1>. DEFINE first == [EmptyRegister EXCEPT !.k1 = AdbKey(e), !.up1 = AdbUp(e)]
            second == [r EXCEPT !.k2 = AdbKey(e), !.up2 = AdbUp(e)]
<1>1. k # NoKey /\ (AdbKey(e) = k <=> e.key = k) /\ (e.key = k => (AdbUp(e) <=> e.up))
  BY WatchedFacts DEF AdbKey, AdbUp
<1>2. first.k1 = AdbKey(e) /\ first.up1 = AdbUp(e) /\ first.k2 = NoKey
  BY DEF EmptyRegister
<1>3. second.k1 = r.k1 /\ second.up1 = r.up1 /\ second.k2 = AdbKey(e) /\ second.up2 = AdbUp(e)
  OBVIOUS
<1>. HIDE DEF first, second
<1>4. k \in Hears(was, first) <=> IF e.key = k THEN ~e.up ELSE k \in was
  BY <1>1, <1>2, HearsOne
<1>5. k \in Hears(was, second) <=> IF e.key = k THEN ~e.up ELSE k \in Hears(was, r)
  BY <1>1, <1>3, HearsOne
<1>6. QED
  BY <1>4, <1>5 DEF first, second

\* Taking the first event off the queue into the register.
LEMMA TakenIsTold ==
  ASSUME TypeOK, queue # <<>>, NEW k, queue' = Tail(queue),
         k \in OnTheWay' <=> IF Head(queue).key = k THEN ~Head(queue).up ELSE k \in OnTheWay
  PROVE  Told(k)' <=> Told(k)
<1>. DEFINE was == k \in OnTheWay
            is == (k \in OnTheWay)'
<1>1. queue \in Seq(Event) /\ Head(queue) = queue[1]
  BY DEF TypeOK
<1>2. (Told(k) <=> After(queue, k, was)) /\ (Told(k)' <=> After(Tail(queue), k, is))
  BY DEF Told, After, Has, LastDown
<1>3. is <=> IF queue[1].key = k THEN ~queue[1].up ELSE was
  BY <1>1
<1>. HIDE DEF was, is
<1>4. /\ queue[1].key = k => (After(queue, k, was) <=> After(Tail(queue), k, ~queue[1].up))
      /\ queue[1].key # k => (After(queue, k, was) <=> After(Tail(queue), k, was))
  BY <1>1, AfterFirst
<1>5. After(Tail(queue), k, is) <=> After(Tail(queue), k, IF queue[1].key = k THEN ~queue[1].up ELSE was)
  BY <1>3 DEF After
<1>6. QED
  BY <1>2, <1>4, <1>5

\* Neither packing nor reading a register changes what the host will hold.
LEMMA TransitKeepsTold ==
  ASSUME TypeOK, Undisturbed, RegisterKept, PackedWhenRead, resets = 0,
         Packer \/ HostReads, NEW k \in Watched
  PROVE  Told(k)' <=> Told(k)
<1>. USE DEF Goto
<1>0. pc \in [Core -> Labels0 \cup Labels1] /\ 0 \in Core /\ k # NoKey /\ k # Power
  BY WatchedFacts DEF TypeOK, Core
<1>1. ASSUME queue' = queue, k \in OnTheWay' <=> k \in OnTheWay
      PROVE  Told(k)' <=> Told(k)
  BY <1>1 DEF Told, After, Has, LastDown
<1>2. CASE Look \/ Peek \/ Inspect \/ Latch \/ OtherCommand
  <2>1. queue' = queue /\ host' = host /\ register' = register /\ (Live' <=> Live)
    BY <1>0, <1>2 DEF Live, Look, Peek, Inspect, Latch, OtherCommand
  <2>2. OnTheWay' = OnTheWay
    BY <2>1 DEF OnTheWay
  <2>3. QED
    BY <1>1, <2>1, <2>2
<1>3. CASE First
  <2>1. queue' = queue /\ host' = host /\ register' = EmptyRegister /\ ~Live
    BY <1>0, <1>3 DEF PackedWhenRead, Packing, Live, First
  <2>2. Hears(host, EmptyRegister) = host
    BY DEF Hears, Heard, EmptyRegister
  <2>3. OnTheWay' = host /\ OnTheWay = host
    BY <2>1, <2>2 DEF OnTheWay
  <2>4. QED
    BY <1>1, <2>1, <2>3
<1>4. CASE TakeFirst
  <2>1. PICK e \in Garbage \cup Range(queue) :
          Dequeue(e) /\ register' = [EmptyRegister EXCEPT !.k1 = AdbKey(e), !.up1 = AdbUp(e)]
    BY <1>4, Zenon DEF TakeFirst
  <2>2. pc[0] = "take" /\ pc'[0] = "second" /\ host' = host /\ queue # <<>>
    BY <1>0, <1>4 DEF TakeFirst, Undisturbed
  <2>3. e = Head(queue) /\ queue' = Tail(queue) /\ e \in Event
    BY <2>1, <2>2 DEF Dequeue, Taken, TypeOK
  <2>4. ~Live /\ Live'
    BY <2>2 DEF PackedWhenRead, Packing, Live
  <2>5. EmptyRegister \in [k1 : EventKey \cup {NoKey}, up1 : BOOLEAN, k2 : EventKey \cup {NoKey}, up2 : BOOLEAN]
        /\ EmptyRegister.k2 = NoKey
    BY DEF EmptyRegister
  <2>6. k \in Hears(host, register') <=> IF e.key = k THEN ~e.up ELSE k \in host
    BY <2>1, <2>3, <2>5, PackedIsHeard, Zenon
  <2>7. OnTheWay = host /\ OnTheWay' = Hears(host, register')
    BY <2>2, <2>4 DEF OnTheWay
  <2>8. QED
    BY <2>2, <2>3, <2>6, <2>7, TakenIsTold
<1>5. CASE Second
  <2>1. queue' = queue /\ host' = host /\ Live /\ Live' /\ register.k2 = NoKey
    BY <1>0, <1>5 DEF RegisterKept, Live, Second
  <2>2. k \in Hears(host, register') <=> k \in Hears(host, register)
    <3>1. register' = register \/ (/\ register.k1 = Power /\ register'.k1 = Power /\ register'.k2 = Power)
      BY <1>5 DEF Second, TypeOK
    <3>2. QED
      BY <1>0, <2>1, <3>1, HearsOne
  <2>3. QED
    BY <1>1, <2>1, <2>2 DEF OnTheWay
<1>6. CASE TakeSecond
  <2>1. PICK e \in Garbage \cup Range(queue) :
          Dequeue(e) /\ register' = [register EXCEPT !.k2 = AdbKey(e), !.up2 = AdbUp(e)]
    BY <1>6, Zenon DEF TakeSecond
  <2>2. pc[0] = "take2" /\ pc'[0] = "latch" /\ host' = host /\ queue # <<>> /\ register.k2 = NoKey
    BY <1>0, <1>6 DEF TakeSecond, Undisturbed, RegisterKept
  <2>3. e = Head(queue) /\ queue' = Tail(queue) /\ e \in Event
    BY <2>1, <2>2 DEF Dequeue, Taken, TypeOK
  <2>4. Live /\ Live'
    BY <2>2 DEF Live
  <2>5. k \in Hears(host, register') <=> IF e.key = k THEN ~e.up ELSE k \in Hears(host, register)
    BY <2>1, <2>2, <2>3, PackedIsHeard, Zenon DEF TypeOK
  <2>6. OnTheWay = Hears(host, register) /\ OnTheWay' = Hears(host, register')
    BY <2>2, <2>4 DEF OnTheWay
  <2>7. QED
    BY <2>2, <2>3, <2>5, <2>6, TakenIsTold
<1>7. CASE HostReads
  <2>1. queue' = queue /\ host' = Hears(host, register) /\ Live /\ ~Live'
    BY <1>0, <1>7 DEF Live, HostReads
  <2>2. OnTheWay' = OnTheWay
    BY <2>1 DEF OnTheWay
  <2>3. QED
    BY <1>1, <2>1, <2>2
<1>8. QED
  BY <1>2, <1>3, <1>4, <1>5, <1>6, <1>7 DEF Packer

(* --------------- the events that a report gives are found -------------- *)

\* What the keyboards do is not on its way to the host before it is queued.
LEMMA KeyboardsKeepTold ==
  ASSUME TypeOK, NEW c \in Core, Keyboards(c), NEW k
  PROVE  OnTheWay' = OnTheWay /\ (queue' = queue => (Told(k)' <=> Told(k)))
<1>1. host' = host /\ register' = register /\ pending' = pending
  BY Zenon DEF Keyboards, Parse, NothingToParse, CompareSlot, StoreState, Enqueue, GhostType, GhostDone
<1>2. pc'[0] = pc[0] \/ {pc[0], pc'[0]} \subseteq {"task", "parse", "ghost", "look"}
  <2>0. pc \in [Core -> Labels0 \cup Labels1] /\ c \in {0, 1} /\ 0 \in Core
    BY SMTT(30) DEF TypeOK, Core
  <2>1. CASE c # 0
    BY <2>0, <2>1, ZenonT(30) DEF Goto, Keyboards, Parse, NothingToParse, CompareSlot, StoreState, Enqueue, GhostType, GhostDone
  <2>2. CASE c = 0
    <3>1. CASE Parse(0) \/ CompareSlot(0) \/ Enqueue(0) \/ GhostType(0)
      BY <2>0, <3>1, Zenon DEF Goto, Parse, CompareSlot, Enqueue, GhostType
    <3>2. CASE NothingToParse(0) \/ StoreState(0) \/ GhostDone(0)
      BY <2>0, <3>2 DEF Goto, AfterTask, NothingToParse, StoreState, GhostDone
    <3>3. QED
      BY <2>2, <3>1, <3>2 DEF Keyboards
  <2>3. QED
    BY <2>1, <2>2
<1>3. Live' <=> Live
  BY <1>1, <1>2 DEF Live
<1>4. OnTheWay' = OnTheWay
  BY <1>1, <1>3 DEF OnTheWay
<1>5. QED
  BY <1>4, SMTT(30) DEF Told, After, Has, LastDown

\* The places of the two reports that are compared.
LEMMA SlotFacts ==
  ASSUME TypeOK, NEW c \in Core, NEW k \in Watched
  PROVE  /\ parsing[c] \in Report /\ prevState \in Report
         /\ \A r \in Report : /\ r.mods \subseteq Modifier
                              /\ DOMAIN r.keys = 1 .. Slots
                              /\ \A i \in 1 .. Slots : r.keys[i] \in SlotKey
                              /\ k \in Range(r.keys) <=> \E i \in 1 .. Slots : r.keys[i] = k
                              /\ k \in Modifier => k \notin Range(r.keys)
         /\ slot[c] \in 0 .. Slots /\ Slots \in Nat
<1>1. Modifier \cap SlotKey = {}
  BY PipelineAssumption DEF PipelineAssumption, SlotKey, EventKey
<1>2. \A r \in Report : /\ r.mods \subseteq Modifier
                        /\ DOMAIN r.keys = 1 .. Slots
                        /\ \A i \in 1 .. Slots : r.keys[i] \in SlotKey
                        /\ k \in Range(r.keys) <=> \E i \in 1 .. Slots : r.keys[i] = k
  BY Zenon DEF Report, Range
<1>3. \A r \in Report : k \in Modifier => k \notin Range(r.keys)
  BY <1>1, <1>2
<1>4. QED
  BY <1>2, <1>3, PipelineAssumption, Zenon DEF PipelineAssumption, TypeOK

\* With no event left to queue, a key is owed what has been told.
LEMMA NothingOwed ==
  ASSUME NEW c, NEW k, todo[c] = <<>>
  PROVE  ~Has(todo[c], k) /\ (Owed(c, k) <=> Told(k))
  BY AfterNone DEF Owed

\* The step of a core that finds no event of a key and sees no change of it.
LEMMA NothingFound ==
  ASSUME NEW c, NEW k, KeyKept(c, k), todo[c] = <<>>, ~Has(todo'[c], k), lost' = lost,
         Told(k)' <=> Told(k), Due(c, k)' <=> Due(c, k)
  PROVE  KeyKept(c, k)'
<1>1. Owed(c, k)' <=> Told(k)'
  BY AfterDecides DEF Owed
<1>2. (k \notin lost' => (Owed(c, k)' <=> Due(c, k)')) /\ ~Has(todo'[c], k) => KeyKept(c, k)'
  BY DEF KeyKept
<1>3. QED
  BY <1>1, <1>2, NothingOwed DEF KeyKept

\* The step of a core that finds the state of a key.
LEMMA SomethingFound ==
  ASSUME NEW c, NEW k, Has(todo'[c], k), \A was : After(todo'[c], k, was) <=> Due(c, k)'
  PROVE  KeyKept(c, k)'
  BY DEF KeyKept, Owed

LEMMA ParseKeeps ==
  ASSUME TypeOK, Orderly, NEW c \in Core, Parse(c), NEW k \in Watched,
         k = CapsLock \/ NoGhosts, KeyKept(c, k)
  PROVE  KeyKept(c, k)'
<1>0. /\ pc[c] = "task" /\ todo[c] = <<>> /\ queue' = queue /\ lost' = lost /\ caps' = caps
      /\ prevState' = prevState
  BY DEF Parse, Orderly
<1>1. Told(k)' <=> Told(k)
  BY <1>0, KeyboardsKeepTold DEF Keyboards
<1>2. k \in EventKey /\ CapsLock \notin Modifier
  BY WatchedFacts, PipelineAssumption DEF PipelineAssumption, Mapped
<1>3. PICK r \in workload.report[c] :
        /\ parsing' = [parsing EXCEPT ![c] = r]
        /\ slot' = [slot EXCEPT ![c] = 0]
        /\ IF r \in GhostReport
           THEN Goto(c, "ghost") /\ todo' = todo
           ELSE /\ Goto(c, "parse")
                /\ \E events \in OnControlKeysChanged(prevState.mods, r.mods) :
                     todo' = [todo EXCEPT ![c] = events]
  BY Zenon DEF Parse
<1>4. parsing'[c] = r /\ slot'[c] = 0 /\ r \in Report
  BY <1>3, WorkloadFacts DEF TypeOK
<1>5. CASE r \in GhostReport
  <2>1. k = CapsLock
    BY <1>5 DEF NoGhosts
  <2>2. Due(c, k)' <=> Due(c, k)
    BY <1>0, <2>1 DEF Due
  <2>3. todo'[c] = <<>>
    BY <1>0, <1>3, <1>5
  <2>4. QED
    BY <1>0, <1>1, <2>2, <2>3, AfterNone, NothingFound
<1>6. CASE r \notin GhostReport
  <2>1. PICK events \in OnControlKeysChanged(prevState.mods, r.mods) : todo'[c] = events
    BY <1>3, <1>6 DEF TypeOK
  <2>2. /\ Has(events, k) <=> k \in Modifier /\ (k \in prevState.mods) # (k \in r.mods)
        /\ Has(events, k) => \A was : After(events, k, was) <=> k \in r.mods
    BY <1>2, ControlKeyEvents
  <2>3. pc'[c] = "parse"
    BY <1>3, <1>6 DEF Goto, TypeOK
  <2>4. Found(c, k)' <=> k \in r.mods \/ k \in Range(prevState.keys)
    <3>1. SlotsSay(c, k)' <=> k \in Range(prevState.keys)
      <4>1. \A i : i \notin 1 .. 0
        OBVIOUS
      <4>2. QED
        BY <1>0, <1>4, <4>1 DEF SlotsSay
    <3>2. QED
      BY <1>4, <2>3, <3>1 DEF Found
  <2>5. Found(c, k) <=> k \in prevState.mods \/ k \in Range(prevState.keys)
    BY <1>0 DEF Found
  <2>6. CASE Has(events, k)
    <3>1. k \notin Range(prevState.keys) /\ k # CapsLock
      BY <1>2, <2>2, <2>6, SlotFacts
    <3>2. Due(c, k)' <=> k \in r.mods
      BY <2>4, <3>1 DEF Due
    <3>3. QED
      BY <2>1, <2>2, <2>6, <3>2, SomethingFound
  <2>7. CASE ~Has(events, k)
    <3>1. k \in prevState.mods <=> k \in r.mods
      BY <1>4, <2>2, <2>7, SlotFacts
    <3>2. Due(c, k)' <=> Due(c, k)
      BY <1>0, <2>4, <2>5, <3>1 DEF Due
    <3>3. QED
      BY <1>0, <1>1, <2>1, <2>7, <3>2, NothingFound
  <2>8. QED
    BY <2>6, <2>7
<1>7. QED
  BY <1>5, <1>6

\* One slot further, what the slots say of a key changes with its events.
LEMMA SlotSays ==
  ASSUME TypeOK, NEW c \in Core, CompareSlot(c), NEW k \in Watched
  PROVE  LET i == slot[c] + 1
             new == parsing[c].keys
             old == prevState.keys
             down == NewIn(i, new, old) /\ new[i] = k
             up == NewIn(i, old, new) /\ old[i] = k
         IN /\ ~(down /\ up)
            /\ down \/ up => k \notin parsing[c].mods
            /\ down => SlotsSay(c, k)'
            /\ up => ~SlotsSay(c, k)'
            /\ ~down /\ ~up => (SlotsSay(c, k)' <=> SlotsSay(c, k))
<1>. DEFINE i == slot[c] + 1
            new == parsing[c].keys
            old == prevState.keys
            down == NewIn(i, new, old) /\ new[i] = k
            up == NewIn(i, old, new) /\ old[i] = k
<1>1. /\ slot[c] < Slots /\ slot'[c] = i /\ parsing' = parsing /\ prevState' = prevState
      /\ k # Overflow
  BY WatchedFacts DEF CompareSlot, TypeOK
<1>2. i \in 1 .. Slots /\ slot[c] \in Nat /\ \A j : j \in 1 .. i <=> (j \in 1 .. slot[c] \/ j = i)
  BY <1>1, SlotFacts
<1>3. (new[i] = k => k \in Range(new) /\ k \notin Modifier) /\ (old[i] = k => k \in Range(old) /\ k \notin Modifier)
  BY <1>2, SlotFacts
<1>4. (down <=> new[i] = k /\ k \notin Range(old)) /\ (up <=> old[i] = k /\ k \notin Range(new))
  BY <1>1 DEF NewIn
<1>5. SlotsSay(c, k) <=> /\ k \in Range(old) \/ \E j \in 1 .. slot[c] : new[j] = k
                         /\ k \in Range(new) \/ ~\E j \in 1 .. slot[c] : old[j] = k
  BY DEF SlotsSay
<1>6. SlotsSay(c, k)' <=> /\ k \in Range(old) \/ \E j \in 1 .. i : new[j] = k
                          /\ k \in Range(new) \/ ~\E j \in 1 .. i : old[j] = k
  BY <1>1 DEF SlotsSay
<1>7. (\E j \in 1 .. i : new[j] = k) <=> (new[i] = k \/ \E j \in 1 .. slot[c] : new[j] = k)
  BY <1>2
<1>8. (\E j \in 1 .. i : old[j] = k) <=> (old[i] = k \/ \E j \in 1 .. slot[c] : old[j] = k)
  BY <1>2
<1>9. parsing[c].mods \subseteq Modifier
  BY SlotFacts
<1>10. QED
  <2>. HIDE DEF i, new, old, down, up
  <2>1. /\ ~(down /\ up)
        /\ down \/ up => k \notin parsing[c].mods
        /\ down => SlotsSay(c, k)'
        /\ up => ~SlotsSay(c, k)'
        /\ ~down /\ ~up => (SlotsSay(c, k)' <=> SlotsSay(c, k))
    BY <1>3, <1>4, <1>5, <1>6, <1>7, <1>8, <1>9
  <2>2. QED
    BY <2>1 DEF i, new, old, down, up

LEMMA CompareSlotKeeps ==
  ASSUME TypeOK, NEW c \in Core, CompareSlot(c), NEW k \in Watched, KeyKept(c, k)
  PROVE  KeyKept(c, k)'
<1>. DEFINE i == slot[c] + 1
            new == parsing[c].keys
            old == prevState.keys
            led == IF NewIn(i, new, old) /\ new[i] = CapsLock THEN ~caps ELSE caps
            downs == IF NewIn(i, new, old) THEN OnKeyDown(new[i], led) ELSE <<>>
            ups == IF NewIn(i, old, new) THEN OnKeyUp(old[i]) ELSE <<>>
            down == NewIn(i, new, old) /\ new[i] = k
            up == NewIn(i, old, new) /\ old[i] = k
<1>0. /\ pc[c] = "parse" /\ pc' = pc /\ todo[c] = <<>> /\ queue' = queue /\ lost' = lost
      /\ caps' = led /\ parsing' = parsing /\ prevState' = prevState /\ slot[c] < Slots
      /\ todo'[c] = downs \o ups
  BY Zenon DEF CompareSlot, TypeOK
<1>1. Told(k)' <=> Told(k)
  BY <1>0, KeyboardsKeepTold DEF Keyboards
<1>2. new[i] \in SlotKey /\ old[i] \in SlotKey /\ led \in BOOLEAN /\ k \in EventKey
  <2>1. i \in 1 .. Slots
    BY <1>0, SlotFacts
  <2>2. new[i] \in SlotKey /\ old[i] \in SlotKey
    <3>1. parsing[c] \in Report /\ prevState \in Report
      BY SlotFacts
    <3>. HIDE DEF i
    <3>2. QED
      BY <2>1, <3>1, SlotFacts
  <2>3. QED
    BY <2>2, WatchedFacts, Zenon DEF TypeOK
<1>3. /\ ~(down /\ up)
      /\ down \/ up => k \notin parsing[c].mods
      /\ down => SlotsSay(c, k)'
      /\ up => ~SlotsSay(c, k)'
      /\ ~down /\ ~up => (SlotsSay(c, k)' <=> SlotsSay(c, k))
  BY SlotSays
<1>4. down /\ k = CapsLock => (led <=> ~caps)
  OBVIOUS
<1>5. ~(down /\ k = CapsLock) => (k = CapsLock => (led <=> caps))
  OBVIOUS
<1>. HIDE DEF i, new, old, led
<1>6. downs \in Seq(KeyChange) /\ ups \in Seq(KeyChange)
  BY <1>2, KeyEventsTyped
<1>7. /\ Has(downs, k) <=> down
      /\ down => \A was : After(downs, k, was) <=> IF k = CapsLock THEN led ELSE TRUE
  BY <1>2, DownEvents, AfterNone
<1>8. /\ Has(ups, k) <=> up /\ k # CapsLock
      /\ up /\ k # CapsLock => \A was : ~After(ups, k, was)
  BY <1>2, UpEvents, AfterNone, Zenon
<1>. HIDE DEF downs, ups
<1>9. /\ Has(todo'[c], k) <=> (Has(downs, k) \/ Has(ups, k))
      /\ \A was : After(todo'[c], k, was) <=> After(ups, k, After(downs, k, was))
  BY <1>0, <1>6, AfterBoth
<1>10. Due(c, k)' <=> IF k = CapsLock THEN led ELSE k \in parsing[c].mods \/ SlotsSay(c, k)'
  BY <1>0 DEF Due, Found
<1>11. Due(c, k) <=> IF k = CapsLock THEN caps ELSE k \in parsing[c].mods \/ SlotsSay(c, k)
  BY <1>0 DEF Due, Found
<1>. HIDE DEF down, up
<1>12. CASE down
  <2>1. ~Has(ups, k)
    BY <1>3, <1>8, <1>12
  <2>2. \A was : After(todo'[c], k, was) <=> IF k = CapsLock THEN led ELSE TRUE
    BY <1>7, <1>9, <1>12, <2>1, AfterDecides
  <2>3. Due(c, k)' <=> IF k = CapsLock THEN led ELSE TRUE
    BY <1>3, <1>10, <1>12
  <2>4. QED
    BY <1>7, <1>9, <1>12, <2>2, <2>3, SomethingFound
<1>13. CASE up /\ k # CapsLock
  <2>1. \A was : ~After(todo'[c], k, was)
    BY <1>8, <1>9, <1>13
  <2>2. ~Due(c, k)'
    BY <1>3, <1>10, <1>13
  <2>3. QED
    BY <1>8, <1>9, <1>13, <2>1, <2>2, SomethingFound
<1>14. CASE ~down /\ (up => k = CapsLock)
  <2>1. ~Has(todo'[c], k)
    BY <1>7, <1>8, <1>9, <1>14
  <2>2. Due(c, k)' <=> Due(c, k)
    BY <1>3, <1>5, <1>10, <1>11, <1>14
  <2>3. QED
    BY <1>0, <1>1, <2>1, <2>2, NothingFound, Zenon
<1>15. QED
  BY <1>12, <1>13, <1>14, SMTT(30)

LEMMA StoreStateKeeps ==
  ASSUME TypeOK, NEW c \in Core, StoreState(c), NEW k \in Watched, KeyKept(c, k)
  PROVE  KeyKept(c, k)'
<1>0. /\ pc[c] = "parse" /\ todo[c] = <<>> /\ slot[c] = Slots /\ prevState' = parsing[c]
      /\ queue' = queue /\ lost' = lost /\ caps' = caps /\ todo' = todo
  BY DEF StoreState
<1>1. Told(k)' <=> Told(k)
  BY <1>0, KeyboardsKeepTold DEF Keyboards
<1>2. pc'[c] # "parse"
  BY DEF StoreState, Goto, AfterTask, TypeOK
<1>3. /\ k \in Range(parsing[c].keys) <=> \E i \in 1 .. Slots : parsing[c].keys[i] = k
      /\ k \in Range(prevState.keys) <=> \E i \in 1 .. Slots : prevState.keys[i] = k
  BY SlotFacts
<1>4. SlotsSay(c, k) <=> k \in Range(parsing[c].keys)
  BY <1>0, <1>3 DEF SlotsSay
<1>5. Found(c, k) <=> k \in parsing[c].mods \cup Range(parsing[c].keys)
  BY <1>0, <1>4 DEF Found
<1>6. Found(c, k)' <=> k \in parsing[c].mods \cup Range(parsing[c].keys)
  BY <1>0, <1>2 DEF Found
<1>7. Due(c, k)' <=> Due(c, k)
  BY <1>0, <1>5, <1>6 DEF Due
<1>8. ~Has(todo'[c], k)
  BY <1>0, AfterNone
<1>9. QED
  BY <1>0, <1>1, <1>7, <1>8, NothingFound

\* Events that end with a release leave the key up.
LEMMA EndsReleased ==
  ASSUME NEW T, NEW s \in Seq(T), NEW e \in T, e.up
  PROVE  Has(s \o <<e>>, e.key) /\ \A was : ~After(s \o <<e>>, e.key, was)
<1>. DEFINE u == Append(s, e)
<1>1. u = s \o <<e>>
  OBVIOUS
<1>2. Has(u, e.key) /\ \A was : ~After(u, e.key, was)
  BY AfterAppend
<1>. HIDE DEF u
<1>3. QED
  BY <1>1, <1>2

\* A message presses and releases each key, and Caps Lock is dark meanwhile.
LEMMA GhostTypeKeeps ==
  ASSUME TypeOK, Orderly, NEW c \in Core, Solo(c), GhostType(c), KeyKept(c, CapsLock)
  PROVE  KeyKept(c, CapsLock)'
<1>. DEFINE n == Len(Message) + 1 - chars[c]
            k == CapsLock
<1>0. /\ pc[c] = "ghost" /\ todo[c] = <<>> /\ chars[c] > 0 /\ todo'[c] = Keystroke(n)
      /\ (caps' <=> caps /\ chars[c] <= Len(Message)) /\ queue' = queue /\ lost' = lost
  BY Zenon DEF GhostType, TypeOK
<1>1. Told(k)' <=> Told(k)
  BY <1>0, KeyboardsKeepTold DEF Keyboards
<1>2. chars[c] \in 0 .. Len(Message) + 1 /\ Len(Message) \in Nat
  BY PipelineAssumption DEF PipelineAssumption, TypeOK
<1>3. ~caps' /\ (chars[c] <= Len(Message) => ~caps)
  BY <1>0 DEF Orderly
<1>4. CASE n = 0
  <2>. DEFINE mods == [i \in 1 .. Len(ModifierOrder) |-> Up(ModifierOrder[i])]
  <2>1. Keystroke(n) = mods \o <<Up(CapsLock)>>
    BY <1>4 DEF Keystroke
  <2>2. mods \in Seq(KeyChange) /\ Up(CapsLock) \in KeyChange
    <3>1. Len(ModifierOrder) \in Nat /\ \A i \in 1 .. Len(ModifierOrder) : ModifierOrder[i] \in Modifier
      BY PipelineAssumption DEF PipelineAssumption
    <3>2. \A i \in 1 .. Len(ModifierOrder) : Up(ModifierOrder[i]) \in KeyChange
      BY <3>1 DEF Up, KeyChange, EventKey
    <3>3. Up(CapsLock) \in KeyChange
      BY PipelineAssumption DEF PipelineAssumption, Up, KeyChange, EventKey, Mapped
    <3>4. QED
      BY <3>1, <3>2, <3>3
  <2>. HIDE DEF mods
  <2>3. Up(CapsLock).key = k /\ Up(CapsLock).up
    BY DEF Up
  <2>4. Has(todo'[c], k) /\ \A was : ~After(todo'[c], k, was)
    BY <1>0, <2>1, <2>2, <2>3, EndsReleased, Zenon
  <2>5. QED
    BY <1>3, <2>4, SomethingFound DEF Due
<1>5. CASE n # 0
  <2>. DEFINE m == Message[n]
  <2>1. todo'[c] = <<Down(m), Up(m)>> /\ Down(m).key = m /\ Up(m).key = m /\ Up(m).up
    BY <1>0, <1>5, Zenon DEF Keystroke, Down, Up
  <2>2. todo'[c] = <<Down(m)>> \o <<Up(m)>> /\ <<Down(m)>> \in Seq({Down(m), Up(m)})
    BY <2>1
  <2>3. m = k => Has(todo'[c], k) /\ \A was : ~After(todo'[c], k, was)
    BY <2>1, <2>2, EndsReleased, Zenon
  <2>4. Has(todo'[c], k) => m = k
    BY <2>1 DEF Has
  <2>5. CASE m = k
    BY <1>3, <2>3, <2>5, SomethingFound DEF Due
  <2>6. CASE m # k
    <3>1. ~Has(todo'[c], k)
      BY <2>4, <2>6
    <3>2. Due(c, k)' <=> Due(c, k)
      BY <1>2, <1>3, <1>5 DEF Due
    <3>3. QED
      BY <1>0, <1>1, <3>1, <3>2, NothingFound
  <2>7. QED
    BY <2>5, <2>6
<1>6. QED
  BY <1>4, <1>5

\* An event of another key in front makes no difference.
LEMMA TailOfOther ==
  ASSUME NEW s \in Seq(KeyChange), s # <<>>, NEW k, s[1].key # k
  PROVE  /\ Has(Tail(s), k) <=> Has(s, k)
         /\ \A was : After(Tail(s), k, was) <=> After(s, k, was)
  BY AfterFirst

LEMMA TailOfSame ==
  ASSUME NEW s \in Seq(KeyChange), s # <<>>, NEW k, Has(Tail(s), k)
  PROVE  Has(s, k) /\ \A was : After(Tail(s), k, was) <=> After(s, k, was)
<1>1. Has(s, k)
  BY AfterFirst
<1>2. ASSUME NEW was
      PROVE  After(Tail(s), k, was) <=> After(s, k, was)
  BY AfterFirst, AfterDecides
<1>3. QED
  BY <1>1, <1>2

LEMMA EnqueueKeeps ==
  ASSUME TypeOK, NEW c \in Core, Enqueue(c), NEW k \in Watched, KeyKept(c, k)
  PROVE  KeyKept(c, k)'
<1>. DEFINE s == todo[c]
            e == todo[c][1]
<1>0. /\ s \in Seq(KeyChange) /\ s # <<>> /\ e \in KeyChange
      /\ Len(s) \in Nat /\ Len(Tail(s)) = Len(s) - 1 /\ Tail(s) \in Seq(KeyChange)
  BY SMTT(30) DEF Enqueue, TypeOK
<1>1. Due(c, k)' <=> Due(c, k)
  BY DEF Enqueue, Due, Found, SlotsSay
<1>2. OnTheWay' = OnTheWay
  BY KeyboardsKeepTold DEF Keyboards
<1>3. Has(s, k) \/ k \notin lost => (After(s, k, Told(k)) <=> Due(c, k))
  BY DEF KeyKept, Owed
<1>4. CASE Full
  <2>1. queue' = queue /\ lost' = lost \cup {e.key} /\ todo'[c] = AfterRefusal(s)
    BY <1>4 DEF Enqueue, TypeOK
  <2>2. Told(k)' <=> Told(k)
    BY <1>2, <2>1 DEF Told, After, Has, LastDown
  <2>3. /\ Has(todo'[c], k) => Has(s, k)
        /\ Has(todo'[c], k) \/ e.key # k => (After(todo'[c], k, Told(k)) <=> After(s, k, Told(k)))
    <3>1. /\ Has(Tail(s), k) => Has(s, k)
          /\ Has(Tail(s), k) \/ e.key # k => (After(Tail(s), k, Told(k)) <=> After(s, k, Told(k)))
      BY <1>0, TailOfOther, TailOfSame, Zenon
    <3>2. CASE Len(s) > 1 /\ s[1] = s[2]
      <4>. DEFINE t == Tail(s)
      <4>1. t \in Seq(KeyChange) /\ t[1] = e /\ Len(t) # 0 /\ todo'[c] = Tail(t)
        BY <1>0, <2>1, <3>2 DEF AfterRefusal
      <4>. HIDE DEF t
      <4>2. t # <<>>
        BY <4>1
      <4>3. /\ Has(Tail(t), k) => Has(t, k)
            /\ Has(Tail(t), k) \/ e.key # k => (After(Tail(t), k, Told(k)) <=> After(t, k, Told(k)))
        BY <4>1, <4>2, TailOfOther, TailOfSame
      <4>4. QED
        BY <3>1, <4>1, <4>3 DEF t
    <3>3. CASE ~(Len(s) > 1 /\ s[1] = s[2])
      BY <2>1, <3>1, <3>3 DEF AfterRefusal
    <3>4. QED
      BY <3>2, <3>3
  <2>4. Owed(c, k)' <=> After(todo'[c], k, Told(k))
    BY <2>2 DEF Owed, After
  <2>5. k \notin lost' => k \notin lost /\ e.key # k
    BY <2>1
  <2>. HIDE DEF s, e
  <2>6. k \notin lost' \/ Has(todo'[c], k) => (Owed(c, k)' <=> Due(c, k)')
    BY <1>1, <1>3, <2>3, <2>4, <2>5
  <2>7. QED
    BY <2>6 DEF KeyKept
<1>5. CASE ~Full
  <2>. DEFINE x == [n |-> serial + 1, key |-> e.key, up |-> e.up]
  <2>1. queue' = Append(queue, x) /\ lost' = lost \ {e.key} /\ todo'[c] = Tail(s)
    BY <1>5, Zenon DEF Enqueue, TypeOK
  <2>2. x \in Event /\ x.key = e.key /\ x.up = e.up /\ queue \in Seq(Event)
    <3>1. e.key \in EventKey /\ e.up \in BOOLEAN
      BY <1>0 DEF KeyChange
    <3>2. QED
      BY <3>1 DEF TypeOK, Event
  <2>. HIDE DEF x
  <2>3. Told(k)' <=> After(Append(queue, x), k, k \in OnTheWay)
    BY <1>2, <2>1 DEF Told, After, Has, LastDown
  <2>4. /\ e.key = k => (Told(k)' <=> ~e.up)
        /\ e.key # k => (Told(k)' <=> Told(k))
    BY <2>2, <2>3, AfterAppend DEF Told
  <2>5. Owed(c, k)' <=> After(Tail(s), k, Told(k)')
    BY <2>1 DEF Owed, After, Has, LastDown
  <2>6. CASE e.key = k
    <3>1. Has(s, k) /\ (After(s, k, Told(k)) <=> After(Tail(s), k, ~e.up))
      BY <1>0, <2>6, AfterFirst
    <3>2. After(Tail(s), k, Told(k)') <=> After(Tail(s), k, ~e.up)
      BY <2>4, <2>6 DEF After
    <3>3. Owed(c, k)' <=> Due(c, k)'
      BY <1>1, <1>3, <2>5, <3>1, <3>2
    <3>4. QED
      BY <3>3 DEF KeyKept
  <2>7. CASE e.key # k
    <3>1. (Has(Tail(s), k) <=> Has(s, k)) /\ (After(Tail(s), k, Told(k)) <=> After(s, k, Told(k)))
      BY <1>0, <2>7, TailOfOther
    <3>2. After(Tail(s), k, Told(k)') <=> After(Tail(s), k, Told(k))
      BY <2>4, <2>7 DEF After
    <3>3. (k \notin lost' => k \notin lost) /\ (Has(todo'[c], k) <=> Has(s, k))
      BY <2>1, <2>7, <3>1
    <3>. HIDE DEF s, e
    <3>4. k \notin lost' \/ Has(todo'[c], k) => (Owed(c, k)' <=> Due(c, k)')
      BY <1>1, <1>3, <2>5, <3>1, <3>2, <3>3
    <3>5. QED
      BY <3>4 DEF KeyKept
  <2>8. QED
    BY <2>6, <2>7
<1>6. QED
  BY <1>4, <1>5

\* The steps that neither find nor queue an event of core c.
LEMMA OthersKeep ==
  ASSUME NEW c \in Core, NEW k, KeyKept(c, k), todo'[c] = todo[c], lost' = lost, caps' = caps,
         Told(k)' <=> Told(k), UNCHANGED <<prevState, parsing, slot>>,
         (pc'[c] = "parse") <=> (pc[c] = "parse")
  PROVE  KeyKept(c, k)'
<1>1. Due(c, k)' <=> Due(c, k)
  BY DEF Due, Found, SlotsSay
<1>2. Owed(c, k)' <=> Owed(c, k)
  BY DEF Owed, After
<1>3. QED
  BY <1>1, <1>2 DEF KeyKept

LEMMA StepKeepsKey ==
  ASSUME TypeOK, Orderly, Undisturbed, RegisterKept, PackedWhenRead, [Next]_vars,
         NEW c \in Core, Solo(c), Solo(c)', NEW k \in Watched, k = CapsLock \/ NoGhosts,
         KeyKept(c, k)
  PROVE  KeyKept(c, k)'
<1>. USE DEF Goto
<1>0. pc \in [Core -> Labels0 \cup Labels1] /\ reports \in [Core -> Nat]
  BY Zenon DEF TypeOK
<1>1. CASE UNCHANGED vars
  BY <1>1, OthersKeep DEF Told, OnTheWay, Live
<1>2. CASE Keyboards(c)
  <2>1. CASE Parse(c)
    BY <2>1, ParseKeeps
  <2>2. CASE CompareSlot(c)
    BY <2>2, CompareSlotKeeps
  <2>3. CASE StoreState(c)
    BY <2>3, StoreStateKeeps
  <2>4. CASE Enqueue(c)
    BY <2>4, EnqueueKeeps
  <2>5. CASE GhostType(c)
    <3>1. k = CapsLock
      BY <2>5 DEF GhostType, Orderly
    <3>2. QED
      BY <2>5, <3>1, GhostTypeKeeps
  <2>6. CASE NothingToParse(c) \/ GhostDone(c)
    <3>1. /\ UNCHANGED <<todo, lost, caps, queue, prevState, parsing, slot>>
          /\ (pc'[c] = "parse") <=> (pc[c] = "parse")
      BY <1>0, <2>6 DEF NothingToParse, GhostDone, AfterTask
    <3>2. Told(k)' <=> Told(k)
      BY <2>6, <3>1, KeyboardsKeepTold DEF Keyboards
    <3>3. QED
      BY <3>1, <3>2, OthersKeep
  <2>7. QED
    BY <1>2, <2>1, <2>2, <2>3, <2>4, <2>5, <2>6 DEF Keyboards
<1>3. ASSUME NEW d \in Core, d # c, Keyboards(d)
      PROVE  KeyKept(c, k)'
  <2>1. workload.count[d] = 0
    BY <1>3, CoreFacts, SMTT(30) DEF Solo
  <2>2. NothingToParse(d)
    <3>1. pc[d] \notin {"parse", "ghost"} /\ todo[d] = <<>> /\ ~(reports[d] < workload.count[d])
      BY <1>0, <2>1 DEF Orderly
    <3>2. QED
      BY <1>3, <3>1, Zenon DEF Keyboards, Parse, CompareSlot, StoreState, Enqueue, GhostType, GhostDone
  <2>3. UNCHANGED <<todo, lost, caps, queue, prevState, parsing, slot>> /\ pc'[c] = pc[c]
    BY <1>0, <1>3, <2>2 DEF NothingToParse
  <2>4. Told(k)' <=> Told(k)
    BY <1>3, <2>3, KeyboardsKeepTold
  <2>5. QED
    BY <2>3, <2>4, OthersKeep
<1>4. CASE Packer \/ HostReads
  <2>1. UNCHANGED <<todo, lost, caps, prevState, parsing, slot>>
    BY <1>4, Zenon DEF Packer, Look, First, TakeFirst, Second, Peek, Inspect, TakeSecond, Latch, OtherCommand, HostReads, Dequeue
  <2>2. (pc'[c] = "parse") <=> (pc[c] = "parse")
    BY <1>0, <1>4, CoreFacts, ZenonT(30) DEF Packer, Look, First, TakeFirst, Second, Peek, Inspect, TakeSecond, Latch, OtherCommand, HostReads
  <2>3. Told(k)' <=> Told(k)
    BY <1>4, TransitKeepsTold DEF Solo
  <2>4. QED
    BY <2>1, <2>2, <2>3, OthersKeep
<1>5. CASE BusReset
  BY <1>5 DEF BusReset, Solo, TypeOK
<1>6. CASE Reset
  <2>1. ResetRequested /\ ~usb_reset
    BY <1>6 DEF Solo, Undisturbed, Reset, ResetRequested, Drain, Free, ResetDone
  <2>2. UNCHANGED <<todo, lost, caps, queue, pending, register, host, prevState, parsing, slot>>
        /\ ((pc'[c] = "parse") <=> (pc[c] = "parse")) /\ pc'[0] = pc[0]
    BY <1>0, <2>1, CoreFacts DEF ResetRequested
  <2>3. Told(k)' <=> Told(k)
    BY <2>2 DEF Told, OnTheWay, Live
  <2>4. QED
    BY <2>2, <2>3, OthersKeep
<1>7. QED
  BY <1>1, <1>2, <1>3, <1>4, <1>5, <1>6 DEF Next

LEMMA SoloBefore ==
  ASSUME TypeOK, [Next]_vars, NEW c \in Core, Solo(c)'
  PROVE  Solo(c) /\ (NoGhosts' <=> NoGhosts)
<1>1. workload' = workload /\ (resets' = resets \/ resets' = resets + 1) /\ resets \in Nat
  <2>1. CASE UNCHANGED vars
    BY <2>1 DEF TypeOK
  <2>2. ASSUME NEW d \in Core, Keyboards(d)
        PROVE  workload' = workload /\ resets' = resets
    BY <2>2, Zenon DEF Keyboards, Parse, NothingToParse, CompareSlot, StoreState, Enqueue, GhostType, GhostDone
  <2>3. CASE Packer \/ HostReads \/ BusReset
    BY <2>3, Zenon DEF TypeOK, Packer, Look, First, TakeFirst, Second, Peek, Inspect, TakeSecond, Latch, OtherCommand, HostReads, BusReset
  <2>4. CASE Reset
    BY <2>4 DEF TypeOK, Reset, ResetRequested, Drain, Free, ResetDone
  <2>5. QED
    BY <2>1, <2>2, <2>3, <2>4 DEF Next, TypeOK
<1>2. QED
  BY <1>1 DEF Solo, NoGhosts

LEMMA KeysInvInit == Init => KeysInv
<1>1. ASSUME Init PROVE KeysInv
  <2>1. \A c \in Core : todo[c] = <<>> /\ pc[c] = "task"
    BY <1>1 DEF Init
  <2>2. workload.resets \in Nat
    BY <1>1, InitTyped, WorkloadFacts DEF TypeOK
  <2>3. Orderly /\ Undisturbed /\ RegisterKept /\ PackedWhenRead
    <3>1. NoKey \notin Unmapped
      BY PipelineAssumption DEF PipelineAssumption, EventKey
    <3>2. QED
      BY <1>1, <2>1, <2>2, <3>1, CoreFacts DEF Init, Orderly, Undisturbed, RegisterKept, PackedWhenRead, Packing, EmptyRegister
  <2>4. ASSUME NEW c \in Core, NEW k \in Watched
        PROVE  KeyKept(c, k)
    <3>1. Owed(c, k) <=> Told(k)
      BY <2>1, NothingOwed
    <3>2. Told(k) <=> k \in OnTheWay
        <4>1. ~Has(queue, k)
        BY <1>1 DEF Init, Has
      <4>2. QED
        BY <4>1 DEF Told, After, LastDown, Has
    <3>3. OnTheWay = {}
      BY <1>1, <2>1, CoreFacts DEF Init, OnTheWay, Live
    <3>4. prevState.mods = {} /\ k \notin Range(prevState.keys)
      <4>1. prevState = NoReport /\ prevState \in Report
        BY <1>1, InitTyped DEF Init, TypeOK
      <4>2. DOMAIN prevState.keys = 1 .. Slots /\ \A i \in 1 .. Slots : prevState.keys[i] = NoKey
        BY <4>1 DEF NoReport
      <4>3. QED
        BY <4>1, <4>2, WatchedFacts DEF NoReport, Range
    <3>5. ~Due(c, k)
      BY <1>1, <2>1, <3>4 DEF Init, Due, Found
    <3>6. QED
      BY <3>1, <3>2, <3>3, <3>5 DEF KeyKept
  <2>5. QED
    BY <2>3, <2>4 DEF KeysInv, EventsAccountFor
<1>2. QED
  BY <1>1

LEMMA KeysInvKept ==
  ASSUME TypeOK, KeysInv, [Next]_vars
  PROVE  KeysInv'
<1>1. Orderly' /\ Undisturbed' /\ RegisterKept' /\ PackedWhenRead'
  BY OrderlyKept, UndisturbedKept, RegisterIsKept, PackedWhenReadKept DEF KeysInv
<1>2. ASSUME NEW c \in Core, Solo(c)', NEW k \in Watched, k = CapsLock \/ NoGhosts'
      PROVE  KeyKept(c, k)'
  <2>1. Solo(c) /\ (k = CapsLock \/ NoGhosts)
    BY <1>2, SoloBefore
  <2>2. KeyKept(c, k)
    BY <2>1 DEF KeysInv, EventsAccountFor
  <2>3. QED
    BY <1>2, <2>1, <2>2, StepKeepsKey DEF KeysInv
<1>3. EventsAccountFor'
  BY <1>2 DEF EventsAccountFor
<1>4. QED
  BY <1>1, <1>3 DEF KeysInv

\* When all is quiet, nothing is on its way.
LEMMA QuietIsTold ==
  ASSUME KeysInv, Quiet, NEW c \in Core, Solo(c), NEW k \in Watched,
         k = CapsLock \/ NoGhosts, k \notin lost
  PROVE  k \in host <=> Due(c, k)
<1>1. KeyKept(c, k) /\ todo[c] = <<>>
  BY DEF KeysInv, EventsAccountFor, Quiet
<1>2. Told(k) <=> k \in OnTheWay
  <2>1. ~Has(queue, k)
    BY DEF Quiet, Has
  <2>2. QED
    BY <2>1 DEF Told, After, LastDown, Has
<1>3. OnTheWay = host
  BY DEF OnTheWay, Live, Quiet
<1>4. QED
  BY <1>1, <1>2, <1>3, NothingOwed DEF KeyKept

LEMMA NoKeyIsStuck == TypeOK /\ KeysInv => NoStuckKey
<1>1. ASSUME TypeOK, KeysInv, Plain, Quiet
      PROVE  Surely(host) = Surely(HeldKeys(prevState))
  <2>1. PICK d \in Core : workload.count[d] = 0
    BY <1>1 DEF Plain
  <2>2. PICK c \in Core : 1 - c = d
    BY <2>1 DEF Core
  <2>3. resets = 0
    BY <1>1 DEF Plain, KeysInv, Orderly, TypeOK
  <2>4. Solo(c) /\ NoGhosts
    BY <1>1, <2>1, <2>2, <2>3 DEF Solo, NoGhosts, Plain
  <2>5. ASSUME NEW k \in Watched \ {CapsLock}, k \notin lost
        PROVE  k \in host <=> k \in HeldKeys(prevState)
    <3>1. k \in host <=> Found(c, k)
      BY <1>1, <2>4, <2>5, QuietIsTold DEF Due
    <3>2. pc[c] # "parse"
      BY <1>1 DEF Quiet
    <3>3. QED
      BY <3>1, <3>2 DEF Found, HeldKeys, Watched
  <2>6. host \subseteq Mapped \cup Modifier
    BY <1>1 DEF TypeOK, KeysInv, RegisterKept, Mapped, EventKey
  <2>7. HeldKeys(prevState) \subseteq Mapped \cup Modifier
    BY DEF HeldKeys
  <2>8. QED
    BY <2>5, <2>6, <2>7 DEF Surely, Watched
<1>2. QED
  BY <1>1 DEF NoStuckKey

LEMMA CapsFollows == TypeOK /\ KeysInv => CapsLockFollowsLed
<1>1. ASSUME TypeOK, KeysInv, Quiet, CapsLock \notin lost, resets = 0,
             NEW d \in Core, workload.count[d] = 0
      PROVE  CapsLock \in host <=> caps
  <2>1. PICK c \in Core : 1 - c = d
    BY DEF Core
  <2>2. Solo(c)
    BY <1>1, <2>1 DEF Solo
  <2>3. CapsLock \in Watched
    BY PipelineAssumption DEF PipelineAssumption, Watched
  <2>4. QED
    BY <1>1, <2>2, <2>3, QuietIsTold DEF Due
<1>2. QED
  BY <1>1 DEF CapsLockFollowsLed

\* When all is quiet the host holds exactly the keys of the last report, but
\* for those whose last event met a full queue, and Caps Lock is down at the
\* host exactly while its LED is lit: whatever is pressed, released and moved
\* from slot to slot, however the events are paired into registers, and
\* whenever the adapter types a message.
THEOREM NoKeyStuck == Spec => []KeysSettle
<1>1. TypeOK /\ KeysInv /\ [Next]_vars => KeysInv'
  BY KeysInvKept
<1>2. TypeOK /\ KeysInv => KeysSettle
  BY NoKeyIsStuck, CapsFollows DEF KeysSettle
<1>. HIDE DEF vars
<1>3. QED
  BY <1>1, <1>2, KeysInvInit, TypeCorrect, PTL DEF Spec

(* ------------------------- folds over sequences ------------------------ *)

\* KeyCodes has nothing of the state of KeyPipeline.
HIDE DEF parser_vars, queue_vars, packer_vars, host_vars, env_vars, vars

\* Induction over the natural numbers, for the members of a set
LEMMA Induction ==
  ASSUME NEW T, 0 \in T, \A n \in Nat : n \in T => n + 1 \in T
  PROVE  Nat \subseteq T
<1>. DEFINE U == Nat \ T
<1>. SUFFICES ASSUME U # {} PROVE FALSE
  OBVIOUS
<1>1. PICK n \in U : \A m \in U : ~(<<m, n>> \in OpToRel(<, Nat))
  <2>1. U \subseteq Nat
    OBVIOUS
  <2>. HIDE DEF U
  <2>2. QED
    BY <2>1, WFMin, NatLessThanWellFounded, Zenon
<1>2. \A m \in U : ~(m < n)
  BY <1>1, Zenon DEF OpToRel
<1>3. n \in Nat /\ n # 0 /\ n - 1 \in Nat /\ n - 1 < n
  OBVIOUS
<1>4. n - 1 \in T
  BY <1>2, <1>3
<1>5. QED
  BY <1>3, <1>4

LEMMA TopIs ==
  ASSUME NEW s, s \subseteq Int, NEW m \in s, \A y \in s : m >= y
  PROVE  Codes!Max(s) = m
<1>1. \A x \in s : (\A y \in s : x >= y) => x = m
  OBVIOUS
<1>2. QED
  BY <1>1, Zenon DEF Codes!Max

\* The largest member of a set is one of it.
LEMMA TopIn == \A n \in Nat : \A s \in SUBSET (1 .. n) : s # {} => Codes!Max(s) \in s
<1>. DEFINE T == {n \in Nat : \A s \in SUBSET (1 .. n) : s # {} => Codes!Max(s) \in s}
<1>1. 0 \in T
  <2>1. 1 .. 0 = {}
    OBVIOUS
  <2>2. QED
    BY <2>1, Zenon
<1>2. ASSUME NEW n \in Nat, n \in T PROVE n + 1 \in T
  <2>1. ASSUME NEW s \in SUBSET (1 .. n + 1), s # {} PROVE Codes!Max(s) \in s
    <3>1. CASE n + 1 \in s
      <4>1. s \subseteq Int /\ \A y \in s : n + 1 >= y
        OBVIOUS
      <4>2. QED
        BY <3>1, <4>1, TopIs, Zenon
    <3>2. CASE n + 1 \notin s
      <4>1. s \in SUBSET (1 .. n)
        BY <3>2
      <4>2. QED
        BY <1>2, <2>1, <4>1
    <3>3. QED
      BY <3>1, <3>2
  <2>2. QED
    BY <2>1
<1>. HIDE DEF T
<1>3. Nat \subseteq T
  BY <1>1, <1>2, Induction
<1>4. QED
  BY <1>3, Zenon DEF T

\* it[s] folds base with G[i] for the members i of s, upwards.
FoldsUp(it, A, n, base, G) ==
  /\ it \in [SUBSET (1 .. n) -> A]
  /\ \A s \in SUBSET (1 .. n) :
       it[s] = IF s = {} THEN base ELSE G[Codes!Max(s)][it[s \ {Codes!Max(s)}]]

\* The function that a fold is defined with exists.
LEMMA FoldDefined ==
  ASSUME NEW A, NEW n \in Nat, NEW base \in A, NEW G \in [1 .. n -> [A -> A]]
  PROVE  \E it : FoldsUp(it, A, n, base, G)
<1>. DEFINE Folds(m, it) == \A s \in SUBSET (1 .. m) :
              it[s] = IF s = {} THEN base ELSE G[Codes!Max(s)][it[s \ {Codes!Max(s)}]]
            Defined(m) == \E it \in [SUBSET (1 .. m) -> A] : Folds(m, it)
            T == {m \in Nat : m <= n => Defined(m)}
<1>. HIDE DEF Defined
<1>1. 0 \in T
  <2>1. SUBSET (1 .. 0) = {{}}
    OBVIOUS
  <2>2. [s \in {{}} |-> base] \in [{{}} -> A] /\ [s \in {{}} |-> base][{}] = base
    OBVIOUS
  <2>3. Defined(0)
    BY <2>1, <2>2, Zenon DEF Defined
  <2>4. QED
    BY <2>3
<1>2. ASSUME NEW m \in Nat, m \in T PROVE m + 1 \in T
  <2>. SUFFICES ASSUME m + 1 <= n PROVE Defined(m + 1)
    OBVIOUS
  <2>1. PICK it \in [SUBSET (1 .. m) -> A] : Folds(m, it)
    <3>1. Defined(m)
      BY <1>2
    <3>2. QED
      BY <3>1, Zenon DEF Defined
  <2>. DEFINE Over(s) == IF m + 1 \in s THEN G[m + 1][it[s \ {m + 1}]] ELSE it[s]
              up == [s \in SUBSET (1 .. m + 1) |-> Over(s)]
  <2>2. ASSUME NEW s \in SUBSET (1 .. m + 1)
        PROVE  /\ s \ {m + 1} \in SUBSET (1 .. m)
               /\ m + 1 \notin s => s \in SUBSET (1 .. m)
               /\ m + 1 \in s => Codes!Max(s) = m + 1
    <3>1. s \ {m + 1} \in SUBSET (1 .. m) /\ (m + 1 \notin s => s \in SUBSET (1 .. m))
      OBVIOUS
    <3>2. s \subseteq Int /\ \A y \in s : m + 1 >= y
      OBVIOUS
    <3>3. QED
      BY <3>1, <3>2, TopIs, Zenon
  <2>3. G[m + 1] \in [A -> A]
    OBVIOUS
  <2>4. up \in [SUBSET (1 .. m + 1) -> A]
    <3>1. ASSUME NEW s \in SUBSET (1 .. m + 1) PROVE Over(s) \in A
      BY <2>2, <2>3
    <3>. HIDE DEF Over
    <3>2. QED
      BY <3>1
  <2>5. \A s \in SUBSET (1 .. m) : s \in SUBSET (1 .. m + 1) /\ m + 1 \notin s /\ up[s] = it[s]
    OBVIOUS
  <2>6. ASSUME NEW s \in SUBSET (1 .. m + 1)
        PROVE  up[s] = IF s = {} THEN base ELSE G[Codes!Max(s)][up[s \ {Codes!Max(s)}]]
    <3>1. CASE m + 1 \in s
      <4>1. up[s] = G[m + 1][it[s \ {m + 1}]] /\ Codes!Max(s) = m + 1 /\ s # {}
        BY <2>2, <3>1
      <4>2. up[s \ {m + 1}] = it[s \ {m + 1}]
        BY <2>2, <2>5
      <4>3. QED
        BY <4>1, <4>2, Zenon
    <3>2. CASE m + 1 \notin s
      <4>1. s \in SUBSET (1 .. m)
        BY <2>2, <3>2
      <4>2. up[s] = IF s = {} THEN base ELSE G[Codes!Max(s)][it[s \ {Codes!Max(s)}]]
        BY <2>1, <2>5, <4>1, Zenon
      <4>3. s \ {Codes!Max(s)} \in SUBSET (1 .. m)
        BY <4>1, Zenon
      <4>4. up[s \ {Codes!Max(s)}] = it[s \ {Codes!Max(s)}]
        BY <2>5, <4>3
      <4>5. QED
        BY <4>2, <4>4, Zenon
    <3>3. QED
      BY <3>1, <3>2, Zenon
  <2>. HIDE DEF up
  <2>7. QED
    BY <2>4, <2>6, Zenon DEF Defined
<1>. HIDE DEF T
<1>3. n \in T
  BY <1>1, <1>2, Induction
<1>4. Defined(n)
  BY <1>3 DEF T
<1>5. QED
  BY <1>4, Zenon DEF Defined, FoldsUp

\* Of the sets a fold goes down by, those from 1 on
LEMMA Downwards ==
  ASSUME NEW i \in Nat \ {0}
  PROVE  Codes!Max(1 .. i) = i /\ (1 .. i) \ {i} = 1 .. i - 1 /\ 1 .. i # {}
<1>1. 1 .. i \subseteq Int /\ i \in 1 .. i /\ \A y \in 1 .. i : i >= y
  OBVIOUS
<1>2. Codes!Max(1 .. i) = i
  BY <1>1, TopIs, Zenon
<1>3. (1 .. i) \ {i} = 1 .. i - 1
  OBVIOUS
<1>4. QED
  BY <1>1, <1>2, <1>3


(* ------------------------- the codes: the invariant -------------------- *)

KeyCode(k) == Codes!CodeTable[extended][k]
Valid(code) == Codes!adb_keycode_valid(code)
Alike(j, k) == j \in Codes!SameAs(k, extended)
Typing == held \ {0, 1, Codes!CapsKey}

\* What each end may hold of the keys that are held
MacKeys == {KeyCode(k) : k \in Typing} \ {Codes!NoCode}
Pushing == {k \in Typing \ Codes!Modifier : Valid(KeyCode(k))}
PcKeys == {Codes!s_adb_to_usb[KeyCode(k)] : k \in Pushing}
PcMods == {Codes!adb_code_to_modifier[KeyCode(k)] : k \in held \cap Codes!Modifier}

AdbCode == 0 .. 127 \cup {255}
ValidCodes == 0 .. 126
ReportKeys == {s \in SUBSET (1 .. 255) : Cardinality(s) <= 6}
PcState == [s_keys : ReportKeys, s_mod : SUBSET Codes!Modifier]
Read == [sign : Range(Codes!Layout) \cup {""}, shift : BOOLEAN]
EndState == [mac : SUBSET (0 .. 127), pc : PcState, text : Seq(Read)]
CodeEvent == [code : AdbCode, up : BOOLEAN]

Handler == extended \in BOOLEAN

CodesTyped ==
  /\ keys \in KeySet /\ held \subseteq keys /\ held \subseteq 0 .. 255
  /\ Handler /\ bmCapsLock \in BOOLEAN
  /\ mac \subseteq 0 .. 127 /\ personal \in PcState
  /\ clash \in BOOLEAN /\ dropped \in BOOLEAN
  /\ message \in Sentence \cup {<<>>} /\ text = message

\* Neither end holds what no key holds.
NothingElse ==
  /\ mac \subseteq MacKeys \cup {Codes!CapsKey}
  /\ personal.s_keys \subseteq PcKeys /\ personal.s_mod \subseteq PcMods

\* Without a clash no two keys that are held share a code, and all are at the
\* Macintosh.
MacFollows ==
  ~clash =>
    /\ MacKeys \subseteq mac
    /\ \A j, k \in held : Alike(j, k) => j = k

\* If none was dropped either, all have codes and room, and are at the PC.
PcHasAll ==
  ~clash /\ ~dropped =>
    /\ \A k \in held : Valid(KeyCode(k))
    /\ Cardinality(held \ Codes!Modifier) <= 6
    /\ PcKeys \subseteq personal.s_keys /\ PcMods \subseteq personal.s_mod

CodesInv == CodesTyped /\ NothingElse /\ MacFollows /\ PcHasAll

(* ------------------------------ the tables ----------------------------- *)

LEMMA Numbers ==
  /\ Codes!Usage = 0 .. 255 /\ Codes!CapsKey = 57 /\ Codes!NoCode = 255
  /\ Codes!RightHand = 228 .. 230 /\ Codes!Modifier = 224 .. 231
  /\ Codes!ModifierCode = {54, 55, 56, 58, 123, 124, 125}
  /\ \A c : Valid(c) <=> c < 127
  BY DEF Codes!Usage, Codes!CapsKey, Codes!NoCode, Codes!RightHand, Codes!Modifier,
    Codes!ModifierCode, Valid, Codes!adb_keycode_valid

LEMMA Hex == \h7F = 127 /\ \h7E = 126 /\ \hE1 = 225 /\ \h38 = 56
  OBVIOUS

\* What the codes of keys have in common
LEMMA CodeTyped ==
  ASSUME Handler
  PROVE  \A k \in 0 .. 255 : KeyCode(k) \in AdbCode
<1>1. Codes!CodeTable \in [BOOLEAN -> [Codes!Usage -> 0 .. \h7F \cup {Codes!NoCode}]]
  BY CodesAssumed DEF Codes!KeyAssumption, Codes!CodesApart
<1>2. 0 .. \h7F \cup {Codes!NoCode} = AdbCode
  BY Numbers, Hex DEF AdbCode
<1>3. Codes!CodeTable \in [BOOLEAN -> [0 .. 255 -> AdbCode]]
  BY <1>1, <1>2, Numbers, Zenon
<1>4. Codes!CodeTable[extended] \in [0 .. 255 -> AdbCode]
  BY <1>3, Zenon DEF Handler
<1>5. QED
  BY <1>4, Zenon DEF KeyCode

LEMMA ShiftCode ==
  ASSUME Handler
  PROVE  KeyCode(225) = 56
<1>1. \A ext \in BOOLEAN : Codes!CodeTable[ext][\hE1] = \h38
  BY CodesAssumed DEF Codes!KeyAssumption, Codes!CodesApart
<1>2. \hE1 = 225 /\ \h38 = 56
  BY Hex
<1>3. QED
  BY <1>1, <1>2 DEF Handler, KeyCode

LEMMA CodesOfKeys ==
  ASSUME Handler
  PROVE  \A k \in Codes!Usage :
           /\ \A j \in Codes!Usage :
                KeyCode(j) = KeyCode(k) /\ KeyCode(k) # Codes!NoCode => j \in Codes!SameAs(k, extended)
           /\ k \in {0, 1} => KeyCode(k) = Codes!NoCode
           /\ KeyCode(k) = Codes!CapsKey <=> k = Codes!CapsKey
           /\ KeyCode(k) \in Codes!ModifierCode <=> k \in Codes!Modifier
<1>1. \A ext \in BOOLEAN : \A k \in Codes!Usage :
        /\ \A j \in Codes!Usage :
             Codes!CodeTable[ext][j] = Codes!CodeTable[ext][k] /\ Codes!CodeTable[ext][k] # Codes!NoCode =>
               j \in Codes!SameAs(k, ext)
        /\ k \in {0, 1} => Codes!CodeTable[ext][k] = Codes!NoCode
        /\ Codes!CodeTable[ext][k] = Codes!CapsKey <=> k = Codes!CapsKey
        /\ Codes!CodeTable[ext][k] \in Codes!ModifierCode <=> k \in Codes!Modifier
  <2>1. Codes!CodesApart
    BY CodesAssumed DEF Codes!KeyAssumption
  <2>2. QED
    BY <2>1, Zenon DEF Codes!CodesApart
<1>2. extended \in BOOLEAN
  BY DEF Handler
<1>3. QED
  BY <1>1, <1>2, Zenon DEF KeyCode

LEMMA CodeShared ==
  ASSUME Handler
  PROVE  \A j, k \in 0 .. 255 : KeyCode(j) = KeyCode(k) /\ KeyCode(k) # 255 => Alike(j, k)
<1>1. \A j, k \in Codes!Usage : KeyCode(j) = KeyCode(k) /\ KeyCode(k) # Codes!NoCode => Alike(j, k)
  BY CodesOfKeys, Zenon DEF Alike
<1>2. Codes!Usage = 0 .. 255 /\ Codes!NoCode = 255
  BY Numbers
<1>3. QED
  BY <1>1, <1>2, ZenonT(30)

LEMMA CodeOfNone ==
  ASSUME Handler
  PROVE  \A k \in 0 .. 255 : k \in {0, 1} => KeyCode(k) = 255
<1>1. \A k \in Codes!Usage : k \in {0, 1} => KeyCode(k) = Codes!NoCode
  BY CodesOfKeys, Zenon
<1>2. QED
  BY <1>1, Numbers

LEMMA CodeOfCaps ==
  ASSUME Handler
  PROVE  \A k \in 0 .. 255 : KeyCode(k) = 57 <=> k = 57
<1>1. \A k \in Codes!Usage : KeyCode(k) = Codes!CapsKey <=> k = Codes!CapsKey
  BY CodesOfKeys, Zenon
<1>2. QED
  BY <1>1, Numbers

LEMMA CodeOfModifier ==
  ASSUME Handler
  PROVE  \A k \in 0 .. 255 : KeyCode(k) \in Codes!ModifierCode <=> k \in Codes!Modifier
<1>1. \A k \in Codes!Usage : KeyCode(k) \in Codes!ModifierCode <=> k \in Codes!Modifier
  BY CodesOfKeys, Zenon
<1>2. QED
  BY <1>1, Numbers

LEMMA CodeOf ==
  ASSUME Handler, NEW k \in 0 .. 255
  PROVE
  /\ KeyCode(k) \in AdbCode
  /\ k \in {0, 1} => KeyCode(k) = 255
  /\ KeyCode(k) = 57 <=> k = 57
  /\ KeyCode(k) \in Codes!ModifierCode <=> k \in Codes!Modifier
<1>1. KeyCode(k) \in AdbCode
  BY CodeTyped, Zenon
<1>2. k \in {0, 1} => KeyCode(k) = 255
  BY CodeOfNone
<1>3. KeyCode(k) = 57 <=> k = 57
  BY CodeOfCaps, Zenon
<1>4. KeyCode(k) \in Codes!ModifierCode <=> k \in Codes!Modifier
  BY CodeOfModifier, Zenon
<1>5. QED
  BY <1>1, <1>2, <1>3, <1>4, Zenon

LEMMA ValidCode ==
  ASSUME Handler
  PROVE  \A k \in Codes!Usage : Valid(KeyCode(k)) => KeyCode(k) \in ValidCodes
<1>1. ASSUME NEW code \in AdbCode, Valid(code) PROVE code \in ValidCodes
  <2>1. code < 127
    BY <1>1, Numbers
  <2>2. QED
    BY <2>1 DEF AdbCode, ValidCodes
<1>2. \A code : code \in AdbCode /\ Valid(code) => code \in ValidCodes
  BY <1>1, Zenon
<1>3. \A k \in Codes!Usage : KeyCode(k) \in AdbCode
  BY CodeTyped, Numbers
<1>4. QED
  BY <1>2, <1>3, Zenon

LEMMA SameHands ==
  ASSUME NEW k \in 0 .. 255, k \notin Codes!RightHand, NEW a \in BOOLEAN, NEW b \in BOOLEAN
  PROVE  Codes!CodeTable[a][k] = Codes!CodeTable[b][k]
<1>1. Codes!CodeTable[TRUE][k] = Codes!CodeTable[FALSE][k]
  <2>1. Codes!CodesApart
    BY CodesAssumed DEF Codes!KeyAssumption
  <2>2. k \in Codes!Usage \ Codes!RightHand
    BY Numbers
  <2>3. QED
    BY <2>1, <2>2, Zenon DEF Codes!CodesApart
<1>2. \A x, y \in BOOLEAN : Codes!CodeTable[x][k] = Codes!CodeTable[y][k]
  BY <1>1, Zenon
<1>3. QED
  BY <1>2, Zenon

\* The tables of the host mode
LEMMA HostTables ==
  /\ \A c \in 0 .. 126 : Codes!s_adb_to_usb[c] \in 0 .. 255
  /\ DOMAIN Codes!adb_code_to_modifier = Codes!ModifierCode
  /\ \A c \in Codes!ModifierCode : Codes!adb_code_to_modifier[c] \in Codes!Modifier
  /\ \A c, d \in 0 .. 126 : Codes!s_adb_to_usb[c] = Codes!s_adb_to_usb[d] /\ Codes!s_adb_to_usb[c] # 0 => c = d
  /\ \A c, d \in Codes!ModifierCode : Codes!adb_code_to_modifier[c] = Codes!adb_code_to_modifier[d] => c = d
<1>1. Codes!InverseFits
  BY CodesAssumed, SMTT(30) DEF Codes!KeyAssumption
<1>2. \A c, d \in Codes!ModifierCode : Codes!adb_code_to_modifier[c] = Codes!adb_code_to_modifier[d] => c = d
  BY <1>1, ZenonT(30) DEF Codes!InverseFits, Codes!IsInjective
<1>3. /\ Codes!s_adb_to_usb \in [0 .. 126 -> 0 .. 255]
      /\ Codes!adb_code_to_modifier \in [Codes!ModifierCode -> Codes!Modifier]
  BY <1>1, Numbers, ZenonT(30) DEF Codes!InverseFits
<1>4. \A c, d \in 0 .. 126 :
        Codes!s_adb_to_usb[c] = Codes!s_adb_to_usb[d] /\ Codes!s_adb_to_usb[c] # 0 => c = d
  BY <1>1, ZenonT(30) DEF Codes!InverseFits
<1>5. /\ \A c \in 0 .. 126 : Codes!s_adb_to_usb[c] \in 0 .. 255
      /\ DOMAIN Codes!adb_code_to_modifier = Codes!ModifierCode
      /\ \A c \in Codes!ModifierCode : Codes!adb_code_to_modifier[c] \in Codes!Modifier
  BY <1>3, Zenon
<1>6. QED
  BY <1>2, <1>4, <1>5, Zenon

LEMMA InverseUsage == \A c \in ValidCodes : Codes!s_adb_to_usb[c] \in Codes!Usage
<1>1. Codes!s_adb_to_usb \in [0 .. \h7E -> Codes!Usage]
  BY CodesAssumed, Zenon DEF Codes!KeyAssumption, Codes!InverseFits
<1>2. 0 .. \h7E = ValidCodes
  BY Hex DEF ValidCodes
<1>3. QED
  BY <1>1, <1>2, Zenon

\* They turn the code of a key into that key, or one that shares it.
LEMMA InverseFacts ==
  ASSUME Handler
  PROVE
  /\ \A k \in Codes!Modifier : Alike(Codes!adb_code_to_modifier[KeyCode(k)], k)
  /\ \A k \in 0 .. 255 : k \notin Codes!Modifier /\ k # 57 /\ Valid(KeyCode(k)) =>
       Alike(Codes!s_adb_to_usb[KeyCode(k)], k) /\ Codes!s_adb_to_usb[KeyCode(k)] # 0
<1>1. Codes!InverseFits
  BY CodesAssumed DEF Codes!KeyAssumption
<1>2. /\ \A k \in Codes!Modifier :
           Codes!adb_code_to_modifier[KeyCode(k)] \in Codes!SameAs(k, extended) \cap Codes!Modifier
      /\ \A k \in Codes!Usage \ (Codes!Modifier \cup {Codes!CapsKey}) :
           Valid(KeyCode(k)) => Codes!s_adb_to_usb[KeyCode(k)] \in Codes!SameAs(k, extended) \ {0}
  <2>1. \A ext \in BOOLEAN :
          /\ \A k \in Codes!Modifier :
               Codes!adb_code_to_modifier[Codes!CodeTable[ext][k]] \in Codes!SameAs(k, ext) \cap Codes!Modifier
          /\ \A k \in Codes!Usage \ (Codes!Modifier \cup {Codes!CapsKey}) :
               Valid(Codes!CodeTable[ext][k]) =>
                 Codes!s_adb_to_usb[Codes!CodeTable[ext][k]] \in Codes!SameAs(k, ext) \ {0}
    BY <1>1, Zenon DEF Codes!InverseFits, Valid
  <2>2. extended \in BOOLEAN
    BY DEF Handler
  <2>3. QED
    BY <2>1, <2>2, Zenon DEF KeyCode
<1>3. \A k : k \in 0 .. 255 /\ k \notin Codes!Modifier /\ k # 57 =>
               k \in Codes!Usage \ (Codes!Modifier \cup {Codes!CapsKey})
  BY Numbers
<1>4. QED
  BY <1>2, <1>3, Zenon DEF Alike

LEMMA AlikeBothWays ==
  ASSUME NEW j, NEW k
  PROVE  Alike(j, k) => Alike(k, j)
  BY DEF Alike, Codes!SameAs

LEMMA LayoutFacts == DOMAIN Codes!Layout = 1 .. 52 /\ Len(Codes!Layout) = 52
  BY DEF Codes!Layout


(* ------------------------- what an event changes ----------------------- *)

LEMMA FewKeys ==
  ASSUME NEW s \in ReportKeys, NEW k \in 1 .. 255
  PROVE  /\ s \ {k} \in ReportKeys
         /\ Cardinality(s) < 6 => s \cup {k} \in ReportKeys
<1>1. IsFiniteSet(s)
  <2>1. IsFiniteSet(1 .. 255)
    <3>1. 1 \in Int /\ 255 \in Int
      OBVIOUS
    <3>2. QED
      BY <3>1, FS_Interval, Zenon
  <2>2. s \in SUBSET (1 .. 255)
    BY DEF ReportKeys
  <2>3. QED
    BY <2>1, <2>2, FS_Subset, Zenon
<1>2. Cardinality(s) \in Nat
  BY <1>1, FS_CardinalityType
<1>3. Cardinality(s \ {k}) \in Nat /\ Cardinality(s \ {k}) <= Cardinality(s)
  <2>1. Cardinality(s \ {k}) = IF k \in s THEN Cardinality(s) - 1 ELSE Cardinality(s)
    BY <1>1, FS_RemoveElement
  <2>2. IsFiniteSet(s \ {k})
    BY <1>1, FS_RemoveElement
  <2>3. Cardinality(s \ {k}) \in Nat
    BY <2>2, FS_CardinalityType
  <2>4. QED
    BY <1>2, <2>1, <2>3
<1>4. Cardinality(s \cup {k}) \in Nat /\ Cardinality(s \cup {k}) <= Cardinality(s) + 1
  <2>1. Cardinality(s \cup {k}) = IF k \in s THEN Cardinality(s) ELSE Cardinality(s) + 1
    BY <1>1, FS_AddElement
  <2>2. QED
    BY <1>2, <2>1
<1>5. s \subseteq 1 .. 255 /\ Cardinality(s) <= 6
  BY DEF ReportKeys
<1>6. s \ {k} \in ReportKeys
  BY <1>2, <1>3, <1>5 DEF ReportKeys
<1>7. Cardinality(s) < 6 => s \cup {k} \in ReportKeys
  BY <1>2, <1>4, <1>5 DEF ReportKeys
<1>8. QED
  BY <1>6, <1>7

LEMMA Counted ==
  ASSUME NEW S
  PROVE  Codes!Cardinality(S) = Cardinality(S)
  BY DEF Codes!Cardinality, Cardinality

LEMMA NoKeys == {} \in ReportKeys
<1>1. Cardinality({}) = 0
  BY FS_EmptySet
<1>2. QED
  BY <1>1 DEF ReportKeys

\* The modifiers, and the other keys, the PC sees after an event of them
Bits(mods, code, up) ==
  IF up THEN mods \ {Codes!adb_code_to_modifier[code]} ELSE mods \cup {Codes!adb_code_to_modifier[code]}
Kept(s, code, up) ==
  IF Codes!s_adb_to_usb[code] = 0 THEN s ELSE Codes!Pushed(s, Codes!s_adb_to_usb[code], up)

\* What the PC sees after an event: of Caps Lock nothing, of a modifier its bit,
\* of any other key its place in the report
LEMMA PcGets ==
  ASSUME NEW p \in PcState, NEW e \in CodeEvent
  PROVE
  /\ Codes!adb_to_usb_keyboard_reg0(p, e) \in PcState
  /\ ~Valid(e.code) => Codes!adb_to_usb_keyboard_reg0(p, e) = [s_keys |-> {}, s_mod |-> {}]
  /\ e.code = 57 => Codes!adb_to_usb_keyboard_reg0(p, e) = p
  /\ e.code \in Codes!ModifierCode =>
       Codes!adb_to_usb_keyboard_reg0(p, e) = [s_keys |-> p.s_keys, s_mod |-> Bits(p.s_mod, e.code, e.up)]
  /\ Valid(e.code) /\ e.code \notin Codes!ModifierCode \cup {57} =>
       Codes!adb_to_usb_keyboard_reg0(p, e) = [s_keys |-> Kept(p.s_keys, e.code, e.up), s_mod |-> p.s_mod]
<1>. DEFINE reg == Codes!adb_to_usb_keyboard_reg0(p, e)
            code == e.code
            bit == Codes!adb_code_to_modifier[code]
            usb == Codes!s_adb_to_usb[code]
<1>1. /\ p.s_keys \in ReportKeys /\ p.s_mod \subseteq Codes!Modifier
      /\ p = [s_keys |-> p.s_keys, s_mod |-> p.s_mod]
      /\ code \in AdbCode /\ e.up \in BOOLEAN
  BY DEF PcState, CodeEvent
<1>2. Valid(code) <=> code < 127
  BY Numbers
<1>3. 57 \notin Codes!ModifierCode /\ \A c \in Codes!ModifierCode : c < 127
  BY Numbers
<1>4. CASE ~Valid(code)
  <2>1. reg = [s_keys |-> {}, s_mod |-> {}]
    BY <1>4 DEF Codes!adb_to_usb_keyboard_reg0, Valid
  <2>2. {} \in ReportKeys
    BY NoKeys
  <2>3. reg \in PcState
    BY <2>1, <2>2 DEF PcState
  <2>4. code # 57 /\ code \notin Codes!ModifierCode
    BY <1>2, <1>3, <1>4, <1>1
  <2>5. QED
    BY <1>4, <2>1, <2>3, <2>4
<1>5. CASE Valid(code) /\ code = 57
  <2>1. reg = p
    BY <1>5, Numbers DEF Codes!adb_to_usb_keyboard_reg0, Codes!push_key, Valid
  <2>2. QED
    BY <1>3, <1>5, <2>1
<1>6. CASE Valid(code) /\ code \in Codes!ModifierCode
  <2>1. reg = [p EXCEPT !.s_mod = IF e.up THEN @ \ {bit} ELSE @ \cup {bit}]
    BY <1>3, <1>6, Numbers, HostTables, ZenonT(30) DEF Codes!adb_to_usb_keyboard_reg0, Codes!push_key, Valid
  <2>2. reg = [s_keys |-> p.s_keys, s_mod |-> IF e.up THEN p.s_mod \ {bit} ELSE p.s_mod \cup {bit}]
    <3>1. \A x : [p EXCEPT !.s_mod = x] = [s_keys |-> p.s_keys, s_mod |-> x]
      BY <1>1
    <3>. HIDE DEF bit, reg
    <3>2. QED
      BY <2>1, <3>1
  <2>3. bit \in Codes!Modifier
    BY <1>6, HostTables, Zenon
  <2>4. reg \in PcState
    BY <1>1, <2>2, <2>3 DEF PcState
  <2>5. QED
    BY <1>3, <1>6, <2>2, <2>4, SMTT(30) DEF Bits
<1>7. CASE Valid(code) /\ code \notin Codes!ModifierCode \cup {57}
  <2>1. reg = IF usb = 0 THEN p ELSE [p EXCEPT !.s_keys = Codes!Pushed(@, usb, e.up)]
    BY <1>7, Numbers, HostTables, Zenon DEF Codes!adb_to_usb_keyboard_reg0, Codes!push_key, Valid
  <2>2. reg = [s_keys |-> IF usb = 0 THEN p.s_keys ELSE Codes!Pushed(p.s_keys, usb, e.up),
               s_mod |-> p.s_mod]
    BY <1>1, <2>1
  <2>3. usb # 0 => Codes!Pushed(p.s_keys, usb, e.up) \in ReportKeys
    <3>1. code \in 0 .. 126
      BY <1>1, <1>2, <1>7 DEF AdbCode
    <3>2. usb \in 0 .. 255
      <4>1. code \in ValidCodes
        BY <3>1 DEF ValidCodes
      <4>2. usb \in Codes!Usage
        BY <4>1, InverseUsage, Zenon
      <4>3. QED
        BY <4>2, Numbers
    <3>3. ASSUME NEW u \in 0 .. 255, u # 0
          PROVE  Codes!Pushed(p.s_keys, u, e.up) \in ReportKeys
      <4>1. u \in 1 .. 255
        BY <3>3
      <4>2. /\ p.s_keys \ {u} \in ReportKeys
            /\ Cardinality(p.s_keys) < 6 => p.s_keys \cup {u} \in ReportKeys
        BY <1>1, <4>1, FewKeys, Zenon
      <4>3. QED
        <5>1. CASE e.up
          BY <4>2, <5>1 DEF Codes!Pushed
        <5>2. CASE ~e.up
          BY <1>1, <4>2, <5>2, Counted DEF Codes!Pushed
        <5>3. QED
          BY <5>1, <5>2
    <3>4. QED
      BY <3>2, <3>3
  <2>4. reg \in PcState
    BY <1>1, <2>2, <2>3 DEF PcState
  <2>5. QED
    BY <1>7, <2>2, <2>4, SMTT(30) DEF Kept
<1>8. QED
  BY <1>4, <1>5, <1>6, <1>7

\* The Macintosh, and the PC, after an event
LEMMA GetsFacts ==
  ASSUME NEW s \in EndState, NEW e \in CodeEvent
  PROVE
  /\ Codes!Gets(s, e) \in EndState
  /\ Codes!Gets(s, e).mac = Codes!HoldsAfter(s.mac, e)
  /\ Codes!Gets(s, e).pc = Codes!adb_to_usb_keyboard_reg0(s.pc, e)
  /\ Codes!Gets(s, e).text = IF e.up \/ e.code \in Codes!ModifierCode THEN s.text
                             ELSE Append(s.text, Codes!Reads(s.mac, e.code))
<1>1. s.mac \subseteq 0 .. 127 /\ s.pc \in PcState /\ s.text \in Seq(Read)
  BY DEF EndState
<1>2. e.code \in AdbCode /\ e.up \in BOOLEAN
  BY DEF CodeEvent
<1>3. Codes!HoldsAfter(s.mac, e) \subseteq 0 .. 127
  BY <1>1, <1>2, Numbers, ZenonT(30) DEF Codes!HoldsAfter, AdbCode
<1>4. Codes!adb_to_usb_keyboard_reg0(s.pc, e) \in PcState
  BY <1>1, PcGets
<1>5. Codes!Reads(s.mac, e.code) \in Read
  <2>1. ~(e.code >= Len(Codes!Layout)) => e.code + 1 \in DOMAIN Codes!Layout
    BY <1>2, LayoutFacts DEF AdbCode
  <2>2. ~(e.code >= Len(Codes!Layout)) => Codes!Layout[e.code + 1] \in Range(Codes!Layout)
    BY <2>1 DEF Range
  <2>3. QED
    BY <2>2, Zenon DEF Codes!Reads, Read
<1>6. /\ Codes!Gets(s, e) = [mac |-> Codes!HoldsAfter(s.mac, e),
                             pc |-> Codes!adb_to_usb_keyboard_reg0(s.pc, e),
                             text |-> IF e.up \/ e.code \in Codes!ModifierCode THEN s.text
                                      ELSE Append(s.text, Codes!Reads(s.mac, e.code))]
  BY DEF Codes!Gets
<1>7. Codes!Gets(s, e) \in EndState
  BY <1>1, <1>3, <1>4, <1>5, <1>6 DEF EndState
<1>8. QED
  BY <1>6, <1>7


(* ----------------------- what a run of events does --------------------- *)

\* Its effect goes from one event to the next.
LEMMA AfterFolds ==
  ASSUME NEW s \in EndState, NEW events \in Seq(CodeEvent)
  PROVE  \E f : /\ f[0] = s /\ f[Len(events)] = Codes!After(s, events)
                /\ \A i \in 0 .. Len(events) : f[i] \in EndState
                /\ \A i \in 1 .. Len(events) : f[i] = Codes!Gets(f[i - 1], events[i])
<1>. DEFINE n == Len(events)
            G == [i \in 1 .. n |-> [x \in EndState |-> Codes!Gets(x, events[i])]]
            Eq(it) == it = [t \in SUBSET (1 .. n) |->
                        IF t = {} THEN s
                        ELSE Codes!Gets(it[t \ {Codes!Max(t)}], events[Codes!Max(t)])]
            c == CHOOSE it : Eq(it)
<1>1. n \in Nat /\ DOMAIN events = 1 .. n /\ \A i \in 1 .. n : events[i] \in CodeEvent
  OBVIOUS
<1>. HIDE DEF n
<1>2. G \in [1 .. n -> [EndState -> EndState]]
  BY <1>1, GetsFacts
<1>3. \E it : Eq(it)
  <2>1. PICK it \in [SUBSET (1 .. n) -> EndState] : \A t \in SUBSET (1 .. n) :
          it[t] = IF t = {} THEN s ELSE G[Codes!Max(t)][it[t \ {Codes!Max(t)}]]
    <3>1. PICK it : FoldsUp(it, EndState, n, s, G)
      <4>. HIDE DEF G
      <4>1. QED
        BY <1>1, <1>2, FoldDefined
    <3>2. QED
      BY <3>1, Zenon DEF FoldsUp
  <2>2. ASSUME NEW t \in SUBSET (1 .. n), t # {}
        PROVE  it[t] = Codes!Gets(it[t \ {Codes!Max(t)}], events[Codes!Max(t)])
    <3>1. Codes!Max(t) \in 1 .. n
      BY <1>1, <2>2, TopIn, Zenon
    <3>2. it[t \ {Codes!Max(t)}] \in EndState
      OBVIOUS
    <3>3. QED
      BY <2>1, <2>2, <3>1, <3>2, Zenon
  <2>3. it = [t \in SUBSET (1 .. n) |-> it[t]]
    OBVIOUS
  <2>4. \A t \in SUBSET (1 .. n) : it[t] =
          IF t = {} THEN s ELSE Codes!Gets(it[t \ {Codes!Max(t)}], events[Codes!Max(t)])
    BY <2>1, <2>2, Zenon
  <2>5. Eq(it)
    BY <2>3, <2>4, Zenon
  <2>6. QED
    BY <2>5, Zenon
<1>4. Eq(c)
  BY <1>3, Zenon
<1>5. Codes!After(s, events) = c[1 .. n]
  BY <1>1 DEF Codes!After, Codes!FoldLeft, Codes!MapThenFoldSet
<1>. HIDE DEF c
<1>. DEFINE f == [i \in 0 .. n |-> c[1 .. i]]
<1>6. f[0] = s
  BY <1>1, <1>4
<1>7. ASSUME NEW i \in 1 .. n PROVE f[i] = Codes!Gets(f[i - 1], events[i])
  <2>1. i \in Nat \ {0} /\ i \in 0 .. n /\ i - 1 \in 0 .. n /\ 1 .. i \in SUBSET (1 .. n)
    BY <1>1
  <2>2. f[i] = c[1 .. i] /\ f[i - 1] = c[1 .. i - 1]
    BY <2>1
  <2>3. c[1 .. i] = Codes!Gets(c[(1 .. i) \ {i}], events[i])
    BY <1>4, <2>1, Downwards, Zenon
  <2>4. QED
    BY <2>1, <2>2, <2>3, Downwards, Zenon
<1>8. f[n] = c[1 .. n]
  BY <1>1
<1>. HIDE DEF f
<1>9. \A i \in 0 .. n : f[i] \in EndState
  <2>. DEFINE T == {i \in Nat : i <= n => f[i] \in EndState}
  <2>1. 0 \in T
    BY <1>6
  <2>2. ASSUME NEW i \in Nat, i \in T PROVE i + 1 \in T
    <3>1. ASSUME i + 1 <= n PROVE f[i + 1] \in EndState
      <4>1. i + 1 \in 1 .. n /\ (i + 1) - 1 = i /\ f[i] \in EndState
        BY <1>1, <2>2, <3>1
      <4>2. f[i + 1] = Codes!Gets(f[i], events[i + 1])
        BY <1>7, <4>1
      <4>3. QED
        BY <1>1, <4>1, <4>2, GetsFacts
    <3>2. QED
      BY <3>1
  <2>. HIDE DEF T
  <2>3. Nat \subseteq T
    BY <2>1, <2>2, Induction
  <2>4. QED
    BY <1>1, <2>3 DEF T
<1>10. QED
  BY <1>1, <1>5, <1>6, <1>7, <1>8, <1>9, Zenon DEF n

\* One event after another
LEMMA AfterOneEvent ==
  ASSUME NEW s \in EndState, NEW e \in CodeEvent
  PROVE  /\ Codes!After(s, <<>>) = s
         /\ Codes!After(s, <<e>>) = Codes!Gets(s, e)
         /\ Codes!After(s, <<e, e>>) = Codes!Gets(Codes!Gets(s, e), e)
<1>1. Codes!After(s, <<>>) = s
  <2>1. <<>> \in Seq(CodeEvent) /\ Len(<<>>) = 0
    OBVIOUS
  <2>2. QED
    BY <2>1, AfterFolds, Zenon
<1>2. Codes!After(s, <<e>>) = Codes!Gets(s, e)
  <2>. DEFINE es == <<e>>
  <2>1. es \in Seq(CodeEvent) /\ Len(es) = 1 /\ es[1] = e
    OBVIOUS
  <2>. HIDE DEF es
  <2>2. PICK f : /\ f[0] = s /\ f[Len(es)] = Codes!After(s, es)
                 /\ \A i \in 1 .. Len(es) : f[i] = Codes!Gets(f[i - 1], es[i])
    BY <2>1, AfterFolds
  <2>3. f[1] = Codes!Gets(f[0], es[1])
    BY <2>1, <2>2
  <2>4. QED
    BY <2>1, <2>2, <2>3 DEF es
<1>3. Codes!After(s, <<e, e>>) = Codes!Gets(Codes!Gets(s, e), e)
  <2>. DEFINE es == <<e, e>>
  <2>1. es \in Seq(CodeEvent) /\ Len(es) = 2 /\ es[1] = e /\ es[2] = e
    OBVIOUS
  <2>. HIDE DEF es
  <2>2. PICK f : /\ f[0] = s /\ f[Len(es)] = Codes!After(s, es)
                 /\ \A i \in 1 .. Len(es) : f[i] = Codes!Gets(f[i - 1], es[i])
    BY <2>1, AfterFolds
  <2>3. f[1] = Codes!Gets(f[0], es[1]) /\ f[2] = Codes!Gets(f[1], es[2])
    BY <2>1, <2>2
  <2>4. QED
    BY <2>1, <2>2, <2>3 DEF es
<1>4. QED
  BY <1>1, <1>2, <1>3

\* An event that comes twice does no more than once.
LEMMA TwiceTheSame ==
  ASSUME NEW s \in EndState, NEW e \in CodeEvent
  PROVE  /\ Codes!Gets(Codes!Gets(s, e), e).mac = Codes!Gets(s, e).mac
         /\ Codes!Gets(Codes!Gets(s, e), e).pc = Codes!Gets(s, e).pc
<1>. DEFINE t == Codes!Gets(s, e)
            u == Codes!Gets(t, e)
            p == s.pc
            q == t.pc
<1>1. t \in EndState /\ t.mac = Codes!HoldsAfter(s.mac, e) /\ q = Codes!adb_to_usb_keyboard_reg0(p, e)
  BY GetsFacts
<1>2. u.mac = Codes!HoldsAfter(t.mac, e) /\ u.pc = Codes!adb_to_usb_keyboard_reg0(q, e)
  BY <1>1, GetsFacts
<1>3. p \in PcState /\ q \in PcState
  BY <1>1 DEF EndState
<1>. HIDE DEF t, u
<1>4. u.mac = t.mac
  BY <1>1, <1>2 DEF Codes!HoldsAfter
<1>5. CASE ~Valid(e.code)
  BY <1>1, <1>2, <1>3, <1>4, <1>5, PcGets, Zenon DEF t, u
<1>6. CASE Valid(e.code) /\ e.code = 57
  BY <1>1, <1>2, <1>3, <1>4, <1>6, PcGets DEF t, u
<1>7. CASE Valid(e.code) /\ e.code \in Codes!ModifierCode
  <2>1. q = [s_keys |-> p.s_keys, s_mod |-> Bits(p.s_mod, e.code, e.up)]
    BY <1>1, <1>3, <1>7, PcGets
  <2>2. u.pc = [s_keys |-> q.s_keys, s_mod |-> Bits(q.s_mod, e.code, e.up)]
    BY <1>2, <1>3, <1>7, PcGets
  <2>3. Bits(Bits(p.s_mod, e.code, e.up), e.code, e.up) = Bits(p.s_mod, e.code, e.up)
    BY DEF Bits
  <2>4. u.pc = q
    BY <2>1, <2>2, <2>3
  <2>5. QED
    BY <1>4, <2>4 DEF t, u
<1>8. CASE Valid(e.code) /\ e.code \notin Codes!ModifierCode \cup {57}
  <2>1. q = [s_keys |-> Kept(p.s_keys, e.code, e.up), s_mod |-> p.s_mod]
    BY <1>1, <1>3, <1>8, PcGets
  <2>2. u.pc = [s_keys |-> Kept(q.s_keys, e.code, e.up), s_mod |-> q.s_mod]
    BY <1>2, <1>3, <1>8, PcGets
  <2>3. Kept(Kept(p.s_keys, e.code, e.up), e.code, e.up) = Kept(p.s_keys, e.code, e.up)
    BY DEF Kept, Codes!Pushed
  <2>4. u.pc = q
    BY <2>1, <2>2, <2>3
  <2>5. QED
    BY <1>4, <2>4 DEF t, u
<1>9. QED
  BY <1>5, <1>6, <1>7, <1>8

\* What both ends have after a key has gone down or up, as they take it once
LEMMA Delivered ==
  ASSUME CodesTyped, NEW k, NEW e \in CodeEvent
  PROVE  /\ Codes!Deliver(<<>>) => mac' = mac /\ personal' = personal
         /\ \/ Codes!Deliver(<<e>>)
            \/ Codes!Deliver(Codes!Twice(k, e))
            => /\ mac' = Codes!HoldsAfter(mac, e)
               /\ personal' = Codes!adb_to_usb_keyboard_reg0(personal, e)
<1>. DEFINE s == [mac |-> mac, pc |-> personal, text |-> <<>>]
<1>1. s \in EndState
  BY DEF EndState, CodesTyped
<1>2. s = Codes!Ends /\ s.mac = mac /\ s.pc = personal
  BY DEF Codes!Ends
<1>. HIDE DEF s
<1>3. /\ Codes!After(s, <<>>) = s
      /\ Codes!After(s, <<e>>) = Codes!Gets(s, e)
      /\ Codes!After(s, <<e, e>>) = Codes!Gets(Codes!Gets(s, e), e)
  BY <1>1, AfterOneEvent
<1>4. /\ Codes!Gets(s, e).mac = Codes!HoldsAfter(mac, e)
      /\ Codes!Gets(s, e).pc = Codes!adb_to_usb_keyboard_reg0(personal, e)
  BY <1>1, <1>2, GetsFacts
<1>5. Codes!Deliver(<<>>) => mac' = mac /\ personal' = personal
  BY <1>2, <1>3 DEF Codes!Deliver
<1>6. Codes!Deliver(<<e>>) =>
        mac' = Codes!HoldsAfter(mac, e) /\ personal' = Codes!adb_to_usb_keyboard_reg0(personal, e)
  BY <1>2, <1>3, <1>4 DEF Codes!Deliver
<1>7. Codes!Deliver(<<e, e>>) =>
        mac' = Codes!HoldsAfter(mac, e) /\ personal' = Codes!adb_to_usb_keyboard_reg0(personal, e)
  BY <1>1, <1>2, <1>3, <1>4, TwiceTheSame DEF Codes!Deliver
<1>8. Codes!Twice(k, e) = <<e>> \/ Codes!Twice(k, e) = <<e, e>>
  BY DEF Codes!Twice
<1>9. QED
  BY <1>5, <1>6, <1>7, <1>8


(* ---------------------- the keys that go down and up ------------------- *)

\* The place of a key in the report, and the bit of a modifier
UsbOf(k) == Codes!s_adb_to_usb[KeyCode(k)]
BitOf(k) == Codes!adb_code_to_modifier[KeyCode(k)]

LEMMA EventFacts ==
  ASSUME Handler, NEW k \in 0 .. 255
  PROVE  /\ Codes!Down(k) = [code |-> KeyCode(k), up |-> FALSE] /\ Codes!Down(k) \in CodeEvent
         /\ Codes!Up(k) = [code |-> KeyCode(k), up |-> KeyCode(k) # 255] /\ Codes!Up(k) \in CodeEvent
<1>1. KeyCode(k) \in AdbCode
  BY CodeTyped, Zenon
<1>2. /\ Codes!Down(k) = [code |-> KeyCode(k), up |-> FALSE]
      /\ Codes!Up(k) = [code |-> KeyCode(k), up |-> KeyCode(k) # 255]
  BY Numbers DEF Codes!Down, Codes!Up, Codes!usb_keycode_to_adb_code, KeyCode
<1>3. QED
  BY <1>1, <1>2 DEF CodeEvent

\* A key that goes down adds its code.
LEMMA MoreHeld ==
  ASSUME Handler, extended' = extended, held \subseteq 0 .. 255,
         NEW k \in 0 .. 255, held' = held \cup {k}
  PROVE  /\ k \in {0, 1, 57} => MacKeys' = MacKeys /\ PcKeys' = PcKeys /\ PcMods' = PcMods
         /\ k \notin {0, 1, 57} => MacKeys' = MacKeys \cup ({KeyCode(k)} \ {255})
         /\ k \in Codes!Modifier => PcKeys' = PcKeys /\ PcMods' = PcMods \cup {BitOf(k)}
         /\ k \notin Codes!Modifier \cup {0, 1, 57} =>
              PcMods' = PcMods /\ PcKeys' = IF Valid(KeyCode(k)) THEN PcKeys \cup {UsbOf(k)} ELSE PcKeys
<1>1. \A j : KeyCode(j)' = KeyCode(j)
  BY DEF KeyCode
<1>2. /\ MacKeys' = {KeyCode(j) : j \in Typing'} \ {255}
      /\ PcKeys' = {UsbOf(j) : j \in {i \in Typing' \ Codes!Modifier : Valid(KeyCode(i))}}
      /\ PcMods' = {BitOf(j) : j \in held' \cap Codes!Modifier}
  BY <1>1, Numbers DEF MacKeys, PcKeys, PcMods, Pushing, UsbOf, BitOf
<1>3. /\ MacKeys = {KeyCode(j) : j \in Typing} \ {255}
      /\ PcKeys = {UsbOf(j) : j \in {i \in Typing \ Codes!Modifier : Valid(KeyCode(i))}}
      /\ PcMods = {BitOf(j) : j \in held \cap Codes!Modifier}
  BY Numbers DEF MacKeys, PcKeys, PcMods, Pushing, UsbOf, BitOf
<1>4. Typing' = IF k \in {0, 1, 57} THEN Typing ELSE Typing \cup {k}
  BY Numbers DEF Typing
<1>5. 0 \notin Codes!Modifier /\ 1 \notin Codes!Modifier /\ 57 \notin Codes!Modifier
  BY Numbers
<1>6. CASE k \in {0, 1, 57}
  <2>1. held' \cap Codes!Modifier = held \cap Codes!Modifier /\ Typing' = Typing
    BY <1>4, <1>5, <1>6
  <2>2. QED
    BY <1>2, <1>3, <1>5, <1>6, <2>1
<1>7. CASE k \notin {0, 1, 57}
  <2>1. Typing' = Typing \cup {k}
    BY <1>4, <1>7
  <2>2. MacKeys' = MacKeys \cup ({KeyCode(k)} \ {255})
    BY <1>2, <1>3, <2>1
  <2>3. CASE k \in Codes!Modifier
    <3>1. Typing' \ Codes!Modifier = Typing \ Codes!Modifier
      BY <2>1, <2>3
    <3>2. held' \cap Codes!Modifier = (held \cap Codes!Modifier) \cup {k}
      BY <2>3
    <3>3. PcKeys' = PcKeys
      BY <1>2, <1>3, <3>1
    <3>4. PcMods' = PcMods \cup {BitOf(k)}
      BY <1>2, <1>3, <3>2
    <3>5. QED
      BY <1>7, <2>2, <2>3, <3>3, <3>4
  <2>4. CASE k \notin Codes!Modifier
    <3>1. {i \in Typing' \ Codes!Modifier : Valid(KeyCode(i))} =
            {i \in Typing \ Codes!Modifier : Valid(KeyCode(i))} \cup (IF Valid(KeyCode(k)) THEN {k} ELSE {})
      BY <2>1, <2>4
    <3>2. held' \cap Codes!Modifier = held \cap Codes!Modifier
      BY <2>4
    <3>3. PcKeys' = IF Valid(KeyCode(k)) THEN PcKeys \cup {UsbOf(k)} ELSE PcKeys
      BY <1>2, <1>3, <3>1
    <3>4. PcMods' = PcMods
      BY <1>2, <1>3, <3>2
    <3>5. QED
      BY <1>7, <2>2, <2>4, <3>3, <3>4
  <2>5. QED
    BY <2>3, <2>4
<1>8. QED
  BY <1>6, <1>7

\* A key that goes up takes no code along but its own, and with that none that
\* another key would have.
LEMMA FewerHeld ==
  ASSUME Handler, extended' = extended, held \subseteq 0 .. 255,
         NEW k \in held, held' = held \ {k}
  PROVE  /\ MacKeys' \subseteq MacKeys /\ PcKeys' \subseteq PcKeys /\ PcMods' \subseteq PcMods
         /\ k \in {0, 1, 57} => MacKeys' = MacKeys /\ PcKeys' = PcKeys /\ PcMods' = PcMods
         /\ MacKeys \subseteq MacKeys' \cup {KeyCode(k)}
         /\ k \in Codes!Modifier => PcKeys' = PcKeys /\ PcMods \subseteq PcMods' \cup {BitOf(k)}
         /\ k \notin Codes!Modifier => PcMods' = PcMods /\ PcKeys \subseteq PcKeys' \cup {UsbOf(k)}
<1>1. \A j : KeyCode(j)' = KeyCode(j)
  BY DEF KeyCode
<1>2. /\ MacKeys' = {KeyCode(j) : j \in Typing'} \ {255}
      /\ PcKeys' = {UsbOf(j) : j \in {i \in Typing' \ Codes!Modifier : Valid(KeyCode(i))}}
      /\ PcMods' = {BitOf(j) : j \in held' \cap Codes!Modifier}
  BY <1>1, Numbers DEF MacKeys, PcKeys, PcMods, Pushing, UsbOf, BitOf
<1>3. /\ MacKeys = {KeyCode(j) : j \in Typing} \ {255}
      /\ PcKeys = {UsbOf(j) : j \in {i \in Typing \ Codes!Modifier : Valid(KeyCode(i))}}
      /\ PcMods = {BitOf(j) : j \in held \cap Codes!Modifier}
  BY Numbers DEF MacKeys, PcKeys, PcMods, Pushing, UsbOf, BitOf
<1>4. Typing' = Typing \ {k} /\ (k \in {0, 1, 57} => Typing' = Typing)
  BY Numbers DEF Typing
<1>5. 0 \notin Codes!Modifier /\ 1 \notin Codes!Modifier /\ 57 \notin Codes!Modifier
  BY Numbers
<1>6. /\ MacKeys' \subseteq MacKeys /\ PcKeys' \subseteq PcKeys /\ PcMods' \subseteq PcMods
      /\ MacKeys \subseteq MacKeys' \cup {KeyCode(k)}
  BY <1>2, <1>3, <1>4
<1>7. k \in Codes!Modifier => PcKeys' = PcKeys /\ PcMods \subseteq PcMods' \cup {BitOf(k)}
  <2>. SUFFICES ASSUME k \in Codes!Modifier
                PROVE  PcKeys' = PcKeys /\ PcMods \subseteq PcMods' \cup {BitOf(k)}
    OBVIOUS
  <2>1. Typing' \ Codes!Modifier = Typing \ Codes!Modifier
    BY <1>4
  <2>2. held \cap Codes!Modifier = (held' \cap Codes!Modifier) \cup {k}
    OBVIOUS
  <2>3. QED
    BY <1>2, <1>3, <2>1, <2>2
<1>8. k \notin Codes!Modifier => PcMods' = PcMods /\ PcKeys \subseteq PcKeys' \cup {UsbOf(k)}
  <2>. SUFFICES ASSUME k \notin Codes!Modifier
                PROVE  PcMods' = PcMods /\ PcKeys \subseteq PcKeys' \cup {UsbOf(k)}
    OBVIOUS
  <2>1. held' \cap Codes!Modifier = held \cap Codes!Modifier
    OBVIOUS
  <2>2. PcMods' = PcMods
    BY <1>2, <1>3, <2>1
  <2>3. PcKeys \subseteq PcKeys' \cup {UsbOf(k)}
    BY <1>2, <1>3, <1>4
  <2>4. QED
    BY <2>2, <2>3
<1>9. k \in {0, 1, 57} => MacKeys' = MacKeys /\ PcKeys' = PcKeys /\ PcMods' = PcMods
  BY <1>2, <1>3, <1>4, <1>5, <1>8
<1>10. QED
  BY <1>6, <1>7, <1>8, <1>9

\* Six keys fit the report, and one that comes has room among them.
LEMMA Room ==
  ASSUME held \subseteq 0 .. 255, personal.s_keys \subseteq PcKeys,
         NEW k \in 0 .. 255, k \notin held, k \notin Codes!Modifier,
         Cardinality((held \cup {k}) \ Codes!Modifier) <= 6
  PROVE  Cardinality(personal.s_keys) < 6
<1>. DEFINE others == held \ Codes!Modifier
            f == [j \in Pushing |-> UsbOf(j)]
<1>1. IsFiniteSet(held)
  <2>1. 0 \in Int /\ 255 \in Int
    OBVIOUS
  <2>2. IsFiniteSet(0 .. 255)
    BY <2>1, FS_Interval, Zenon
  <2>3. QED
    BY <2>2, FS_Subset, Zenon
<1>2. others \in SUBSET held /\ Pushing \in SUBSET others
  BY DEF Pushing, Typing
<1>3. IsFiniteSet(others) /\ Cardinality(others) \in Nat
  BY <1>1, <1>2, FS_Subset, FS_CardinalityType
<1>4. Cardinality(others \cup {k}) = Cardinality(others) + 1
  <2>1. k \notin others
    OBVIOUS
  <2>. HIDE DEF others
  <2>2. QED
    BY <1>3, <2>1, FS_AddElement, Zenon
<1>5. (held \cup {k}) \ Codes!Modifier = others \cup {k}
  OBVIOUS
<1>6. Cardinality(others) <= 5
  BY <1>3, <1>4, <1>5
<1>. HIDE DEF others
<1>7. IsFiniteSet(Pushing) /\ Cardinality(Pushing) <= Cardinality(others)
  BY <1>2, <1>3, FS_Subset, Zenon
<1>8. Cardinality(Pushing) \in Nat
  BY <1>7, FS_CardinalityType
<1>9. f \in Surjection(Pushing, PcKeys)
  BY DEF Surjection, PcKeys, UsbOf
<1>. HIDE DEF f
<1>10. IsFiniteSet(PcKeys) /\ Cardinality(PcKeys) <= Cardinality(Pushing)
  BY <1>7, <1>9, FS_Surjection
<1>11. Cardinality(PcKeys) \in Nat
  BY <1>10, FS_CardinalityType
<1>12. personal.s_keys \in SUBSET PcKeys
  OBVIOUS
<1>13. IsFiniteSet(personal.s_keys) /\ Cardinality(personal.s_keys) <= Cardinality(PcKeys)
  BY <1>10, <1>12, FS_Subset
<1>14. Cardinality(personal.s_keys) \in Nat
  BY <1>13, FS_CardinalityType
<1>15. QED
  BY <1>3, <1>6, <1>7, <1>8, <1>10, <1>11, <1>13, <1>14

\* Caps Lock latches apart from the keys that are held.
LEMMA NoCapsHeld ==
  ASSUME Handler, held \subseteq 0 .. 255
  PROVE  57 \notin MacKeys
<1>1. ASSUME NEW j \in Typing PROVE KeyCode(j) # 57
  <2>1. j \in 0 .. 255 /\ j # 57
    BY Numbers DEF Typing
  <2>2. KeyCode(j) = 57 <=> j = 57
    BY <2>1, CodeOfCaps, Zenon
  <2>3. QED
    BY <2>1, <2>2
<1>2. QED
  BY <1>1 DEF MacKeys

\* What a step leaves of the types, when no message is typed
LEMMA TypedAgain ==
  ASSUME CodesTyped, keys' = keys, Handler', bmCapsLock' \in BOOLEAN,
         held' \subseteq keys, held' \subseteq 0 .. 255, mac' \subseteq 0 .. 127, personal' \in PcState,
         clash' \in BOOLEAN, dropped' \in BOOLEAN, message' = <<>>, text' = <<>>
  PROVE  CodesTyped'
  BY DEF CodesTyped

\* A key goes down.
LEMMA PressStep ==
  ASSUME CodesInv, NEW k \in keys, Codes!Press(k)
  PROVE  CodesInv'
<1>. DEFINE code == KeyCode(k)
            e == Codes!Down(k)
<1>1. Handler /\ held \subseteq 0 .. 255
  BY DEF CodesInv, CodesTyped
<1>a. mac \subseteq 0 .. 127 /\ personal \in PcState
  BY DEF CodesInv, CodesTyped
<1>b. bmCapsLock \in BOOLEAN /\ clash \in BOOLEAN /\ dropped \in BOOLEAN
  BY DEF CodesInv, CodesTyped
<1>2. k \in 0 .. 255
  <2>1. keys \in SUBSET Codes!Usage
    BY CodesAssumed DEF Codes!KeyAssumption, CodesInv, CodesTyped
  <2>2. QED
    BY <2>1, Numbers
<1>3. /\ k \notin held /\ held' = held \cup {k} /\ keys' = keys /\ extended' = extended
      /\ message' = <<>> /\ text' = <<>>
      /\ Codes!Deliver(Codes!OnKeyDown(k))
      /\ clash' = (clash \/ Codes!Same(k) \cap held # {})
  BY DEF Codes!Press
<1>4. /\ dropped' = (dropped \/ ~Valid(code) \/ Cardinality(held' \ Codes!Modifier) > 6)
      /\ bmCapsLock' = (bmCapsLock # (k = 57))
  <2>1. Codes!Cardinality(held' \ Codes!Modifier) = Cardinality(held' \ Codes!Modifier)
    BY Counted
  <2>2. QED
    BY <2>1, Numbers, Zenon DEF Codes!Press, Valid, KeyCode, Codes!usb_keycode_to_adb_code
<1>5. clash' \in BOOLEAN /\ dropped' \in BOOLEAN /\ bmCapsLock' \in BOOLEAN
  BY <1>b, <1>3, <1>4
<1>6. /\ KeyCode(k) \in AdbCode
      /\ k \in {0, 1} => KeyCode(k) = 255
      /\ KeyCode(k) = 57 <=> k = 57
      /\ KeyCode(k) \in Codes!ModifierCode <=> k \in Codes!Modifier
  BY <1>1, <1>2, CodeOf, Zenon
<1>7. e = [code |-> code, up |-> FALSE] /\ e \in CodeEvent
  BY <1>1, <1>2, EventFacts, Zenon
<1>. HIDE DEF e
<1>8. /\ mac \subseteq MacKeys \cup {57}
      /\ personal.s_keys \subseteq PcKeys /\ personal.s_mod \subseteq PcMods
  BY Numbers DEF CodesInv, NothingElse
<1>9. ASSUME ~clash'
      PROVE  /\ ~clash /\ MacKeys \subseteq mac
             /\ (\A i, j \in held : Alike(i, j) => i = j)'
  <2>1. ~clash /\ \A j \in held : ~Alike(j, k)
    <3>1. ~clash /\ Codes!Same(k) \cap held = {}
      BY <1>3, <1>9, Zenon
    <3>2. QED
      BY <3>1 DEF Codes!Same, Alike
  <2>2. MacKeys \subseteq mac /\ \A i, j \in held : Alike(i, j) => i = j
    BY <2>1 DEF CodesInv, MacFollows
  <2>3. \A j \in held : ~Alike(k, j)
    BY <2>1, AlikeBothWays
  <2>4. \A i, j \in held' : Alike(i, j) => i = j
    BY <1>3, <2>1, <2>2, <2>3
  <2>5. \A i, j : Alike(i, j)' <=> Alike(i, j)
    BY <1>3 DEF Alike
  <2>6. QED
    BY <2>1, <2>2, <2>4, <2>5
<1>10. /\ k \in {0, 1, 57} => MacKeys' = MacKeys /\ PcKeys' = PcKeys /\ PcMods' = PcMods
       /\ k \notin {0, 1, 57} => MacKeys' = MacKeys \cup ({code} \ {255})
       /\ k \in Codes!Modifier => PcKeys' = PcKeys /\ PcMods' = PcMods \cup {BitOf(k)}
       /\ k \notin Codes!Modifier \cup {0, 1, 57} =>
            PcMods' = PcMods /\ PcKeys' = IF Valid(code) THEN PcKeys \cup {UsbOf(k)} ELSE PcKeys
  BY <1>1, <1>2, <1>3, MoreHeld, Zenon
<1>11. ASSUME ~clash', ~dropped'
       PROVE  /\ PcKeys \subseteq personal.s_keys /\ PcMods \subseteq personal.s_mod
              /\ Valid(code) /\ Cardinality(held' \ Codes!Modifier) <= 6
              /\ \A j \in held' : Valid(KeyCode(j)')
  <2>1. ~clash /\ ~dropped /\ Valid(code) /\ ~(Cardinality(held' \ Codes!Modifier) > 6)
    BY <1>4, <1>9, <1>11, Zenon
  <2>2. /\ \A j \in held : Valid(KeyCode(j))
        /\ PcKeys \subseteq personal.s_keys /\ PcMods \subseteq personal.s_mod
    BY <2>1 DEF CodesInv, PcHasAll
  <2>3. Cardinality(held' \ Codes!Modifier) \in Nat
    <3>1. IsFiniteSet(0 .. 255)
      <4>1. 0 \in Int /\ 255 \in Int
        OBVIOUS
      <4>2. QED
        BY <4>1, FS_Interval, Zenon
    <3>2. held' \ Codes!Modifier \in SUBSET (0 .. 255)
      <4>1. held' \subseteq 0 .. 255
        BY <1>1, <1>2, <1>3
      <4>2. QED
        BY <4>1, Zenon
    <3>3. QED
      BY <3>1, <3>2, FS_Subset, FS_CardinalityType
  <2>4. \A j : KeyCode(j)' = KeyCode(j)
    BY <1>3 DEF KeyCode
  <2>5. QED
    BY <1>3, <2>1, <2>2, <2>3, <2>4
<1>. DEFINE Ends(m, p) ==
       /\ m \subseteq 0 .. 127 /\ p \in PcState
       /\ m \subseteq MacKeys' \cup {57}
       /\ p.s_keys \subseteq PcKeys' /\ p.s_mod \subseteq PcMods'
       /\ ~clash' => MacKeys' \subseteq m
       /\ ~clash' /\ ~dropped' => PcKeys' \subseteq p.s_keys /\ PcMods' \subseteq p.s_mod
<1>12. Ends(mac', personal')
  <2>1. CASE k \in {0, 1}
    <3>1. mac' = mac /\ personal' = personal
      <4>1. Codes!OnKeyDown(k) = <<>>
        BY <2>1 DEF Codes!OnKeyDown, Codes!NoUsage
      <4>2. QED
        BY <1>3, <1>7, <4>1, Delivered, Zenon DEF CodesInv
    <3>2. MacKeys' = MacKeys /\ PcKeys' = PcKeys /\ PcMods' = PcMods
      BY <1>10, <2>1
    <3>3. QED
      BY <1>a, <1>8, <1>9, <1>11, <3>1, <3>2
  <2>2. CASE k = 57
    <3>1. PICK ev \in CodeEvent : ev.code = 57 /\ Codes!OnKeyDown(k) = <<ev>>
      <4>1. Codes!OnKeyDown(k) = <<IF bmCapsLock THEN Codes!Up(k) ELSE Codes!Down(k)>>
        BY <2>2, Numbers DEF Codes!OnKeyDown, Codes!NoUsage
      <4>2. Codes!Up(k) \in CodeEvent /\ Codes!Up(k).code = 57 /\ e.code = 57
        <5>1. code = 57
          BY <1>6, <2>2, Zenon
        <5>2. Codes!Up(k) = [code |-> KeyCode(k), up |-> KeyCode(k) # 255] /\ Codes!Up(k) \in CodeEvent
          BY <1>1, <1>2, EventFacts, Zenon
        <5>3. QED
          BY <1>7, <5>1, <5>2
      <4>3. QED
        BY <1>7, <4>1, <4>2 DEF e
    <3>2. /\ mac' = Codes!HoldsAfter(mac, ev)
          /\ personal' = Codes!adb_to_usb_keyboard_reg0(personal, ev)
      BY <1>3, <3>1, Delivered DEF CodesInv
    <3>3. personal' = personal
      BY <1>a, <3>1, <3>2, PcGets
    <3>4. mac' = mac \cup {57} \/ mac' = mac \ {57}
      BY <3>1, <3>2, Numbers DEF Codes!HoldsAfter
    <3>5. 57 \notin MacKeys
      BY <1>1, NoCapsHeld
    <3>6. MacKeys' = MacKeys /\ PcKeys' = PcKeys /\ PcMods' = PcMods
      BY <1>10, <2>2
    <3>7. /\ ~clash' => MacKeys \subseteq mac
          /\ ~clash' /\ ~dropped' => PcKeys \subseteq personal.s_keys /\ PcMods \subseteq personal.s_mod
      BY <1>9, <1>11
    <3>8. mac' \subseteq 0 .. 127 /\ mac' \subseteq MacKeys' \cup {57}
      <4>1. 57 \in 0 .. 127 /\ mac' \subseteq mac \cup {57}
        BY <3>4
      <4>2. mac' \subseteq 0 .. 127
        BY <1>a, <4>1
      <4>3. mac' \subseteq MacKeys' \cup {57}
        BY <1>8, <3>6, <4>1
      <4>4. QED
        BY <4>2, <4>3
    <3>9. ~clash' => MacKeys' \subseteq mac'
      BY <3>4, <3>5, <3>6, <3>7
    <3>10. QED
      BY <1>a, <1>8, <3>3, <3>6, <3>7, <3>8, <3>9
  <2>3. CASE k \notin {0, 1, 57}
    <3>1. /\ mac' = Codes!HoldsAfter(mac, e)
          /\ personal' = Codes!adb_to_usb_keyboard_reg0(personal, e)
      <4>1. Codes!OnKeyDown(k) = Codes!Twice(k, e)
        BY <2>3, Numbers DEF Codes!OnKeyDown, Codes!NoUsage, e
      <4>2. QED
        BY <1>3, <1>7, <4>1, Delivered, Zenon DEF CodesInv
    <3>2. mac' = mac \cup ({code} \ {255})
      BY <1>7, <3>1, Numbers DEF Codes!HoldsAfter
    <3>3. MacKeys' = MacKeys \cup ({code} \ {255})
      BY <1>10, <2>3
    <3>4. /\ mac' \subseteq 0 .. 127 /\ mac' \subseteq MacKeys' \cup {57}
          /\ ~clash' => MacKeys' \subseteq mac'
      <4>1. {code} \ {255} \subseteq 0 .. 127
        <5>1. code \in AdbCode
          BY <1>6, Zenon
        <5>2. QED
          BY <5>1 DEF AdbCode
      <4>2. ~clash' => MacKeys \subseteq mac
        BY <1>9
      <4>3. mac' \subseteq 0 .. 127
        BY <1>a, <3>2, <4>1, Zenon
      <4>4. mac' \subseteq MacKeys' \cup {57}
        BY <1>8, <3>2, <3>3
      <4>5. MacKeys \subseteq mac => MacKeys' \subseteq mac'
        BY <3>2, <3>3
      <4>6. QED
        BY <4>2, <4>3, <4>4, <4>5
    <3>5. personal' \in PcState
      BY <1>a, <1>7, <3>1, PcGets
    <3>6. /\ personal'.s_keys \subseteq PcKeys' /\ personal'.s_mod \subseteq PcMods'
          /\ ~clash' /\ ~dropped' => PcKeys' \subseteq personal'.s_keys /\ PcMods' \subseteq personal'.s_mod
      <4>a. e.code = code /\ e.up = FALSE /\ e \in CodeEvent
        BY <1>7
      <4>b. /\ ~Valid(e.code) => personal' = [s_keys |-> {}, s_mod |-> {}]
            /\ e.code \in Codes!ModifierCode =>
                 personal' = [s_keys |-> personal.s_keys, s_mod |-> Bits(personal.s_mod, e.code, e.up)]
            /\ Valid(e.code) /\ e.code \notin Codes!ModifierCode \cup {57} =>
                 personal' = [s_keys |-> Kept(personal.s_keys, e.code, e.up), s_mod |-> personal.s_mod]
        BY <1>a, <3>1, <4>a, PcGets
      <4>1. CASE ~Valid(code)
        <5>1. personal' = [s_keys |-> {}, s_mod |-> {}]
          BY <4>1, <4>a, <4>b
        <5>2. dropped'
          BY <1>4, <4>1, Zenon
        <5>3. QED
          BY <5>1, <5>2
      <4>2. CASE Valid(code) /\ k \in Codes!Modifier
        <5>1. code \in Codes!ModifierCode
          BY <1>6, <4>2, Zenon
        <5>2. personal' = [s_keys |-> personal.s_keys, s_mod |-> personal.s_mod \cup {BitOf(k)}]
          BY <4>a, <4>b, <5>1 DEF BitOf, Bits
        <5>3. PcKeys' = PcKeys /\ PcMods' = PcMods \cup {BitOf(k)}
          BY <1>10, <4>2
        <5>4. ~clash' /\ ~dropped' => PcKeys \subseteq personal.s_keys /\ PcMods \subseteq personal.s_mod
          BY <1>11
        <5>5. QED
          BY <1>8, <5>2, <5>3, <5>4
      <4>3. CASE Valid(code) /\ k \notin Codes!Modifier
        <5>1. code \notin Codes!ModifierCode \cup {57}
          BY <1>6, <2>3, <4>3, Zenon
        <5>2. UsbOf(k) # 0
          BY <1>1, <1>2, <2>3, <4>3, InverseFacts, Zenon DEF UsbOf
        <5>3. personal' = [s_keys |-> Codes!Pushed(personal.s_keys, UsbOf(k), FALSE), s_mod |-> personal.s_mod]
          BY <4>3, <4>a, <4>b, <5>1, <5>2, Zenon DEF UsbOf, Kept
        <5>4. PcMods' = PcMods /\ PcKeys' = PcKeys \cup {UsbOf(k)}
          BY <1>10, <2>3, <4>3
        <5>5. personal'.s_mod = personal.s_mod /\ personal'.s_keys \subseteq personal.s_keys \cup {UsbOf(k)}
          BY <5>3 DEF Codes!Pushed
        <5>6. ASSUME ~clash', ~dropped'
              PROVE  personal'.s_keys = personal.s_keys \cup {UsbOf(k)}
          <6>1. Cardinality((held \cup {k}) \ Codes!Modifier) <= 6
            BY <1>3, <1>11, <5>6
          <6>2. Cardinality(personal.s_keys) < 6
            BY <1>1, <1>2, <1>3, <1>8, <4>3, <6>1, Room, Zenon
          <6>3. QED
            BY <5>3, <6>2, Counted DEF Codes!Pushed
        <5>7. ~clash' /\ ~dropped' => PcKeys \subseteq personal.s_keys /\ PcMods \subseteq personal.s_mod
          BY <1>11
        <5>8. QED
          BY <1>8, <5>4, <5>5, <5>6, <5>7
      <4>4. QED
        BY <4>1, <4>2, <4>3
    <3>7. QED
      BY <3>4, <3>5, <3>6
  <2>4. QED
    BY <2>1, <2>2, <2>3
<1>13. QED
  <2>1. held' \subseteq keys /\ held' \subseteq 0 .. 255
    <3>1. held \subseteq keys
      BY DEF CodesInv, CodesTyped
    <3>2. QED
      BY <1>1, <1>2, <1>3, <3>1
  <2>2. CodesTyped'
    <3>1. Handler'
      BY <1>1, <1>3 DEF Handler
    <3>2. QED
      BY <1>3, <1>5, <1>12, <2>1, <3>1, TypedAgain DEF CodesInv
  <2>3. NothingElse'
    BY <1>12, Numbers DEF NothingElse
  <2>4. MacFollows'
    BY <1>9, <1>12 DEF MacFollows
  <2>5. PcHasAll'
    BY <1>11, <1>12 DEF PcHasAll
  <2>6. QED
    BY <2>2, <2>3, <2>4, <2>5 DEF CodesInv

\* A code or a usage that only one key has goes with that key.
LEMMA OnlyIts ==
  ASSUME Handler, extended' = extended, held \subseteq 0 .. 255,
         NEW k \in held, held' = held \ {k},
         \A i, j \in held : Alike(i, j) => i = j
  PROVE  /\ KeyCode(k) # 255 => KeyCode(k) \notin MacKeys'
         /\ k \notin Codes!Modifier \cup {57} /\ Valid(KeyCode(k)) => UsbOf(k) \notin PcKeys'
         /\ k \in Codes!Modifier => BitOf(k) \notin PcMods'
<1>1. \A j : KeyCode(j)' = KeyCode(j)
  BY DEF KeyCode
<1>2. ASSUME NEW j \in held', KeyCode(j) = KeyCode(k), KeyCode(k) # 255 PROVE FALSE
  <2>1. j \in 0 .. 255 /\ k \in 0 .. 255 /\ j \in held /\ j # k
    OBVIOUS
  <2>2. \A i \in 0 .. 255 : \A l \in 0 .. 255 : KeyCode(i) = KeyCode(l) /\ KeyCode(l) # 255 => Alike(i, l)
    BY CodeShared, Zenon
  <2>3. Alike(j, k)
    BY <1>2, <2>1, <2>2, Zenon
  <2>4. QED
    BY <2>1, <2>3
<1>3. KeyCode(k) # 255 => KeyCode(k) \notin MacKeys'
  BY <1>1, <1>2 DEF MacKeys, Typing
<1>4. ASSUME k \notin Codes!Modifier \cup {57}, Valid(KeyCode(k)), UsbOf(k) \in PcKeys' PROVE FALSE
  <2>1. PICK j \in held' : j \notin Codes!Modifier /\ j # 57 /\ Valid(KeyCode(j)) /\ UsbOf(k) = UsbOf(j)
    <3>1. PcKeys' = {UsbOf(j) : j \in {i \in Typing' \ Codes!Modifier : Valid(KeyCode(i))}}
      BY <1>1 DEF PcKeys, Pushing, UsbOf
    <3>2. Typing' \subseteq held' \ {57}
      BY Numbers DEF Typing
    <3>3. QED
      BY <1>4, <3>1, <3>2
  <2>2. j \in 0 .. 255 /\ k \in 0 .. 255
    OBVIOUS
  <2>a. j \in Codes!Usage /\ k \in Codes!Usage
    BY <2>2, Numbers
  <2>3. KeyCode(j) \in ValidCodes
    BY <2>1, <2>a, ValidCode, Zenon
  <2>4. KeyCode(k) \in ValidCodes
    BY <1>4, <2>a, ValidCode, Zenon
  <2>5. KeyCode(j) \in 0 .. 126 /\ KeyCode(k) \in 0 .. 126 /\ KeyCode(k) # 255
    BY <2>3, <2>4 DEF ValidCodes
  <2>6. UsbOf(k) # 0
    BY <1>4, <2>2, InverseFacts, Zenon DEF UsbOf
  <2>7. KeyCode(j) = KeyCode(k)
    BY <2>1, <2>5, <2>6, HostTables, Zenon DEF UsbOf
  <2>8. QED
    BY <1>2, <2>5, <2>7
<1>5. ASSUME k \in Codes!Modifier, BitOf(k) \in PcMods' PROVE FALSE
  <2>1. PICK j \in held' : j \in Codes!Modifier /\ BitOf(k) = BitOf(j)
    BY <1>1, <1>5 DEF PcMods, BitOf
  <2>2. j \in 0 .. 255 /\ k \in 0 .. 255
    OBVIOUS
  <2>3. KeyCode(j) \in Codes!ModifierCode /\ KeyCode(k) \in Codes!ModifierCode
    BY <1>5, <2>1, <2>2, CodeOfModifier, Zenon
  <2>4. KeyCode(j) = KeyCode(k)
    BY <2>1, <2>3, HostTables, Zenon DEF BitOf
  <2>5. KeyCode(k) # 255
    BY <2>3, Numbers
  <2>6. QED
    BY <1>2, <2>4, <2>5
<1>6. QED
  BY <1>3, <1>4, <1>5

\* A key goes up.
LEMMA ReleaseStep ==
  ASSUME CodesInv, NEW k \in held, Codes!Release(k)
  PROVE  CodesInv'
<1>. DEFINE code == KeyCode(k)
            e == Codes!Up(k)
<1>1. Handler /\ held \subseteq 0 .. 255
  BY DEF CodesInv, CodesTyped
<1>a. mac \subseteq 0 .. 127 /\ personal \in PcState
  BY DEF CodesInv, CodesTyped
<1>b. bmCapsLock \in BOOLEAN /\ clash \in BOOLEAN /\ dropped \in BOOLEAN
  BY DEF CodesInv, CodesTyped
<1>2. k \in 0 .. 255
  BY <1>1
<1>3. /\ held' = held \ {k} /\ keys' = keys /\ extended' = extended /\ bmCapsLock' = bmCapsLock
      /\ message' = <<>> /\ text' = <<>>
      /\ clash' = (clash /\ held' # {}) /\ dropped' = (dropped /\ held' # {})
  BY DEF Codes!Release
<1>d. CodesTyped /\ Codes!Deliver(Codes!OnKeyUp(k))
  BY DEF Codes!Release, CodesInv
<1>4. clash' \in BOOLEAN /\ dropped' \in BOOLEAN /\ bmCapsLock' \in BOOLEAN
  BY <1>b, <1>3
<1>5. /\ KeyCode(k) \in AdbCode
      /\ k \in {0, 1} => KeyCode(k) = 255
      /\ KeyCode(k) = 57 <=> k = 57
      /\ KeyCode(k) \in Codes!ModifierCode <=> k \in Codes!Modifier
  BY <1>1, <1>2, CodeOf, Zenon
<1>6. e = [code |-> code, up |-> code # 255]
  BY <1>1, <1>2, EventFacts, Zenon
<1>e. e \in CodeEvent
  BY <1>1, <1>2, EventFacts, Zenon
<1>. HIDE DEF e
<1>7. /\ mac \subseteq MacKeys \cup {57}
      /\ personal.s_keys \subseteq PcKeys /\ personal.s_mod \subseteq PcMods
  BY Numbers DEF CodesInv, NothingElse
<1>8. ASSUME ~clash, held' # {}
      PROVE  MacKeys \subseteq mac /\ \A i, j \in held : Alike(i, j) => i = j
  BY <1>8 DEF CodesInv, MacFollows
<1>9. ASSUME ~clash, ~dropped, held' # {}
      PROVE  /\ \A j \in held : Valid(KeyCode(j))
             /\ Cardinality(held \ Codes!Modifier) <= 6
             /\ PcKeys \subseteq personal.s_keys /\ PcMods \subseteq personal.s_mod
  BY <1>9 DEF CodesInv, PcHasAll
<1>10. /\ MacKeys' \subseteq MacKeys /\ PcKeys' \subseteq PcKeys /\ PcMods' \subseteq PcMods
       /\ k \in {0, 1, 57} => MacKeys' = MacKeys /\ PcKeys' = PcKeys /\ PcMods' = PcMods
       /\ MacKeys \subseteq MacKeys' \cup {code}
       /\ k \in Codes!Modifier => PcKeys' = PcKeys /\ PcMods \subseteq PcMods' \cup {BitOf(k)}
       /\ k \notin Codes!Modifier => PcMods' = PcMods /\ PcKeys \subseteq PcKeys' \cup {UsbOf(k)}
  BY <1>1, <1>3, FewerHeld
<1>11. held' = {} => MacKeys' = {} /\ PcKeys' = {} /\ PcMods' = {}
  BY DEF MacKeys, PcKeys, PcMods, Pushing, Typing
<1>12. ASSUME ~clash, held' # {}
       PROVE  /\ code # 255 => code \notin MacKeys'
              /\ k \notin Codes!Modifier \cup {57} /\ Valid(code) => UsbOf(k) \notin PcKeys'
              /\ k \in Codes!Modifier => BitOf(k) \notin PcMods'
  BY <1>1, <1>3, <1>8, <1>12, OnlyIts
<1>13. \A j : KeyCode(j)' = KeyCode(j) /\ \A i : Alike(i, j)' <=> Alike(i, j)
  BY <1>3 DEF KeyCode, Alike
<1>. DEFINE Mac(m) == /\ m \subseteq 0 .. 127 /\ m \subseteq MacKeys' \cup {57}
                      /\ ~clash /\ held' # {} => MacKeys' \subseteq m
            Its(p) == /\ p \in PcState /\ p.s_keys \subseteq PcKeys' /\ p.s_mod \subseteq PcMods'
                      /\ ~clash /\ ~dropped /\ held' # {} =>
                           PcKeys' \subseteq p.s_keys /\ PcMods' \subseteq p.s_mod
<1>14. Mac(mac') /\ Its(personal')
  <2>1. CASE k \in {0, 1, 57}
    <3>1. Codes!OnKeyUp(k) = <<>>
      BY <2>1, Numbers DEF Codes!OnKeyUp, Codes!NoUsage
    <3>2. mac' = mac /\ personal' = personal
      BY <1>d, <1>e, <3>1, Delivered, Zenon
    <3>3. MacKeys' = MacKeys /\ PcKeys' = PcKeys /\ PcMods' = PcMods
      BY <1>10, <2>1
    <3>4. Mac(mac')
      BY <1>a, <1>7, <1>8, <3>2, <3>3
    <3>5. Its(personal')
      BY <1>a, <1>7, <1>9, <3>2, <3>3
    <3>6. QED
      BY <3>4, <3>5
  <2>2. CASE k \notin {0, 1, 57}
    <3>1. /\ mac' = Codes!HoldsAfter(mac, e)
          /\ personal' = Codes!adb_to_usb_keyboard_reg0(personal, e)
      <4>1. Codes!OnKeyUp(k) = Codes!Twice(k, e)
        BY <2>2, Numbers DEF Codes!OnKeyUp, Codes!NoUsage, e
      <4>2. QED
        BY <1>d, <1>e, <4>1, Delivered, Zenon
    <3>2. mac' = IF code = 255 THEN mac ELSE mac \ {code}
      BY <1>6, <3>1, Numbers, Zenon DEF Codes!HoldsAfter
    <3>3. code = 255 => MacKeys' = MacKeys
      <4>1. 255 \notin MacKeys
        BY Numbers DEF MacKeys
      <4>2. QED
        BY <1>10, <4>1
    <3>4. Mac(mac')
      <4>1. CASE code = 255
        BY <1>a, <1>7, <1>8, <3>2, <3>3, <4>1, ZenonT(30)
      <4>2. CASE code # 255
        <5>1. mac' = mac \ {code}
          BY <3>2, <4>2
        <5>2. mac' \subseteq 0 .. 127 /\ mac' \subseteq MacKeys' \cup {57}
          BY <1>a, <1>7, <1>10, <5>1, Zenon
        <5>3. ASSUME ~clash, held' # {} PROVE MacKeys' \subseteq mac'
          BY <1>8, <1>10, <1>12, <4>2, <5>1, <5>3
        <5>4. QED
          BY <5>2, <5>3
      <4>3. QED
        BY <4>1, <4>2
    <3>5. Its(personal')
      <4>1. e.code = code /\ e.up = (code # 255) /\ e \in CodeEvent
        BY <1>6, <1>e
      <4>2. /\ personal' \in PcState
            /\ ~Valid(e.code) => personal' = [s_keys |-> {}, s_mod |-> {}]
            /\ e.code \in Codes!ModifierCode =>
                 personal' = [s_keys |-> personal.s_keys, s_mod |-> Bits(personal.s_mod, e.code, e.up)]
            /\ Valid(e.code) /\ e.code \notin Codes!ModifierCode \cup {57} =>
                 personal' = [s_keys |-> Kept(personal.s_keys, e.code, e.up), s_mod |-> personal.s_mod]
        BY <1>a, <3>1, <4>1, PcGets
      <4>3. CASE ~Valid(code)
        <5>1. personal' = [s_keys |-> {}, s_mod |-> {}]
          BY <4>1, <4>2, <4>3
        <5>2. ~clash /\ ~dropped /\ held' # {} => FALSE
          BY <1>9, <4>3
        <5>3. QED
          BY <4>2, <5>1, <5>2
      <4>4. CASE Valid(code) /\ k \in Codes!Modifier
        <5>1. code \in Codes!ModifierCode /\ code # 255
          BY <1>5, <4>4, Numbers
        <5>2. personal' = [s_keys |-> personal.s_keys, s_mod |-> personal.s_mod \ {BitOf(k)}]
          BY <4>1, <4>2, <5>1, Zenon DEF BitOf, Bits
        <5>3. PcKeys' = PcKeys /\ PcMods' \subseteq PcMods /\ PcMods \subseteq PcMods' \cup {BitOf(k)}
          BY <1>10, <4>4
        <5>4. ASSUME ~clash, ~dropped, held' # {}
              PROVE  PcKeys' \subseteq personal'.s_keys /\ PcMods' \subseteq personal'.s_mod
          BY <1>9, <1>12, <4>4, <5>2, <5>3, <5>4
        <5>5. QED
          BY <1>7, <4>2, <5>2, <5>3, <5>4
      <4>5. CASE Valid(code) /\ k \notin Codes!Modifier
        <5>1. code \notin Codes!ModifierCode \cup {57}
          BY <1>5, <2>2, <4>5, Zenon
        <5>2. UsbOf(k) # 0 /\ code # 255
          <6>1. UsbOf(k) # 0
            BY <1>1, <1>2, <2>2, <4>5, InverseFacts, Zenon DEF UsbOf
          <6>2. code # 255
            BY <4>5, Numbers
          <6>3. QED
            BY <6>1, <6>2
        <5>3. personal' = [s_keys |-> personal.s_keys \ {UsbOf(k)}, s_mod |-> personal.s_mod]
          BY <4>1, <4>2, <4>5, <5>1, <5>2, Zenon DEF UsbOf, Kept, Codes!Pushed
        <5>4. PcMods' = PcMods /\ PcKeys' \subseteq PcKeys /\ PcKeys \subseteq PcKeys' \cup {UsbOf(k)}
          BY <1>10, <4>5
        <5>5. ASSUME ~clash, ~dropped, held' # {}
              PROVE  PcKeys' \subseteq personal'.s_keys /\ PcMods' \subseteq personal'.s_mod
          <6>1. UsbOf(k) \notin PcKeys'
            BY <1>12, <2>2, <4>5, <5>5
          <6>2. QED
            BY <1>9, <5>3, <5>4, <5>5, <6>1
        <5>6. QED
          BY <1>7, <4>2, <5>3, <5>4, <5>5
      <4>6. QED
        BY <4>3, <4>4, <4>5
    <3>6. QED
      BY <3>4, <3>5
  <2>3. QED
    BY <2>1, <2>2
<1>15. QED
  <2>1. held' \subseteq keys /\ held' \subseteq 0 .. 255
    <3>1. held \subseteq keys
      BY DEF CodesInv, CodesTyped
    <3>2. QED
      BY <1>1, <1>3, <3>1
  <2>2. CodesTyped'
    <3>1. Handler'
      BY <1>1, <1>3 DEF Handler
    <3>2. QED
      BY <1>3, <1>4, <1>14, <2>1, <3>1, TypedAgain DEF CodesInv
  <2>3. NothingElse'
    BY <1>14, Numbers DEF NothingElse
  <2>4. MacFollows'
    <3>1. CASE held' = {}
      BY <1>11, <3>1 DEF MacFollows
    <3>2. CASE held' # {}
      <4>1. ASSUME ~clash'
            PROVE  MacKeys' \subseteq mac' /\ \A i, j \in held' : Alike(i, j) => i = j
        <5>1. ~clash
          BY <1>b, <1>3, <3>2, <4>1
        <5>2. QED
          BY <1>3, <1>8, <1>14, <3>2, <5>1
      <4>2. QED
        BY <1>13, <4>1 DEF MacFollows
    <3>3. QED
      BY <3>1, <3>2
  <2>5. PcHasAll'
    <3>1. CASE held' = {}
      <4>1. held' \ Codes!Modifier = {} /\ Cardinality({}) = 0
        BY <3>1, FS_EmptySet
      <4>2. QED
        BY <1>11, <3>1, <4>1 DEF PcHasAll
    <3>2. CASE held' # {}
      <4>1. ASSUME ~clash', ~dropped'
            PROVE  /\ \A j \in held' : Valid(KeyCode(j))
                   /\ Cardinality(held' \ Codes!Modifier) <= 6
                   /\ PcKeys' \subseteq personal'.s_keys /\ PcMods' \subseteq personal'.s_mod
        <5>1. ~clash /\ ~dropped
          BY <1>b, <1>3, <3>2, <4>1
        <5>2. \A j \in held' : Valid(KeyCode(j))
          BY <1>3, <1>9, <3>2, <5>1
        <5>3. Cardinality(held' \ Codes!Modifier) <= 6
          <6>1. IsFiniteSet(0 .. 255)
            <7>1. 0 \in Int /\ 255 \in Int
              OBVIOUS
            <7>2. QED
              BY <7>1, FS_Interval, Zenon
          <6>2. held \ Codes!Modifier \in SUBSET (0 .. 255)
            BY <1>1, Zenon
          <6>3. held' \ Codes!Modifier \in SUBSET (held \ Codes!Modifier)
            BY <1>3
          <6>4. IsFiniteSet(held \ Codes!Modifier)
            BY <6>1, <6>2, FS_Subset
          <6>5. /\ Cardinality(held' \ Codes!Modifier) <= Cardinality(held \ Codes!Modifier)
                /\ IsFiniteSet(held' \ Codes!Modifier)
            BY <6>3, <6>4, FS_Subset
          <6>6. Cardinality(held \ Codes!Modifier) \in Nat /\ Cardinality(held' \ Codes!Modifier) \in Nat
            BY <6>4, <6>5, FS_CardinalityType
          <6>7. Cardinality(held \ Codes!Modifier) <= 6
            BY <1>9, <3>2, <5>1
          <6>8. QED
            BY <6>5, <6>6, <6>7
        <5>4. QED
          BY <1>14, <3>2, <5>1, <5>2, <5>3
      <4>2. QED
        BY <1>13, <4>1 DEF PcHasAll
    <3>3. QED
      BY <3>1, <3>2
  <2>6. QED
    BY <2>2, <2>3, <2>4, <2>5 DEF CodesInv

\* The handler changes.
LEMMA SetHandlerStep ==
  ASSUME CodesInv, Codes!SetHandler
  PROVE  CodesInv'
<1>1. extended \in BOOLEAN /\ extended' \in BOOLEAN
  BY DEF CodesInv, CodesTyped, Handler, Codes!SetHandler
<1>2. /\ held \cap Codes!RightHand = {} /\ message' = <<>> /\ text' = <<>>
      /\ keys' = keys /\ held' = held /\ bmCapsLock' = bmCapsLock /\ mac' = mac /\ personal' = personal
      /\ clash' = clash /\ dropped' = dropped
  BY DEF Codes!SetHandler
<1>3. held \subseteq 0 .. 255
  BY DEF CodesInv, CodesTyped
<1>4. \A j \in held : KeyCode(j)' = KeyCode(j)
  <2>1. ASSUME NEW j \in held PROVE Codes!CodeTable[extended'][j] = Codes!CodeTable[extended][j]
    <3>1. j \in 0 .. 255 /\ j \notin Codes!RightHand
      BY <1>2, <1>3
    <3>2. QED
      BY <1>1, <3>1, SameHands, Zenon
  <2>2. QED
    BY <2>1 DEF KeyCode
<1>5. Typing' = Typing /\ Typing \subseteq held
  BY <1>2 DEF Typing
<1>6. MacKeys' = MacKeys
  BY <1>4, <1>5 DEF MacKeys
<1>7. Pushing' = Pushing /\ Pushing \subseteq held
  BY <1>4, <1>5 DEF Pushing
<1>8. PcKeys' = PcKeys
  BY <1>4, <1>7 DEF PcKeys
<1>9. PcMods' = PcMods
  BY <1>2, <1>4 DEF PcMods
<1>10. ASSUME NEW i \in held, NEW j \in held, Alike(i, j)' PROVE i = j \/ Alike(i, j)
  <2>1. i \notin Codes!RightHand /\ j \notin Codes!RightHand
    BY <1>2
  <2>2. \A ext : \A pair \in Codes!Hands(ext) : i \in pair /\ j \in pair => i = j
    BY <2>1 DEF Codes!Hands, Codes!RightHand
  <2>3. i \in Codes!SameAs(j, extended')
    BY <1>10 DEF Alike
  <2>4. i = j \/ \E pair \in Codes!Shared \cup Codes!Hands(extended') : j \in pair /\ i \in pair
    BY <2>3 DEF Codes!SameAs
  <2>5. i = j \/ \E pair \in Codes!Shared : j \in pair /\ i \in pair
    BY <2>2, <2>4
  <2>6. QED
    BY <2>5 DEF Alike, Codes!SameAs
<1>11. CodesTyped'
  <2>1. CodesTyped
    BY DEF CodesInv
  <2>2. QED
    BY <1>1, <1>2, <2>1 DEF CodesTyped, Handler
<1>12. NothingElse'
  BY <1>2, <1>6, <1>8, <1>9 DEF CodesInv, NothingElse
<1>13. MacFollows'
  <2>1. ASSUME ~clash' PROVE MacKeys' \subseteq mac' /\ \A i, j \in held' : Alike(i, j)' => i = j
    <3>1. MacKeys \subseteq mac /\ \A i, j \in held : Alike(i, j) => i = j
      BY <1>2, <2>1 DEF CodesInv, MacFollows
    <3>2. QED
      BY <1>2, <1>6, <1>10, <3>1
  <2>2. QED
    BY <2>1 DEF MacFollows
<1>14. PcHasAll'
  <2>1. ASSUME ~clash', ~dropped'
        PROVE  /\ \A k \in held' : Valid(KeyCode(k)')
               /\ Cardinality(held' \ Codes!Modifier) <= 6
               /\ PcKeys' \subseteq personal'.s_keys /\ PcMods' \subseteq personal'.s_mod
    <3>1. /\ \A k \in held : Valid(KeyCode(k))
          /\ Cardinality(held \ Codes!Modifier) <= 6
          /\ PcKeys \subseteq personal.s_keys /\ PcMods \subseteq personal.s_mod
      BY <1>2, <2>1 DEF CodesInv, PcHasAll
    <3>2. QED
      BY <1>2, <1>4, <1>8, <1>9, <3>1
  <2>2. QED
    BY <2>1 DEF PcHasAll
<1>15. QED
  BY <1>11, <1>12, <1>13, <1>14 DEF CodesInv


(* -------------------------- a message is typed ------------------------- *)

LEMMA AfterTwo ==
  ASSUME NEW s \in EndState, NEW a \in CodeEvent, NEW b \in CodeEvent
  PROVE  Codes!After(s, <<a>> \o <<b>>) = Codes!Gets(Codes!Gets(s, a), b)
<1>. DEFINE es == <<a>> \o <<b>>
<1>1. es \in Seq(CodeEvent) /\ Len(es) = 2 /\ es[1] = a /\ es[2] = b
  OBVIOUS
<1>. HIDE DEF es
<1>2. PICK f : /\ f[0] = s /\ f[Len(es)] = Codes!After(s, es)
               /\ \A i \in 1 .. Len(es) : f[i] = Codes!Gets(f[i - 1], es[i])
  BY <1>1, AfterFolds
<1>3. f[1] = Codes!Gets(f[0], es[1]) /\ f[2] = Codes!Gets(f[1], es[2])
  BY <1>1, <1>2
<1>4. QED
  BY <1>1, <1>2, <1>3, Zenon DEF es

LEMMA AfterFour ==
  ASSUME NEW s \in EndState,
         NEW a \in CodeEvent, NEW b \in CodeEvent, NEW c \in CodeEvent, NEW d \in CodeEvent
  PROVE  Codes!After(s, <<a>> \o <<b>> \o <<c>> \o <<d>>) =
           Codes!Gets(Codes!Gets(Codes!Gets(Codes!Gets(s, a), b), c), d)
<1>. DEFINE es == <<a>> \o <<b>> \o <<c>> \o <<d>>
<1>1. es \in Seq(CodeEvent) /\ Len(es) = 4 /\ es[1] = a /\ es[2] = b /\ es[3] = c /\ es[4] = d
  OBVIOUS
<1>. HIDE DEF es
<1>2. \E f : /\ f[0] = s /\ f[Len(es)] = Codes!After(s, es)
             /\ \A i \in 0 .. Len(es) : f[i] \in EndState
             /\ \A i \in 1 .. Len(es) : f[i] = Codes!Gets(f[i - 1], es[i])
  BY <1>1, AfterFolds, Zenon
<1>f. PICK f : /\ f[0] = s /\ f[Len(es)] = Codes!After(s, es)
               /\ \A i \in 1 .. Len(es) : f[i] = Codes!Gets(f[i - 1], es[i])
  BY <1>2, Zenon
<1>3. /\ f[1] = Codes!Gets(f[0], es[1]) /\ f[2] = Codes!Gets(f[1], es[2])
      /\ f[3] = Codes!Gets(f[2], es[3]) /\ f[4] = Codes!Gets(f[3], es[4])
  BY <1>1, <1>f
<1>4. QED
  BY <1>1, <1>f, <1>3, Zenon DEF es

\* A modifier that goes down and up again, and the text does not grow
LEMMA ModifierGoes ==
  ASSUME NEW s \in EndState, NEW e \in CodeEvent, e.code \in Codes!ModifierCode
  PROVE  /\ Codes!Gets(s, e).mac = IF e.up THEN s.mac \ {e.code} ELSE s.mac \cup {e.code}
         /\ Codes!Gets(s, e).pc.s_keys = s.pc.s_keys
         /\ Codes!Gets(s, e).pc.s_mod = Bits(s.pc.s_mod, e.code, e.up)
         /\ Codes!Gets(s, e).text = s.text
<1>. DEFINE t == Codes!Gets(s, e)
<1>1. s.pc \in PcState
  BY DEF EndState
<1>2. e.code # 255
  BY Numbers
<1>3. /\ t.mac = Codes!HoldsAfter(s.mac, e) /\ t.pc = Codes!adb_to_usb_keyboard_reg0(s.pc, e)
      /\ t.text = s.text
  BY GetsFacts
<1>. HIDE DEF t
<1>4. t.mac = IF e.up THEN s.mac \ {e.code} ELSE s.mac \cup {e.code}
  BY <1>2, <1>3, Numbers DEF Codes!HoldsAfter
<1>5. t.pc = [s_keys |-> s.pc.s_keys, s_mod |-> Bits(s.pc.s_mod, e.code, e.up)]
  BY <1>1, <1>3, PcGets
<1>6. QED
  BY <1>3, <1>4, <1>5 DEF t

\* A key that is pressed and released leaves what was there, or less, and its
\* sign.
LEMMA KeyGoes ==
  ASSUME NEW s \in EndState, NEW d \in CodeEvent, NEW u \in CodeEvent,
         d.code = u.code, ~d.up, u.up, d.code \in 0 .. 51, d.code \notin Codes!ModifierCode
  PROVE  LET t == Codes!Gets(Codes!Gets(s, d), u) IN
         /\ t \in EndState
         /\ t.mac = s.mac \ {d.code}
         /\ t.pc.s_keys \subseteq s.pc.s_keys /\ t.pc.s_mod = s.pc.s_mod
         /\ t.text = Append(s.text, Codes!Reads(s.mac, d.code))
<1>. DEFINE r == Codes!Gets(s, d)
            t == Codes!Gets(r, u)
<1>1. /\ r \in EndState /\ r.mac = Codes!HoldsAfter(s.mac, d)
      /\ r.pc = Codes!adb_to_usb_keyboard_reg0(s.pc, d)
      /\ r.text = Append(s.text, Codes!Reads(s.mac, d.code))
  BY GetsFacts, Zenon
<1>. HIDE DEF r
<1>2. /\ t \in EndState /\ t.mac = Codes!HoldsAfter(r.mac, u)
      /\ t.pc = Codes!adb_to_usb_keyboard_reg0(r.pc, u)
      /\ t.text = r.text
  BY <1>1, GetsFacts, Zenon
<1>. HIDE DEF t
<1>3. s.pc \in PcState /\ r.pc \in PcState
  BY <1>1 DEF EndState
<1>4. Valid(d.code) /\ d.code # 57 /\ d.code # 255
  BY Numbers
<1>5. t.mac = s.mac \ {d.code}
  BY <1>1, <1>2, <1>4, Numbers DEF Codes!HoldsAfter
<1>6. r.pc = [s_keys |-> Kept(s.pc.s_keys, d.code, d.up), s_mod |-> s.pc.s_mod]
  BY <1>1, <1>3, <1>4, PcGets, SMTT(30)
<1>7. t.pc = [s_keys |-> Kept(r.pc.s_keys, u.code, u.up), s_mod |-> r.pc.s_mod]
  BY <1>2, <1>3, <1>4, PcGets, ZenonT(30)
<1>8. Kept(Kept(s.pc.s_keys, d.code, d.up), u.code, u.up) \subseteq s.pc.s_keys
  BY DEF Kept, Codes!Pushed
<1>9. t.pc.s_keys \subseteq s.pc.s_keys /\ t.pc.s_mod = s.pc.s_mod
  <2>1. r.pc.s_keys = Kept(s.pc.s_keys, d.code, d.up) /\ r.pc.s_mod = s.pc.s_mod
    BY <1>6
  <2>2. t.pc.s_keys = Kept(r.pc.s_keys, u.code, u.up) /\ t.pc.s_mod = r.pc.s_mod
    BY <1>7
  <2>3. QED
    BY <1>8, <2>1, <2>2, Zenon
<1>10. QED
  BY <1>1, <1>2, <1>5, <1>9 DEF t, r

\* What forces the keys up: one event for each, in their order
LEMMA ForceUpIs ==
  ASSUME Handler
  PROVE  /\ Codes!ForceUp \in Seq(CodeEvent)
         /\ \A i \in 1 .. Len(Codes!ForceUp) :
              /\ Codes!ForceUp[i].up
              /\ Codes!ForceUp[i].code \in Codes!ModifierCode \cup {57}
         /\ \A k \in Codes!Modifier \cup {57} :
              \E i \in 1 .. Len(Codes!ForceUp) : Codes!ForceUp[i].code = KeyCode(k)
<1>. DEFINE F == Codes!Forced
<1>1. /\ F \in Seq(Codes!Modifier \cup {57}) /\ Len(F) = 9
      /\ \A k \in Codes!Modifier \cup {57} : \E i \in 1 .. 9 : F[i] = k
  <2>1. F = <<225, 229, 224, 228, 226, 230, 227, 231, 57>>
    BY Numbers DEF Codes!Forced
  <2>. HIDE DEF F
  <2>2. /\ F[1] = 225 /\ F[2] = 229 /\ F[3] = 224 /\ F[4] = 228 /\ F[5] = 226 /\ F[6] = 230
        /\ F[7] = 227 /\ F[8] = 231 /\ F[9] = 57
    BY <2>1
  <2>3. F \in Seq(Codes!Modifier \cup {57}) /\ Len(F) = 9
    <3>1. {225, 229, 224, 228, 226, 230, 227, 231, 57} \subseteq Codes!Modifier \cup {57}
      BY Numbers
    <3>2. F \in Seq({225, 229, 224, 228, 226, 230, 227, 231, 57}) /\ Len(F) = 9
      BY <2>1
    <3>3. QED
      BY <3>1, <3>2
  <2>4. ASSUME NEW k \in Codes!Modifier \cup {57} PROVE \E i \in 1 .. 9 : F[i] = k
    <3>1. k \in {225, 229, 224, 228, 226, 230, 227, 231, 57}
      BY Numbers
    <3>2. QED
      BY <2>2, <3>1
  <2>5. QED
    BY <2>3, <2>4
<1>. HIDE DEF F
<1>2. ASSUME NEW k \in Codes!Modifier \cup {57}
      PROVE  /\ Codes!Up(k) \in CodeEvent /\ Codes!Up(k).up
             /\ Codes!Up(k).code = KeyCode(k) /\ Codes!Up(k).code \in Codes!ModifierCode \cup {57}
  <2>1. k \in 0 .. 255
    BY Numbers
  <2>2. KeyCode(k) \in Codes!ModifierCode \cup {57}
    <3>1. KeyCode(k) = 57 <=> k = 57
      BY <2>1, CodeOfCaps, Zenon
    <3>2. KeyCode(k) \in Codes!ModifierCode <=> k \in Codes!Modifier
      BY <2>1, CodeOfModifier, Zenon
    <3>3. QED
      BY <3>1, <3>2
  <2>3. KeyCode(k) # 255
    BY <2>2, Numbers
  <2>4. Codes!Up(k) = [code |-> KeyCode(k), up |-> KeyCode(k) # 255]
    BY <2>1, EventFacts, Zenon
  <2>5. Codes!Up(k).code = KeyCode(k) /\ Codes!Up(k).up = (KeyCode(k) # 255)
    BY <2>4
  <2>6. Codes!Up(k) \in CodeEvent
    BY <2>1, EventFacts, Zenon
  <2>7. Codes!Up(k).up
    BY <2>3, <2>5, Zenon
  <2>8. Codes!Up(k).code = KeyCode(k)
    BY <2>5
  <2>9. QED
    BY <2>2, <2>6, <2>7, <2>8, Zenon
<1>3. Codes!ForceUp = [i \in 1 .. 9 |-> Codes!Up(F[i])]
  BY <1>1 DEF Codes!ForceUp, F
<1>4. \A i \in 1 .. 9 : F[i] \in Codes!Modifier \cup {57}
  <2>1. F \in Seq(Codes!Modifier \cup {57}) /\ Len(F) = 9
    BY <1>1, Zenon
  <2>. DEFINE K == Codes!Modifier \cup {57}
  <2>. HIDE DEF K
  <2>2. F \in Seq(K) /\ Len(F) = 9
    BY <2>1, Zenon DEF K
  <2>3. \A i \in 1 .. 9 : F[i] \in K
    <3>1. ASSUME NEW i \in 1 .. Len(F) PROVE F[i] \in K
      BY <2>2, ElementOfSeq, Zenon
    <3>2. QED
      BY <2>2, <3>1, Zenon
  <2>4. QED
    BY <2>3, Zenon DEF K
<1>. DEFINE U == [i \in 1 .. 9 |-> Codes!Up(F[i])]
<1>5. \A i \in 1 .. 9 : U[i] = Codes!Up(F[i])
  OBVIOUS
<1>6. U \in Seq(CodeEvent) /\ Len(U) = 9
  <2>1. \A i \in 1 .. 9 : Codes!Up(F[i]) \in CodeEvent
    BY <1>2, <1>4
  <2>2. U \in [1 .. 9 -> CodeEvent]
    BY <2>1
  <2>3. QED
    BY <2>2
<1>. HIDE DEF U
<1>7. \A i \in 1 .. 9 : U[i].up /\ U[i].code \in Codes!ModifierCode \cup {57}
  BY <1>2, <1>4, <1>5
<1>8. \A k \in Codes!Modifier \cup {57} : \E i \in 1 .. 9 : U[i].code = KeyCode(k)
  BY <1>1, <1>2, <1>5
<1>9. Codes!ForceUp = U
  BY <1>3 DEF U
<1>10. QED
  BY <1>6, <1>7, <1>8, <1>9, Zenon

\* Nothing that was not there before
Within(s) ==
  /\ s \in EndState /\ s.mac \subseteq mac
  /\ s.pc.s_keys \subseteq personal.s_keys /\ s.pc.s_mod \subseteq personal.s_mod

\* and no modifier, nor Caps Lock, at the Macintosh: it reads as it is meant.
Calm(s) == Within(s) /\ s.mac \cap (Codes!ModifierCode \cup {57}) = {}

LEMMA UpShrinks ==
  ASSUME NEW s, Within(s), NEW e \in CodeEvent, e.up, e.code \in Codes!ModifierCode \cup {57}
  PROVE  /\ Within(Codes!Gets(s, e)) /\ Codes!Gets(s, e).text = s.text
         /\ Codes!Gets(s, e).mac = s.mac \ {e.code}
<1>. DEFINE t == Codes!Gets(s, e)
<1>1. s \in EndState /\ s.pc \in PcState
  BY DEF Within, EndState
<1>2. /\ t \in EndState /\ t.mac = Codes!HoldsAfter(s.mac, e)
      /\ t.pc = Codes!adb_to_usb_keyboard_reg0(s.pc, e) /\ t.text = s.text
  BY <1>1, GetsFacts
<1>. HIDE DEF t
<1>3. e.code # 255
  BY Numbers
<1>4. t.mac = s.mac \ {e.code}
  BY <1>2, <1>3, Numbers DEF Codes!HoldsAfter
<1>5. t.pc.s_keys = s.pc.s_keys /\ t.pc.s_mod \subseteq s.pc.s_mod
  <2>1. CASE e.code = 57
    BY <1>1, <1>2, <2>1, PcGets
  <2>2. CASE e.code \in Codes!ModifierCode
    <3>1. t.pc = [s_keys |-> s.pc.s_keys, s_mod |-> Bits(s.pc.s_mod, e.code, e.up)]
      BY <1>1, <1>2, <2>2, PcGets, Zenon
    <3>2. Bits(s.pc.s_mod, e.code, e.up) \subseteq s.pc.s_mod
      BY DEF Bits
    <3>3. t.pc.s_keys = s.pc.s_keys /\ t.pc.s_mod = Bits(s.pc.s_mod, e.code, e.up)
      BY <3>1
    <3>4. QED
      BY <3>2, <3>3, Zenon
  <2>3. QED
    BY <2>1, <2>2
<1>6. Within(t)
  BY <1>2, <1>4, <1>5 DEF Within
<1>7. QED
  BY <1>2, <1>4, <1>6 DEF t

\* No modifier is at the Macintosh that no key holds.
LEMMA ModifiersHeld ==
  ASSUME CodesInv, NEW c \in mac, c \in Codes!ModifierCode \cup {57}
  PROVE  \E k \in Codes!Modifier \cup {57} : KeyCode(k) = c
<1>1. Handler /\ held \subseteq 0 .. 255
  BY DEF CodesInv, CodesTyped
<1>2. mac \subseteq MacKeys \cup {57}
  BY Numbers DEF CodesInv, NothingElse
<1>3. CASE c = 57
  <2>1. \A k \in 0 .. 255 : KeyCode(k) = 57 <=> k = 57
    BY <1>1, CodeOfCaps, Zenon
  <2>2. 57 \in 0 .. 255
    OBVIOUS
  <2>3. KeyCode(57) = 57
    BY <2>1, <2>2
  <2>4. QED
    BY <1>3, <2>3
<1>4. CASE c \in MacKeys
  <2>1. PICK k \in Typing : KeyCode(k) = c
    BY <1>4 DEF MacKeys
  <2>2. k \in 0 .. 255 /\ k # 57
    BY <1>1, Numbers DEF Typing
  <2>3. /\ KeyCode(k) = 57 <=> k = 57
        /\ KeyCode(k) \in Codes!ModifierCode <=> k \in Codes!Modifier
    BY <1>1, <2>2, CodeOfCaps, CodeOfModifier, Zenon
  <2>4. k \in Codes!Modifier
    BY <2>1, <2>2, <2>3
  <2>5. QED
    BY <2>1, <2>4
<1>5. QED
  BY <1>2, <1>3, <1>4

\* After the keys are forced up it is calm.
LEMMA ForcedCalm ==
  ASSUME CodesInv
  PROVE  LET s == Codes!After(Codes!Ends, Codes!ForceUp) IN Calm(s) /\ s.text = <<>>
<1>. DEFINE s == Codes!Ends
            F == Codes!ForceUp
            n == Len(F)
<1>1. Handler
  BY DEF CodesInv, CodesTyped
<1>2. /\ F \in Seq(CodeEvent)
      /\ \A i \in 1 .. n : F[i].up /\ F[i].code \in Codes!ModifierCode \cup {57}
      /\ \A k \in Codes!Modifier \cup {57} : \E i \in 1 .. n : F[i].code = KeyCode(k)
  BY <1>1, ForceUpIs, Zenon
<1>3. s = [mac |-> mac, pc |-> personal, text |-> <<>>]
  BY DEF Codes!Ends
<1>4. mac \subseteq 0 .. 127 /\ personal \in PcState
  BY DEF CodesInv, CodesTyped
<1>5. s \in EndState
  BY <1>3, <1>4 DEF EndState
<1>6. Within(s) /\ s.text = <<>> /\ s.mac = mac
  BY <1>3, <1>5 DEF Within
<1>. HIDE DEF s, F
<1>7. \E f : /\ f[0] = s /\ f[Len(F)] = Codes!After(s, F)
             /\ \A i \in 0 .. Len(F) : f[i] \in EndState
             /\ \A i \in 1 .. Len(F) : f[i] = Codes!Gets(f[i - 1], F[i])
  BY <1>2, <1>5, AfterFolds, Zenon
<1>8. PICK f : /\ f[0] = s /\ f[n] = Codes!After(s, F)
               /\ \A i \in 1 .. n : f[i] = Codes!Gets(f[i - 1], F[i])
  BY <1>7, Zenon
<1>9. n \in Nat /\ \A i \in 1 .. n : F[i] \in CodeEvent
  BY <1>2
<1>. HIDE DEF n
<1>. DEFINE So(i) == /\ Within(f[i]) /\ f[i].text = <<>>
                     /\ \A j \in 1 .. i : F[j].code \notin f[i].mac
            T == {i \in Nat : i <= n => So(i)}
<1>10. So(0)
  BY <1>6, <1>8
<1>11. ASSUME NEW i \in Nat, i + 1 <= n, So(i) PROVE So(i + 1)
  <2>1. i + 1 \in 1 .. n /\ (i + 1) - 1 = i
    BY <1>9, <1>11
  <2>2. /\ F[i + 1] \in CodeEvent /\ F[i + 1].up
        /\ F[i + 1].code \in Codes!ModifierCode \cup {57}
    BY <1>2, <1>9, <2>1 DEF n
  <2>3. f[i + 1] = Codes!Gets(f[i], F[i + 1])
    BY <1>8, <2>1
  <2>4. Within(f[i]) /\ f[i].text = <<>>
    BY <1>11
  <2>5. /\ Within(f[i + 1]) /\ f[i + 1].text = <<>>
        /\ f[i + 1].mac = f[i].mac \ {F[i + 1].code}
    BY <2>2, <2>3, <2>4, UpShrinks
  <2>6. \A j \in 1 .. i + 1 : F[j].code \notin f[i + 1].mac
    BY <1>11, <2>5
  <2>7. QED
    BY <2>5, <2>6
<1>. HIDE DEF So
<1>12. 0 \in T /\ \A i \in Nat : i \in T => i + 1 \in T
  BY <1>9, <1>10, <1>11
<1>. HIDE DEF T
<1>13. n \in T
  BY <1>9, <1>12, Induction
<1>14. So(n)
  BY <1>9, <1>13 DEF T
<1>15. Within(f[n]) /\ f[n].text = <<>> /\ \A j \in 1 .. n : F[j].code \notin f[n].mac
  BY <1>14 DEF So
<1>16. ASSUME NEW c \in f[n].mac, c \in Codes!ModifierCode \cup {57} PROVE FALSE
  <2>1. c \in mac
    BY <1>15 DEF Within
  <2>2. PICK k \in Codes!Modifier \cup {57} : KeyCode(k) = c
    BY <1>16, <2>1, ModifiersHeld
  <2>3. QED
    BY <1>2, <1>15, <1>16, <2>2 DEF n
<1>17. QED
  BY <1>8, <1>15, <1>16 DEF Calm, s, F

\* What is known of a character that can be read
LEMMA CharFacts ==
  ASSUME Handler, NEW c, Codes!Readable(c)
  PROVE  LET k == Codes!char_to_usb_keycode(c) IN
         /\ c = [sign |-> c.sign, shift |-> c.shift] /\ c.shift \in BOOLEAN
         /\ k \in 0 .. 255 /\ k \notin {0, 1, 57} /\ k \notin Codes!Modifier /\ k \notin Codes!QueuedTwice
         /\ KeyCode(k) \in 0 .. 51 /\ KeyCode(k) \notin Codes!ModifierCode
         /\ Codes!Layout[KeyCode(k) + 1] = c.sign
<1>. DEFINE k == Codes!char_to_usb_keycode(c)
            code == KeyCode(k)
<1>1. c = [sign |-> c.sign, shift |-> c.shift] /\ c.shift \in BOOLEAN
  BY DEF Codes!Readable
<1>2. /\ k \in Codes!Usage \ (Codes!Modifier \cup Codes!QueuedTwice \cup {Codes!CapsKey})
      /\ Codes!CodeTable[FALSE][k] + 1 \in DOMAIN Codes!Layout
      /\ Codes!Layout[Codes!CodeTable[FALSE][k] + 1] = c.sign
  BY Zenon DEF Codes!Readable
<1>. HIDE DEF k
<1>3. k \in 0 .. 255 /\ k \notin Codes!Modifier /\ k # 57 /\ k \notin Codes!QueuedTwice
  BY <1>2, Numbers
<1>4. code = Codes!CodeTable[FALSE][k]
  <2>1. k \notin Codes!RightHand /\ FALSE \in BOOLEAN
    BY <1>3, Numbers
  <2>2. Codes!CodeTable[extended][k] = Codes!CodeTable[FALSE][k]
    BY <1>3, <2>1, SameHands, Zenon DEF Handler
  <2>3. QED
    BY <2>2 DEF KeyCode
<1>5. code \in AdbCode
  BY <1>3, CodeTyped, Zenon
<1>6. k \in {0, 1} => code = 255
  BY <1>3, CodeOfNone
<1>7. code \in Codes!ModifierCode <=> k \in Codes!Modifier
  BY <1>3, CodeOfModifier, Zenon
<1>8. code + 1 \in 1 .. 52 /\ Codes!Layout[code + 1] = c.sign
  BY <1>2, <1>4, LayoutFacts, Zenon
<1>. HIDE DEF code
<1>9. code \in 0 .. 51
  BY <1>5, <1>8 DEF AdbCode
<1>10. k \notin {0, 1}
  BY <1>6, <1>9
<1>11. QED
  BY <1>1, <1>3, <1>7, <1>8, <1>9, <1>10, Zenon DEF k, code

\* A character is typed: the Macintosh reads its sign.
LEMMA TypesOne ==
  ASSUME Handler, mac \subseteq 0 .. 127, personal \in PcState,
         NEW s, Calm(s), NEW c, Codes!Readable(c)
  PROVE  /\ Calm(Codes!Types(s, c))
         /\ Codes!Types(s, c).text = Append(s.text, c)
<1>. DEFINE k == Codes!char_to_usb_keycode(c)
            code == KeyCode(k)
            D == Codes!Down(k)
            U == Codes!Up(k)
            SD == Codes!Down(225)
            SU == Codes!Up(225)
<1>1. /\ c = [sign |-> c.sign, shift |-> c.shift] /\ c.shift \in BOOLEAN
      /\ k \in 0 .. 255 /\ k \notin {0, 1, 57} /\ k \notin Codes!Modifier /\ k \notin Codes!QueuedTwice
      /\ code \in 0 .. 51 /\ code \notin Codes!ModifierCode
      /\ Codes!Layout[code + 1] = c.sign
  BY CharFacts
<1>. HIDE DEF k
<1>2. s \in EndState /\ s.mac \cap (Codes!ModifierCode \cup {57}) = {}
  BY DEF Calm, Within
<1>3. D \in CodeEvent /\ D.code = code /\ ~D.up
  <2>1. D = [code |-> code, up |-> FALSE] /\ D \in CodeEvent
    BY <1>1, EventFacts, ZenonT(30)
  <2>2. QED
    BY <2>1
<1>4. U \in CodeEvent /\ U.code = code /\ U.up
  <2>1. U = [code |-> code, up |-> code # 255]
    BY <1>1, EventFacts, ZenonT(30)
  <2>2. U \in CodeEvent
    BY <1>1, EventFacts, Zenon
  <2>3. code # 255
    BY <1>1
  <2>4. U.code = code /\ U.up = (code # 255)
    BY <2>1
  <2>5. QED
    BY <2>2, <2>3, <2>4, Zenon
<1>5. KeyCode(225) = 56 /\ 225 \in 0 .. 255
  <2>1. KeyCode(225) = 56
    BY ShiftCode, Zenon
  <2>2. QED
    BY <2>1
<1>6. SD \in CodeEvent /\ SD.code = 56 /\ ~SD.up
  <2>1. SD = [code |-> KeyCode(225), up |-> FALSE] /\ SD \in CodeEvent
    BY <1>5, EventFacts
  <2>2. QED
    BY <1>5, <2>1
<1>7. SU \in CodeEvent /\ SU.code = 56 /\ SU.up
  <2>1. SU = [code |-> KeyCode(225), up |-> KeyCode(225) # 255]
    BY <1>5, EventFacts
  <2>2. SU \in CodeEvent
    BY <1>5, EventFacts
  <2>3. SU.code = KeyCode(225) /\ SU.up = (KeyCode(225) # 255)
    BY <2>1
  <2>4. KeyCode(225) # 255
    BY <1>5
  <2>5. SU.up
    BY <2>3, <2>4, Zenon
  <2>6. QED
    BY <1>5, <2>2, <2>3, <2>5, Zenon
<1>8. /\ Codes!OnKeyDown(k) = <<D>> /\ Codes!OnKeyUp(k) = <<U>>
      /\ Codes!OnKeyDown(\hE1) = <<SD>> /\ Codes!OnKeyUp(\hE1) = <<SU>>
  <2>1. Codes!OnKeyDown(k) = <<D>> /\ Codes!OnKeyUp(k) = <<U>>
    BY <1>1, Numbers DEF Codes!OnKeyDown, Codes!OnKeyUp, Codes!NoUsage, Codes!Twice
  <2>2. 225 \notin Codes!QueuedTwice /\ 225 \notin {0, 1, 57} /\ \hE1 = 225
    BY DEF Codes!QueuedTwice
  <2>3. Codes!OnKeyDown(\hE1) = <<SD>> /\ Codes!OnKeyUp(\hE1) = <<SU>>
    BY <2>2, Numbers DEF Codes!OnKeyDown, Codes!OnKeyUp, Codes!NoUsage, Codes!Twice
  <2>4. QED
    BY <2>1, <2>3
<1>. HIDE DEF D, U, SD, SU
<1>9. CASE ~c.shift
  <2>. DEFINE t == Codes!Gets(Codes!Gets(s, D), U)
  <2>1. Codes!Types(s, c) = t
    <3>1. Codes!Keystroke(c) = <<D>> \o <<U>>
      BY <1>8, <1>9, Zenon DEF Codes!Keystroke, k
    <3>2. Codes!After(s, <<D>> \o <<U>>) = t
      BY <1>2, <1>3, <1>4, AfterTwo
    <3>3. QED
      BY <3>1, <3>2, Zenon DEF Codes!Types
  <2>2. /\ t \in EndState /\ t.mac = s.mac \ {code}
        /\ t.pc.s_keys \subseteq s.pc.s_keys /\ t.pc.s_mod = s.pc.s_mod
        /\ t.text = Append(s.text, Codes!Reads(s.mac, code))
    <3>1. /\ D.code = U.code /\ ~D.up /\ U.up /\ D.code \in 0 .. 51 /\ D.code \notin Codes!ModifierCode
          /\ D \in CodeEvent /\ U \in CodeEvent
      BY <1>1, <1>3, <1>4
    <3>2. /\ t \in EndState /\ t.mac = s.mac \ {D.code}
          /\ t.pc.s_keys \subseteq s.pc.s_keys /\ t.pc.s_mod = s.pc.s_mod
          /\ t.text = Append(s.text, Codes!Reads(s.mac, D.code))
      BY <1>2, <3>1, KeyGoes
    <3>3. QED
      BY <1>3, <3>2
  <2>3. Codes!Reads(s.mac, code) = c
    <3>1. s.mac \cap {\h36, \h37, \h3A, \h7C, \h7D} = {} /\ s.mac \cap {\h38, \h39, \h7B} = {}
      BY <1>2, Numbers
    <3>2. ~(code >= Len(Codes!Layout))
      BY <1>1, LayoutFacts
    <3>3. Codes!Reads(s.mac, code) = [sign |-> Codes!Layout[code + 1], shift |-> FALSE]
      BY <3>1, <3>2, Zenon DEF Codes!Reads
    <3>4. c.shift = FALSE
      BY <1>1, <1>9
    <3>5. QED
      BY <1>1, <3>3, <3>4, Zenon
  <2>4. QED
    BY <1>2, <2>1, <2>2, <2>3 DEF Calm, Within
<1>10. CASE c.shift
  <2>. DEFINE s1 == Codes!Gets(s, SD)
              s3 == Codes!Gets(Codes!Gets(s1, D), U)
              s4 == Codes!Gets(s3, SU)
              bit == Codes!adb_code_to_modifier[56]
  <2>1. Codes!Types(s, c) = s4
    <3>1. Codes!Keystroke(c) = <<SD>> \o <<D>> \o <<U>> \o <<SU>>
      BY <1>8, <1>10, Zenon DEF Codes!Keystroke, k
    <3>2. Codes!After(s, <<SD>> \o <<D>> \o <<U>> \o <<SU>>) = s4
      BY <1>2, <1>3, <1>4, <1>6, <1>7, AfterFour
    <3>3. QED
      BY <3>1, <3>2, Zenon DEF Codes!Types
  <2>2. 56 \in Codes!ModifierCode
    BY Numbers
  <2>3. /\ s1 \in EndState /\ s1.mac = s.mac \cup {56} /\ s1.text = s.text
        /\ s1.pc.s_keys = s.pc.s_keys /\ s1.pc.s_mod = s.pc.s_mod \cup {bit}
    <3>1. s1 \in EndState
      BY <1>2, <1>6, GetsFacts
    <3>2. SD.code \in Codes!ModifierCode
      BY <1>6, <2>2
    <3>3. /\ s1.mac = IF SD.up THEN s.mac \ {SD.code} ELSE s.mac \cup {SD.code}
          /\ s1.pc.s_keys = s.pc.s_keys
          /\ s1.pc.s_mod = Bits(s.pc.s_mod, SD.code, SD.up)
          /\ s1.text = s.text
      BY <1>2, <1>6, <3>2, ModifierGoes, Zenon
    <3>4. QED
      BY <1>6, <3>1, <3>3 DEF Bits
  <2>. HIDE DEF s1
  <2>4. /\ s3 \in EndState /\ s3.mac = s1.mac \ {code}
        /\ s3.pc.s_keys \subseteq s1.pc.s_keys /\ s3.pc.s_mod = s1.pc.s_mod
        /\ s3.text = Append(s1.text, Codes!Reads(s1.mac, code))
    <3>1. /\ D.code = U.code /\ ~D.up /\ U.up /\ D.code \in 0 .. 51 /\ D.code \notin Codes!ModifierCode
          /\ D \in CodeEvent /\ U \in CodeEvent
      BY <1>1, <1>3, <1>4
    <3>2. /\ s3 \in EndState /\ s3.mac = s1.mac \ {D.code}
          /\ s3.pc.s_keys \subseteq s1.pc.s_keys /\ s3.pc.s_mod = s1.pc.s_mod
          /\ s3.text = Append(s1.text, Codes!Reads(s1.mac, D.code))
      <4>1. s1 \in EndState
        BY <2>3
      <4>2. QED
        BY <3>1, <4>1, KeyGoes
    <3>3. QED
      BY <1>3, <3>2
  <2>5. Codes!Reads(s1.mac, code) = c
    <3>1. s1.mac \cap {\h36, \h37, \h3A, \h7C, \h7D} = {} /\ s1.mac \cap {\h38, \h39, \h7B} # {}
      BY <1>2, <2>3, Numbers
    <3>2. ~(code >= Len(Codes!Layout))
      BY <1>1, LayoutFacts
    <3>3. Codes!Reads(s1.mac, code) = [sign |-> Codes!Layout[code + 1], shift |-> TRUE]
      BY <3>1, <3>2, Zenon DEF Codes!Reads
    <3>4. c.shift = TRUE
      BY <1>1, <1>10
    <3>5. QED
      BY <1>1, <3>3, <3>4, Zenon
  <2>. HIDE DEF s3
  <2>6. /\ s4 \in EndState /\ s4.mac = s3.mac \ {56} /\ s4.text = s3.text
        /\ s4.pc.s_keys = s3.pc.s_keys /\ s4.pc.s_mod = s3.pc.s_mod \ {bit}
    <3>1. s4 \in EndState
      BY <1>7, <2>4, GetsFacts
    <3>2. SU.code \in Codes!ModifierCode
      BY <1>7, <2>2
    <3>3. /\ s4.mac = IF SU.up THEN s3.mac \ {SU.code} ELSE s3.mac \cup {SU.code}
          /\ s4.pc.s_keys = s3.pc.s_keys
          /\ s4.pc.s_mod = Bits(s3.pc.s_mod, SU.code, SU.up)
          /\ s4.text = s3.text
      BY <1>7, <2>4, <3>2, ModifierGoes, Zenon
    <3>4. QED
      BY <1>7, <3>1, <3>3 DEF Bits
  <2>. HIDE DEF s4
  <2>7. s4.mac \subseteq s.mac /\ s4.pc.s_keys \subseteq s.pc.s_keys /\ s4.pc.s_mod \subseteq s.pc.s_mod
    BY <2>3, <2>4, <2>6
  <2>8. s4.text = Append(s.text, c)
    BY <2>3, <2>4, <2>5, <2>6, Zenon
  <2>9. QED
    BY <1>2, <2>1, <2>6, <2>7, <2>8 DEF Calm, Within
<1>11. QED
  BY <1>1, <1>9, <1>10

CalmState == {s \in EndState : Calm(s)}

LEMMA CalmStays ==
  ASSUME Handler, mac \subseteq 0 .. 127, personal \in PcState,
         NEW s \in CalmState, NEW c, Codes!Readable(c)
  PROVE  Codes!Types(s, c) \in CalmState /\ Codes!Types(s, c).text = Append(s.text, c)
<1>1. Calm(s)
  BY DEF CalmState
<1>2. Calm(Codes!Types(s, c)) /\ Codes!Types(s, c).text = Append(s.text, c)
  BY <1>1, TypesOne
<1>3. Codes!Types(s, c) \in EndState
  BY <1>2 DEF Calm, Within
<1>4. QED
  BY <1>2, <1>3 DEF CalmState

\* A message, and what each of its characters makes of the two ends
IsMessage(m) == Len(m) \in Nat /\ DOMAIN m = 1 .. Len(m) /\ \A i \in 1 .. Len(m) : Codes!Readable(m[i])
TypedAlong(f, s, m) ==
  /\ f[0] = s /\ f[Len(m)] = Codes!Written(s, m)
  /\ \A i \in 1 .. Len(m) : f[i] = Codes!Types(f[i - 1], m[i])

\* A message is typed character by character.
LEMMA WrittenFolds ==
  ASSUME Handler, mac \subseteq 0 .. 127, personal \in PcState,
         NEW s \in CalmState, NEW m, IsMessage(m)
  PROVE  \E f : TypedAlong(f, s, m)
<1>. DEFINE n == Len(m)
            G == [i \in 1 .. n |-> [x \in CalmState |-> Codes!Types(x, m[i])]]
            Eq(it) == it = [t \in SUBSET (1 .. n) |->
                        IF t = {} THEN s
                        ELSE Codes!Types(it[t \ {Codes!Max(t)}], m[Codes!Max(t)])]
            c == CHOOSE it : Eq(it)
<1>1. n \in Nat /\ DOMAIN m = 1 .. n /\ \A i \in 1 .. n : Codes!Readable(m[i])
  BY DEF IsMessage
<1>. HIDE DEF n
<1>2. G \in [1 .. n -> [CalmState -> CalmState]]
  <2>1. ASSUME NEW i \in 1 .. n, NEW x \in CalmState PROVE Codes!Types(x, m[i]) \in CalmState
    BY <1>1, CalmStays
  <2>2. QED
    BY <2>1
<1>3. \E it : Eq(it)
  <2>1. PICK it \in [SUBSET (1 .. n) -> CalmState] : \A t \in SUBSET (1 .. n) :
          it[t] = IF t = {} THEN s ELSE G[Codes!Max(t)][it[t \ {Codes!Max(t)}]]
    <3>1. PICK it : FoldsUp(it, CalmState, n, s, G)
      <4>. HIDE DEF G
      <4>1. QED
        BY <1>1, <1>2, FoldDefined
    <3>2. QED
      BY <3>1, Zenon DEF FoldsUp
  <2>2. ASSUME NEW t \in SUBSET (1 .. n), t # {}
        PROVE  it[t] = Codes!Types(it[t \ {Codes!Max(t)}], m[Codes!Max(t)])
    <3>1. Codes!Max(t) \in 1 .. n
      BY <1>1, <2>2, TopIn, Zenon
    <3>2. it[t \ {Codes!Max(t)}] \in CalmState
      OBVIOUS
    <3>3. QED
      BY <2>1, <2>2, <3>1, <3>2, Zenon
  <2>3. it = [t \in SUBSET (1 .. n) |-> it[t]]
    OBVIOUS
  <2>4. \A t \in SUBSET (1 .. n) : it[t] =
          IF t = {} THEN s ELSE Codes!Types(it[t \ {Codes!Max(t)}], m[Codes!Max(t)])
    BY <2>1, <2>2, Zenon
  <2>5. Eq(it)
    BY <2>3, <2>4, Zenon
  <2>6. QED
    BY <2>5, Zenon
<1>4. Eq(c)
  BY <1>3, Zenon
<1>5. Codes!Written(s, m) = c[1 .. n]
  BY <1>1 DEF Codes!Written, Codes!FoldLeft, Codes!MapThenFoldSet
<1>. HIDE DEF c
<1>. DEFINE f == [i \in 0 .. n |-> c[1 .. i]]
<1>6. f[0] = s
  BY <1>1, <1>4
<1>7. ASSUME NEW i \in 1 .. n PROVE f[i] = Codes!Types(f[i - 1], m[i])
  <2>1. i \in Nat \ {0} /\ i \in 0 .. n /\ i - 1 \in 0 .. n /\ 1 .. i \in SUBSET (1 .. n)
    BY <1>1
  <2>2. f[i] = c[1 .. i] /\ f[i - 1] = c[1 .. i - 1]
    BY <2>1
  <2>3. c[1 .. i] = Codes!Types(c[(1 .. i) \ {i}], m[i])
    BY <1>4, <2>1, Downwards, Zenon
  <2>4. QED
    BY <2>1, <2>2, <2>3, Downwards, Zenon
<1>8. f[n] = c[1 .. n]
  BY <1>1
<1>. HIDE DEF f
<1>9. QED
  BY <1>5, <1>6, <1>7, <1>8 DEF n, TypedAlong

\* The text is the message, and nothing else is left of it.
LEMMA WrittenIs ==
  ASSUME Handler, mac \subseteq 0 .. 127, personal \in PcState,
         NEW s \in CalmState, s.text = <<>>, NEW m, Len(m) \in Nat, m \in Seq(Codes!Range(m)),
         \A i \in 1 .. Len(m) : Codes!Readable(m[i])
  PROVE  Codes!Written(s, m) \in CalmState /\ Codes!Written(s, m).text = m
<1>. DEFINE n == Len(m)
<1>1. n \in Nat /\ DOMAIN m = 1 .. n /\ m = [i \in 1 .. n |-> m[i]]
  OBVIOUS
<1>2. \A i \in 1 .. n : Codes!Readable(m[i])
  OBVIOUS
<1>3. PICK f : /\ f[0] = s /\ f[n] = Codes!Written(s, m)
               /\ \A i \in 1 .. n : f[i] = Codes!Types(f[i - 1], m[i])
  <2>1. IsMessage(m)
    BY <1>1, <1>2 DEF IsMessage
  <2>2. PICK f : TypedAlong(f, s, m)
    BY <2>1, WrittenFolds, Zenon
  <2>3. QED
    BY <2>2 DEF TypedAlong
<1>. HIDE DEF n
<1>. DEFINE So(i) == f[i] \in CalmState /\ Len(f[i].text) = i /\ \A j \in 1 .. i : f[i].text[j] = m[j]
            T == {i \in Nat : i <= n => So(i)}
<1>4. So(0)
  <2>1. f[0] \in CalmState /\ f[0].text = <<>>
    BY <1>3
  <2>2. QED
    BY <2>1
<1>5. ASSUME NEW i \in Nat, i + 1 <= n, So(i) PROVE So(i + 1)
  <2>1. i + 1 \in 1 .. n /\ (i + 1) - 1 = i
    BY <1>1, <1>5
  <2>2. f[i + 1] = Codes!Types(f[i], m[i + 1]) /\ Codes!Readable(m[i + 1])
    BY <1>2, <1>3, <2>1
  <2>3. f[i] \in CalmState
    BY <1>5
  <2>4. f[i + 1] \in CalmState /\ f[i + 1].text = Append(f[i].text, m[i + 1])
    BY <2>2, <2>3, CalmStays, Zenon
  <2>5. f[i].text \in Seq(Read) /\ Len(f[i].text) = i
    BY <1>5 DEF CalmState, EndState
  <2>6. Len(f[i + 1].text) = i + 1 /\ f[i + 1].text[i + 1] = m[i + 1]
    BY <2>4, <2>5
  <2>7. \A j \in 1 .. i : f[i + 1].text[j] = f[i].text[j]
    BY <2>4, <2>5
  <2>8. \A j \in 1 .. i : f[i + 1].text[j] = m[j]
    BY <1>5, <2>7
  <2>9. \A j \in 1 .. i + 1 : j \in 1 .. i \/ j = i + 1
    OBVIOUS
  <2>10. QED
    BY <2>4, <2>6, <2>8, <2>9
<1>. HIDE DEF So
<1>6. 0 \in T /\ \A i \in Nat : i \in T => i + 1 \in T
  BY <1>1, <1>4, <1>5
<1>. HIDE DEF T
<1>7. n \in T
  BY <1>1, <1>6, Induction
<1>8. So(n)
  BY <1>1, <1>7 DEF T
<1>9. f[n] \in CalmState /\ Len(f[n].text) = n /\ \A j \in 1 .. n : f[n].text[j] = m[j]
  BY <1>8 DEF So
<1>10. f[n].text \in Seq(Read)
  BY <1>9 DEF CalmState, EndState
<1>11. f[n].text = [j \in 1 .. n |-> f[n].text[j]]
  <2>. DEFINE t == f[n].text
  <2>1. t \in Seq(Read) /\ Len(t) = n
    BY <1>9, <1>10
  <2>. HIDE DEF t
  <2>2. t = [j \in 1 .. Len(t) |-> t[j]]
    BY <2>1
  <2>3. QED
    BY <2>1, <2>2 DEF t
<1>12. f[n].text = m
  BY <1>1, <1>9, <1>11
<1>13. QED
  BY <1>3, <1>9, <1>12

\* The step that types a message
LEMMA SendStringStep ==
  ASSUME CodesInv, NEW m \in Sentence, Codes!SendString(m)
  PROVE  CodesInv'
<1>1. Handler
  BY DEF CodesInv, CodesTyped
<1>2. mac \subseteq 0 .. 127 /\ personal \in PcState
  BY DEF CodesInv, CodesTyped
<1>. DEFINE s == Codes!After(Codes!Ends, Codes!ForceUp)
            t == Codes!Written(s, m)
<1>3. /\ mac' = t.mac /\ personal' = t.pc /\ text' = t.text
      /\ message' = m /\ keys' = keys /\ held' = held /\ extended' = extended /\ dropped' = dropped
      /\ clash' = TRUE /\ bmCapsLock' = FALSE
  BY DEF Codes!SendString
<1>4. s \in CalmState /\ s.text = <<>>
  <2>1. Calm(s) /\ s.text = <<>>
    BY ForcedCalm
  <2>2. s \in EndState
    BY <2>1 DEF Calm, Within
  <2>. HIDE DEF s
  <2>3. QED
    BY <2>1, <2>2 DEF CalmState
<1>5. m \in Seq(Codes!Range(m)) /\ \A c \in Codes!Range(m) : Codes!Readable(c)
  BY CodesAssumed, Zenon DEF Codes!KeyAssumption
<1>6. /\ m \in Seq(Codes!Range(m)) /\ Len(m) \in Nat
      /\ \A i \in 1 .. Len(m) : Codes!Readable(m[i])
  <2>1. Len(m) \in Nat /\ DOMAIN m = 1 .. Len(m)
    BY <1>5
  <2>2. \A i \in 1 .. Len(m) : m[i] \in Codes!Range(m)
    BY <2>1 DEF Codes!Range
  <2>3. QED
    BY <1>5, <2>1, <2>2
<1>. HIDE DEF s
<1>7. t \in CalmState /\ t.text = m
  BY <1>1, <1>2, <1>4, <1>6, WrittenIs
<1>. HIDE DEF t
<1>8. /\ t.mac \subseteq mac /\ t.mac \subseteq 0 .. 127 /\ t.pc \in PcState
      /\ t.pc.s_keys \subseteq personal.s_keys /\ t.pc.s_mod \subseteq personal.s_mod
  BY <1>7 DEF CalmState, Calm, Within, EndState
<1>9. CodesTyped'
  <2>1. keys \in KeySet /\ held \subseteq keys /\ held \subseteq 0 .. 255 /\ dropped \in BOOLEAN
    BY DEF CodesInv, CodesTyped
  <2>2. QED
    BY <1>1, <1>3, <1>7, <1>8, <2>1, Zenon DEF CodesTyped, Handler
<1>10. NothingElse'
  <2>1. MacKeys' = MacKeys /\ PcKeys' = PcKeys /\ PcMods' = PcMods
    BY <1>3 DEF MacKeys, PcKeys, PcMods, Pushing, Typing, KeyCode
  <2>2. /\ mac \subseteq MacKeys \cup {Codes!CapsKey}
        /\ personal.s_keys \subseteq PcKeys /\ personal.s_mod \subseteq PcMods
    BY DEF CodesInv, NothingElse
  <2>3. QED
    BY <1>3, <1>8, <2>1, <2>2 DEF NothingElse
<1>11. MacFollows' /\ PcHasAll'
  BY <1>3 DEF MacFollows, PcHasAll
<1>12. QED
  BY <1>9, <1>10, <1>11 DEF CodesInv

(* ------------------- what the invariant says of both ends -------------- *)

\* Nothing is pressed at first.
LEMMA CodesStart ==
  ASSUME Codes!Init
  PROVE  CodesInv
<1>1. /\ keys \in KeySet /\ held = {} /\ extended = FALSE /\ bmCapsLock = FALSE /\ mac = {}
      /\ personal = [s_keys |-> {}, s_mod |-> {}] /\ message = <<>> /\ text = <<>>
      /\ clash = FALSE /\ dropped = FALSE
  BY DEF Codes!Init
<1>2. personal \in PcState /\ personal.s_keys = {} /\ personal.s_mod = {}
  BY <1>1, NoKeys DEF PcState
<1>3. CodesTyped
  BY <1>1, <1>2, Zenon DEF CodesTyped, Handler
<1>4. NothingElse
  BY <1>1, <1>2 DEF NothingElse
<1>5. Typing = {}
  BY <1>1 DEF Typing
<1>6. MacKeys = {} /\ PcKeys = {} /\ PcMods = {}
  BY <1>1, <1>5 DEF MacKeys, PcKeys, PcMods, Pushing
<1>7. MacFollows
  BY <1>1, <1>6 DEF MacFollows
<1>8. Cardinality(held \ Codes!Modifier) <= 6
  <2>1. held \ Codes!Modifier = {}
    BY <1>1
  <2>2. QED
    BY <2>1, FS_EmptySet
<1>9. PcHasAll
  BY <1>1, <1>6, <1>8 DEF PcHasAll
<1>10. QED
  BY <1>3, <1>4, <1>7, <1>9 DEF CodesInv

\* Every step keeps it.
LEMMA CodesStep ==
  ASSUME CodesInv, [TypingNext]_all_vars
  PROVE  CodesInv'
<1>1. CASE Codes!Next
  <2>1. CASE \E k \in keys : Codes!Press(k)
    BY <2>1, PressStep
  <2>2. CASE \E k \in keys : Codes!Release(k)
    <3>1. PICK k \in keys : Codes!Release(k)
      BY <2>2
    <3>2. k \in held
      BY <3>1 DEF Codes!Release
    <3>3. QED
      BY <3>1, <3>2, ReleaseStep
  <2>3. CASE Codes!SetHandler
    BY <2>3, SetHandlerStep
  <2>4. CASE \E m \in Sentence : Codes!SendString(m)
    BY <2>4, SendStringStep
  <2>5. QED
    BY <1>1, <2>1, <2>2, <2>3, <2>4 DEF Codes!Next
<1>2. CASE UNCHANGED code_vars
  <2>1. /\ keys' = keys /\ held' = held /\ extended' = extended /\ bmCapsLock' = bmCapsLock
        /\ mac' = mac /\ personal' = personal /\ message' = message /\ text' = text
        /\ clash' = clash /\ dropped' = dropped
    BY <1>2 DEF code_vars
  <2>2. CodesTyped'
    BY <2>1 DEF CodesInv, CodesTyped, Handler
  <2>3. MacKeys' = MacKeys /\ PcKeys' = PcKeys /\ PcMods' = PcMods
    BY <2>1 DEF MacKeys, PcKeys, PcMods, Pushing, Typing, KeyCode
  <2>4. NothingElse'
    BY <2>1, <2>3 DEF CodesInv, NothingElse
  <2>5. MacFollows'
    BY <2>1, <2>3 DEF CodesInv, MacFollows, Alike
  <2>6. PcHasAll'
    BY <2>1, <2>3 DEF CodesInv, PcHasAll, KeyCode
  <2>7. QED
    BY <2>2, <2>4, <2>5, <2>6 DEF CodesInv
<1>3. QED
  BY <1>1, <1>2 DEF TypingNext, all_vars

LEMMA EndsTyped ==
  ASSUME CodesInv
  PROVE  Codes!TypeOK
<1>1. /\ keys \in KeySet /\ held \subseteq keys /\ extended \in BOOLEAN /\ bmCapsLock \in BOOLEAN
      /\ clash \in BOOLEAN /\ dropped \in BOOLEAN /\ message \in Sentence \cup {<<>>}
  BY DEF CodesInv, CodesTyped, Handler
<1>2. mac \subseteq 0 .. \h7F
  <2>1. mac \subseteq 0 .. 127
    BY DEF CodesInv, CodesTyped
  <2>2. QED
    BY <2>1, Hex, Zenon
<1>3. /\ personal.s_keys \subseteq 1 .. 255 /\ Cardinality(personal.s_keys) <= 6
      /\ personal.s_mod \subseteq Codes!Modifier
  BY Zenon DEF CodesInv, CodesTyped, PcState, ReportKeys
<1>4. personal.s_keys \subseteq Codes!Usage \ {0}
  BY <1>3, Numbers
<1>5. Codes!Cardinality(personal.s_keys) <= 6
  BY <1>3, Counted
<1>6. Len(text) = Len(message)
  BY DEF CodesInv, CodesTyped
<1>7. QED
  BY <1>1, <1>2, <1>3, <1>4, <1>5, <1>6, Zenon DEF Codes!TypeOK

LEMMA MacAgrees ==
  ASSUME CodesInv
  PROVE  Codes!HostHoldsKeys
<1>. SUFFICES ASSUME ~clash PROVE mac \ Codes!CapsCode = MacKeys
  BY DEF Codes!HostHoldsKeys, MacKeys, Typing, KeyCode, Codes!usb_keycode_to_adb_code
<1>1. Codes!CapsCode = {57} /\ Codes!CapsKey = 57
  BY Numbers DEF Codes!CapsCode
<1>2. mac \subseteq MacKeys \cup {57} /\ MacKeys \subseteq mac
  BY <1>1 DEF CodesInv, NothingElse, MacFollows
<1>3. 57 \notin MacKeys
  BY NoCapsHeld DEF CodesInv, CodesTyped
<1>4. QED
  BY <1>1, <1>2, <1>3

LEMMA PcAgrees ==
  ASSUME CodesInv
  PROVE  Codes!PcHoldsKeys
<1>. DEFINE sent == {k \in held \ {Codes!CapsKey} : Codes!adb_keycode_valid(Codes!usb_keycode_to_adb_code(k))}
            seen == personal.s_keys \cup personal.s_mod
<1>. SUFFICES ASSUME ~clash, ~dropped
              PROVE  /\ \A k \in sent : Codes!Same(k) \cap seen # {}
                     /\ \A usb \in seen : Codes!Same(usb) \cap sent # {}
  BY DEF Codes!PcHoldsKeys
<1>1. Handler /\ held \subseteq 0 .. 255
  BY DEF CodesInv, CodesTyped
<1>2. /\ personal.s_keys \subseteq PcKeys /\ personal.s_mod \subseteq PcMods
      /\ PcKeys \subseteq personal.s_keys /\ PcMods \subseteq personal.s_mod
  BY DEF CodesInv, NothingElse, PcHasAll
<1>3. /\ \A k \in Codes!Modifier : Alike(Codes!adb_code_to_modifier[KeyCode(k)], k)
      /\ \A k \in 0 .. 255 : k \notin Codes!Modifier /\ k # 57 /\ Valid(KeyCode(k)) =>
           Alike(Codes!s_adb_to_usb[KeyCode(k)], k) /\ Codes!s_adb_to_usb[KeyCode(k)] # 0
  BY <1>1, InverseFacts
<1>4. sent = {k \in held \ {57} : Valid(KeyCode(k))}
  BY Numbers DEF Valid, KeyCode, Codes!usb_keycode_to_adb_code
<1>5. \A i, j : j \in Codes!Same(i) <=> Alike(j, i)
  BY DEF Codes!Same, Alike
<1>6. \A i, j : Alike(j, i) => Alike(i, j)
  BY AlikeBothWays
<1>. HIDE DEF sent
<1>7. ASSUME NEW k \in sent PROVE \E usb \in seen : Alike(usb, k)
  <2>1. k \in held /\ k \in 0 .. 255 /\ k # 57 /\ Valid(KeyCode(k))
    BY <1>1, <1>4
  <2>2. CASE k \in Codes!Modifier
    <3>1. Codes!adb_code_to_modifier[KeyCode(k)] \in PcMods
      BY <2>1, <2>2 DEF PcMods
    <3>2. QED
      BY <1>2, <1>3, <2>2, <3>1
  <2>3. CASE k \notin Codes!Modifier
    <3>1. k \notin {0, 1}
      <4>1. k \in {0, 1} => KeyCode(k) = 255
        BY <1>1, <2>1, CodeOfNone
      <4>2. KeyCode(k) < 127
        BY <2>1, Numbers
      <4>3. QED
        BY <4>1, <4>2
    <3>2. k \in Pushing
      BY <2>1, <2>3, <3>1, Numbers DEF Pushing, Typing
    <3>3. Codes!s_adb_to_usb[KeyCode(k)] \in PcKeys
      BY <3>2 DEF PcKeys
    <3>4. QED
      BY <1>2, <1>3, <2>1, <2>3, <3>3, Zenon
  <2>4. QED
    BY <2>2, <2>3
<1>8. ASSUME NEW usb \in seen PROVE \E k \in sent : Alike(usb, k)
  <2>1. CASE usb \in personal.s_keys
    <3>1. PICK k \in Pushing : usb = Codes!s_adb_to_usb[KeyCode(k)]
      BY <1>2, <2>1 DEF PcKeys
    <3>2. k \in held /\ k \notin Codes!Modifier /\ k # 57 /\ Valid(KeyCode(k))
      BY Numbers DEF Pushing, Typing
    <3>3. k \in sent
      BY <1>4, <3>2
    <3>4. Alike(usb, k)
      BY <1>1, <1>3, <3>1, <3>2, Zenon
    <3>5. QED
      BY <3>3, <3>4
  <2>2. CASE usb \in personal.s_mod
    <3>1. PICK k \in held \cap Codes!Modifier : usb = Codes!adb_code_to_modifier[KeyCode(k)]
      BY <1>2, <2>2 DEF PcMods
    <3>2. Valid(KeyCode(k)) /\ k # 57
      <4>1. \A j \in held : Valid(KeyCode(j))
        BY DEF CodesInv, PcHasAll
      <4>2. k # 57
        BY Numbers
      <4>3. QED
        BY <4>1, <4>2
    <3>3. k \in sent
      BY <1>4, <3>2
    <3>4. Alike(usb, k)
      BY <1>3, <3>1
    <3>5. QED
      BY <3>3, <3>4
  <2>3. QED
    BY <2>1, <2>2
<1>. HIDE DEF seen
<1>9. QED
  BY <1>5, <1>6, <1>7, <1>8

LEMMA NoneStuck ==
  ASSUME CodesInv
  PROVE  Codes!NothingStuck
<1>. SUFFICES ASSUME held = {}
              PROVE  mac \subseteq Codes!CapsCode /\ personal.s_keys = {} /\ personal.s_mod = {}
  BY DEF Codes!NothingStuck
<1>1. Typing = {}
  BY DEF Typing
<1>2. MacKeys = {} /\ PcKeys = {} /\ PcMods = {}
  BY <1>1 DEF MacKeys, PcKeys, PcMods, Pushing
<1>3. QED
  BY <1>2 DEF CodesInv, NothingElse, Codes!CapsCode

\* Whatever keys are pressed and whatever messages are typed, the Macintosh and
\* the PC hold the keys that are held, none is stuck at either when all are
\* released, and a message is read as it was meant: for every set of keys and
\* every message over the characters with a key, by what TLC evaluates of the
\* tables (usb_keycode_to_adb_code(), keycode_to_modifier(), s_adb_to_usb and
\* char_to_usb_keycode()).
THEOREM CodesAlwaysAgree == TypingSpec => []CodesAgree
<1>1. TypingInit => CodesInv
  BY CodesStart DEF TypingInit
<1>2. CodesInv /\ [TypingNext]_all_vars => CodesInv'
  BY CodesStep
<1>3. CodesInv => CodesAgree
  <2>1. CodesInv => Codes!MessageReads
    BY DEF CodesInv, CodesTyped, Codes!MessageReads
  <2>2. QED
    BY <2>1, EndsTyped, MacAgrees, PcAgrees, NoneStuck DEF CodesAgree
<1>4. QED
  BY <1>1, <1>2, <1>3, PTL DEF TypingSpec
=============================================================================
