--------------------------- MODULE HostModeProofs ---------------------------
(***************************************************************************)
(* Proofs about host mode.  The reports to the PC (UsbHidDevice), for any  *)
(* ring and any typing: when everything is sent the PC holds what is held, *)
(* and what the ring keeps arrives once and in order.  The ADB bus         *)
(* (AdbHost), for any devices with any addresses, any number of them       *)
(* plugged and pulled out, on a quiet bus or a noisy one: the table of     *)
(* poll targets has one slot per address and room for the keyboard, and    *)
(* without noise a pointing device that answers is found and not moved.    *)
(***************************************************************************)
EXTENDS MCHostMode, FiniteSetTheorems, FunctionTheorems, SequenceTheorems, TLAPS


(* ---------------------- the parts of the invariant --------------------- *)

\* Core 0 between push_key() and the end of usb_hid_send_keyboard()
Making == {"send", "drop", "dropped", "fill", "publish"}
Elsewhere == {"poll", "push", "buttons", "movement", "dirty"}
Tasks == {"task", "take", "report", "advance", "mouse", "buttons", "movement"}

Register == [buttons : SUBSET Button, moved : Nat]
InEndpoint ==
  {Empty} \cup [kind : {"keyboard"}, report : KbdReports]
    \cup [kind : {"pulse"}, press : BOOLEAN]
    \cup [kind : {"mouse"}, buttons : SUBSET Button, moved : Nat]
Past == {"none", "unread", "raced"}

KeysTyped ==
  /\ adbHeld \subseteq Key /\ s_keys \subseteq Key \ Modifier /\ s_mod \subseteq Modifier
  /\ IsFiniteSet(s_keys) /\ Cardinality(s_keys) <= MaxKeys
  /\ events \in Seq([key : Key, up : BOOLEAN]) /\ crowded \in BOOLEAN
  /\ pc0 \in Making \cup Elsewhere
RingTyped ==
  /\ serial \in Nat /\ s_kbd_q \in [Slot -> KbdReports]
  /\ s_kbd_q_head \in Slot /\ s_kbd_q_tail \in Slot /\ dropping \in Slot /\ taking \in Slot
  /\ lost \in Past
MouseTyped ==
  /\ s_mouse \in Register /\ s_mouse_dirty \in BOOLEAN
  /\ moving \in Register /\ readButtons \subseteq Button
PcTyped ==
  /\ mounted \in BOOLEAN /\ endpoint \in InEndpoint
  /\ pcHeld \subseteq Key /\ pcLast \in Nat /\ pcButtons \subseteq Button
  /\ s_caps_pulse_phase \in 0 .. 2
Typed ==
  /\ RingTyped /\ MouseTyped /\ PcTyped
  /\ pc1 \in Tasks
  /\ keyEvents \in Nat /\ pulses \in Nat /\ moves \in Nat

\* Reports are numbered as they are made; none has a number not given yet.
NumbersPast ==
  /\ \A s \in Slot : s_kbd_q[s].n <= serial
  /\ endpoint.kind = "keyboard" => endpoint.report.n <= serial
  /\ pcLast <= serial
  /\ pc0 \in Making => serial > 0

\* Core 1 does nothing before the PC is there, so that until then core 0 has the ring
\* to itself; and it fills an endpoint it has found empty.
EndpointFree ==
  /\ ~mounted => pc1 = "task" /\ endpoint = Empty /\ pcLast = 0 /\ lost # "raced"
  /\ pc1 \in {"take", "report", "buttons", "movement"} => endpoint = Empty
  /\ s_caps_pulse_phase # 0 \/ endpoint.kind = "pulse" => pulses > 0

\* What the report holds is what the keyboard held before the events still to be
\* translated, but for the keys that found no slot.
Undo(held, e) == IF e.up THEN held \cup {e.key} ELSE held \ {e.key}
Follows(held, e) == e.key \in held <=> ~e.up
Current == s_keys \cup s_mod
HeldBefore ==
  IF events = <<>> THEN adbHeld
  ELSE IF Len(events) = 1 THEN Undo(adbHeld, events[1])
  ELSE Undo(Undo(adbHeld, events[2]), events[1])
EventsPending ==
  /\ pc0 = "push" => events # <<>>
  /\ pc0 \in Elsewhere \ {"push"} => events = <<>>
  /\ Len(events) \in 0 .. 2
  /\ Len(events) = 1 => Follows(adbHeld, events[1])
  /\ Len(events) = 2 => /\ Follows(adbHeld, events[2])
                       /\ Follows(Undo(adbHeld, events[2]), events[1])
KeysFollow == Current \subseteq HeldBefore /\ (crowded \/ Current = HeldBefore)

\* Unless it is dirty, or about to be, the mouse cell's buttons are on their way.
ButtonsOnTheirWay ==
  ~s_mouse_dirty /\ pc0 \notin {"movement", "dirty"} =>
    /\ pc1 = "movement" => readButtons = s_mouse.buttons
    /\ pc1 \notin {"buttons", "movement"} =>
         s_mouse.buttons = (IF endpoint.kind = "mouse" THEN endpoint.buttons ELSE pcButtons)

(* --------------------- the ring, while it is not raced ----------------- *)

\* Slots from a on to b.
Dist(a, b) == IF a <= b THEN b - a ELSE b - a + KBD_REPORT_Q

\* The slot core 1 takes next; the reports from there on; the last one published;
\* the last one handed over.
NextOut == IF pc1 = "advance" THEN Succ(taking) ELSE s_kbd_q_tail
Waiting == Dist(NextOut, s_kbd_q_head)
Published == IF pc0 \in Making THEN serial - 1 ELSE serial
HandedOver == Published - Waiting

\* The two ends: core 1 takes where the tail is; core 0 moves it only before the PC
\* is there; the slot that is filled is not one of those that wait.
Ends ==
  /\ pc1 \in {"report", "advance"} => taking = s_kbd_q_tail
  /\ pc1 \in {"take", "report", "advance"} => s_kbd_q_tail # s_kbd_q_head
  /\ pc0 \in {"drop", "dropped"} =>
       lost = "unread" /\ ~mounted /\ Succ(s_kbd_q_head) = s_kbd_q_tail
  /\ pc0 = "dropped" => dropping = s_kbd_q_tail
  /\ pc0 \in {"fill", "publish"} => Succ(s_kbd_q_head) # s_kbd_q_tail
  /\ pc0 = "publish" => s_kbd_q[s_kbd_q_head] = KbdReport

\* The reports that wait are the last ones published, each in its slot.
Numbered ==
  \A s \in Slot : Dist(NextOut, s) < Waiting =>
    s_kbd_q[s].n = HandedOver + 1 + Dist(NextOut, s)

\* The PC has the last report handed over, or has it before it.
Delivered ==
  IF endpoint.kind = "keyboard"
  THEN /\ endpoint.report.n = HandedOver /\ HandedOver > 0
       /\ pcLast = HandedOver - 1 \/ (lost = "unread" /\ pcLast = 0)
  ELSE pcLast = HandedOver \/ (lost = "unread" /\ pcLast = 0)

\* The newest report, wherever it is, holds the keys of s_keys and s_mod.
NewestIsCurrent ==
  pc0 \notin Making =>
    /\ Waiting > 0 => \A s \in Slot : Succ(s) = s_kbd_q_head => s_kbd_q[s].held = Current
    /\ Waiting = 0 /\ endpoint.kind = "keyboard" => endpoint.report.held = Current
    /\ Waiting = 0 /\ endpoint.kind # "keyboard" /\ pulses = 0 => pcHeld = Current

InOrder == HandedOver >= 0 /\ Numbered /\ Delivered /\ NewestIsCurrent

(* ------------------------ the ring and the endpoint -------------------- *)

LEMMA SuccFacts ==
  ASSUME NEW i \in Slot
  PROVE  Succ(i) = (IF i = KBD_REPORT_Q - 1 THEN 0 ELSE i + 1) /\ Succ(i) \in Slot
<1>1. KBD_REPORT_Q \in Nat /\ KBD_REPORT_Q > 1 /\ i \in 0 .. KBD_REPORT_Q - 1
  BY HidAssumption DEF HidAssumption, Slot
<1>2. CASE i = KBD_REPORT_Q - 1
  <2>1. (i + 1) % KBD_REPORT_Q = 0
    BY <1>1, <1>2
  <2>2. QED
    BY <1>1, <1>2, <2>1 DEF Succ, Slot
<1>3. CASE i # KBD_REPORT_Q - 1
  <2>1. i + 1 \in 0 .. KBD_REPORT_Q - 1
    BY <1>1, <1>3
  <2>2. (i + 1) % KBD_REPORT_Q = i + 1
    BY <1>1, <2>1
  <2>3. QED
    BY <1>1, <1>3, <2>1, <2>2 DEF Succ, Slot
<1>4. QED
  BY <1>2, <1>3

LEMMA SuccInjective ==
  ASSUME NEW a \in Slot, NEW b \in Slot, Succ(a) = Succ(b)
  PROVE  a = b
  BY SuccFacts, HidAssumption DEF HidAssumption, Slot

LEMMA DistFacts ==
  ASSUME NEW a \in Slot, NEW b \in Slot
  PROVE  /\ Dist(a, b) \in 0 .. KBD_REPORT_Q - 1
         /\ Dist(a, b) = 0 <=> a = b
         /\ a # b => Dist(Succ(a), b) = Dist(a, b) - 1
         /\ Succ(b) # a => Dist(a, Succ(b)) = Dist(a, b) + 1
         /\ Succ(b) = a => Dist(a, b) = KBD_REPORT_Q - 1
<1>1. /\ KBD_REPORT_Q \in Nat /\ KBD_REPORT_Q > 1
      /\ a \in 0 .. KBD_REPORT_Q - 1 /\ b \in 0 .. KBD_REPORT_Q - 1
  BY HidAssumption DEF HidAssumption, Slot
<1>2. /\ Succ(a) = IF a = KBD_REPORT_Q - 1 THEN 0 ELSE a + 1
      /\ Succ(b) = IF b = KBD_REPORT_Q - 1 THEN 0 ELSE b + 1
  BY SuccFacts
<1>3. QED
  BY <1>1, <1>2 DEF Dist

\* Slots one and the same distance away are the same slot.
LEMMA DistInjective ==
  ASSUME NEW a \in Slot, NEW b \in Slot, NEW c \in Slot, Dist(a, b) = Dist(a, c)
  PROVE  b = c
  BY HidAssumption DEF HidAssumption, Slot, Dist

LEMMA EndpointFacts ==
  ASSUME NEW e \in InEndpoint
  PROVE  /\ e.kind \in {"none", "keyboard", "mouse", "pulse"}
         /\ e.kind = "none" <=> e = Empty
         /\ e.kind = "keyboard" => e.report.n \in Nat /\ e.report.held \subseteq Key
         /\ e.kind = "mouse" => e.buttons \subseteq Button
  BY DEF InEndpoint, Empty, KbdReports

LEMMA EmptyFacts == Empty \in InEndpoint /\ Empty.kind = "none"
  BY DEF InEndpoint, Empty

(* -------------------------- the keyboard's keys ------------------------ *)

KeysInv == KeysTyped /\ EventsPending /\ KeysFollow
key_vars == <<adbHeld, events, s_keys, s_mod, crowded>>

LEMMA InitKeys == Init => KeysInv
<1>. SUFFICES ASSUME Init PROVE KeysInv
  OBVIOUS
<1>1. adbHeld = {} /\ events = <<>> /\ s_keys = {} /\ s_mod = {} /\ crowded = FALSE /\ pc0 = "poll"
  BY DEF Init
<1>2. MaxKeys \in Nat
  BY HidAssumption DEF HidAssumption
<1>3. IsFiniteSet(s_keys) /\ Cardinality(s_keys) <= MaxKeys
  BY <1>1, <1>2, FS_EmptySet
<1>4. QED
  <2>1. events \in Seq([key : Key, up : BOOLEAN]) /\ Len(events) = 0
    BY <1>1
  <2>2. KeysTyped
    BY <1>1, <1>3, <2>1 DEF KeysTyped, Elsewhere
  <2>3. EventsPending /\ KeysFollow
    BY <1>1, <2>1 DEF EventsPending, KeysFollow, Current, HeldBefore
  <2>4. QED
    BY <2>2, <2>3 DEF KeysInv

\* What an event does to the keys held can be undone.
LEMMA UndoAfter ==
  ASSUME NEW held \in SUBSET Key, NEW e \in KeyEvent(held)
  PROVE  /\ e \in [key : Key, up : BOOLEAN] /\ AfterEvent(held, e) \in SUBSET Key
         /\ Undo(AfterEvent(held, e), e) = held /\ Follows(AfterEvent(held, e), e)
  BY DEF KeyEvent, AfterEvent, Undo, Follows

LEMMA AfterUndo ==
  ASSUME NEW held \in SUBSET Key, NEW e \in [key : Key, up : BOOLEAN], Follows(held, e)
  PROVE  /\ AfterEvent(Undo(held, e), e) = held /\ Undo(held, e) \in SUBSET Key
         /\ e.key \in Undo(held, e) <=> e.up
  BY DEF AfterEvent, Undo, Follows

LEMMA RegisterKeepsKeys ==
  ASSUME KeysInv, adb_to_usb_keyboard_reg0
  PROVE  KeysInv'
<1>1. /\ UNCHANGED <<s_keys, s_mod, crowded>> /\ pc0 = "poll" /\ pc0' = "push"
      /\ events = <<>> /\ adbHeld \in SUBSET Key
  BY DEF adb_to_usb_keyboard_reg0, KeysInv, KeysTyped, EventsPending, Elsewhere
<1>2. PICK e \in KeyEvent(adbHeld) :
      \E rest \in {<<>>} \cup {<<f>> : f \in KeyEvent(AfterEvent(adbHeld, e))} :
        /\ events' = <<e>> \o rest
        /\ adbHeld' = IF rest = <<>> THEN AfterEvent(adbHeld, e)
                      ELSE AfterEvent(AfterEvent(adbHeld, e), rest[1])
  BY DEF adb_to_usb_keyboard_reg0
<1>7. PICK rest \in {<<>>} \cup {<<f>> : f \in KeyEvent(AfterEvent(adbHeld, e))} :
        /\ events' = <<e>> \o rest
        /\ adbHeld' = IF rest = <<>> THEN AfterEvent(adbHeld, e)
                      ELSE AfterEvent(AfterEvent(adbHeld, e), rest[1])
  BY <1>2
<1>3. /\ e \in [key : Key, up : BOOLEAN] /\ AfterEvent(adbHeld, e) \in SUBSET Key
      /\ Undo(AfterEvent(adbHeld, e), e) = adbHeld /\ Follows(AfterEvent(adbHeld, e), e)
  BY <1>1, UndoAfter
<1>4. CASE rest = <<>>
  <2>1. events' = <<e>> /\ adbHeld' = AfterEvent(adbHeld, e)
    BY <1>7, <1>3, <1>4
  <2>2. /\ events' \in Seq([key : Key, up : BOOLEAN]) /\ Len(events') = 1 /\ events'[1] = e
        /\ events' # <<>>
    BY <1>3, <2>1
  <2>3. HeldBefore' = adbHeld
    BY <1>3, <2>1, <2>2 DEF HeldBefore
  <2>4. KeysTyped'
    BY <1>1, <1>3, <2>1, <2>2 DEF KeysInv, KeysTyped, Elsewhere
  <2>5. EventsPending'
    BY <1>1, <1>3, <2>1, <2>2 DEF EventsPending
  <2>6. KeysFollow'
    BY <1>1, <2>3 DEF KeysInv, KeysFollow, HeldBefore, Current
  <2>7. QED
    BY <2>4, <2>5, <2>6 DEF KeysInv
<1>5. CASE rest # <<>>
  <2>. DEFINE held == AfterEvent(adbHeld, e)
  <2>1. PICK f \in KeyEvent(held) : rest = <<f>>
    BY <1>7, <1>5
  <2>2. /\ f \in [key : Key, up : BOOLEAN] /\ AfterEvent(held, f) \in SUBSET Key
        /\ Undo(AfterEvent(held, f), f) = held /\ Follows(AfterEvent(held, f), f)
    BY <1>3, UndoAfter
  <2>3. rest[1] = f
    BY <2>1
  <2>4. adbHeld' = AfterEvent(held, f) /\ events' = <<e>> \o <<f>>
    BY <1>7, <1>5, <2>1, <2>3
  <2>5. /\ events' \in Seq([key : Key, up : BOOLEAN]) /\ Len(events') = 2
        /\ events'[1] = e /\ events'[2] = f /\ events' # <<>>
    BY <1>3, <2>2, <2>4
  <2>. HIDE DEF held
  <2>6. HeldBefore' = adbHeld
    <3>1. Undo(held, e) = adbHeld
      BY <1>3 DEF held
    <3>2. QED
      BY <2>2, <2>4, <2>5, <3>1 DEF HeldBefore
  <2>7. KeysTyped'
    BY <1>1, <2>2, <2>4, <2>5 DEF KeysInv, KeysTyped, Elsewhere
  <2>8. EventsPending'
    <3>1. Follows(held, e)
      BY <1>3 DEF held
    <3>2. QED
      BY <1>1, <2>2, <2>4, <2>5, <3>1 DEF EventsPending
  <2>9. KeysFollow'
    BY <1>1, <2>6 DEF KeysInv, KeysFollow, HeldBefore, Current
  <2>10. QED
    BY <2>7, <2>8, <2>9 DEF KeysInv
<1>6. QED
  BY <1>4, <1>5

\* The first of the events waiting is the next thing that happens to HeldBefore.
LEMMA NextEvent ==
  ASSUME KeysInv, pc0 = "push", NEW e, e = Head(events), NEW rest, rest = Tail(events)
  PROVE  /\ e \in [key : Key, up : BOOLEAN] /\ rest \in Seq([key : Key, up : BOOLEAN])
         /\ HeldBefore \in SUBSET Key /\ (e.key \in HeldBefore <=> e.up)
         /\ Len(rest) \in 0 .. 1
         /\ Len(rest) = 0 => rest = <<>> /\ AfterEvent(HeldBefore, e) = adbHeld
         /\ Len(rest) = 1 => /\ Follows(adbHeld, rest[1])
                             /\ AfterEvent(HeldBefore, e) = Undo(adbHeld, rest[1])
<1>1. /\ events \in Seq([key : Key, up : BOOLEAN]) /\ events # <<>> /\ Len(events) \in 1 .. 2
      /\ adbHeld \in SUBSET Key
  BY DEF KeysInv, KeysTyped, EventsPending
<1>2. e = events[1] /\ e \in [key : Key, up : BOOLEAN] /\ rest \in Seq([key : Key, up : BOOLEAN])
      /\ Len(rest) = Len(events) - 1 /\ \A k \in 1 .. Len(events) - 1 : rest[k] = events[k + 1]
  <2>1. e = events[1]
    BY <1>1
  <2>2. events[1] \in [key : Key, up : BOOLEAN]
    <3>1. 1 \in 1 .. Len(events)
      BY <1>1
    <3>2. QED
      BY <1>1, <3>1, ElementOfSeq
  <2>3. /\ rest \in Seq([key : Key, up : BOOLEAN]) /\ Len(rest) = Len(events) - 1
        /\ \A k \in 1 .. Len(events) - 1 : rest[k] = events[k + 1]
    BY <1>1, HeadTailProperties
  <2>4. QED
    BY <2>1, <2>2, <2>3
<1>3. CASE Len(events) = 1
  <2>1. Follows(adbHeld, e) /\ HeldBefore = Undo(adbHeld, e)
    BY <1>1, <1>2, <1>3 DEF KeysInv, EventsPending, HeldBefore
  <2>2. rest = <<>>
    BY <1>2, <1>3
  <2>3. QED
    BY <1>1, <1>2, <1>3, <2>1, <2>2, AfterUndo
<1>4. CASE Len(events) = 2
  <2>. DEFINE f == events[2]
              held == Undo(adbHeld, f)
  <2>1. rest[1] = f /\ f \in [key : Key, up : BOOLEAN]
    <3>1. 1 \in 1 .. Len(events) - 1 /\ 2 \in 1 .. Len(events)
      BY <1>4
    <3>2. rest[1] = events[2]
      <4>1. rest[1] = events[1 + 1] /\ 1 + 1 = 2
        BY <1>2, <3>1
      <4>2. QED
        BY <4>1
    <3>3. events[2] \in [key : Key, up : BOOLEAN]
      BY <1>1, <3>1, ElementOfSeq
    <3>4. QED
      BY <3>2, <3>3
  <2>2. Follows(adbHeld, f) /\ Follows(held, e) /\ HeldBefore = Undo(held, e)
    BY <1>1, <1>2, <1>4 DEF KeysInv, EventsPending, HeldBefore
  <2>3. held \in SUBSET Key
    BY <1>1, <2>1, <2>2, AfterUndo
  <2>. HIDE DEF held
  <2>4. AfterEvent(HeldBefore, e) = held /\ HeldBefore \in SUBSET Key /\ (e.key \in HeldBefore <=> e.up)
    BY <1>2, <2>2, <2>3, AfterUndo
  <2>5. QED
    BY <1>2, <1>4, <2>1, <2>2, <2>4 DEF held
<1>5. Len(events) = 1 \/ Len(events) = 2
  BY <1>1
<1>6. QED
  BY <1>3, <1>4, <1>5

LEMMA PushKeepsKeys ==
  ASSUME KeysInv, push_key
  PROVE  KeysInv'
<1>. DEFINE e == Head(events)
            rest == Tail(events)
<1>1. /\ pc0 = "push" /\ pc0' = "send" /\ events' = rest /\ adbHeld' = adbHeld
      /\ IF e.key \in Modifier
         THEN s_mod' = set_modifier(e) /\ UNCHANGED <<s_keys, crowded>>
         ELSE /\ s_keys' = PushedKeys(e)
              /\ crowded' = (crowded \/ (~e.up /\ e.key \notin s_keys'))
              /\ UNCHANGED s_mod
  BY DEF push_key
<1>. HIDE DEF e, rest
<1>2. /\ e \in [key : Key, up : BOOLEAN] /\ rest \in Seq([key : Key, up : BOOLEAN])
      /\ HeldBefore \in SUBSET Key /\ (e.key \in HeldBefore <=> e.up)
      /\ Len(rest) \in 0 .. 1
      /\ Len(rest) = 0 => rest = <<>> /\ AfterEvent(HeldBefore, e) = adbHeld
      /\ Len(rest) = 1 => /\ Follows(adbHeld, rest[1])
                          /\ AfterEvent(HeldBefore, e) = Undo(adbHeld, rest[1])
  BY <1>1, NextEvent DEF e, rest
<1>3. /\ s_keys \subseteq Key \ Modifier /\ s_mod \subseteq Modifier /\ crowded \in BOOLEAN
      /\ IsFiniteSet(s_keys) /\ Cardinality(s_keys) <= MaxKeys /\ MaxKeys \in Nat
      /\ adbHeld \subseteq Key /\ Modifier \subseteq Key
  BY HidAssumption DEF HidAssumption, KeysInv, KeysTyped
<1>4. IsFiniteSet(PushedKeys(e)) /\ Cardinality(PushedKeys(e)) <= MaxKeys
  <2>1. Cardinality(s_keys) \in Nat
    BY <1>3, FS_CardinalityType
  <2>2. CASE e.up
    <3>1. /\ IsFiniteSet(s_keys \ {e.key})
          /\ Cardinality(s_keys \ {e.key}) = (IF e.key \in s_keys THEN Cardinality(s_keys) - 1
                                              ELSE Cardinality(s_keys))
      BY <1>3, FS_RemoveElement
    <3>2. QED
      BY <1>3, <2>1, <2>2, <3>1 DEF PushedKeys
  <2>3. CASE ~e.up
    <3>1. /\ IsFiniteSet(s_keys \cup {e.key})
          /\ Cardinality(s_keys \cup {e.key}) = (IF e.key \in s_keys THEN Cardinality(s_keys)
                                                 ELSE Cardinality(s_keys) + 1)
      BY <1>3, FS_AddElement
    <3>2. QED
      BY <1>3, <2>1, <2>3, <3>1 DEF PushedKeys
  <2>4. QED
    BY <2>2, <2>3
<1>5. KeysTyped'
  <2>1. s_keys' \subseteq Key \ Modifier /\ s_mod' \subseteq Modifier /\ crowded' \in BOOLEAN
    BY <1>1, <1>2, <1>3 DEF PushedKeys, set_modifier
  <2>2. IsFiniteSet(s_keys') /\ Cardinality(s_keys') <= MaxKeys
    BY <1>1, <1>3, <1>4
  <2>3. QED
    BY <1>1, <1>2, <1>3, <2>1, <2>2 DEF KeysTyped, Making
<1>6. EventsPending'
  BY <1>1, <1>2 DEF EventsPending, Elsewhere
<1>7. HeldBefore' = AfterEvent(HeldBefore, e)
  BY <1>1, <1>2 DEF HeldBefore
<1>8. KeysFollow'
  <2>1. Current \subseteq HeldBefore /\ (crowded \/ Current = HeldBefore)
    BY DEF KeysInv, KeysFollow
  <2>2. Current' \subseteq AfterEvent(HeldBefore, e)
    BY <1>1, <1>2, <1>3, <2>1 DEF Current, AfterEvent, PushedKeys, set_modifier
  <2>3. crowded' \/ Current' = AfterEvent(HeldBefore, e)
    BY <1>1, <1>2, <1>3, <2>1 DEF Current, AfterEvent, PushedKeys, set_modifier
  <2>4. QED
    BY <1>7, <2>2, <2>3 DEF KeysFollow
<1>9. QED
  BY <1>5, <1>6, <1>8 DEF KeysInv

LEMMA OthersKeepKeys ==
  ASSUME KeysInv, UNCHANGED key_vars,
         \/ pc0' = pc0
         \/ pc0 \in Making /\ pc0' \in Making
         \/ pc0' = "poll" /\ events = <<>>
         \/ pc0' = "push" /\ events # <<>>
         \/ pc0 \in Elsewhere \ {"push"} /\ pc0' \in Elsewhere \ {"push"}
  PROVE  KeysInv'
<1>1. UNCHANGED <<Current, HeldBefore>>
  BY DEF key_vars, Current, HeldBefore
<1>2. QED
  BY <1>1 DEF KeysInv, KeysTyped, EventsPending, KeysFollow, key_vars, Making, Elsewhere

LEMMA NextKeepsKeys == KeysInv /\ [Next]_vars => KeysInv'
<1>. SUFFICES ASSUME KeysInv, [Next]_vars PROVE KeysInv'
  OBVIOUS
<1>1. CASE adb_to_usb_keyboard_reg0 \/ push_key
  BY <1>1, RegisterKeepsKeys, PushKeepsKeys
<1>2. CASE adb_to_usb_mouse_reg0 \/ StoreButtons \/ StoreMovement \/ MarkDirty
  <2>1. UNCHANGED key_vars /\ pc0 \in Elsewhere \ {"push"} /\ pc0' \in Elsewhere \ {"push"}
    BY <1>2 DEF adb_to_usb_mouse_reg0, StoreButtons, StoreMovement, MarkDirty, key_vars, kbd_vars,
                Elsewhere
  <2>2. QED
    BY <2>1, OthersKeepKeys
<1>3. CASE SendBegin \/ DropRead \/ DropWrite \/ Fill
  <2>1. UNCHANGED key_vars /\ pc0 \in Making /\ pc0' \in Making
    BY <1>3 DEF SendBegin, DropRead, DropWrite, Fill, key_vars, kbd_vars, Making
  <2>2. QED
    BY <2>1, OthersKeepKeys
<1>4. CASE Publish
  <2>1. UNCHANGED key_vars
    BY <1>4 DEF Publish, key_vars, kbd_vars
  <2>2. QED
    BY <1>4, <2>1, OthersKeepKeys DEF Publish
<1>5. CASE usb_hid_pulse_caps_lock \/ Task \/ Mount \/ PcPolls \/ UNCHANGED vars
  <2>1. UNCHANGED <<kbd_vars, pc0>>
    BY <1>5 DEF usb_hid_pulse_caps_lock, Task, CapsPulse, DeviceTask, Take, Report, Advance, Mouse,
                ReadButtons, MouseReport, Mount, PcPolls, vars
  <2>2. UNCHANGED key_vars
    BY <2>1 DEF key_vars, kbd_vars
  <2>3. QED
    BY <2>1, <2>2, OthersKeepKeys
<1>6. QED
  BY <1>1, <1>2, <1>3, <1>4, <1>5 DEF Next, Registers, Translate

LEMMA KeysInvariant == Spec => []KeysInv
  BY InitKeys, NextKeepsKeys, PTL DEF Spec


(* ------------------ types, numbers and the endpoint -------------------- *)

BasicInv == Typed /\ NumbersPast /\ EndpointFree

LEMMA InitBasic == Init => BasicInv
<1>. SUFFICES ASSUME Init PROVE BasicInv
  OBVIOUS
<1>1. KBD_REPORT_Q \in Nat /\ KBD_REPORT_Q > 1 /\ 0 \in Slot
  BY HidAssumption DEF HidAssumption, Slot
<1>2. RingTyped
  <2>1. [n |-> 0, held |-> {}] \in KbdReports
    BY DEF KbdReports
  <2>2. QED
    BY <1>1, <2>1 DEF Init, RingTyped, Past
<1>3. MouseTyped
  BY DEF Init, MouseTyped, NoRegister, Register
<1>4. PcTyped
  <2>1. endpoint = Empty /\ pcHeld = {} /\ pcButtons = {} /\ mounted \in BOOLEAN
    BY DEF Init
  <2>2. s_caps_pulse_phase \in 0 .. 2 /\ pcLast \in Nat
    <3>1. s_caps_pulse_phase = 0 /\ pcLast = 0
      BY DEF Init
    <3>2. QED
      BY <3>1
  <2>3. QED
    BY <2>1, <2>2, EmptyFacts DEF PcTyped
<1>5. Typed
  BY <1>2, <1>3, <1>4 DEF Init, Typed, Tasks
<1>6. NumbersPast /\ EndpointFree
  BY <1>1, EmptyFacts DEF Init, NumbersPast, EndpointFree, Making
<1>7. QED
  BY <1>5, <1>6 DEF BasicInv

LEMMA KbdReportTyped ==
  ASSUME KeysInv, serial \in Nat
  PROVE  KbdReport \in KbdReports /\ KbdReport.n = serial /\ KbdReport.held = Current
  BY HidAssumption DEF HidAssumption, KeysInv, KeysTyped, KbdReport, KbdReports, Current

\* Core 0 makes a report of an event, or takes the events of a register.
LEMMA KeysKeepBasic ==
  ASSUME BasicInv, KeysInv', adb_to_usb_keyboard_reg0 \/ push_key
  PROVE  BasicInv'
<1>1. /\ UNCHANGED <<ring_vars, mouse_vars, pc_vars, pulses, moves, lost, pc1, dropping,
                     taking, readButtons, s_caps_pulse_phase, mounted, endpoint>>
  BY DEF adb_to_usb_keyboard_reg0, push_key, past_vars
<1>2. serial' \in Nat /\ serial' >= serial /\ (pc0' \in Making => serial' > 0)
  <2>1. serial \in Nat
    BY DEF BasicInv, Typed, RingTyped
  <2>2. \/ serial' = serial /\ pc0' = "push"
        \/ serial' = serial + 1
    BY DEF adb_to_usb_keyboard_reg0, push_key
  <2>3. QED
    BY <2>1, <2>2 DEF Making
<1>3. keyEvents' \in Nat
  <2>1. CASE adb_to_usb_keyboard_reg0
    <3>1. events' \in Seq([key : Key, up : BOOLEAN])
      BY DEF KeysInv, KeysTyped
    <3>2. keyEvents' = keyEvents + Len(events')
      BY <2>1 DEF adb_to_usb_keyboard_reg0
    <3>3. Len(events') \in Nat
      BY <3>1
    <3>4. QED
      BY <3>2, <3>3 DEF BasicInv, Typed
  <2>2. CASE push_key
    BY <2>2 DEF push_key, past_vars, BasicInv, Typed
  <2>3. QED
    BY <2>1, <2>2
<1>4. Typed'
  BY <1>1, <1>2, <1>3
     DEF BasicInv, Typed, RingTyped, MouseTyped, PcTyped, ring_vars, mouse_vars, pc_vars
<1>5. NumbersPast'
  <2>1. /\ serial \in Nat /\ pcLast \in Nat /\ endpoint \in InEndpoint
        /\ \A s \in Slot : s_kbd_q[s].n \in Nat
    BY DEF BasicInv, Typed, RingTyped, PcTyped, KbdReports
  <2>2. endpoint.kind = "keyboard" => endpoint.report.n \in Nat
    BY <2>1, EndpointFacts
  <2>3. QED
    BY <1>1, <1>2, <2>1, <2>2 DEF BasicInv, NumbersPast, ring_vars, pc_vars
<1>6. EndpointFree'
  BY <1>1 DEF BasicInv, EndpointFree, pc_vars
<1>7. QED
  BY <1>4, <1>5, <1>6 DEF BasicInv

\* usb_hid_send_keyboard()
LEMMA SendKeepsBasic ==
  ASSUME BasicInv, KeysInv, SendBegin \/ DropRead \/ DropWrite \/ Fill \/ Publish
  PROVE  BasicInv'
<1>1. /\ UNCHANGED <<kbd_vars, mouse_vars, pc_vars, keyEvents, pulses, moves, pc1, taking,
                     readButtons, s_caps_pulse_phase, mounted, endpoint>>
      /\ pc0 \in Making
  BY DEF SendBegin, DropRead, DropWrite, Fill, Publish, past_vars, Making
<1>2. /\ serial \in Nat /\ s_kbd_q \in [Slot -> KbdReports] /\ s_kbd_q_head \in Slot
      /\ s_kbd_q_tail \in Slot /\ dropping \in Slot /\ lost \in Past
  BY DEF BasicInv, Typed, RingTyped
<1>3. KbdReport \in KbdReports /\ KbdReport.n = serial
  BY <1>2, KbdReportTyped
<1>4. 0 \in Slot
  BY HidAssumption DEF HidAssumption, Slot
<1>5. /\ s_kbd_q' \in [Slot -> KbdReports] /\ s_kbd_q_head' \in Slot /\ s_kbd_q_tail' \in Slot
      /\ dropping' \in Slot /\ lost' \in Past /\ \A s \in Slot : s_kbd_q'[s].n <= serial
  <2>. USE <1>2
  <2>1. CASE SendBegin
    BY <2>1 DEF SendBegin, ring_vars, Losing, Past, BasicInv, NumbersPast
  <2>2. CASE DropRead
    BY <2>2 DEF DropRead, ring_vars, past_vars, BasicInv, NumbersPast
  <2>3. CASE DropWrite
    <3>1. Succ(dropping) \in Slot
      BY SuccFacts
    <3>2. QED
      BY <1>4, <2>3, <3>1 DEF DropWrite, past_vars, BasicInv, NumbersPast
  <2>4. CASE Fill
    <3>1. s_kbd_q' = [s_kbd_q EXCEPT ![s_kbd_q_head] = KbdReport]
      BY <2>4 DEF Fill, Filled
    <3>2. s_kbd_q' \in [Slot -> KbdReports] /\ \A s \in Slot : s_kbd_q'[s].n <= serial
      BY <1>3, <3>1 DEF BasicInv, NumbersPast
    <3>3. QED
      BY <2>4, <3>2 DEF Fill, past_vars
  <2>5. CASE Publish
    <3>1. Succ(s_kbd_q_head) \in Slot
      BY SuccFacts
    <3>2. QED
      BY <2>5, <3>1 DEF Publish, past_vars, BasicInv, NumbersPast
  <2>6. QED
    BY <2>1, <2>2, <2>3, <2>4, <2>5
<1>6. Typed'
  BY <1>1, <1>5 DEF BasicInv, Typed, RingTyped, MouseTyped, PcTyped, kbd_vars, mouse_vars, pc_vars
<1>7. NumbersPast'
  BY <1>1, <1>5 DEF BasicInv, NumbersPast, kbd_vars, pc_vars
<1>8. EndpointFree'
  <2>1. ~mounted => lost' # "raced"
    BY DEF SendBegin, DropRead, DropWrite, Fill, Publish, Losing, past_vars, BasicInv, EndpointFree
  <2>2. QED
    BY <1>1, <2>1 DEF BasicInv, EndpointFree, pc_vars
<1>9. QED
  BY <1>6, <1>7, <1>8 DEF BasicInv

\* The mouse cell and the pulse, on core 0
LEMMA CellKeepsBasic ==
  ASSUME BasicInv,
         \/ adb_to_usb_mouse_reg0 \/ StoreButtons \/ StoreMovement \/ MarkDirty
         \/ usb_hid_pulse_caps_lock
  PROVE  BasicInv'
<1>1. /\ UNCHANGED <<kbd_vars, ring_vars, pc_vars, keyEvents, lost, pc1, dropping, taking,
                     readButtons, mounted, endpoint>>
      /\ pc0' \notin Making
  BY DEF adb_to_usb_mouse_reg0, StoreButtons, StoreMovement, MarkDirty, usb_hid_pulse_caps_lock,
         past_vars, Making
<1>2. MouseTyped' /\ moves' \in Nat
  <2>1. CASE adb_to_usb_mouse_reg0
    <3>1. PICK b \in SUBSET Button :
            moves' = moves + 1 /\ moving' = [buttons |-> b, moved |-> moves + 1]
      BY <2>1 DEF adb_to_usb_mouse_reg0
    <3>2. moves + 1 \in Nat /\ moving' \in Register
      BY <3>1 DEF BasicInv, Typed, Register
    <3>3. QED
      BY <1>1, <2>1, <3>1, <3>2 DEF adb_to_usb_mouse_reg0, BasicInv, Typed, MouseTyped
  <2>2. CASE StoreButtons \/ StoreMovement
    <3>1. s_mouse \in Register /\ moving \in Register
      BY DEF BasicInv, Typed, MouseTyped
    <3>2. \/ s_mouse' = [s_mouse EXCEPT !.buttons = moving.buttons]
          \/ s_mouse' = [s_mouse EXCEPT !.moved = moving.moved]
      BY <2>2 DEF StoreButtons, StoreMovement
    <3>3. s_mouse' \in Register
      BY <3>1, <3>2 DEF Register
    <3>4. QED
      BY <1>1, <2>2, <3>3 DEF StoreButtons, StoreMovement, past_vars, BasicInv, Typed, MouseTyped
  <2>3. CASE MarkDirty
    <3>1. NoRegister \in Register
      BY DEF NoRegister, Register
    <3>2. QED
      BY <1>1, <2>3, <3>1 DEF MarkDirty, past_vars, BasicInv, Typed, MouseTyped
  <2>4. CASE usb_hid_pulse_caps_lock
    BY <1>1, <2>4 DEF usb_hid_pulse_caps_lock, mouse_vars, BasicInv, Typed, MouseTyped
  <2>5. QED
    BY <2>1, <2>2, <2>3, <2>4
<1>3. /\ pulses' \in Nat /\ s_caps_pulse_phase' \in 0 .. 2 /\ pulses' >= pulses
      /\ s_caps_pulse_phase' # 0 => s_caps_pulse_phase # 0 \/ pulses' > 0
  BY DEF adb_to_usb_mouse_reg0, StoreButtons, StoreMovement, MarkDirty, usb_hid_pulse_caps_lock,
         past_vars, BasicInv, Typed, PcTyped
<1>4. Typed'
  BY <1>1, <1>2, <1>3 DEF BasicInv, Typed, RingTyped, PcTyped, kbd_vars, ring_vars, pc_vars
<1>5. NumbersPast'
  BY <1>1 DEF BasicInv, NumbersPast, kbd_vars, ring_vars, pc_vars
<1>6. EndpointFree'
  BY <1>1, <1>3 DEF BasicInv, EndpointFree, pc_vars, Typed
<1>7. QED
  BY <1>4, <1>5, <1>6 DEF BasicInv

\* usb_hid_device_task()
LEMMA TaskKeepsBasic ==
  ASSUME BasicInv, Task
  PROVE  BasicInv'
<1>. USE DEF Task
<1>1. UNCHANGED <<kbd_vars, s_kbd_q, s_kbd_q_head, s_mouse, moving, pc_vars, past_vars, pc0,
                  dropping, mounted>>
  BY DEF CapsPulse, DeviceTask, Take, Report, Advance, Mouse, ReadButtons, MouseReport, ring_vars,
         mouse_vars
<1>2. /\ s_kbd_q \in [Slot -> KbdReports] /\ s_kbd_q_tail \in Slot /\ taking \in Slot /\ 0 \in Slot
      /\ s_mouse \in Register /\ endpoint \in InEndpoint /\ s_caps_pulse_phase \in 0 .. 2
      /\ pc1 \in Tasks
  BY HidAssumption DEF HidAssumption, Slot, BasicInv, Typed, RingTyped, MouseTyped, PcTyped
<1>3. s_kbd_q_tail' \in Slot /\ taking' \in Slot
  <2>1. Succ(taking) \in Slot
    BY <1>2, SuccFacts
  <2>2. QED
    BY <1>2, <2>1 DEF CapsPulse, DeviceTask, Take, Report, Advance, Mouse, ReadButtons, MouseReport,
                      ring_vars, TailAfter
<1>4. s_mouse_dirty' \in BOOLEAN /\ readButtons' \subseteq Button
  BY DEF CapsPulse, DeviceTask, Take, Report, Advance, Mouse, ReadButtons, MouseReport, mouse_vars,
         BasicInv, Typed, MouseTyped, Register
<1>5. s_caps_pulse_phase' \in 0 .. 2 /\ (s_caps_pulse_phase' # 0 => s_caps_pulse_phase # 0)
  BY <1>2 DEF CapsPulse, DeviceTask, Take, Report, Advance, Mouse, ReadButtons, MouseReport, NextPhase
<1>6. /\ endpoint' \in InEndpoint
      /\ endpoint'.kind = "keyboard" => endpoint'.report.n <= serial
      /\ endpoint'.kind = "pulse" => endpoint.kind = "pulse" \/ s_caps_pulse_phase # 0
  <2>1. CASE CapsPulse
    <3>1. endpoint' = [kind |-> "pulse", press |-> s_caps_pulse_phase = 1] /\ s_caps_pulse_phase # 0
      BY <2>1 DEF CapsPulse
    <3>2. QED
      BY <3>1 DEF InEndpoint
  <2>2. CASE Report
    <3>1. endpoint' = [kind |-> "keyboard", report |-> s_kbd_q[taking]]
      BY <2>2 DEF Report
    <3>2. s_kbd_q[taking] \in KbdReports /\ s_kbd_q[taking].n <= serial
      BY <1>2 DEF BasicInv, NumbersPast
    <3>3. QED
      BY <3>1, <3>2 DEF InEndpoint
  <2>3. CASE MouseReport
    <3>1. endpoint' = [kind |-> "mouse", buttons |-> readButtons, moved |-> s_mouse.moved]
      BY <2>3 DEF MouseReport
    <3>2. readButtons \subseteq Button /\ s_mouse.moved \in Nat
      BY <1>2 DEF BasicInv, Typed, MouseTyped, Register
    <3>3. QED
      BY <3>1, <3>2 DEF InEndpoint
  <2>4. CASE DeviceTask \/ Take \/ Advance \/ Mouse \/ ReadButtons
    BY <1>2, <2>4 DEF DeviceTask, Take, Advance, Mouse, ReadButtons, BasicInv, NumbersPast
  <2>5. QED
    BY <2>1, <2>2, <2>3, <2>4
<1>7. pc1' \in Tasks
  BY <1>2 DEF CapsPulse, DeviceTask, Take, Report, Advance, Mouse, ReadButtons, MouseReport, Tasks
<1>8. Typed'
  BY <1>1, <1>2, <1>3, <1>4, <1>5, <1>6, <1>7
     DEF BasicInv, Typed, RingTyped, MouseTyped, PcTyped, kbd_vars, pc_vars, past_vars
<1>9. NumbersPast'
  BY <1>1, <1>6 DEF BasicInv, NumbersPast, kbd_vars, pc_vars
<1>10. EndpointFree'
  <2>1. mounted
    BY DEF CapsPulse, DeviceTask, Take, Report, Advance, Mouse, ReadButtons, MouseReport,
           tud_hid_ready, BasicInv, EndpointFree
  <2>2. pc1' \in {"take", "report", "buttons", "movement"} => endpoint' = Empty
    BY DEF CapsPulse, DeviceTask, Take, Report, Advance, Mouse, ReadButtons, MouseReport,
           tud_hid_ready, BasicInv, EndpointFree
  <2>3. s_caps_pulse_phase' # 0 \/ endpoint'.kind = "pulse" => pulses' > 0
    BY <1>1, <1>5, <1>6 DEF BasicInv, EndpointFree, past_vars
  <2>4. QED
    BY <1>1, <2>1, <2>2, <2>3 DEF EndpointFree
<1>11. QED
  BY <1>8, <1>9, <1>10 DEF BasicInv

LEMMA PcKeepsBasic ==
  ASSUME BasicInv, Mount \/ PcPolls
  PROVE  BasicInv'
<1>1. /\ UNCHANGED <<kbd_vars, ring_vars, mouse_vars, keyEvents, pulses, moves, pc0, pc1, dropping,
                     taking, readButtons, s_caps_pulse_phase>>
      /\ lost' \in Past /\ mounted' \in BOOLEAN
  BY DEF Mount, PcPolls, past_vars, BasicInv, Typed, RingTyped, PcTyped, Past
<1>2. CASE Mount
  BY <1>1, <1>2 DEF Mount, BasicInv, Typed, RingTyped, MouseTyped, PcTyped, NumbersPast,
                    EndpointFree, kbd_vars, ring_vars, mouse_vars, pc_vars
<1>3. CASE PcPolls
  <2>1. /\ endpoint \in InEndpoint /\ endpoint # Empty /\ endpoint' = Empty /\ mounted' = mounted
        /\ serial \in Nat /\ mounted
    BY <1>3 DEF PcPolls, BasicInv, Typed, RingTyped, PcTyped, EndpointFree
  <2>2. /\ endpoint.kind = "keyboard" => endpoint.report.n \in Nat /\ endpoint.report.held \subseteq Key
        /\ endpoint.kind = "mouse" => endpoint.buttons \subseteq Button
    BY <2>1, EndpointFacts
  <2>3. pcHeld' \subseteq Key /\ pcLast' \in Nat /\ pcLast' <= serial /\ pcButtons' \subseteq Button
    BY <1>3, <2>2 DEF PcPolls, BasicInv, Typed, PcTyped, NumbersPast
  <2>4. Typed'
    BY <1>1, <2>1, <2>3, EmptyFacts
       DEF BasicInv, Typed, RingTyped, MouseTyped, PcTyped, kbd_vars, ring_vars, mouse_vars
  <2>5. NumbersPast' /\ EndpointFree'
    BY <1>1, <2>1, <2>3, EmptyFacts
       DEF BasicInv, NumbersPast, EndpointFree, kbd_vars, ring_vars
  <2>6. QED
    BY <2>4, <2>5 DEF BasicInv
<1>4. QED
  BY <1>2, <1>3

LEMMA NextKeepsBasic == BasicInv /\ KeysInv /\ KeysInv' /\ [Next]_vars => BasicInv'
<1>. SUFFICES ASSUME BasicInv, KeysInv, KeysInv', [Next]_vars PROVE BasicInv'
  OBVIOUS
<1>1. CASE Next
  BY <1>1, KeysKeepBasic, SendKeepsBasic, CellKeepsBasic, TaskKeepsBasic, PcKeepsBasic
     DEF Next, Registers, Translate
<1>2. CASE UNCHANGED vars
  <2>1. UNCHANGED <<kbd_vars, ring_vars, mouse_vars, pc_vars, past_vars, pc0, pc1, dropping, taking,
                    readButtons, s_caps_pulse_phase, mounted, endpoint>>
    BY <1>2 DEF vars
  <2>2. QED
    BY <2>1 DEF BasicInv, Typed, RingTyped, MouseTyped, PcTyped, NumbersPast, EndpointFree, kbd_vars,
                ring_vars, mouse_vars, pc_vars, past_vars
<1>3. QED
  BY <1>1, <1>2

LEMMA BasicInvariant == Spec => [](BasicInv /\ KeysInv)
  BY InitKeys, InitBasic, NextKeepsKeys, NextKeepsBasic, PTL DEF Spec


(* ----------------------------- the mouse cell -------------------------- *)

LEMMA InitButtons == Init => ButtonsOnTheirWay
  BY EmptyFacts DEF Init, ButtonsOnTheirWay, NoRegister

LEMMA NextKeepsButtons == ButtonsOnTheirWay /\ BasicInv /\ [Next]_vars => ButtonsOnTheirWay'
<1>. SUFFICES ASSUME ButtonsOnTheirWay, BasicInv, [Next]_vars PROVE ButtonsOnTheirWay'
  OBVIOUS
<1>1. CASE adb_to_usb_mouse_reg0 \/ StoreButtons \/ StoreMovement \/ MarkDirty
  BY <1>1 DEF adb_to_usb_mouse_reg0, StoreButtons, StoreMovement, MarkDirty, ButtonsOnTheirWay,
              mouse_vars, pc_vars
<1>2. CASE usb_hid_pulse_caps_lock \/ Mount \/ UNCHANGED vars
  BY <1>2 DEF usb_hid_pulse_caps_lock, Mount, vars, ButtonsOnTheirWay, mouse_vars, pc_vars
<1>3. CASE \/ adb_to_usb_keyboard_reg0 \/ push_key
           \/ SendBegin \/ DropRead \/ DropWrite \/ Fill \/ Publish
  <2>1. /\ UNCHANGED <<mouse_vars, pc_vars, pc1, readButtons, endpoint>>
        /\ pc0 \notin {"movement", "dirty"}
    BY <1>3 DEF adb_to_usb_keyboard_reg0, push_key, SendBegin, DropRead, DropWrite, Fill, Publish
  <2>2. QED
    BY <2>1 DEF ButtonsOnTheirWay, mouse_vars, pc_vars
<1>4. CASE Task
  <2>1. UNCHANGED <<s_mouse, pcButtons, pc0>>
    BY <1>4 DEF Task, CapsPulse, DeviceTask, Take, Report, Advance, Mouse, ReadButtons, MouseReport,
                mouse_vars, pc_vars
  <2>2. CASE CapsPulse \/ Report
    <3>1. /\ endpoint = Empty /\ endpoint.kind # "mouse" /\ endpoint'.kind # "mouse"
          /\ s_mouse_dirty' = s_mouse_dirty
          /\ pc1 \notin {"buttons", "movement"} /\ pc1' \notin {"buttons", "movement"}
      BY <2>2, EmptyFacts DEF CapsPulse, Report, tud_hid_ready, mouse_vars, BasicInv, EndpointFree
    <3>2. QED
      BY <2>1, <3>1 DEF ButtonsOnTheirWay
  <2>3. CASE DeviceTask \/ Take \/ Advance
    BY <2>1, <2>3 DEF DeviceTask, Take, Advance, ButtonsOnTheirWay, mouse_vars
  <2>4. CASE Mouse
    BY <2>1, <2>4 DEF Mouse, ButtonsOnTheirWay
  <2>5. CASE ReadButtons
    BY <2>1, <2>5 DEF ReadButtons, ButtonsOnTheirWay, mouse_vars
  <2>6. CASE MouseReport
    BY <2>1, <2>6 DEF MouseReport, ButtonsOnTheirWay, mouse_vars
  <2>7. QED
    BY <1>4, <2>2, <2>3, <2>4, <2>5, <2>6 DEF Task
<1>5. CASE PcPolls
  <2>1. /\ endpoint # Empty /\ endpoint' = Empty
        /\ pcButtons' = IF endpoint.kind = "mouse" THEN endpoint.buttons ELSE pcButtons
        /\ UNCHANGED <<mouse_vars, pc0, pc1, readButtons>>
    BY <1>5 DEF PcPolls
  <2>2. pc1 \notin {"buttons", "movement"}
    BY <2>1 DEF BasicInv, EndpointFree
  <2>3. QED
    BY <2>1, <2>2, EmptyFacts DEF ButtonsOnTheirWay, mouse_vars
<1>6. QED
  BY <1>1, <1>2, <1>3, <1>4, <1>5 DEF Next, Registers, Translate

(* ------------------------------- the ring ------------------------------ *)

RingInv == lost # "raced" => Ends /\ InOrder

LEMMA InitRing == Init => RingInv
<1>. SUFFICES ASSUME Init PROVE RingInv
  OBVIOUS
<1>1. 0 \in Slot
  BY HidAssumption DEF HidAssumption, Slot
<1>2. NextOut = 0 /\ Waiting = 0 /\ Published = 0 /\ HandedOver = 0
  BY DEF Init, NextOut, Waiting, Published, HandedOver, Dist, Making
<1>3. Ends
  BY DEF Init, Ends
<1>4. InOrder
  <2>1. Numbered
    BY <1>1, <1>2, DistFacts DEF Numbered
  <2>2. Delivered /\ NewestIsCurrent
    BY <1>2, EmptyFacts DEF Init, Delivered, NewestIsCurrent, Current
  <2>3. QED
    BY <1>2, <2>1, <2>2 DEF InOrder
<1>5. QED
  BY <1>3, <1>4 DEF RingInv

LEMMA RingTypes ==
  ASSUME BasicInv, KeysInv
  PROVE  /\ serial \in Nat /\ s_kbd_q \in [Slot -> KbdReports]
         /\ s_kbd_q_head \in Slot /\ s_kbd_q_tail \in Slot /\ taking \in Slot /\ dropping \in Slot
         /\ NextOut \in Slot /\ Waiting \in 0 .. KBD_REPORT_Q - 1 /\ Waiting \in Nat
         /\ Published \in Nat /\ HandedOver \in Int
         /\ endpoint \in InEndpoint /\ pcLast \in Nat
         /\ pc0 \in Making \cup Elsewhere /\ pc1 \in Tasks /\ KBD_REPORT_Q \in Nat
<1>1. /\ serial \in Nat /\ s_kbd_q \in [Slot -> KbdReports]
      /\ s_kbd_q_head \in Slot /\ s_kbd_q_tail \in Slot /\ taking \in Slot /\ dropping \in Slot
      /\ endpoint \in InEndpoint /\ pcLast \in Nat
      /\ pc0 \in Making \cup Elsewhere /\ pc1 \in Tasks /\ KBD_REPORT_Q \in Nat
  BY HidAssumption DEF HidAssumption, BasicInv, Typed, RingTyped, PcTyped, KeysInv, KeysTyped
<1>2. NextOut \in Slot
  BY <1>1, SuccFacts DEF NextOut
<1>3. Waiting \in 0 .. KBD_REPORT_Q - 1
  BY <1>1, <1>2, DistFacts DEF Waiting
<1>4. Published \in Nat
  BY <1>1 DEF Published, BasicInv, NumbersPast
<1>5. QED
  BY <1>1, <1>2, <1>3, <1>4 DEF HandedOver

\* Elsewhere on core 0
LEMMA OthersKeepRing ==
  ASSUME RingInv, UNCHANGED <<serial, ring_vars, s_keys, s_mod, lost, pc1, dropping, taking, mounted,
                              endpoint, pc_vars>>,
         pulses' = 0 => pulses = 0,
         pc0' = pc0 \/ (pc0 \in Elsewhere /\ pc0' \in Elsewhere)
  PROVE  RingInv'
<1>1. UNCHANGED <<NextOut, Waiting, Published, HandedOver, Current, KbdReport>>
  BY DEF NextOut, Waiting, Published, HandedOver, Current, KbdReport, ring_vars, Making, Elsewhere
<1>2. CASE lost # "raced"
  <2>1. Ends /\ InOrder
    BY <1>2 DEF RingInv
  <2>2. Ends'
    BY <1>1, <2>1 DEF Ends, ring_vars, Elsewhere
  <2>3. HandedOver' >= 0 /\ Numbered' /\ Delivered'
    BY <1>1, <2>1 DEF InOrder, Numbered, Delivered, ring_vars, pc_vars
  <2>4. NewestIsCurrent'
    BY <1>1, <2>1 DEF InOrder, NewestIsCurrent, ring_vars, pc_vars, Elsewhere, Making
  <2>5. QED
    BY <2>2, <2>3, <2>4 DEF RingInv, InOrder
<1>3. QED
  BY <1>2 DEF RingInv


LEMMA PushKeepsRing ==
  ASSUME RingInv, BasicInv, KeysInv, push_key
  PROVE  RingInv'
<1>1. /\ UNCHANGED <<ring_vars, pc_vars, past_vars, pc1, dropping, taking, mounted, endpoint>>
      /\ pc0 = "push" /\ pc0' = "send" /\ serial' = serial + 1 /\ serial \in Nat
  BY DEF push_key, BasicInv, Typed, RingTyped
<1>2. UNCHANGED <<NextOut, Waiting, Published, HandedOver>>
  BY <1>1 DEF NextOut, Waiting, Published, HandedOver, Making, ring_vars
<1>3. CASE lost # "raced"
  BY <1>1, <1>2, <1>3
     DEF RingInv, Ends, InOrder, Numbered, Delivered, NewestIsCurrent, ring_vars, pc_vars, past_vars,
         Making
<1>4. QED
  BY <1>1, <1>3 DEF RingInv, past_vars

LEMMA SendBeginKeepsRing ==
  ASSUME RingInv, BasicInv, KeysInv, SendBegin
  PROVE  RingInv'
<1>1. /\ UNCHANGED <<kbd_vars, ring_vars, pc_vars, pulses, pc1, dropping, taking, mounted, endpoint>>
      /\ pc0 = "send" /\ pc0' \in {"drop", "fill"}
      /\ pc0' = "drop" => lost' = Losing /\ Full
      /\ pc0' = "fill" => lost' = lost /\ ~Full
  BY DEF SendBegin
<1>2. UNCHANGED <<NextOut, Waiting, Published, HandedOver>>
  BY <1>1 DEF NextOut, Waiting, Published, HandedOver, Making, ring_vars, kbd_vars
<1>3. CASE lost # "raced" /\ lost' # "raced"
  <2>1. Ends /\ InOrder
    BY <1>3 DEF RingInv
  <2>2. pc0' = "drop" => lost' = "unread" /\ ~mounted /\ endpoint = Empty /\ pcLast = 0
    BY <1>1, <1>3 DEF Losing, BasicInv, EndpointFree
  <2>3. Ends'
    BY <1>1, <2>1, <2>2 DEF Ends, Full, ring_vars
  <2>4. Numbered' /\ NewestIsCurrent' /\ HandedOver' >= 0
    BY <1>1, <1>2, <2>1 DEF InOrder, Numbered, NewestIsCurrent, Making, ring_vars
  <2>5. Delivered'
    BY <1>1, <1>2, <2>1, <2>2, EmptyFacts DEF InOrder, Delivered, pc_vars
  <2>6. QED
    BY <2>3, <2>4, <2>5 DEF RingInv, InOrder
<1>4. CASE lost = "raced"
  BY <1>1, <1>4 DEF Losing, RingInv, BasicInv, EndpointFree, NumbersPast
<1>5. QED
  BY <1>3, <1>4 DEF RingInv


LEMMA DropReadKeepsRing ==
  ASSUME RingInv, BasicInv, KeysInv, DropRead
  PROVE  RingInv'
<1>1. /\ UNCHANGED <<kbd_vars, ring_vars, pc_vars, pulses, lost, pc1, taking, mounted, endpoint>>
      /\ pc0 = "drop" /\ pc0' = "dropped" /\ dropping' = s_kbd_q_tail
  BY DEF DropRead, past_vars
<1>2. UNCHANGED <<NextOut, Waiting, Published, HandedOver>>
  BY <1>1 DEF NextOut, Waiting, Published, HandedOver, Making, ring_vars, kbd_vars
<1>3. CASE lost # "raced"
  <2>1. Ends'
    BY <1>1, <1>3 DEF RingInv, Ends, ring_vars
  <2>2. InOrder'
    BY <1>1, <1>2, <1>3
       DEF RingInv, InOrder, Numbered, Delivered, NewestIsCurrent, Making, ring_vars, pc_vars
  <2>3. QED
    BY <2>1, <2>2 DEF RingInv
<1>4. QED
  BY <1>1, <1>3 DEF RingInv

\* Taking the first of the reports that wait leaves the others in their slots.
LEMMA FirstOut ==
  ASSUME NEW t \in Slot, NEW h \in Slot, t # h
  PROVE  /\ Dist(Succ(t), h) = Dist(t, h) - 1
         /\ \A s \in Slot : Dist(Succ(t), s) < Dist(t, h) - 1 =>
              Dist(t, s) < Dist(t, h) /\ Dist(t, s) = Dist(Succ(t), s) + 1
<1>1. Dist(Succ(t), h) = Dist(t, h) - 1 /\ Dist(t, h) \in 0 .. KBD_REPORT_Q - 1
  BY DistFacts
<1>2. ASSUME NEW s \in Slot, Dist(Succ(t), s) < Dist(t, h) - 1
      PROVE  Dist(t, s) < Dist(t, h) /\ Dist(t, s) = Dist(Succ(t), s) + 1
  <2>1. CASE s = t
    <3>1. Dist(Succ(t), t) = KBD_REPORT_Q - 1
      BY SuccFacts, DistFacts
    <3>2. QED
      BY <1>1, <1>2, <2>1, <3>1, HidAssumption DEF HidAssumption
  <2>2. CASE s # t
    <3>1. Dist(Succ(t), s) = Dist(t, s) - 1 /\ Dist(t, s) \in 0 .. KBD_REPORT_Q - 1
      BY <2>2, DistFacts
    <3>2. QED
      BY <1>1, <1>2, <3>1, HidAssumption DEF HidAssumption
  <2>3. QED
    BY <2>1, <2>2
<1>3. QED
  BY <1>1, <1>2

LEMMA DropWriteKeepsRing ==
  ASSUME RingInv, BasicInv, KeysInv, DropWrite
  PROVE  RingInv'
<1>1. /\ UNCHANGED <<kbd_vars, s_kbd_q, s_kbd_q_head, pc_vars, pulses, lost, pc1, taking, mounted,
                     endpoint>>
      /\ pc0 = "dropped" /\ pc0' = "fill" /\ s_kbd_q_tail' = Succ(dropping)
  BY DEF DropWrite, past_vars
<1>2. CASE lost # "raced"
  <2>1. /\ Ends /\ InOrder /\ lost = "unread" /\ ~mounted /\ pc1 = "task" /\ endpoint = Empty
        /\ pcLast = 0 /\ dropping = s_kbd_q_tail /\ Succ(s_kbd_q_head) = s_kbd_q_tail
    BY <1>1, <1>2 DEF RingInv, Ends, BasicInv, EndpointFree
  <2>2. /\ s_kbd_q_head \in Slot /\ s_kbd_q_tail \in Slot /\ Published \in Nat
        /\ Waiting \in 0 .. KBD_REPORT_Q - 1 /\ KBD_REPORT_Q \in Nat
    BY RingTypes
  <2>3. s_kbd_q_tail # s_kbd_q_head
    BY <2>1, <2>2, SuccFacts, HidAssumption DEF HidAssumption, Slot
  <2>4. Succ(s_kbd_q_head) # Succ(s_kbd_q_tail)
    BY <2>2, <2>3, SuccInjective
  <2>5. /\ NextOut = s_kbd_q_tail /\ NextOut' = Succ(s_kbd_q_tail) /\ Published' = Published
    BY <1>1, <2>1 DEF NextOut, Published, Making, kbd_vars
  <2>6. /\ Waiting = Dist(s_kbd_q_tail, s_kbd_q_head)
        /\ Waiting' = Dist(Succ(s_kbd_q_tail), s_kbd_q_head)
    BY <1>1, <2>5 DEF Waiting
  <2>7. Waiting' = Waiting - 1 /\ HandedOver' = HandedOver + 1 /\ HandedOver \in Int
    BY <2>2, <2>3, <2>5, <2>6, FirstOut DEF HandedOver
  <2>8. Ends'
    BY <1>1, <2>1, <2>4 DEF Ends
  <2>9. Numbered'
    <3>1. ASSUME NEW s \in Slot, Dist(NextOut', s) < Waiting'
          PROVE  s_kbd_q'[s].n = HandedOver' + 1 + Dist(NextOut', s)
      <4>1. Dist(NextOut, s) < Waiting /\ Dist(NextOut, s) = Dist(NextOut', s) + 1
        BY <2>2, <2>3, <2>5, <2>6, <2>7, <3>1, FirstOut
      <4>2. s_kbd_q[s].n = HandedOver + 1 + Dist(NextOut, s)
        BY <2>1, <4>1 DEF InOrder, Numbered
      <4>3. Dist(NextOut', s) \in Int
        BY <2>2, <2>5, SuccFacts, DistFacts
      <4>4. QED
        BY <1>1, <2>7, <4>1, <4>2, <4>3
    <3>2. QED
      BY <3>1 DEF Numbered
  <2>10. Delivered' /\ NewestIsCurrent' /\ HandedOver' >= 0
    BY <1>1, <2>1, <2>7, EmptyFacts DEF InOrder, Delivered, NewestIsCurrent, Making, pc_vars
  <2>11. QED
    BY <2>8, <2>9, <2>10 DEF RingInv, InOrder
<1>3. QED
  BY <1>1, <1>2 DEF RingInv

LEMMA FillKeepsRing ==
  ASSUME RingInv, BasicInv, KeysInv, Fill
  PROVE  RingInv'
<1>1. /\ UNCHANGED <<kbd_vars, s_kbd_q_head, s_kbd_q_tail, pc_vars, pulses, lost, pc1, dropping,
                     taking, mounted, endpoint>>
      /\ pc0 = "fill" /\ pc0' = "publish"
      /\ s_kbd_q' = [s_kbd_q EXCEPT ![s_kbd_q_head] = KbdReport]
  BY DEF Fill, Filled, past_vars
<1>2. UNCHANGED <<NextOut, Waiting, Published, HandedOver, KbdReport>>
  BY <1>1 DEF NextOut, Waiting, Published, HandedOver, KbdReport, Making, kbd_vars
<1>3. /\ s_kbd_q \in [Slot -> KbdReports] /\ s_kbd_q_head \in Slot /\ NextOut \in Slot
      /\ Waiting = Dist(NextOut, s_kbd_q_head) /\ Waiting \in Nat
  BY RingTypes DEF Waiting
<1>4. CASE lost # "raced"
  <2>1. Ends /\ InOrder
    BY <1>4 DEF RingInv
  <2>2. Ends'
    BY <1>1, <1>2, <1>3, <2>1 DEF Ends
  <2>3. Numbered'
    <3>1. \A s \in Slot : Dist(NextOut, s) < Waiting => s_kbd_q'[s] = s_kbd_q[s]
      BY <1>1, <1>3
    <3>2. QED
      BY <1>2, <2>1, <3>1 DEF InOrder, Numbered
  <2>4. Delivered' /\ NewestIsCurrent' /\ HandedOver' >= 0
    BY <1>1, <1>2, <2>1 DEF InOrder, Delivered, NewestIsCurrent, Making, pc_vars
  <2>5. QED
    BY <2>2, <2>3, <2>4 DEF RingInv, InOrder
<1>5. QED
  BY <1>1, <1>4 DEF RingInv

LEMMA PublishKeepsRing ==
  ASSUME RingInv, BasicInv, KeysInv, Publish
  PROVE  RingInv'
<1>1. /\ UNCHANGED <<kbd_vars, s_kbd_q, s_kbd_q_tail, pc_vars, pulses, lost, pc1, dropping, taking,
                     mounted, endpoint>>
      /\ pc0 = "publish" /\ pc0' \in {"poll", "push"} /\ s_kbd_q_head' = Succ(s_kbd_q_head)
  BY DEF Publish, past_vars
<1>2. /\ s_kbd_q_head \in Slot /\ s_kbd_q_tail \in Slot /\ NextOut \in Slot /\ serial \in Nat
      /\ Waiting = Dist(NextOut, s_kbd_q_head) /\ Waiting \in Nat /\ Published \in Nat
  BY RingTypes DEF Waiting
<1>3. /\ NextOut' = NextOut /\ Published = serial - 1 /\ Published' = serial
      /\ UNCHANGED <<Current, KbdReport>>
  BY <1>1 DEF NextOut, Published, Current, KbdReport, Making, kbd_vars
<1>4. CASE lost # "raced"
  <2>1. Ends /\ InOrder
    BY <1>4 DEF RingInv
  <2>2. Succ(s_kbd_q_head) # NextOut
    <3>1. CASE pc1 = "advance"
      <4>1. NextOut = Succ(s_kbd_q_tail) /\ s_kbd_q_tail # s_kbd_q_head
        BY <2>1, <3>1 DEF Ends, NextOut
      <4>2. QED
        BY <1>2, <4>1, SuccInjective
    <3>2. CASE pc1 # "advance"
      BY <1>1, <2>1, <3>2 DEF Ends, NextOut
    <3>3. QED
      BY <3>1, <3>2
  <2>3. Waiting' = Waiting + 1
    BY <1>1, <1>2, <1>3, <2>2, DistFacts DEF Waiting
  <2>4. HandedOver' = HandedOver /\ HandedOver = serial - 1 - Waiting
    BY <1>2, <1>3, <2>3 DEF HandedOver
  <2>5. s_kbd_q[s_kbd_q_head].n = serial /\ s_kbd_q[s_kbd_q_head].held = Current
    BY <1>1, <1>2, <2>1, KbdReportTyped DEF Ends
  <2>6. Ends'
    BY <1>1, <2>1 DEF Ends
  <2>7. Numbered'
    <3>1. ASSUME NEW s \in Slot, Dist(NextOut, s) < Waiting + 1
          PROVE  s_kbd_q[s].n = HandedOver + 1 + Dist(NextOut, s)
      <4>1. CASE Dist(NextOut, s) < Waiting
        BY <2>1, <4>1 DEF InOrder, Numbered
      <4>2. CASE Dist(NextOut, s) = Waiting
        <5>1. s = s_kbd_q_head
          BY <1>2, <4>2, DistInjective
        <5>2. QED
          BY <1>2, <2>4, <2>5, <4>2, <5>1
      <4>3. Dist(NextOut, s) \in Int
        BY <1>2, DistFacts
      <4>4. QED
        BY <1>2, <3>1, <4>1, <4>2, <4>3
    <3>2. QED
      BY <1>1, <1>3, <2>3, <2>4, <3>1 DEF Numbered
  <2>8. Delivered' /\ HandedOver' >= 0
    BY <1>1, <2>1, <2>4 DEF InOrder, Delivered, pc_vars
  <2>9. NewestIsCurrent'
    <3>1. \A s \in Slot : Succ(s) = s_kbd_q_head' => s_kbd_q'[s].held = Current'
      BY <1>1, <1>2, <1>3, <2>5, SuccInjective
    <3>2. Waiting' # 0
      BY <1>2, <2>3
    <3>3. QED
      BY <3>1, <3>2 DEF NewestIsCurrent
  <2>10. QED
    BY <2>6, <2>7, <2>8, <2>9 DEF RingInv, InOrder
<1>5. QED
  BY <1>1, <1>4 DEF RingInv


\* Core 1 takes the first of the reports that wait.
LEMMA ReportKeepsRing ==
  ASSUME RingInv, BasicInv, KeysInv, Report
  PROVE  RingInv'
<1>1. /\ UNCHANGED <<kbd_vars, ring_vars, pc_vars, past_vars, pc0, dropping, taking, mounted>>
      /\ pc1 = "report" /\ pc1' = "advance"
      /\ endpoint' = [kind |-> "keyboard", report |-> s_kbd_q[taking]]
  BY DEF Report
<1>2. CASE lost # "raced"
  <2>1. Ends /\ InOrder /\ endpoint = Empty /\ taking = s_kbd_q_tail /\ s_kbd_q_tail # s_kbd_q_head
    BY <1>1, <1>2 DEF RingInv, Ends, BasicInv, EndpointFree
  <2>2. /\ s_kbd_q_head \in Slot /\ s_kbd_q_tail \in Slot /\ Published \in Nat
        /\ Waiting \in 0 .. KBD_REPORT_Q - 1 /\ KBD_REPORT_Q \in Nat
    BY RingTypes
  <2>3. NextOut = s_kbd_q_tail /\ NextOut' = Succ(s_kbd_q_tail) /\ Published' = Published
    BY <1>1, <2>1 DEF NextOut, Published, kbd_vars
  <2>4. /\ Waiting = Dist(s_kbd_q_tail, s_kbd_q_head)
        /\ Waiting' = Dist(Succ(s_kbd_q_tail), s_kbd_q_head)
    BY <1>1, <2>3 DEF Waiting, ring_vars
  <2>5. /\ Waiting' = Waiting - 1 /\ HandedOver' = HandedOver + 1 /\ HandedOver \in Int
        /\ Waiting > 0
    <3>1. Dist(s_kbd_q_tail, s_kbd_q_head) # 0
      BY <2>1, <2>2, DistFacts
    <3>2. QED
      BY <2>1, <2>2, <2>3, <2>4, <3>1, FirstOut DEF HandedOver
  <2>6. Ends'
    BY <1>1, <2>1 DEF Ends, KbdReport, ring_vars, kbd_vars, past_vars
  <2>7. Numbered'
    <3>1. ASSUME NEW s \in Slot, Dist(NextOut', s) < Waiting'
          PROVE  s_kbd_q'[s].n = HandedOver' + 1 + Dist(NextOut', s)
      <4>1. Dist(NextOut, s) < Waiting /\ Dist(NextOut, s) = Dist(NextOut', s) + 1
        BY <2>1, <2>2, <2>3, <2>4, <2>5, <3>1, FirstOut
      <4>2. s_kbd_q[s].n = HandedOver + 1 + Dist(NextOut, s)
        BY <2>1, <4>1 DEF InOrder, Numbered
      <4>3. Dist(NextOut', s) \in Int
        BY <2>2, <2>3, SuccFacts, DistFacts
      <4>4. QED
        BY <1>1, <2>5, <4>1, <4>2, <4>3 DEF ring_vars
    <3>2. QED
      BY <3>1 DEF Numbered
  <2>8. Delivered' /\ HandedOver' >= 0
    <3>1. s_kbd_q[s_kbd_q_tail].n = HandedOver + 1
      <4>1. Dist(s_kbd_q_tail, s_kbd_q_tail) = 0
        BY <2>2, DistFacts
      <4>2. QED
        BY <2>1, <2>2, <2>3, <2>5, <4>1 DEF InOrder, Numbered
    <3>2. endpoint'.kind = "keyboard" /\ endpoint'.report.n = HandedOver'
      BY <1>1, <2>1, <2>5, <3>1
    <3>3. pcLast = HandedOver \/ (lost = "unread" /\ pcLast = 0)
      BY <2>1, EmptyFacts DEF InOrder, Delivered
    <3>4. HandedOver >= 0 /\ HandedOver' - 1 = HandedOver
      BY <2>1, <2>5 DEF InOrder
    <3>5. QED
      BY <1>1, <2>5, <3>2, <3>3, <3>4 DEF Delivered, pc_vars, past_vars
  <2>9. NewestIsCurrent'
    <3>1. CASE pc0 \notin Making
      <4>1. \A s \in Slot : Succ(s) = s_kbd_q_head => s_kbd_q[s].held = Current
        BY <2>1, <2>5, <3>1 DEF InOrder, NewestIsCurrent
      <4>2. Waiting' = 0 => endpoint'.report.held = Current
        <5>1. Succ(s_kbd_q_tail) \in Slot
          BY <2>2, SuccFacts
        <5>2. Waiting' = 0 => Succ(s_kbd_q_tail) = s_kbd_q_head
          BY <2>2, <2>4, <5>1, DistFacts
        <5>3. QED
          BY <1>1, <2>1, <2>2, <4>1, <5>2
      <4>3. endpoint'.kind = "keyboard"
        BY <1>1
      <4>4. QED
        BY <1>1, <4>1, <4>2, <4>3 DEF NewestIsCurrent, Current, ring_vars, kbd_vars
    <3>2. CASE pc0 \in Making
      BY <1>1, <3>2 DEF NewestIsCurrent
    <3>3. QED
      BY <3>1, <3>2
  <2>10. QED
    BY <2>6, <2>7, <2>8, <2>9 DEF RingInv, InOrder
<1>3. QED
  BY <1>1, <1>2 DEF RingInv, past_vars

LEMMA AdvanceKeepsRing ==
  ASSUME RingInv, BasicInv, KeysInv, Advance
  PROVE  RingInv'
<1>1. /\ UNCHANGED <<kbd_vars, s_kbd_q, s_kbd_q_head, pc_vars, past_vars, pc0, dropping, mounted,
                     endpoint>>
      /\ pc1 = "advance" /\ pc1' = "mouse" /\ s_kbd_q_tail' = Succ(taking)
  BY DEF Advance, TailAfter
<1>2. UNCHANGED <<NextOut, Waiting, Published, HandedOver, Current, KbdReport>>
  BY <1>1 DEF NextOut, Waiting, Published, HandedOver, Current, KbdReport, kbd_vars
<1>3. CASE lost # "raced"
  <2>1. /\ Ends /\ InOrder /\ taking = s_kbd_q_tail /\ s_kbd_q_tail # s_kbd_q_head
        /\ pc0 \notin {"drop", "dropped"}
    BY <1>1, <1>3 DEF RingInv, Ends, BasicInv, EndpointFree
  <2>2. Succ(s_kbd_q_head) # s_kbd_q_tail'
    BY <1>1, <2>1, RingTypes, SuccInjective
  <2>3. Ends'
    BY <1>1, <1>2, <2>1, <2>2 DEF Ends
  <2>4. InOrder'
    BY <1>1, <1>2, <2>1
       DEF InOrder, Numbered, Delivered, NewestIsCurrent, pc_vars, past_vars
  <2>5. QED
    BY <2>3, <2>4 DEF RingInv
<1>4. QED
  BY <1>1, <1>3 DEF RingInv, past_vars

\* The other steps of usb_hid_device_task() put no keyboard report in the endpoint.
LEMMA TaskKeepsRing ==
  ASSUME RingInv, BasicInv, KeysInv,
         CapsPulse \/ DeviceTask \/ Take \/ Mouse \/ ReadButtons \/ MouseReport
  PROVE  RingInv'
<1>1. /\ UNCHANGED <<kbd_vars, ring_vars, pc_vars, past_vars, pc0, dropping, mounted>>
      /\ pc1 # "advance" /\ pc1' # "advance"
  BY DEF CapsPulse, DeviceTask, Take, Mouse, ReadButtons, MouseReport
<1>2. UNCHANGED <<NextOut, Waiting, Published, HandedOver, Current, KbdReport>>
  BY <1>1 DEF NextOut, Waiting, Published, HandedOver, Current, KbdReport, kbd_vars, ring_vars
<1>3. endpoint' = endpoint \/ (endpoint.kind # "keyboard" /\ endpoint'.kind # "keyboard")
  BY EmptyFacts
     DEF CapsPulse, DeviceTask, Take, Mouse, ReadButtons, MouseReport, tud_hid_ready, BasicInv,
         EndpointFree
<1>4. CASE lost # "raced"
  <2>1. Ends /\ InOrder
    BY <1>4 DEF RingInv
  <2>2. /\ pc1' = "take" => s_kbd_q_tail # s_kbd_q_head
        /\ pc1' = "report" => taking' = s_kbd_q_tail /\ s_kbd_q_tail # s_kbd_q_head
    BY <2>1 DEF CapsPulse, DeviceTask, Take, Mouse, ReadButtons, MouseReport, Ends
  <2>3. Ends'
    BY <1>1, <1>2, <2>1, <2>2 DEF Ends, ring_vars, past_vars
  <2>4. InOrder'
    BY <1>1, <1>2, <1>3, <2>1
       DEF InOrder, Numbered, Delivered, NewestIsCurrent, ring_vars, pc_vars, past_vars
  <2>5. QED
    BY <2>3, <2>4 DEF RingInv
<1>5. QED
  BY <1>1, <1>4 DEF RingInv, past_vars

LEMMA MountKeepsRing ==
  ASSUME RingInv, Mount
  PROVE  RingInv'
<1>1. /\ UNCHANGED <<kbd_vars, ring_vars, pc_vars, pulses, pc0, pc1, dropping, taking, endpoint>>
      /\ lost' = IF pc0 \in {"drop", "dropped"} THEN "raced" ELSE lost
  BY DEF Mount
<1>2. UNCHANGED <<NextOut, Waiting, Published, HandedOver, Current, KbdReport>>
  BY <1>1 DEF NextOut, Waiting, Published, HandedOver, Current, KbdReport, kbd_vars, ring_vars
<1>3. CASE lost' # "raced"
  <2>1. Ends /\ InOrder /\ pc0 \notin {"drop", "dropped"} /\ lost' = lost
    BY <1>1, <1>3 DEF RingInv
  <2>2. Ends'
    BY <1>1, <1>2, <2>1 DEF Ends, ring_vars
  <2>3. InOrder'
    BY <1>1, <1>2, <2>1 DEF InOrder, Numbered, Delivered, NewestIsCurrent, ring_vars, pc_vars
  <2>4. QED
    BY <2>2, <2>3 DEF RingInv
<1>4. QED
  BY <1>3 DEF RingInv

\* The PC's last report is the last one handed over, or comes right before it.
LEMMA PollKeepsRing ==
  ASSUME RingInv, BasicInv, KeysInv, PcPolls
  PROVE  RingInv'
<1>1. /\ UNCHANGED <<kbd_vars, ring_vars, past_vars, pc0, pc1, dropping, taking, mounted>>
      /\ endpoint' = Empty
      /\ pcHeld' = IF endpoint.kind = "keyboard" THEN endpoint.report.held
                   ELSE IF endpoint.kind = "pulse" THEN {} ELSE pcHeld
      /\ pcLast' = IF endpoint.kind = "keyboard" THEN endpoint.report.n ELSE pcLast
  BY DEF PcPolls
<1>2. UNCHANGED <<NextOut, Waiting, Published, HandedOver, Current, KbdReport>>
  BY <1>1 DEF NextOut, Waiting, Published, HandedOver, Current, KbdReport, kbd_vars, ring_vars
<1>3. endpoint.kind = "pulse" => pulses > 0
  BY DEF BasicInv, EndpointFree
<1>4. CASE lost # "raced"
  <2>1. Ends /\ InOrder
    BY <1>4 DEF RingInv
  <2>2. Ends'
    BY <1>1, <1>2, <2>1 DEF Ends, ring_vars, past_vars
  <2>3. Numbered' /\ HandedOver' >= 0
    BY <1>1, <1>2, <2>1 DEF InOrder, Numbered, ring_vars
  <2>4. Delivered'
    BY <1>1, <1>2, <2>1, EmptyFacts DEF InOrder, Delivered, past_vars
  <2>5. NewestIsCurrent'
    BY <1>1, <1>2, <1>3, <2>1, EmptyFacts DEF InOrder, NewestIsCurrent, ring_vars, past_vars
  <2>6. QED
    BY <2>2, <2>3, <2>4, <2>5 DEF RingInv, InOrder
<1>5. QED
  BY <1>1, <1>4 DEF RingInv, past_vars

LEMMA NextKeepsRing == RingInv /\ BasicInv /\ KeysInv /\ [Next]_vars => RingInv'
<1>. SUFFICES ASSUME RingInv, BasicInv, KeysInv, [Next]_vars PROVE RingInv'
  OBVIOUS
<1>1. CASE push_key \/ SendBegin \/ DropRead \/ DropWrite \/ Fill \/ Publish
  BY <1>1, PushKeepsRing, SendBeginKeepsRing, DropReadKeepsRing, DropWriteKeepsRing, FillKeepsRing,
     PublishKeepsRing
<1>2. CASE Task
  BY <1>2, ReportKeepsRing, AdvanceKeepsRing, TaskKeepsRing DEF Task
<1>3. CASE Mount \/ PcPolls
  BY <1>3, MountKeepsRing, PollKeepsRing
<1>4. CASE \/ adb_to_usb_keyboard_reg0 \/ adb_to_usb_mouse_reg0 \/ usb_hid_pulse_caps_lock
           \/ StoreButtons \/ StoreMovement \/ MarkDirty \/ UNCHANGED vars
  <2>1. /\ UNCHANGED <<serial, ring_vars, s_keys, s_mod, lost, pc1, dropping, taking, mounted, endpoint,
                       pc_vars>>
        /\ pc0' = pc0 \/ (pc0 \in Elsewhere /\ pc0' \in Elsewhere)
    BY <1>4 DEF adb_to_usb_keyboard_reg0, adb_to_usb_mouse_reg0, usb_hid_pulse_caps_lock, StoreButtons,
                StoreMovement, MarkDirty, vars, kbd_vars, past_vars, Elsewhere
  <2>2. pulses' = 0 => pulses = 0
    <3>1. pulses' = pulses \/ pulses' = pulses + 1
      BY <1>4 DEF adb_to_usb_keyboard_reg0, adb_to_usb_mouse_reg0, usb_hid_pulse_caps_lock,
                  StoreButtons, StoreMovement, MarkDirty, vars, past_vars
    <3>2. pulses \in Nat
      BY DEF BasicInv, Typed
    <3>3. QED
      BY <3>1, <3>2
  <2>3. QED
    BY <2>1, <2>2, OthersKeepRing
<1>5. QED
  BY <1>1, <1>2, <1>3, <1>4 DEF Next, Registers, Translate

HidInv == KeysInv /\ BasicInv /\ ButtonsOnTheirWay /\ RingInv

LEMMA HidInvariant == Spec => []HidInv
<1>1. Init => HidInv
  BY InitKeys, InitBasic, InitButtons, InitRing DEF HidInv
<1>2. HidInv /\ [Next]_vars => HidInv'
  BY NextKeepsKeys, NextKeepsBasic, NextKeepsButtons, NextKeepsRing DEF HidInv
<1>3. QED
  BY <1>1, <1>2, PTL DEF Spec

(* ------------------------------ the theorems --------------------------- *)

\* Every variable of the two cores and the PC keeps its type; and once all is quiet
\* the PC holds the keys of the ADB keyboard and the buttons of the last register,
\* whatever the cores' steps did to the ring and the mouse cell meanwhile
\* (usb_hid_send_keyboard, usb_hid_send_mouse, usb_hid_device_task).
THEOREM PcFollows == Spec => []Inv
<1>1. HidInv => TypeOK
  <2>. SUFFICES ASSUME HidInv PROVE TypeOK
    OBVIOUS
  <2>1. KeysTyped /\ RingTyped /\ MouseTyped /\ PcTyped /\ pc1 \in Tasks
    BY DEF HidInv, KeysInv, BasicInv, Typed
  <2>2. endpoint.kind \in {"none", "keyboard", "mouse", "pulse"}
    BY <2>1, EndpointFacts DEF PcTyped
  <2>3. pcLast \in 0 .. serial
    BY <2>1 DEF HidInv, BasicInv, NumbersPast, RingTyped, PcTyped
  <2>4. s_mouse.buttons \subseteq Button
    BY <2>1 DEF MouseTyped, Register
  <2>5. QED
    BY <2>1, <2>2, <2>3, <2>4
       DEF TypeOK, KeysTyped, RingTyped, MouseTyped, PcTyped, Making, Elsewhere, Tasks, Past
<1>2. HidInv => PcFollowsDevices
  <2>. SUFFICES ASSUME HidInv, Quiet PROVE /\ pulses = 0 /\ lost # "raced" =>
                                                pcHeld \subseteq adbHeld /\ (crowded \/ pcHeld = adbHeld)
                                           /\ pcButtons = s_mouse.buttons
    BY DEF PcFollowsDevices
  <2>1. /\ pc0 = "poll" /\ pc1 = "task" /\ endpoint = Empty /\ s_kbd_q_head = s_kbd_q_tail
        /\ ~s_mouse_dirty
    BY DEF Quiet
  <2>2. pcButtons = s_mouse.buttons
    BY <2>1, EmptyFacts DEF HidInv, ButtonsOnTheirWay
  <2>3. ASSUME pulses = 0, lost # "raced"
        PROVE  pcHeld \subseteq adbHeld /\ (crowded \/ pcHeld = adbHeld)
    <3>1. Waiting = 0
      <4>1. s_kbd_q_head \in Slot
        BY RingTypes DEF HidInv
      <4>2. QED
        BY <2>1, <4>1, DistFacts DEF Waiting, NextOut
    <3>2. pcHeld = Current
      BY <2>1, <2>3, <3>1, EmptyFacts DEF HidInv, RingInv, InOrder, NewestIsCurrent, Making
    <3>3. events = <<>>
      BY <2>1 DEF HidInv, KeysInv, EventsPending, Elsewhere
    <3>4. QED
      BY <3>2, <3>3 DEF HidInv, KeysInv, KeysFollow, HeldBefore
  <2>4. QED
    BY <2>2, <2>3
<1>3. QED
  BY <1>1, <1>2, HidInvariant, PTL DEF Inv

\* The PC reads the keyboard reports in order and each of them once, but for the
\* oldest that a full ring dropped before the PC was there
\* (usb_hid_send_keyboard, usb_hid_device_task).
THEOREM ReportsArrive == Spec => EveryReportArrives
<1>1. HidInv /\ [Next]_vars =>
        [pcLast' # pcLast /\ lost # "raced" =>
           pcLast' = pcLast + 1 \/ (lost = "unread" /\ pcLast = 0 /\ pcLast' > 0)]_vars
  <2>. SUFFICES ASSUME HidInv, [Next]_vars, pcLast' # pcLast, lost # "raced"
                PROVE  pcLast' = pcLast + 1 \/ (lost = "unread" /\ pcLast = 0 /\ pcLast' > 0)
    OBVIOUS
  <2>1. CASE PcPolls
    <3>1. endpoint.kind = "keyboard" /\ pcLast' = endpoint.report.n
      BY <2>1 DEF PcPolls
    <3>2. /\ endpoint.report.n = HandedOver /\ HandedOver > 0
          /\ pcLast = HandedOver - 1 \/ (lost = "unread" /\ pcLast = 0)
      BY <3>1 DEF HidInv, RingInv, InOrder, Delivered
    <3>3. HandedOver \in Int
      BY RingTypes DEF HidInv
    <3>4. QED
      BY <3>1, <3>2, <3>3
  <2>2. CASE ~PcPolls
    <3>1. UNCHANGED pc_vars
      BY <2>2
         DEF Next, Registers, Translate, Task, adb_to_usb_keyboard_reg0, adb_to_usb_mouse_reg0,
             usb_hid_pulse_caps_lock, push_key, SendBegin, DropRead, DropWrite, Fill, Publish,
             StoreButtons, StoreMovement, MarkDirty, CapsPulse, DeviceTask, Take, Report, Advance,
             Mouse, ReadButtons, MouseReport, Mount, vars
    <3>2. QED
      BY <3>1 DEF pc_vars
  <2>3. QED
    BY <2>1, <2>2
<1>2. QED
  BY <1>1, HidInvariant, PTL DEF Spec, EveryReportArrives

(* -------------------- the bus: the inductive invariant ------------------ *)

Entry == [addr : Bus!kScanAddrs, active : BOOLEAN,
          poll_attempts : 0 .. kProbePollAttempts, ever_responded : BOOLEAN]

Distinct(t) == \A i, j \in Bus!Indices(t) : t[i].addr = t[j].addr => i = j

\* No slot is for an address nobody can be at.
Known(t) == \A i \in Bus!Indices(t) : t[i].addr \in Bus!Places

\* Without noise only the phantom of a relocation is ever dropped, so that a
\* second keyboard is never added.
Kept(t) == ~noisy =>
  /\ \A i \in Bus!Indices(t) : t[i].addr # 15 => t[i].active
  /\ \A i, j \in Bus!Indices(t) : t[i].addr \in Bus!KeyboardAddress /\ t[j].addr \in Bus!KeyboardAddress => i = j

Table(t) ==
  /\ t \in Seq(Entry) /\ Len(t) <= kMaxDevices
  /\ Distinct(t) /\ Known(t) /\ Kept(t)

\* A device is where it came up, or where a relocation may have put it.
Somewhere(where) ==
  /\ where \in [Device -> Bus!Address]
  /\ \A d \in Device : /\ where[d] \in {Home[d], 14, 15}
                       /\ Home[d] \in Bus!PointingAddress => where[d] \in Bus!PointingAddress

HostInv ==
  /\ noisy \in Noise /\ plugged \subseteq Device /\ entered_ \in BOOLEAN
  /\ Somewhere(at) /\ Table(devices_)
  /\ Bus!DirectDeviceStays

\* A later table has all a former one had.
Grows(t, u) ==
  /\ \A a : Bus!has_device_at(t, a) => Bus!has_device_at(u, a)
  /\ \A k : Bus!has_device_kind(t, k) => Bus!has_device_kind(u, k)

(* ------------------------------ the table ------------------------------ *)

LEMMA Constants ==
  ASSUME Bus!HostAssumption
  PROVE
  /\ kMaxDevices \in Nat /\ kMaxDevices > 3 /\ kProbePollAttempts \in Nat
  /\ Home \in [Device -> Bus!Address]
  /\ Bus!kScanAddrs = {2, 3, 4, 5, 6, 7, 14, 15}
  /\ {2, 14, 15} \subseteq Bus!Places /\ Bus!Places \subseteq Bus!kScanAddrs
  BY DEF Bus!HostAssumption, Bus!Places, Bus!kScanAddrs

\* A table with the same addresses in which nothing but slots at 15 is dropped
LEMMA SameAddresses ==
  ASSUME Bus!HostAssumption, NEW t, Table(t), NEW u, u \in Seq(Entry), Len(u) = Len(t),
         \A i \in Bus!Indices(t) : u[i].addr = t[i].addr,
         ~noisy => \A i \in Bus!Indices(t) : t[i].addr # 15 /\ t[i].active => u[i].active
  PROVE  Table(u)
<1>1. Bus!Indices(u) = Bus!Indices(t)
  BY DEF Bus!Indices
<1>2. Distinct(u) /\ Known(u)
  BY <1>1 DEF Table, Distinct, Known
<1>3. Kept(u)
  BY <1>1 DEF Table, Kept
<1>4. QED
  BY <1>2, <1>3 DEF Table

LEMMA EnsureReactivates ==
  ASSUME Bus!HostAssumption, NEW t, Table(t), NEW a \in Bus!Places, \E i \in Bus!Indices(t) : t[i].addr = a
  PROVE  /\ Table(Bus!ensure_device(t, a)) /\ Grows(t, Bus!ensure_device(t, a))
         /\ Bus!has_device_at(Bus!ensure_device(t, a), a)
<1>. DEFINE u == Bus!Reactivated(t, a)
<1>1. Bus!ensure_device(t, a) = u
  BY DEF Bus!ensure_device
<1>2. t \in Seq(Entry) /\ Len(t) \in Nat /\ \A i \in Bus!Indices(t) : t[i] \in Entry
  BY DEF Table, Bus!Indices
<1>3. \A i \in Bus!Indices(t) : /\ u[i] \in Entry /\ u[i].addr = t[i].addr
                                /\ t[i].active => u[i].active
                                /\ t[i].addr = a => u[i].active
  BY <1>2 DEF Bus!Reactivated, Entry
<1>4. u = [i \in 1 .. Len(t) |-> u[i]]
  BY DEF Bus!Reactivated, Bus!Indices
<1>5. u \in Seq(Entry) /\ Len(u) = Len(t)
  BY <1>2, <1>3, <1>4 DEF Bus!Indices
<1>. HIDE DEF u
<1>6. Table(u)
  BY <1>3, <1>5, SameAddresses
<1>7. Bus!Indices(u) = Bus!Indices(t)
  BY <1>5 DEF Bus!Indices
<1>8. Grows(t, u) /\ Bus!has_device_at(u, a)
  BY <1>3, <1>7 DEF Grows, Bus!has_device_at, Bus!has_device_kind
<1>9. QED
  BY <1>1, <1>6, <1>8

\* A slot is added for an address that has none, when there is room and it is
\* not for a second keyboard.
LEMMA EnsureAppends ==
  ASSUME Bus!HostAssumption, NEW t, Table(t), NEW a \in Bus!Places, ~\E i \in Bus!Indices(t) : t[i].addr = a,
         ~(Bus!Kind(a) = "keyboard" /\ Bus!has_device_kind(t, "keyboard")), Len(t) < kMaxDevices
  PROVE  /\ Table(Bus!ensure_device(t, a)) /\ Grows(t, Bus!ensure_device(t, a))
         /\ Bus!has_device_at(Bus!ensure_device(t, a), a)
<1>. DEFINE u == Append(t, Bus!NewSlot(a))
<1>1. Bus!ensure_device(t, a) = u
  BY Constants DEF Bus!ensure_device, Table
<1>2. t \in Seq(Entry) /\ Len(t) \in Nat /\ Bus!NewSlot(a) \in Entry
  BY Constants DEF Table, Bus!NewSlot, Entry
<1>3. /\ u \in Seq(Entry) /\ Len(u) = Len(t) + 1
      /\ \A i \in 1 .. Len(t) : u[i] = t[i]
      /\ u[Len(t) + 1] = Bus!NewSlot(a)
  BY <1>2
<1>4. Bus!Indices(u) = Bus!Indices(t) \cup {Len(t) + 1} /\ \A i \in Bus!Indices(t) : u[i] = t[i]
  BY <1>2, <1>3 DEF Bus!Indices
<1>5. Bus!NewSlot(a).addr = a /\ Bus!NewSlot(a).active
  BY DEF Bus!NewSlot
<1>6. Len(u) <= kMaxDevices
  BY <1>2, <1>3, Constants
<1>. HIDE DEF u
<1>7. Distinct(u) /\ Known(u)
  BY <1>3, <1>4, <1>5 DEF Table, Distinct, Known
<1>8. Kept(u)
  <2>1. SUFFICES ASSUME ~noisy PROVE Kept(u)
    BY DEF Kept
  <2>2. \A i \in Bus!Indices(u) : u[i].addr # 15 => u[i].active
    BY <1>3, <1>4, <1>5, <2>1 DEF Table, Kept
  <2>3. CASE a \in Bus!KeyboardAddress
    <3>1. ~\E i \in Bus!Indices(t) : t[i].active /\ Bus!Kind(t[i].addr) = "keyboard"
      BY <2>3 DEF Bus!Kind, Bus!has_device_kind
    <3>2. \A i \in Bus!Indices(t) : t[i].addr \notin Bus!KeyboardAddress
      BY <2>1, <3>1 DEF Bus!Kind, Table, Kept, Bus!KeyboardAddress
    <3>3. QED
      BY <1>3, <1>4, <1>5, <2>2, <3>2 DEF Kept
  <2>4. CASE a \notin Bus!KeyboardAddress
    BY <1>3, <1>4, <1>5, <2>1, <2>2, <2>4 DEF Table, Kept
  <2>5. QED
    BY <2>3, <2>4
<1>9. Grows(t, u) /\ Bus!has_device_at(u, a)
  BY <1>3, <1>4, <1>5 DEF Grows, Bus!has_device_at, Bus!has_device_kind
<1>10. QED
  BY <1>1, <1>3, <1>6, <1>7, <1>8, <1>9 DEF Table

LEMMA EnsureKeeps ==
  ASSUME Bus!HostAssumption, NEW t, Table(t), NEW a \in Bus!Places
  PROVE  Table(Bus!ensure_device(t, a)) /\ Grows(t, Bus!ensure_device(t, a))
<1>1. CASE \E i \in Bus!Indices(t) : t[i].addr = a
  BY <1>1, EnsureReactivates
<1>2. CASE /\ ~\E i \in Bus!Indices(t) : t[i].addr = a
           /\ ~(Bus!Kind(a) = "keyboard" /\ Bus!has_device_kind(t, "keyboard")) /\ Len(t) < kMaxDevices
  BY <1>2, EnsureAppends
<1>3. CASE /\ ~\E i \in Bus!Indices(t) : t[i].addr = a
           /\ (Bus!Kind(a) = "keyboard" /\ Bus!has_device_kind(t, "keyboard")) \/ Len(t) >= kMaxDevices
  <2>1. Bus!ensure_device(t, a) = t
    BY <1>3 DEF Bus!ensure_device
  <2>2. QED
    BY <2>1 DEF Grows
<1>4. Len(t) \in Nat /\ kMaxDevices \in Nat
  BY Constants DEF Table
<1>5. QED
  BY <1>1, <1>2, <1>3, <1>4

\* Without noise there is room for every pointing device: one keyboard, and a slot
\* for each other pointing address.
LEMMA RoomForPointing ==
  ASSUME Bus!HostAssumption, NEW t, Table(t), ~noisy, NEW a \in Bus!PointingAddress, ~\E i \in Bus!Indices(t) : t[i].addr = a
  PROVE  Len(t) <= 3
<1>1. SUFFICES ASSUME Len(t) > 3 PROVE FALSE
  BY DEF Table
<1>2. t \in Seq(Entry) /\ {1, 2, 3, 4} \subseteq Bus!Indices(t)
  BY <1>1 DEF Table, Bus!Indices
<1>3. \A i \in Bus!Indices(t) : t[i].addr \in Bus!kScanAddrs \ {a}
  BY <1>2, Constants DEF Table, Known
<1>4. \A i, j \in Bus!Indices(t) : i # j =>
        t[i].addr # t[j].addr /\ ~(t[i].addr \in Bus!KeyboardAddress /\ t[j].addr \in Bus!KeyboardAddress)
  BY DEF Table, Distinct, Kept
<1>5. \A i, j \in Bus!Indices(t) : i # j =>
        t[i].addr # t[j].addr /\ (t[i].addr \in Bus!PointingAddress \ {a} \/ t[j].addr \in Bus!PointingAddress \ {a})
  BY <1>3, <1>4 DEF Bus!kScanAddrs, Bus!KeyboardAddress, Bus!PointingAddress
<1>6. \E x, y : Bus!PointingAddress \ {a} = {x, y}
  <2>1. /\ {3, 14, 15} \ {3} = {14, 15}
        /\ {3, 14, 15} \ {14} = {3, 15}
        /\ {3, 14, 15} \ {15} = {3, 14}
    OBVIOUS
  <2>2. QED
    BY <2>1 DEF Bus!PointingAddress
<1>7. PICK x, y : Bus!PointingAddress \ {a} = {x, y}
  BY <1>6
<1>8. QED
  BY <1>2, <1>5, <1>7

LEMMA EnsureFinds ==
  ASSUME Bus!HostAssumption, NEW t, Table(t), ~noisy, NEW a \in Bus!PointingAddress, a \in Bus!Places
  PROVE  Bus!has_device_at(Bus!ensure_device(t, a), a)
<1>1. CASE \E i \in Bus!Indices(t) : t[i].addr = a
  BY <1>1, EnsureReactivates
<1>2. CASE ~\E i \in Bus!Indices(t) : t[i].addr = a
  <2>1. Len(t) <= 3 /\ Len(t) \in Nat
    BY <1>2, RoomForPointing DEF Table
  <2>2. Len(t) < kMaxDevices
    BY <2>1, Constants
  <2>3. Bus!Kind(a) # "keyboard"
    BY DEF Bus!Kind, Bus!KeyboardAddress, Bus!PointingAddress
  <2>4. QED
    BY <1>2, <2>2, <2>3, EnsureAppends
<1>3. QED
  BY <1>1, <1>2

LEMMA GrowsTwice ==
  ASSUME NEW t, NEW u, NEW v, Grows(t, u), Grows(u, v)
  PROVE  Grows(t, v)
  BY DEF Grows

(* ------------------------------ the scan ------------------------------- *)

LEMMA ScannedKeeps ==
  ASSUME Bus!HostAssumption, NEW t, Table(t), NEW heard, heard \subseteq Bus!Places, NEW a
  PROVE  Table(Bus!Scanned(t, heard, a)) /\ Grows(t, Bus!Scanned(t, heard, a))
<1>1. CASE a \in heard
  BY <1>1, EnsureKeeps DEF Bus!Scanned
<1>2. CASE a \notin heard
  BY <1>2 DEF Bus!Scanned, Grows
<1>3. QED
  BY <1>1, <1>2

\* Without noise a pointing device that is heard gets its slot.
LEMMA ScannedFinds ==
  ASSUME Bus!HostAssumption, NEW t, Table(t), NEW heard, heard \subseteq Bus!Places, ~noisy,
         NEW a \in heard, a \in Bus!PointingAddress
  PROVE  Bus!has_device_at(Bus!Scanned(t, heard, a), a)
  BY EnsureFinds DEF Bus!Scanned

Finds(t, heard, addrs) ==
  ~noisy => \A a \in addrs : a \in heard /\ a \in Bus!PointingAddress => Bus!has_device_at(t, a)

LEMMA FoundStays ==
  ASSUME NEW t, NEW u, Grows(t, u), NEW heard, NEW addrs, Finds(t, heard, addrs)
  PROVE  Finds(u, heard, addrs)
  BY DEF Grows, Finds

LEMMA ScannedNext ==
  ASSUME Bus!HostAssumption, NEW t, Table(t), NEW heard, heard \subseteq Bus!Places,
         NEW done, Finds(t, heard, done), NEW a
  PROVE  /\ Table(Bus!Scanned(t, heard, a)) /\ Grows(t, Bus!Scanned(t, heard, a))
         /\ Finds(Bus!Scanned(t, heard, a), heard, done \cup {a})
<1>. DEFINE u == Bus!Scanned(t, heard, a)
<1>1. Table(u) /\ Grows(t, u)
  BY ScannedKeeps
<1>2. ~noisy /\ a \in heard /\ a \in Bus!PointingAddress => Bus!has_device_at(u, a)
  BY ScannedFinds
<1>. HIDE DEF u
<1>3. Finds(u, heard, done)
  BY <1>1, FoundStays
<1>4. Finds(u, heard, done \cup {a})
  BY <1>2, <1>3 DEF Finds
<1>5. QED
  BY <1>1, <1>4 DEF u

LEMMA Scanned4Next ==
  ASSUME Bus!HostAssumption, NEW t, Table(t), NEW heard, heard \subseteq Bus!Places,
         NEW done, Finds(t, heard, done), NEW a, NEW b, NEW c, NEW d
  PROVE  /\ Table(Bus!Scanned4(t, heard, a, b, c, d)) /\ Grows(t, Bus!Scanned4(t, heard, a, b, c, d))
         /\ Finds(Bus!Scanned4(t, heard, a, b, c, d), heard, done \cup {a, b, c, d})
<1>. DEFINE t1 == Bus!Scanned(t, heard, a)
            t2 == Bus!Scanned(t1, heard, b)
            t3 == Bus!Scanned(t2, heard, c)
            t4 == Bus!Scanned(t3, heard, d)
<1>0. Bus!Scanned4(t, heard, a, b, c, d) = t4
  BY DEF Bus!Scanned4
<1>1. Table(t1) /\ Grows(t, t1) /\ Finds(t1, heard, done \cup {a})
  BY ScannedNext
<1>. HIDE DEF t1
<1>2. Table(t2) /\ Grows(t1, t2) /\ Finds(t2, heard, (done \cup {a}) \cup {b})
  BY <1>1, ScannedNext
<1>. HIDE DEF t2
<1>3. Table(t3) /\ Grows(t2, t3) /\ Finds(t3, heard, ((done \cup {a}) \cup {b}) \cup {c})
  BY <1>2, ScannedNext
<1>. HIDE DEF t3
<1>4. Table(t4) /\ Grows(t3, t4) /\ Finds(t4, heard, (((done \cup {a}) \cup {b}) \cup {c}) \cup {d})
  BY <1>3, ScannedNext
<1>. HIDE DEF t4
<1>5. (((done \cup {a}) \cup {b}) \cup {c}) \cup {d} = done \cup {a, b, c, d}
  OBVIOUS
<1>6. Grows(t, t4)
  BY <1>1, <1>2, <1>3, <1>4, GrowsTwice
<1>7. QED
  BY <1>0, <1>4, <1>5, <1>6

\* A scan keeps what the table has, and finds every pointing device it hears.
LEMMA Scan ==
  ASSUME Bus!HostAssumption, NEW t, Table(t), NEW heard, heard \subseteq Bus!Places
  PROVE  /\ Table(Bus!scan_r3(t, heard)) /\ Grows(t, Bus!scan_r3(t, heard))
         /\ ~noisy => \A a \in heard \cap Bus!PointingAddress : Bus!has_device_at(Bus!scan_r3(t, heard), a)
<1>. DEFINE u == Bus!Scanned4(t, heard, 2, 3, 4, 5)
            v == Bus!Scanned4(u, heard, 6, 7, 14, 15)
<1>0. Bus!scan_r3(t, heard) = v
  BY DEF Bus!scan_r3
<1>1. Finds(t, heard, {})
  BY DEF Finds
<1>2. Table(u) /\ Grows(t, u) /\ Finds(u, heard, {} \cup {2, 3, 4, 5})
  BY <1>1, Scanned4Next
<1>. HIDE DEF u
<1>3. Table(v) /\ Grows(u, v) /\ Finds(v, heard, ({} \cup {2, 3, 4, 5}) \cup {6, 7, 14, 15})
  BY <1>2, Scanned4Next
<1>. HIDE DEF v
<1>4. Grows(t, v)
  BY <1>2, <1>3, GrowsTwice
<1>5. \A a \in Bus!PointingAddress : a \in ({} \cup {2, 3, 4, 5}) \cup {6, 7, 14, 15}
  BY DEF Bus!PointingAddress
<1>6. ~noisy => \A a \in heard \cap Bus!PointingAddress : Bus!has_device_at(v, a)
  BY <1>3, <1>5 DEF Finds
<1>7. QED
  BY <1>0, <1>3, <1>4, <1>6

\* Only places are heard, and without noise all the devices that answer there.
LEMMA HeardPlaces ==
  ASSUME Bus!HostAssumption, NEW on \in SUBSET Device, NEW where, Somewhere(where),
         NEW heard \in Bus!Heard(on, where)
  PROVE  /\ heard \subseteq Bus!Places
         /\ ~noisy => \A d \in on \cap Answers3 : where[d] \in Bus!kScanAddrs => where[d] \in heard
<1>1. {where[d] : d \in on \cap Answers3} \cap Bus!kScanAddrs \subseteq Bus!Places
  BY DEF Somewhere, Bus!Places
<1>2. QED
  BY <1>1 DEF Bus!Heard

(* ------------------------- the default keyboard ------------------------ *)

\* A table without a keyboard has room for one, or a slot to use again.
LEMMA RoomForKeyboard ==
  ASSUME Bus!HostAssumption, NEW t, Table(t), ~Bus!has_device_kind(t, "keyboard"),
         noisy => Cardinality(Bus!Places) <= kMaxDevices, ~\E i \in Bus!Indices(t) : t[i].addr = 2
  PROVE  Len(t) < kMaxDevices
<1>. DEFINE n == Len(t)
<1>1. t \in Seq(Entry) /\ n \in Nat /\ kMaxDevices \in Nat /\ kMaxDevices > 3
  BY Constants DEF Table
<1>2. CASE ~noisy
  <2>1. \A i \in Bus!Indices(t) : t[i].addr \in Bus!kScanAddrs /\ t[i].addr \notin Bus!KeyboardAddress
    <3>1. \A i \in Bus!Indices(t) : t[i].addr \in Bus!KeyboardAddress => ~t[i].active
      BY DEF Bus!has_device_kind, Bus!Kind
    <3>2. \A i \in Bus!Indices(t) : t[i].addr \in Bus!KeyboardAddress => t[i].active
      BY <1>2 DEF Table, Kept, Bus!KeyboardAddress
    <3>3. QED
      BY <3>1, <3>2, Constants DEF Table, Known
  <2>2. \A i \in Bus!Indices(t) : t[i].addr \in {3, 14, 15}
    BY <2>1 DEF Bus!kScanAddrs, Bus!KeyboardAddress
  <2>3. SUFFICES ASSUME n > 3 PROVE FALSE
    BY <1>1
  <2>4. {1, 2, 3, 4} \subseteq Bus!Indices(t)
    BY <1>1, <2>3 DEF Bus!Indices
  <2>5. \A i, j \in {1, 2, 3, 4} : t[i].addr = t[j].addr => i = j
    BY <2>4 DEF Table, Distinct
  <2>6. QED
    BY <2>2, <2>4, <2>5
<1>3. CASE noisy
  <2>. DEFINE f == [i \in 1 .. n |-> t[i].addr]
  <2>1. f \in Injection(1 .. n, Bus!Places \ {2})
    <3>1. \A i \in 1 .. n : t[i].addr \in Bus!Places \ {2}
      BY DEF Table, Known, Bus!Indices
    <3>2. \A i, j \in 1 .. n : t[i].addr = t[j].addr => i = j
      BY DEF Table, Distinct, Bus!Indices
    <3>3. QED
      BY <3>1, <3>2 DEF Injection, IsInjective
  <2>2. IsFiniteSet(Bus!Places) /\ 2 \in Bus!Places
    <3>1. IsFiniteSet(2 .. 15)
      <4>1. 2 \in Int /\ 15 \in Int
        OBVIOUS
      <4>2. QED
        BY ONLY <4>1, FS_Interval
    <3>2. Bus!Places \subseteq 2 .. 15
      BY Constants
    <3>3. IsFiniteSet(Bus!Places)
      BY <3>1, <3>2, FS_Subset
    <3>4. QED
      BY <3>3, Constants
  <2>3. /\ IsFiniteSet(Bus!Places \ {2}) /\ Cardinality(Bus!Places) \in Nat
        /\ Cardinality(Bus!Places \ {2}) = Cardinality(Bus!Places) - 1
    BY <2>2, FS_RemoveElement, FS_CardinalityType
  <2>4. Cardinality(1 .. n) = n
    <3>1. 1 \in Int /\ n \in Int
      BY <1>1
    <3>2. Cardinality(1 .. n) = IF 1 > n THEN 0 ELSE n - 1 + 1
      BY <3>1, FS_Interval
    <3>3. QED
      BY <1>1, <3>2
  <2>5. n <= Cardinality(Bus!Places) - 1
    BY <2>1, <2>3, <2>4, FS_Injection
  <2>6. QED
    BY <1>1, <1>3, <2>3, <2>5
<1>4. QED
  BY <1>2, <1>3

LEMMA DefaultKeyboard ==
  ASSUME Bus!HostAssumption, NEW t, Table(t)
  PROVE  /\ Table(Bus!try_keyboard_default(t))
         /\ (noisy => Cardinality(Bus!Places) <= kMaxDevices) =>
              Bus!has_device_kind(Bus!try_keyboard_default(t), "keyboard")
<1>1. CASE Bus!has_device_kind(t, "keyboard")
  BY <1>1 DEF Bus!try_keyboard_default
<1>2. CASE ~Bus!has_device_kind(t, "keyboard")
  <2>. DEFINE u == Bus!ensure_device(t, 2)
  <2>1. Bus!try_keyboard_default(t) = u /\ 2 \in Bus!Places
    BY <1>2, Constants DEF Bus!try_keyboard_default
  <2>2. Table(u)
    BY <2>1, EnsureKeeps
  <2>3. ASSUME noisy => Cardinality(Bus!Places) <= kMaxDevices
        PROVE  Bus!has_device_at(u, 2)
    <3>1. CASE \E i \in Bus!Indices(t) : t[i].addr = 2
      BY <2>1, <3>1, EnsureReactivates
    <3>2. CASE ~\E i \in Bus!Indices(t) : t[i].addr = 2
      BY <1>2, <2>1, <2>3, <3>2, RoomForKeyboard, EnsureAppends
    <3>3. QED
      BY <3>1, <3>2
  <2>. HIDE DEF u
  <2>4. Bus!has_device_at(u, 2) => Bus!has_device_kind(u, "keyboard")
    BY DEF Bus!has_device_at, Bus!has_device_kind, Bus!Kind, Bus!KeyboardAddress
  <2>5. QED
    BY <2>1, <2>2, <2>3, <2>4
<1>3. QED
  BY <1>1, <1>2

(* ----------------------------- the actions ----------------------------- *)

LEMMA PrunedKeeps ==
  ASSUME Bus!HostAssumption, NEW t, Table(t)
  PROVE  Table(Bus!Pruned(t))
<1>. DEFINE u == Bus!prune_relocation_ghost(t)
<1>1. t \in Seq(Entry) /\ Len(t) \in Nat /\ \A i \in Bus!Indices(t) : t[i] \in Entry
  BY DEF Table, Bus!Indices
<1>2. \A i \in Bus!Indices(t) : /\ u[i] \in Entry /\ u[i].addr = t[i].addr
                                /\ t[i].addr # 15 /\ t[i].active => u[i].active
  BY <1>1 DEF Bus!prune_relocation_ghost, Bus!Ghost, Entry
<1>3. u = [i \in 1 .. Len(t) |-> u[i]]
  BY DEF Bus!prune_relocation_ghost, Bus!Indices
<1>4. u \in Seq(Entry) /\ Len(u) = Len(t)
  BY <1>1, <1>2, <1>3 DEF Bus!Indices
<1>. HIDE DEF u
<1>5. Table(u)
  BY <1>2, <1>4, SameAddresses
<1>6. QED
  BY <1>5 DEF Bus!Pruned, u

LEMMA ResetSomewhere ==
  ASSUME Bus!HostAssumption, NEW where, Somewhere(where)
  PROVE  Somewhere(Bus!GlobalReset(where))
<1>1. Home \in [Device -> Bus!Address]
  BY Constants
<1>2. QED
  BY <1>1 DEF Somewhere, Bus!GlobalReset

LEMMA RelocatedSomewhere ==
  ASSUME Bus!HostAssumption, NEW where, Somewhere(where)
  PROVE  Somewhere(Bus!Relocated(where))
<1>. DEFINE first == [d \in Device |-> IF d \in plugged /\ where[d] = 3 THEN 15 ELSE where[d]]
            second == [d \in Device |-> IF d \in plugged \ Relocates /\ first[d] = 15 THEN 14 ELSE first[d]]
<1>1. 14 \in Bus!Address /\ 15 \in Bus!Address /\ 14 \in Bus!PointingAddress /\ 15 \in Bus!PointingAddress
  BY DEF Bus!Address, Bus!PointingAddress
<1>2. Somewhere(first)
  BY <1>1 DEF Somewhere
<1>. HIDE DEF first
<1>3. Somewhere(second)
  BY <1>1, <1>2 DEF Somewhere
<1>4. QED
  BY <1>3 DEF Bus!Relocated, first, second

Direct(where) == \A d \in Answers3 : Home[d] = 3 => where[d] = 3

\* A device at 3 that answers keeps the host from relocating.
LEMMA Discovery ==
  ASSUME Bus!HostAssumption, NEW t, Table(t), NEW where, Somewhere(where),
         plugged \subseteq Device, ~noisy => Direct(where),
         NEW heard \in Bus!Heard(plugged, where), Bus!Discovered(Bus!scan_r3(t, heard), where)
  PROVE  /\ Somewhere(at') /\ Table(devices_') /\ (~noisy => Direct(at'))
         /\ (noisy => Cardinality(Bus!Places) <= kMaxDevices) => Bus!has_device_kind(devices_', "keyboard")
<1>. DEFINE u == Bus!scan_r3(t, heard)
<1>1. heard \subseteq Bus!Places
  BY HeardPlaces
<1>2. ~noisy => \A a \in heard \cap Bus!PointingAddress : Bus!has_device_at(u, a)
  BY <1>1, Scan
<1>3. Table(u)
  BY <1>1, Scan
<1>. HIDE DEF u
<1>4. CASE Bus!RelocationDue(u)
  <2>1. at' = Bus!Relocated(where) /\ devices_' = Bus!try_keyboard_default(Bus!ensure_device(u, 15))
    BY <1>4 DEF Bus!Discovered, u
  <2>2. Table(Bus!ensure_device(u, 15))
    BY <1>3, Constants, EnsureKeeps
  <2>3. ASSUME ~noisy, NEW d \in Answers3, Home[d] = 3 PROVE at'[d] = 3
    <3>1. where[d] = 3 /\ d \in Device
      BY <2>3 DEF Direct, Bus!HostAssumption
    <3>2. d \notin plugged
      <4>1. SUFFICES ASSUME d \in plugged PROVE FALSE
        OBVIOUS
      <4>2. 3 \in heard
        BY <2>3, <3>1, <4>1, HeardPlaces DEF Bus!kScanAddrs
      <4>3. Bus!has_device_at(u, 3)
        BY <1>2, <1>3, <2>3, <4>2 DEF Bus!PointingAddress
      <4>4. QED
        BY <1>4, <4>3 DEF Bus!RelocationDue
    <3>3. QED
      BY <2>1, <3>1, <3>2 DEF Bus!Relocated
  <2>4. QED
    BY <2>1, <2>2, <2>3, RelocatedSomewhere, DefaultKeyboard DEF Direct
<1>5. CASE ~Bus!RelocationDue(u)
  <2>1. at' = where /\ devices_' = Bus!try_keyboard_default(Bus!Pruned(u))
    BY <1>5 DEF Bus!Discovered, u
  <2>2. Table(Bus!Pruned(u))
    BY <1>3, PrunedKeeps
  <2>3. QED
    BY <2>1, <2>2, DefaultKeyboard
<1>6. QED
  BY <1>4, <1>5

LEMMA EmptyTable == ASSUME Bus!HostAssumption PROVE Table(<<>>)
<1>1. <<>> \in Seq(Entry) /\ Len(<<>>) = 0 /\ Bus!Indices(<<>>) = {}
  BY DEF Bus!Indices
<1>2. 0 <= kMaxDevices
  BY Constants
<1>3. QED
  BY <1>1, <1>2 DEF Table, Distinct, Known, Kept

\* The poll of a slot keeps its address, and without noise its place.
LEMMA PollKeeps ==
  ASSUME Bus!HostAssumption, Table(devices_), NEW i \in Bus!Indices(devices_), Bus!poll_device_slot(i)
  PROVE  Table(devices_')
<1>1. PICK outcome \in Bus!Talk0(Bus!Present(plugged, at, devices_[i].addr)) :
        devices_' = [devices_ EXCEPT ![i] = Bus!PolledSlot(@, outcome)]
  BY DEF Bus!poll_device_slot
<1>2. ~noisy => outcome # "error"
  BY DEF Bus!Talk0
<1>3. devices_ \in Seq(Entry) /\ Len(devices_) \in Nat /\ \A j \in Bus!Indices(devices_) : devices_[j] \in Entry
  BY DEF Table, Bus!Indices
<1>4. kProbePollAttempts \in Nat
  BY Constants
<1>. DEFINE s == devices_[i]
            p == Bus!PolledSlot(s, outcome)
<1>5. s \in Entry
  BY <1>3
<1>6. p \in Entry /\ p.addr = s.addr /\ (outcome # "error" => p.active = s.active)
  <2>. HIDE DEF s
  <2>1. CASE outcome = "error"
    <3>1. Bus!Count(s.poll_attempts) \in 0 .. kProbePollAttempts
      BY <1>4, <1>5 DEF Bus!Count, Entry
    <3>2. Bus!Dropped(s) \in BOOLEAN
      BY DEF Bus!Dropped
    <3>3. p = [s EXCEPT !.poll_attempts = Bus!Count(s.poll_attempts), !.active = ~Bus!Dropped(s)]
      BY <2>1 DEF Bus!PolledSlot
    <3>. HIDE DEF p
    <3>4. QED
      BY <1>5, <2>1, <3>1, <3>2, <3>3 DEF Entry
  <2>2. CASE outcome # "error"
    <3>1. p = [s EXCEPT !.poll_attempts = 0, !.ever_responded = TRUE]
      BY <2>2 DEF Bus!PolledSlot
    <3>. HIDE DEF p
    <3>2. 0 \in 0 .. kProbePollAttempts
      BY <1>4
    <3>3. p \in Entry /\ p.addr = s.addr
      BY <1>5, <3>1, <3>2 DEF Entry
    <3>4. p.active = s.active
      BY <1>5, <3>1 DEF Entry
    <3>5. QED
      BY <3>3, <3>4
  <2>3. QED
    BY <2>1, <2>2
<1>. DEFINE u == [devices_ EXCEPT ![i] = p]
<1>7. devices_' = u
  BY <1>1
<1>. HIDE DEF p
<1>8. u \in Seq(Entry) /\ Len(u) = Len(devices_)
  BY <1>3, <1>6 DEF Bus!Indices
<1>9. \A j \in Bus!Indices(devices_) : u[j] = IF j = i THEN p ELSE devices_[j]
  BY <1>3 DEF Bus!Indices
<1>. HIDE DEF u
<1>10. /\ \A j \in Bus!Indices(devices_) : u[j].addr = devices_[j].addr
       /\ ~noisy => \A j \in Bus!Indices(devices_) : devices_[j].addr # 15 /\ devices_[j].active => u[j].active
  BY <1>2, <1>6, <1>9
<1>11. QED
  BY <1>7, <1>8, <1>10, SameAddresses

LEMMA HostInit == ASSUME Bus!HostAssumption, Bus!Init PROVE HostInv
<1>1. Somewhere(Home)
  BY Constants DEF Somewhere
<1>2. Table(<<>>)
  BY EmptyTable
<1>3. QED
  BY <1>1, <1>2 DEF Bus!Init, HostInv, Bus!DirectDeviceStays

\* Of the table only this is about the step: noisy stays as it is.
LEMMA SameNoise ==
  ASSUME noisy' = noisy, Table(devices_') PROVE Table(devices_)'
  BY DEF Table, Known, Distinct, Kept, Bus!Places, Bus!Indices, Entry, Bus!kScanAddrs, Bus!KeyboardAddress

LEMMA HostStep ==
  ASSUME Bus!HostAssumption, HostInv, [Bus!Next]_(Bus!vars)
  PROVE  HostInv'
<1>. DEFINE Moves == Somewhere(at') /\ Table(devices_') /\ (~noisy => Direct(at'))
<1>1. /\ noisy \in Noise /\ plugged \subseteq Device /\ entered_ \in BOOLEAN
      /\ Somewhere(at) /\ Table(devices_) /\ (~noisy => Direct(at))
  BY DEF HostInv, Bus!DirectDeviceStays, Direct
<1>2. ASSUME noisy' = noisy, plugged' \subseteq Device, entered_' \in BOOLEAN, Moves
      PROVE  HostInv'
  <2>1. Table(devices_)'
    BY <1>2, SameNoise
  <2>2. QED
    BY <1>1, <1>2, <2>1 DEF HostInv, Somewhere, Bus!DirectDeviceStays, Direct, Bus!Address, Bus!PointingAddress
<1>3. ~noisy => Direct(Bus!GlobalReset(at))
  BY <1>1 DEF Direct, Bus!GlobalReset, Bus!HostAssumption
<1>4. Somewhere(Bus!GlobalReset(at))
  BY <1>1, ResetSomewhere
<1>5. CASE Bus!on_enter_mode
  <2>1. PICK heard \in Bus!Heard(plugged, Bus!GlobalReset(at)) :
          Bus!Discovered(Bus!scan_r3(<<>>, heard), Bus!GlobalReset(at))
    BY <1>5 DEF Bus!on_enter_mode
  <2>2. Moves
    BY <1>1, <1>3, <1>4, <2>1, EmptyTable, Discovery
  <2>3. QED
    BY <1>1, <1>2, <1>5, <2>2 DEF Bus!on_enter_mode
<1>6. CASE Bus!rescan_bus
  <2>1. PICK heard \in Bus!Heard(plugged, Bus!GlobalReset(at)) :
          Bus!Discovered(Bus!scan_r3(devices_, heard), Bus!GlobalReset(at))
    BY <1>6 DEF Bus!rescan_bus
  <2>2. Moves
    BY <1>1, <1>3, <1>4, <2>1, Discovery
  <2>3. QED
    BY <1>1, <1>2, <1>6, <2>2 DEF Bus!rescan_bus
<1>7. CASE Bus!light_rescan
  <2>1. PICK heard \in Bus!Heard(plugged, at) : devices_' = Bus!try_keyboard_default(Bus!scan_r3(devices_, heard))
    BY <1>7 DEF Bus!light_rescan
  <2>2. heard \subseteq Bus!Places
    BY <1>1, <2>1, HeardPlaces
  <2>3. Table(devices_')
    BY <1>1, <2>1, <2>2, Scan, DefaultKeyboard
  <2>4. QED
    BY <1>1, <1>2, <1>7, <2>3 DEF Bus!light_rescan
<1>8. ASSUME NEW i \in Bus!Indices(devices_), Bus!poll_device_slot(i) PROVE HostInv'
  <2>1. Table(devices_')
    BY <1>1, <1>8, PollKeeps
  <2>2. QED
    BY <1>1, <1>2, <1>8, <2>1 DEF Bus!poll_device_slot
<1>9. CASE Bus!leave_mode
  BY <1>1, <1>2, <1>9, EmptyTable DEF Bus!leave_mode
<1>10. ASSUME NEW d \in Device, Bus!Plug(d) PROVE HostInv'
  <2>1. at' = [at EXCEPT ![d] = Home[d]] /\ Home \in [Device -> Bus!Address]
    BY <1>10, Constants DEF Bus!Plug
  <2>2. Somewhere(at') /\ (~noisy => Direct(at'))
    BY <1>1, <2>1 DEF Somewhere, Direct, Bus!HostAssumption
  <2>3. QED
    BY <1>1, <1>2, <1>10, <2>2 DEF Bus!Plug
<1>11. CASE UNCHANGED Bus!vars
  BY <1>1, <1>2, <1>11 DEF Bus!vars
<1>12. QED
  BY <1>5, <1>6, <1>7, <1>8, <1>9, <1>10, <1>11 DEF Bus!Next, Bus!Poll, Bus!Rescan

(* -------------------------- what it establishes ------------------------ *)

\* In the states of the invariant a scan finds each pointing device that answers.
LEMMA InvFinds == ASSUME Bus!HostAssumption, HostInv PROVE Bus!AnsweringDeviceFound
<1>1. SUFFICES ASSUME ~noisy, NEW heard \in Bus!Heard(plugged, at), NEW d \in plugged \cap Answers3,
                      Home[d] \in Bus!PointingAddress
               PROVE  Bus!has_device_at(Bus!scan_r3(devices_, heard), at[d])
  BY DEF Bus!AnsweringDeviceFound
<1>2. plugged \subseteq Device /\ Somewhere(at) /\ Table(devices_)
  BY DEF HostInv
<1>3. at[d] \in Bus!PointingAddress /\ at[d] \in Bus!kScanAddrs
  BY <1>1, <1>2 DEF Somewhere, Bus!PointingAddress, Bus!kScanAddrs
<1>4. heard \subseteq Bus!Places /\ at[d] \in heard
  BY <1>1, <1>2, <1>3, HeardPlaces
<1>5. QED
  BY <1>1, <1>2, <1>3, <1>4, Scan

LEMMA InvTable == ASSUME Bus!HostAssumption, HostInv PROVE Bus!TableKept
<1>1. Bus!TypeOK
  BY DEF HostInv, Somewhere, Table, Entry, Bus!TypeOK
<1>2. Bus!OneSlotPerAddress
  BY DEF HostInv, Table, Distinct, Bus!OneSlotPerAddress
<1>3. QED
  BY <1>1, <1>2, InvFinds DEF HostInv, Bus!TableKept

\* An enumeration or a rescan leaves an active slot at a keyboard address.
LEMMA ScansFindKeyboard ==
  ASSUME Bus!HostAssumption, HostInv, Bus!on_enter_mode \/ Bus!Rescan,
         noisy => Cardinality(Bus!Places) <= kMaxDevices
  PROVE  Bus!has_device_kind(devices_', "keyboard")
<1>1. plugged \subseteq Device /\ Somewhere(at) /\ Table(devices_) /\ (~noisy => Direct(at))
  BY DEF HostInv, Bus!DirectDeviceStays, Direct
<1>2. (~noisy => Direct(Bus!GlobalReset(at))) /\ Somewhere(Bus!GlobalReset(at))
  BY <1>1, ResetSomewhere DEF Direct, Bus!GlobalReset, Bus!HostAssumption
<1>3. CASE Bus!on_enter_mode
  BY <1>1, <1>2, <1>3, EmptyTable, Discovery DEF Bus!on_enter_mode
<1>4. CASE Bus!rescan_bus
  BY <1>1, <1>2, <1>4, Discovery DEF Bus!rescan_bus
<1>5. CASE Bus!light_rescan
  <2>1. PICK heard \in Bus!Heard(plugged, at) : devices_' = Bus!try_keyboard_default(Bus!scan_r3(devices_, heard))
    BY <1>5 DEF Bus!light_rescan
  <2>2. heard \subseteq Bus!Places
    BY <1>1, <2>1, HeardPlaces
  <2>3. QED
    BY <1>1, <2>1, <2>2, Scan, DefaultKeyboard
<1>6. QED
  BY <1>3, <1>4, <1>5 DEF Bus!Rescan

(* ------------------------------- theorems ------------------------------ *)

\* The bus only takes its own steps, whichever part runs.
LEMMA BusSteps == [HostModeNext]_all_vars => [Bus!Next]_(Bus!vars)
<1>1. bus_vars = Bus!vars
  BY DEF bus_vars, Bus!vars
<1>2. QED
  BY <1>1 DEF HostModeNext, all_vars, Bus!vars, bus_vars

LEMMA HostInvariant == HostModeSpec => []HostInv
<1>1. HostModeInit => HostInv
  BY HostInit, BusAssumed DEF HostModeInit
<1>2. HostInv /\ [HostModeNext]_all_vars => HostInv'
  BY HostStep, BusSteps, BusAssumed
<1>3. QED
  BY <1>1, <1>2, PTL DEF HostModeSpec

\* For any devices at any addresses and any noise: the poll table has one slot per
\* address and no more than kMaxDevices; without noise a pointing device that
\* answers Talk 3 is left at address 3, and an active slot polls it where it is.
THEOREM TableAlwaysKept == HostModeSpec => []TableKept
<1>1. HostInv => Bus!TableKept
  BY InvTable, BusAssumed
<1>2. QED
  BY <1>1, HostInvariant, PTL DEF TableKept

\* For any devices at any addresses an active slot polls a keyboard after each
\* enumeration and rescan, whatever answered and was dropped before; on a noisy bus,
\* where a dropped slot keeps its address for good, if the slots are as many as the
\* places.
THEOREM KeyboardIsPolled == HostModeSpec => KeyboardPolled
<1>1. Bus!Cardinality(Bus!Places) = Cardinality(Bus!Places)
  BY DEF Bus!Cardinality, Cardinality
<1>2. HostInv /\ [HostModeNext]_all_vars =>
        [(noisy => Bus!Cardinality(Bus!Places) <= kMaxDevices) /\ entered_'
           /\ ~Bus!has_device_kind(devices_', "keyboard") => ~(Bus!on_enter_mode \/ Bus!Rescan)]_(Bus!vars)
  BY <1>1, ScansFindKeyboard, BusAssumed
<1>3. QED
  BY <1>2, HostInvariant, PTL DEF HostModeSpec, KeyboardPolled, Bus!KeyboardPolled
=============================================================================
