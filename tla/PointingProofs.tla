--------------------------- MODULE PointingProofs ---------------------------
(***************************************************************************)
(* Proofs about pointing devices.  The mouse register (MousePipeline), for *)
(* any range of a delta and any mice: a movement is never turned round,    *)
(* and no button and no Ctrl stays behind a mouse that holds none.  The    *)
(* Bluetooth bridge (BtHidBridge), for any keyboards, keys and slots: the  *)
(* keys of the first keyboard have room, and no report of another device   *)
(* releases a button that is held.                                         *)
(***************************************************************************)
EXTENDS MCPointing, FiniteSetTheorems, FunctionTheorems, SequenceTheorems, WellFoundedInduction, TLAPS

(* -------------------------- movement and buttons ----------------------- *)

Before == {"task", "fill", "moved", "load", "add", "replace", "move", "left_down"}
Tests == {"left_down", "left_up", "right_down", "right_up"}
Marks == {"left_pressed", "left_released", "right_pressed", "right_released"}
ParserPc == Before \cup Tests \cup Marks \cup {"middle", "store"}
Core0Pc == ParserPc \cup
  {"look", "read left", "read right", "read movement", "clear movement", "clear changed", "command"}

Report == [dx : Delta, buttons : SUBSET Button, replace : BOOLEAN]
Register == [buttons : SUBSET {"left", "right"}, dx : Movement]

MouseTyped ==
  /\ workload \in Workload
  /\ m_moved \in Delta /\ seen \in [Core -> Delta]
  /\ mouse_info \in [dx : Delta, buttons : SUBSET Button]
  /\ pressed \subseteq {"left", "right"} /\ prevState \subseteq Button
  /\ m_mouse_button_changed \in BOOLEAN /\ ctrl \in BOOLEAN /\ mousepending \in BOOLEAN
  /\ m_right_btn_mode \in {"ctrl_click", "right_click"}
  /\ parsing \in [Core -> Report]
  /\ \A c \in Core : parsing[c] \in workload.report[c] \cup {NoReport}
  /\ mousereg0 \in Register /\ host \in Register

PcTyped == pc \in [Core -> Core0Pc \cup ParserPc] /\ pc[0] \in Core0Pc /\ pc[1] \in ParserPc

\* What a mouse that only moves one way leaves on its way to the host
OneWay == \A c \in Core : \A r \in workload.report[c] : r.dx >= 0
Forward ==
  /\ m_moved >= 0 /\ mouse_info.dx >= 0 /\ \A c \in Core : seen[c] >= 0
  /\ mousereg0.dx >= 0 /\ host.dx >= 0
ForwardOnly == OneWay => Forward

\* One mouse, on core 1, without a middle button
OneMouse == workload.report[0] = {} /\ \A r \in workload.report[1] : "middle" \notin r.buttons

\* The buttons of the report that is parsed: core 0 leaves mouse_info alone.
Now == mouse_info.buttons
Waiting0 == Core0Pc \ (ParserPc \ {"task"})
ButtonsFollow ==
  OneMouse =>
    /\ pc[0] \in Waiting0
    /\ m_right_btn_mode = "ctrl_click" /\ pressed \subseteq {"left"}
    /\ "middle" \notin Now \cup prevState
    /\ pc[1] \in Before \cup {"left_pressed", "left_up", "left_released", "right_down"} =>
         (ctrl <=> "right" \in prevState)
    /\ pc[1] \in Before => (prevState = {} => pressed = {})
    /\ pc[1] \in {"left_pressed", "left_up"} => (Now = {} /\ prevState = {} => pressed = {})
    /\ pc[1] \in {"left_released", "right_down", "right_pressed", "right_up"} =>
         (Now = {} /\ "right" \notin prevState => pressed = {})
    /\ pc[1] \in {"right_pressed", "right_up"} =>
         (ctrl <=> "right" \in Now \cup prevState)
    /\ pc[1] \in {"right_released", "middle", "store"} => (ctrl <=> "right" \in Now) /\ (Now = {} => pressed = {})

MouseInv == MouseTyped /\ PcTyped /\ ForwardOnly /\ ButtonsFollow

LEMMA SaturatingFacts ==
  ASSUME NEW a \in Delta, NEW b \in Delta
  PROVE  /\ saturating_add_i8(a, b) \in Delta
         /\ a >= 0 /\ b >= 0 => saturating_add_i8(a, b) >= 0
  BY MouseAssumption DEF saturating_add_i8, Delta

LEMMA RegisterFacts ==
  ASSUME NEW n \in Delta
  PROVE  /\ EightBitToSevenBitSigned(n) = Half(n) /\ Half(n) \in Movement
         /\ n >= 0 => EightBitToSevenBitSigned(n) >= 0
<1>1. Reach \in Nat \ {0} /\ Half(n) \in Movement /\ (n >= 0 => Half(n) >= 0)
  BY MouseAssumption DEF Delta, Movement, Half
<1>2. Half(n) + Reach \in 0 .. 2 * Reach - 1
  BY <1>1 DEF Movement
<1>3. (Half(n) + Reach) % (2 * Reach) = Half(n) + Reach
  <2>1. ASSUME NEW m \in Nat \ {0}, NEW x \in 0 .. m - 1 PROVE x % m = x
    BY <2>1
  <2>2. 2 * Reach \in Nat \ {0}
    BY <1>1
  <2>3. QED
    BY <1>2, <2>1, <2>2
<1>4. QED
  BY <1>1, <1>3 DEF EightBitToSevenBitSigned, Movement

LEMMA ReportFacts ==
  ASSUME NEW w \in Workload
  PROVE  w.report \in [Core -> SUBSET Report]
  BY MouseAssumption DEF Report

LEMMA MouseStart == Init => MouseInv
<1>. SUFFICES ASSUME Init PROVE MouseInv
  OBVIOUS
<1>1. NoReport \in Report /\ NoRegister \in Register /\ 0 \in Delta
  BY MouseAssumption DEF NoReport, NoRegister, Report, Register, Delta, Movement
<1>2. MouseTyped
  BY <1>1 DEF Init, MouseTyped, Core, NoRegister
<1>3. PcTyped
  BY DEF Init, PcTyped, Core, Core0Pc, ParserPc, Before
<1>4. ForwardOnly
  BY DEF Init, ForwardOnly, Forward, NoRegister, Core
<1>5. ButtonsFollow
  BY DEF Init, ButtonsFollow, Core, Now, NoRegister, Waiting0, Core0Pc, ParserPc, Before, Tests, Marks
<1>6. QED
  BY <1>2, <1>3, <1>4, <1>5 DEF MouseInv

LEMMA Gone ==
  ASSUME PcTyped, NEW c \in Core, NEW label, Goto(c, label)
  PROVE  /\ label \in ParserPc => PcTyped'
         /\ c = 0 /\ label \in Core0Pc => PcTyped'
         /\ pc'[c] = label
         /\ \A d \in Core \ {c} : pc'[d] = pc[d]
<1>1. pc' = [pc EXCEPT ![c] = label] /\ DOMAIN pc = Core
  BY DEF Goto, PcTyped
<1>2. pc'[c] = label /\ \A d \in Core \ {c} : pc'[d] = pc[d]
  BY <1>1
<1>3. ParserPc \subseteq Core0Pc
  BY DEF Core0Pc
<1>4. ASSUME label \in Core0Pc \cup ParserPc PROVE pc' \in [Core -> Core0Pc \cup ParserPc]
  BY <1>1, <1>4 DEF PcTyped
<1>5. CASE c = 0
  <2>1. pc'[0] = label /\ pc'[1] = pc[1]
    BY <1>2, <1>5 DEF Core
  <2>2. QED
    BY <1>2, <1>3, <1>4, <1>5, <2>1 DEF PcTyped
<1>6. CASE c = 1
  <2>1. pc'[1] = label /\ pc'[0] = pc[0]
    BY <1>2, <1>6 DEF Core
  <2>2. QED
    BY <1>2, <1>4, <1>6, <2>1 DEF PcTyped
<1>7. QED
  BY <1>5, <1>6 DEF Core

LEMMA CoreFacts == 0 \in Core /\ 1 \in Core \ {0} /\ Core = {0, 1}
  BY DEF Core

LEMMA TestFacts ==
  ASSUME NEW test \in DOMAIN Test
  PROVE  /\ test \in Tests /\ Test[test].mark \in Marks /\ Test[test].next \in Tests \cup {"middle"}
         /\ Test[test].button \in {"left", "right"} /\ Test[test].down \in BOOLEAN
<1>1. DOMAIN Test = Tests
  BY DEF Test, Tests
<1>2. CASE test = "left_down"
  BY <1>2 DEF Test, Tests, Marks
<1>3. CASE test = "left_up"
  BY <1>3 DEF Test, Tests, Marks
<1>4. CASE test = "right_down"
  BY <1>4 DEF Test, Tests, Marks
<1>5. CASE test = "right_up"
  BY <1>5 DEF Test, Tests, Marks
<1>6. QED
  BY <1>1, <1>2, <1>3, <1>4, <1>5 DEF Tests

LEMMA PcStep == ASSUME PcTyped, [Next]_vars PROVE PcTyped'
<1>. USE DEF Core
<1>1. ASSUME NEW c \in Core, NEW r \in workload.report[c], Parse(c, r) PROVE PcTyped'
  BY <1>1, Gone DEF Parse, ParserPc, Before
<1>2. CASE NothingToParse \/ Look \/ HostReads \/ OtherCommand \/ BusReset
  BY <1>2, Gone DEF NothingToParse, Look, HostReads, OtherCommand, BusReset, Core0Pc, ParserPc, Before
<1>3. ASSUME NEW c \in Core,
             \/ FillMovement(c) \/ HasMoved(c) \/ LoadMovement(c) \/ AddMovement(c)
             \/ LoadReplacement(c) \/ StoreMovement(c) \/ MiddleButton(c)
      PROVE  PcTyped'
  <2>1. \E label \in Before \cup {"store"} : Goto(c, label)
    BY <1>3 DEF FillMovement, HasMoved, LoadMovement, AddMovement, LoadReplacement, StoreMovement,
      MiddleButton, Before
  <2>2. QED
    BY <2>1, Gone DEF ParserPc
<1>4. ASSUME NEW c \in Core, StoreState(c) PROVE PcTyped'
  BY <1>4, Gone DEF StoreState, Core0Pc, ParserPc, Before
<1>5. ASSUME NEW c \in Core, NEW test \in DOMAIN Test,
             ButtonEdge(c, test) \/ NoEdge(c, test) \/ MarkChanged(c, test)
      PROVE  PcTyped'
  <2>1. \E label \in Tests \cup Marks \cup {"middle"} : Goto(c, label)
    BY <1>5, TestFacts DEF ButtonEdge, NoEdge, MarkChanged
  <2>2. QED
    BY <2>1, Gone DEF ParserPc
<1>6. CASE GetAdbRegister0
  BY <1>6, Gone DEF GetAdbRegister0, ReadButton, ReadMovement, ClearMovement, Latch, Core0Pc
<1>7. CASE UNCHANGED vars
  BY <1>7 DEF vars, core_vars, PcTyped
<1>8. QED
  BY <1>1, <1>2, <1>3, <1>4, <1>5, <1>6, <1>7 DEF Next, ParserStep, Core0Step

LEMMA MouseTypeStep == ASSUME MouseTyped, [Next]_vars PROVE MouseTyped'
<1>. USE DEF MouseTyped, Core
<1>1. ASSUME NEW c \in Core, NEW r \in workload.report[c], Parse(c, r) PROVE MouseTyped'
  <2>1. r \in Report
    BY ReportFacts
  <2>2. mouse_info' \in [dx : Delta, buttons : SUBSET Button]
    BY <1>1, <2>1 DEF Parse, Report
  <2>3. QED
    BY <1>1, <2>1, <2>2 DEF Parse, parsed_vars, adb_vars
<1>2. CASE NothingToParse \/ Look \/ HostReads \/ OtherCommand
  BY <1>2 DEF NothingToParse, Look, HostReads, OtherCommand, parser_vars, parsed_vars, adb_vars, env_vars
<1>3. ASSUME NEW c \in Core, FillMovement(c) PROVE MouseTyped'
  <2>1. parsing[c].dx \in Delta
    BY DEF Report
  <2>2. mouse_info' \in [dx : Delta, buttons : SUBSET Button]
    BY <1>3, <2>1 DEF FillMovement
  <2>3. QED
    BY <1>3, <2>2 DEF FillMovement, parsed_vars, adb_vars, env_vars
<1>4. ASSUME NEW c \in Core,
             HasMoved(c) \/ LoadMovement(c) \/ AddMovement(c) \/ LoadReplacement(c) \/ StoreMovement(c)
      PROVE  MouseTyped'
  <2>1. saturating_add_i8(seen[c], mouse_info.dx) \in Delta /\ mouse_info.dx \in Delta /\ seen[c] \in Delta
    BY SaturatingFacts
  <2>2. seen' \in [Core -> Delta] /\ m_moved' \in Delta
    BY <1>4, <2>1 DEF HasMoved, LoadMovement, AddMovement, LoadReplacement, StoreMovement, parser_vars, parsed_vars
  <2>3. QED
    BY <1>4, <2>2 DEF HasMoved, LoadMovement, AddMovement, LoadReplacement, StoreMovement, parser_vars,
      parsed_vars, adb_vars, env_vars
<1>5. ASSUME NEW c \in Core, NEW test \in DOMAIN Test,
             ButtonEdge(c, test) \/ NoEdge(c, test) \/ MarkChanged(c, test)
      PROVE  MouseTyped'
  <2>. DEFINE b == Test[test].button
              down == Test[test].down
  <2>1. CASE ButtonEdge(c, test)
    <3>1. b \in {"left", "right"} /\ down \in BOOLEAN
      BY TestFacts
    <3>2. /\ pressed' = IF down THEN pressed \cup PressedBy(b) ELSE pressed \ PressedBy(b)
          /\ ctrl' = CtrlAfter(b, down)
      BY <2>1 DEF ButtonEdge
    <3>. HIDE DEF b, down
    <3>3. pressed' \subseteq {"left", "right"} /\ ctrl' \in BOOLEAN
      BY <3>1, <3>2 DEF PressedBy, CtrlAfter
    <3>4. QED
      BY <2>1, <3>3 DEF ButtonEdge, adb_vars, env_vars
  <2>2. CASE NoEdge(c, test) \/ MarkChanged(c, test)
    BY <2>2 DEF NoEdge, MarkChanged, parser_vars, parsed_vars, adb_vars, env_vars
  <2>3. QED
    BY <1>5, <2>1, <2>2
<1>6. ASSUME NEW c \in Core, MiddleButton(c) \/ StoreState(c) PROVE MouseTyped'
  <2>1. mouse_info.buttons \subseteq Button
    OBVIOUS
  <2>2. CASE MiddleButton(c)
    <3>1. m_right_btn_mode' \in {"ctrl_click", "right_click"}
      BY <2>2 DEF MiddleButton, Switched
    <3>2. QED
      BY <2>2, <3>1 DEF MiddleButton, adb_vars, env_vars
  <2>3. CASE StoreState(c)
    BY <2>1, <2>3 DEF StoreState, adb_vars, env_vars
  <2>4. QED
    BY <1>6, <2>2, <2>3
<1>7. CASE GetAdbRegister0
  <2>1. ASSUME NEW b \in {"left", "right"}, ReadButton(b) PROVE MouseTyped'
    BY <2>1 DEF ReadButton, parser_vars, parsed_vars, env_vars, Register
  <2>2. CASE ReadMovement
    <3>1. EightBitToSevenBitSigned(m_moved) \in Movement
      BY RegisterFacts
    <3>2. QED
      BY <2>2, <3>1 DEF ReadMovement, parser_vars, parsed_vars, env_vars, Register
  <2>3. CASE ClearMovement \/ Latch
    <3>1. 0 \in Delta
      BY MouseAssumption DEF Delta
    <3>2. QED
      BY <2>3, <3>1 DEF ClearMovement, Latch, adb_vars, env_vars
  <2>4. QED
    BY <1>7, <2>1, <2>2, <2>3 DEF GetAdbRegister0
<1>8. CASE BusReset
  <2>1. 0 \in Delta /\ ZeroRegister \in Register
    BY MouseAssumption DEF Delta, ZeroRegister, Register, Movement
  <2>2. QED
    BY <1>8, <2>1 DEF BusReset
<1>9. CASE UNCHANGED vars
  BY <1>9 DEF vars, parser_vars, parsed_vars, core_vars, adb_vars, env_vars
<1>10. QED
  BY <1>1, <1>2, <1>3, <1>4, <1>5, <1>6, <1>7, <1>8, <1>9 DEF Next, ParserStep, Core0Step

LEMMA WorkloadKept == ASSUME [Next]_vars PROVE workload' = workload
  BY DEF Next, vars, env_vars, Parse, NothingToParse, FillMovement, HasMoved, LoadMovement, AddMovement,
    LoadReplacement, StoreMovement, ButtonEdge, NoEdge, MarkChanged, MiddleButton, StoreState, Look, ReadButton,
    ReadMovement, ClearMovement, Latch, HostReads, OtherCommand, BusReset, ParserStep, GetAdbRegister0, Core0Step

LEMMA ForwardStep == ASSUME MouseTyped, ForwardOnly, [Next]_vars PROVE ForwardOnly'
<1>. SUFFICES ASSUME OneWay' PROVE Forward'
  BY DEF ForwardOnly
<1>1. OneWay
  BY WorkloadKept DEF OneWay
<1>2. Forward
  BY <1>1 DEF ForwardOnly
<1>3. \A c \in Core : parsing[c].dx \in Delta /\ parsing[c].dx >= 0
  BY <1>1 DEF MouseTyped, OneWay, Report, NoReport
<1>. USE <1>2 DEF Forward
<1>4. ASSUME NEW c \in Core, AddMovement(c) PROVE Forward'
  <2>1. saturating_add_i8(seen[c], mouse_info.dx) >= 0
    BY SaturatingFacts DEF MouseTyped
  <2>2. QED
    BY <1>4, <2>1 DEF AddMovement, adb_vars, parser_vars, parsed_vars, MouseTyped
<1>5. ASSUME NEW c \in Core, FillMovement(c) PROVE Forward'
  BY <1>3, <1>5 DEF FillMovement, adb_vars, parsed_vars, MouseTyped
<1>6. CASE GetAdbRegister0
  <2>1. ASSUME NEW b \in {"left", "right"}, ReadButton(b) PROVE Forward'
    BY <2>1 DEF ReadButton, parser_vars, parsed_vars, MouseTyped, Register
  <2>2. CASE ReadMovement
    BY <2>2, RegisterFacts DEF ReadMovement, parser_vars, parsed_vars, MouseTyped, Register
  <2>3. CASE ClearMovement
    <3>1. m_moved' = 0 /\ seen' = seen /\ mouse_info' = mouse_info /\ UNCHANGED adb_vars
      BY <2>3 DEF ClearMovement
    <3>2. mousereg0' = mousereg0 /\ host' = host
      BY <3>1 DEF adb_vars
    <3>3. QED
      BY <3>1, <3>2
  <2>4. CASE Latch
    BY <2>4 DEF Latch
  <2>5. QED
    BY <1>6, <2>1, <2>2, <2>3, <2>4 DEF GetAdbRegister0
<1>7. CASE HostReads \/ OtherCommand \/ Look \/ NothingToParse \/ UNCHANGED vars
  BY <1>7 DEF HostReads, OtherCommand, Look, NothingToParse, parser_vars, parsed_vars, adb_vars, core_vars, vars
<1>8. CASE BusReset
  BY <1>8 DEF BusReset, ZeroRegister
<1>9. ASSUME NEW c \in Core, LoadMovement(c) \/ LoadReplacement(c) \/ StoreMovement(c) \/ HasMoved(c)
      PROVE  Forward'
  BY <1>9 DEF LoadMovement, LoadReplacement, StoreMovement, HasMoved, parser_vars, parsed_vars, adb_vars, MouseTyped
<1>10. ASSUME NEW c \in Core,
             \/ \E r \in workload.report[c] : Parse(c, r)
             \/ \E test \in DOMAIN Test : ButtonEdge(c, test) \/ NoEdge(c, test) \/ MarkChanged(c, test)
             \/ MiddleButton(c) \/ StoreState(c)
      PROVE  Forward'
  <2>1. mouse_info'.dx = mouse_info.dx
    BY <1>10 DEF Parse, ButtonEdge, NoEdge, MarkChanged, MiddleButton, StoreState, parser_vars, MouseTyped
  <2>2. QED
    BY <1>10, <2>1 DEF Parse, ButtonEdge, NoEdge, MarkChanged, MiddleButton, StoreState, parser_vars, parsed_vars, adb_vars
<1>11. ASSUME NEW c \in Core, ParserStep(c) PROVE Forward'
  BY <1>4, <1>5, <1>9, <1>10, <1>11, Zenon DEF ParserStep
<1>12. QED
  BY <1>6, <1>7, <1>8, <1>10, <1>11, CoreFacts DEF Next, Core0Step

LEMMA ButtonsStep == ASSUME MouseTyped, PcTyped, ButtonsFollow, [Next]_vars PROVE ButtonsFollow'
<1>1. workload' = workload
  BY WorkloadKept
<1>. SUFFICES ASSUME OneMouse PROVE ButtonsFollow'
  BY <1>1 DEF ButtonsFollow, OneMouse
<1>2. /\ pc[0] \in Waiting0
      /\ m_right_btn_mode = "ctrl_click" /\ pressed \subseteq {"left"}
      /\ "middle" \notin Now \cup prevState
  BY DEF ButtonsFollow
\* what holds of the buttons where core 1 is, and what a step of it has to show
<1>. DEFINE Held(q, now, prev, buttons, ctl) ==
       /\ q \in Before \cup {"left_pressed", "left_up", "left_released", "right_down"} => (ctl <=> "right" \in prev)
       /\ q \in Before => (prev = {} => buttons = {})
       /\ q \in {"left_pressed", "left_up"} => (now = {} /\ prev = {} => buttons = {})
       /\ q \in {"left_released", "right_down", "right_pressed", "right_up"} =>
            (now = {} /\ "right" \notin prev => buttons = {})
       /\ q \in {"right_pressed", "right_up"} => (ctl <=> "right" \in now \cup prev)
       /\ q \in {"right_released", "middle", "store"} => (ctl <=> "right" \in now) /\ (now = {} => buttons = {})
            Rest(q) == Held(q, Now', prevState', pressed', ctrl')
<1>3. Held(pc[1], Now, prevState, pressed, ctrl)
  BY DEF ButtonsFollow
<1>4. ASSUME pc'[0] \in Waiting0,
             m_right_btn_mode' = "ctrl_click", pressed' \subseteq {"left"}, "middle" \notin Now' \cup prevState',
             Rest(pc'[1])
      PROVE  ButtonsFollow'
  BY <1>4 DEF ButtonsFollow
<1>. HIDE DEF Rest
\* core 0 only reads the buttons
<1>5. ASSUME NEW label \in Waiting0,
             Goto(0, label), UNCHANGED <<m_right_btn_mode, pressed, prevState, ctrl, mouse_info>>
      PROVE  ButtonsFollow'
  <2>1. pc'[0] = label /\ pc'[1] = pc[1]
    BY <1>5, Gone, CoreFacts
  <2>2. Now' = Now
    BY <1>5 DEF Now
  <2>3. Rest(pc'[1])
    BY <1>3, <1>5, <2>1, <2>2 DEF Rest
  <2>4. QED
    BY <1>2, <1>4, <1>5, <2>1, <2>2, <2>3
<1>6. CASE NothingToParse \/ Look \/ GetAdbRegister0 \/ HostReads \/ OtherCommand \/ BusReset
  <2>0. {"look", "read left", "read right", "read movement", "clear movement", "clear changed", "command", "task"}
          \subseteq Waiting0
    BY DEF Waiting0, Core0Pc, ParserPc, Before, Tests, Marks
  <2>1. \E label \in Waiting0 :
          Goto(0, label) /\ UNCHANGED <<m_right_btn_mode, pressed, prevState, ctrl, mouse_info>>
    <3>1. CASE NothingToParse \/ Look \/ HostReads \/ OtherCommand
      <4>1. \E label \in {"look", "read left", "command", "task"} : Goto(0, label)
        BY <3>1 DEF NothingToParse, Look, HostReads, OtherCommand
      <4>2. UNCHANGED parser_vars
        BY <3>1 DEF NothingToParse, Look, HostReads, OtherCommand
      <4>3. QED
        BY <2>0, <4>1, <4>2 DEF parser_vars, parsed_vars
    <3>2. CASE GetAdbRegister0
      <4>1. ASSUME NEW b \in {"left", "right"}, ReadButton(b)
            PROVE  /\ Goto(0, IF b = "left" THEN "read right" ELSE "read movement")
                   /\ UNCHANGED <<m_right_btn_mode, pressed, prevState, ctrl, mouse_info>>
        BY <4>1 DEF ReadButton, parser_vars, parsed_vars
      <4>2. CASE ReadMovement \/ ClearMovement \/ Latch
        BY <2>0, <4>2 DEF ReadMovement, ClearMovement, Latch, parser_vars, parsed_vars
      <4>3. QED
        BY <2>0, <3>2, <4>1, <4>2 DEF GetAdbRegister0
    <3>3. CASE BusReset
      BY <2>0, <3>3 DEF BusReset
    <3>4. QED
      BY <1>6, <3>1, <3>2, <3>3
  <2>2. QED
    BY <1>5, <2>1
<1>7. ASSUME NEW label, Goto(1, label), UNCHANGED m_right_btn_mode, pressed' \subseteq {"left"},
             "middle" \notin Now' \cup prevState', Rest(label)
      PROVE  ButtonsFollow'
  <2>1. pc'[1] = label /\ pc'[0] = pc[0]
    BY <1>7, Gone DEF Core
  <2>2. QED
    BY <1>2, <1>4, <1>7, <2>1
<1>8. ASSUME NEW r \in workload.report[1], Parse(1, r) PROVE ButtonsFollow'
  <2>1. "middle" \notin r.buttons /\ Now' = r.buttons
    BY <1>8 DEF OneMouse, Parse, Now, MouseTyped, Core
  <2>2. UNCHANGED <<m_right_btn_mode, pressed, prevState, ctrl>> /\ pc[1] = "task"
    BY <1>8 DEF Parse, parsed_vars
  <2>3. Rest("fill")
    BY <1>3, <2>2 DEF Rest, Before
  <2>4. QED
    BY <1>2, <1>7, <1>8, <2>1, <2>2, <2>3 DEF Parse
<1>9. CASE \/ FillMovement(1) \/ HasMoved(1) \/ LoadMovement(1) \/ AddMovement(1)
           \/ LoadReplacement(1) \/ StoreMovement(1)
  <2>1. UNCHANGED <<m_right_btn_mode, pressed, prevState, ctrl>> /\ pc[1] \in Before
    BY <1>9 DEF FillMovement, HasMoved, LoadMovement, AddMovement, LoadReplacement, StoreMovement,
      parser_vars, parsed_vars, Before
  <2>2. Now' = Now
    BY <1>9 DEF FillMovement, HasMoved, LoadMovement, AddMovement, LoadReplacement, StoreMovement,
      parser_vars, MouseTyped, Now
  <2>3. PICK label \in Before : Goto(1, label)
    BY <1>9 DEF FillMovement, HasMoved, LoadMovement, AddMovement, LoadReplacement, StoreMovement, Before
  <2>4. Rest(label)
    BY <1>3, <2>1, <2>2 DEF Rest, Before
  <2>5. QED
    BY <1>2, <1>7, <2>1, <2>2, <2>3, <2>4
<1>10. ASSUME NEW test \in DOMAIN Test, ButtonEdge(1, test) PROVE ButtonsFollow'
  <2>. DEFINE b == Test[test].button
              down == Test[test].down
              mark == Test[test].mark
  <2>1. UNCHANGED <<m_right_btn_mode, prevState, mouse_info>> /\ pc[1] = test /\ Now' = Now /\ Goto(1, mark)
    BY <1>10 DEF ButtonEdge, Now
  <2>2. /\ pressed' = IF down THEN pressed \cup PressedBy(b) ELSE pressed \ PressedBy(b)
        /\ ctrl' = CtrlAfter(b, down)
        /\ IF down THEN b \in Now \ prevState ELSE b \in prevState \ Now
    BY <1>10 DEF ButtonEdge, IsEdge, Now
  <2>3. b \in {"left", "right"} /\ down \in BOOLEAN
    BY TestFacts
  <2>4. /\ test = "left_down" => b = "left" /\ down /\ mark = "left_pressed"
        /\ test = "left_up" => b = "left" /\ ~down /\ mark = "left_released"
        /\ test = "right_down" => b = "right" /\ down /\ mark = "right_pressed"
        /\ test = "right_up" => b = "right" /\ ~down /\ mark = "right_released"
        /\ test \in Tests
    BY TestFacts DEF Test
  <2>. HIDE DEF b, down, mark
  <2>5. PressedBy(b) = {"left"} /\ (IF b = "right" THEN ctrl' = down ELSE ctrl' = ctrl)
    <3>1. CASE b = "left"
      BY <2>2, <3>1 DEF PressedBy, CtrlAfter
    <3>2. CASE b = "right"
      BY <1>2, <2>2, <3>2 DEF PressedBy, CtrlAfter
    <3>3. QED
      BY <2>3, <3>1, <3>2
  <2>6. pressed' = IF down THEN {"left"} ELSE {}
    BY <1>2, <2>2, <2>5
  <2>7. Rest(mark)
    BY <1>3, <2>1, <2>2, <2>4, <2>5, <2>6 DEF Rest, Before, Tests
  <2>8. QED
    BY <1>2, <1>7, <2>1, <2>6, <2>7
<1>11. ASSUME NEW test \in DOMAIN Test, NoEdge(1, test) PROVE ButtonsFollow'
  <2>. DEFINE b == Test[test].button
              down == Test[test].down
              next == Test[test].next
  <2>1. UNCHANGED <<m_right_btn_mode, pressed, prevState, ctrl>> /\ pc[1] = test /\ Now' = Now /\ Goto(1, next)
    BY <1>11 DEF NoEdge, Now, parser_vars, parsed_vars
  <2>2. IF down THEN b \notin Now \ prevState ELSE b \notin prevState \ Now
    BY <1>11 DEF NoEdge, IsEdge, Now
  <2>3. /\ test = "left_down" => b = "left" /\ down /\ next = "left_up"
        /\ test = "left_up" => b = "left" /\ ~down /\ next = "right_down"
        /\ test = "right_down" => b = "right" /\ down /\ next = "right_up"
        /\ test = "right_up" => b = "right" /\ ~down /\ next = "middle"
        /\ test \in Tests
    BY TestFacts DEF Test
  <2>4. prevState \subseteq {"left", "right"}
    BY <1>2 DEF MouseTyped, Button
  <2>. HIDE DEF b, down, next
  <2>5. Rest(next)
    BY <1>3, <2>1, <2>2, <2>3, <2>4 DEF Rest, Before, Tests
  <2>6. QED
    BY <1>2, <1>7, <2>1, <2>5
<1>12. ASSUME NEW test \in DOMAIN Test, MarkChanged(1, test) PROVE ButtonsFollow'
  <2>. DEFINE mark == Test[test].mark
              next == Test[test].next
  <2>1. UNCHANGED <<m_right_btn_mode, pressed, prevState, ctrl>> /\ pc[1] = mark /\ Now' = Now /\ Goto(1, next)
    BY <1>12 DEF MarkChanged, Now
  <2>2. \/ mark = "left_pressed" /\ next = "left_up"
        \/ mark = "left_released" /\ next = "right_down"
        \/ mark = "right_pressed" /\ next = "right_up"
        \/ mark = "right_released" /\ next = "middle"
    BY DEF Test
  <2>. HIDE DEF mark, next
  <2>3. Rest(next)
    BY <1>3, <2>1, <2>2 DEF Rest, Before
  <2>4. QED
    BY <1>2, <1>7, <2>1, <2>3
<1>13. CASE MiddleButton(1) \/ StoreState(1)
  <2>1. CASE MiddleButton(1)
    <3>1. UNCHANGED <<pressed, prevState, ctrl>> /\ pc[1] = "middle" /\ Now' = Now /\ Goto(1, "store")
      BY <2>1 DEF MiddleButton, Now
    <3>2. UNCHANGED m_right_btn_mode
      BY <1>2, <2>1 DEF MiddleButton, IsEdge, Now
    <3>3. Rest("store")
      BY <1>3, <3>1 DEF Rest, Before
    <3>4. QED
      BY <1>2, <1>7, <3>1, <3>2, <3>3
  <2>2. CASE StoreState(1)
    <3>1. UNCHANGED <<pressed, ctrl, m_right_btn_mode>> /\ pc[1] = "store" /\ Now' = Now /\ prevState' = Now
      BY <2>2 DEF StoreState, Now
    <3>2. Goto(1, "task")
      BY <2>2 DEF StoreState
    <3>3. Rest("task")
      BY <1>3, <3>1 DEF Rest, Before
    <3>4. QED
      BY <1>2, <1>7, <3>1, <3>2, <3>3
  <2>3. QED
    BY <1>13, <2>1, <2>2
<1>14. CASE UNCHANGED vars
  <2>1. UNCHANGED <<m_right_btn_mode, pressed, prevState, ctrl, pc>> /\ Now' = Now
    BY <1>14 DEF vars, parser_vars, parsed_vars, core_vars, Now
  <2>2. Rest(pc'[1])
    BY <1>3, <2>1 DEF Rest
  <2>3. QED
    BY <1>2, <1>4, <2>1, <2>2
\* core 0 has nothing to parse
<1>15. ~(\E r \in workload.report[0] : Parse(0, r)) /\ ~ParserStep(0)
  <2>1. ~(\E r \in workload.report[0] : Parse(0, r))
    BY DEF OneMouse
  <2>2. pc[0] \notin {"fill", "moved", "load", "add", "replace", "move", "middle", "store"} \cup Tests \cup Marks
    BY <1>2 DEF Waiting0, ParserPc, Before, Tests, Marks
  <2>3. ASSUME NEW test \in DOMAIN Test PROVE ~ButtonEdge(0, test) /\ ~NoEdge(0, test) /\ ~MarkChanged(0, test)
    BY <2>2, TestFacts DEF ButtonEdge, NoEdge, MarkChanged
  <2>4. ~ParserStep(0)
    BY <2>2, <2>3 DEF ParserStep, FillMovement, HasMoved, LoadMovement, AddMovement, LoadReplacement,
      StoreMovement, MiddleButton, StoreState
  <2>5. QED
    BY <2>1, <2>4
<1>16. QED
  BY <1>6, <1>8, <1>9, <1>10, <1>11, <1>12, <1>13, <1>14, <1>15 DEF Next, ParserStep, Core0Step, Core

LEMMA MouseStep == ASSUME MouseInv, [Next]_vars PROVE MouseInv'
  BY MouseTypeStep, PcStep, ForwardStep, ButtonsStep DEF MouseInv

LEMMA MouseKept == ASSUME MouseInv PROVE Inv /\ ReleasedWithTheMouse
<1>1. TypeOK
  BY DEF MouseInv, MouseTyped, Register, TypeOK
<1>2. DirectionKept
  BY DEF MouseInv, ForwardOnly, Forward, OneWay, DirectionKept
<1>3. ReleasedWithTheMouse
  BY DEF MouseInv, ButtonsFollow, OneMouse, ReleasedWithTheMouse, Idle, Before
<1>4. QED
  BY <1>1, <1>2, <1>3 DEF Inv

(* ------------------------- folds over sequences ------------------------ *)

\* Induction over the natural numbers, for the members of a set
LEMMA Induction ==
  ASSUME NEW T, 0 \in T, \A n \in Nat : n \in T => n + 1 \in T
  PROVE  Nat \subseteq T
<1>. DEFINE U == Nat \ T
<1>. SUFFICES ASSUME U # {} PROVE FALSE
  OBVIOUS
<1>1. PICK n \in U : \A m \in U : ~(<<m, n>> \in OpToRel(<, Nat))
  <2>1. U \subseteq Nat
    OBVIOUS
  <2>. HIDE DEF U
  <2>2. QED
    BY <2>1, WFMin, NatLessThanWellFounded
<1>2. \A m \in U : ~(m < n)
  BY <1>1 DEF OpToRel
<1>3. n \in Nat /\ n # 0 /\ n - 1 \in Nat /\ n - 1 < n
  OBVIOUS
<1>4. n - 1 \in T
  BY <1>2, <1>3
<1>5. QED
  BY <1>3, <1>4

LEMMA TopIs ==
  ASSUME NEW s, s \subseteq Int, NEW m \in s, \A y \in s : m >= y
  PROVE  Bridge!Max(s) = m
<1>1. \A x \in s : (\A y \in s : x >= y) => x = m
  OBVIOUS
<1>2. QED
  BY <1>1 DEF Bridge!Max

\* The largest member of a set is one of it.
LEMMA TopIn == \A n \in Nat : \A s \in SUBSET (1 .. n) : s # {} => Bridge!Max(s) \in s
<1>. DEFINE T == {n \in Nat : \A s \in SUBSET (1 .. n) : s # {} => Bridge!Max(s) \in s}
<1>1. 0 \in T
  <2>1. 1 .. 0 = {}
    OBVIOUS
  <2>2. QED
    BY <2>1
<1>2. ASSUME NEW n \in Nat, n \in T PROVE n + 1 \in T
  <2>1. ASSUME NEW s \in SUBSET (1 .. n + 1), s # {} PROVE Bridge!Max(s) \in s
    <3>1. CASE n + 1 \in s
      <4>1. s \subseteq Int /\ \A y \in s : n + 1 >= y
        OBVIOUS
      <4>2. QED
        BY <3>1, <4>1, TopIs
    <3>2. CASE n + 1 \notin s
      <4>1. s \in SUBSET (1 .. n)
        BY <3>2
      <4>2. QED
        BY <1>2, <2>1, <4>1
    <3>3. QED
      BY <3>1, <3>2
  <2>2. QED
    BY <2>1
<1>. HIDE DEF T
<1>3. Nat \subseteq T
  BY <1>1, <1>2, Induction
<1>4. QED
  BY <1>3 DEF T

\* it[s] folds base with G[i] for the members i of s, upwards.
FoldsUp(it, A, n, base, G) ==
  /\ it \in [SUBSET (1 .. n) -> A]
  /\ \A s \in SUBSET (1 .. n) :
       it[s] = IF s = {} THEN base ELSE G[Bridge!Max(s)][it[s \ {Bridge!Max(s)}]]

\* The function that a fold is defined with exists.
LEMMA FoldDefined ==
  ASSUME NEW A, NEW n \in Nat, NEW base \in A, NEW G \in [1 .. n -> [A -> A]]
  PROVE  \E it : FoldsUp(it, A, n, base, G)
<1>. DEFINE Folds(m, it) == \A s \in SUBSET (1 .. m) :
              it[s] = IF s = {} THEN base ELSE G[Bridge!Max(s)][it[s \ {Bridge!Max(s)}]]
            Defined(m) == \E it \in [SUBSET (1 .. m) -> A] : Folds(m, it)
            T == {m \in Nat : m <= n => Defined(m)}
<1>. HIDE DEF Defined
<1>1. 0 \in T
  <2>1. SUBSET (1 .. 0) = {{}}
    OBVIOUS
  <2>2. [s \in {{}} |-> base] \in [{{}} -> A] /\ [s \in {{}} |-> base][{}] = base
    OBVIOUS
  <2>3. Defined(0)
    BY <2>1, <2>2 DEF Defined
  <2>4. QED
    BY <2>3
<1>2. ASSUME NEW m \in Nat, m \in T PROVE m + 1 \in T
  <2>. SUFFICES ASSUME m + 1 <= n PROVE Defined(m + 1)
    OBVIOUS
  <2>1. PICK it \in [SUBSET (1 .. m) -> A] : Folds(m, it)
    <3>1. Defined(m)
      BY <1>2
    <3>2. QED
      BY <3>1 DEF Defined
  <2>. DEFINE Over(s) == IF m + 1 \in s THEN G[m + 1][it[s \ {m + 1}]] ELSE it[s]
              up == [s \in SUBSET (1 .. m + 1) |-> Over(s)]
  <2>2. ASSUME NEW s \in SUBSET (1 .. m + 1)
        PROVE  /\ s \ {m + 1} \in SUBSET (1 .. m)
               /\ m + 1 \notin s => s \in SUBSET (1 .. m)
               /\ m + 1 \in s => Bridge!Max(s) = m + 1
    <3>1. s \ {m + 1} \in SUBSET (1 .. m) /\ (m + 1 \notin s => s \in SUBSET (1 .. m))
      OBVIOUS
    <3>2. s \subseteq Int /\ \A y \in s : m + 1 >= y
      OBVIOUS
    <3>3. QED
      BY <3>1, <3>2, TopIs
  <2>3. G[m + 1] \in [A -> A]
    OBVIOUS
  <2>4. up \in [SUBSET (1 .. m + 1) -> A]
    <3>1. ASSUME NEW s \in SUBSET (1 .. m + 1) PROVE Over(s) \in A
      BY <2>2, <2>3
    <3>. HIDE DEF Over
    <3>2. QED
      BY <3>1
  <2>5. \A s \in SUBSET (1 .. m) : s \in SUBSET (1 .. m + 1) /\ m + 1 \notin s /\ up[s] = it[s]
    OBVIOUS
  <2>6. ASSUME NEW s \in SUBSET (1 .. m + 1)
        PROVE  up[s] = IF s = {} THEN base ELSE G[Bridge!Max(s)][up[s \ {Bridge!Max(s)}]]
    <3>1. CASE m + 1 \in s
      <4>1. up[s] = G[m + 1][it[s \ {m + 1}]] /\ Bridge!Max(s) = m + 1 /\ s # {}
        BY <2>2, <3>1
      <4>2. up[s \ {m + 1}] = it[s \ {m + 1}]
        BY <2>2, <2>5
      <4>3. QED
        BY <4>1, <4>2
    <3>2. CASE m + 1 \notin s
      <4>1. s \in SUBSET (1 .. m)
        BY <2>2, <3>2
      <4>2. up[s] = IF s = {} THEN base ELSE G[Bridge!Max(s)][it[s \ {Bridge!Max(s)}]]
        BY <2>1, <2>5, <4>1
      <4>3. s \ {Bridge!Max(s)} \in SUBSET (1 .. m)
        BY <4>1
      <4>4. up[s \ {Bridge!Max(s)}] = it[s \ {Bridge!Max(s)}]
        BY <2>5, <4>3
      <4>5. QED
        BY <4>2, <4>4
    <3>3. QED
      BY <3>1, <3>2
  <2>. HIDE DEF up
  <2>7. QED
    BY <2>4, <2>6 DEF Defined
<1>. HIDE DEF T
<1>3. n \in T
  BY <1>1, <1>2, Induction
<1>4. Defined(n)
  BY <1>3 DEF T
<1>5. QED
  BY <1>4 DEF Defined, FoldsUp

\* Of the sets a fold goes down by, those from 1 on
LEMMA Downwards ==
  ASSUME NEW i \in Nat \ {0}
  PROVE  Bridge!Max(1 .. i) = i /\ (1 .. i) \ {i} = 1 .. i - 1 /\ 1 .. i # {}
<1>1. 1 .. i \subseteq Int /\ i \in 1 .. i /\ \A y \in 1 .. i : i >= y
  OBVIOUS
<1>2. Bridge!Max(1 .. i) = i
  BY <1>1, TopIs
<1>3. (1 .. i) \ {i} = 1 .. i - 1
  OBVIOUS
<1>4. QED
  BY <1>1, <1>2, <1>3

(* ------------------------- reports of keyboards ------------------------ *)

LEMMA AppendFacts ==
  ASSUME Bridge!BridgeAssumption, NEW K, NEW keys \in Seq(K), NEW k \in K
  PROVE  LET longer == Bridge!append_unique_key(keys, k)
         IN  /\ longer \in Seq(K) /\ Len(longer) <= Len(keys) + 1
             /\ Len(keys) <= Slots => Len(longer) <= Slots
             /\ Range(keys) \subseteq Range(longer)
             /\ Len(keys) < Slots => k \in Range(longer)
<1>. DEFINE longer == Append(keys, k)
<1>1. /\ longer \in Seq(K) /\ Len(longer) = Len(keys) + 1 /\ Len(keys) \in Nat /\ Slots \in Nat
      /\ longer[Len(keys) + 1] = k /\ \A i \in 1 .. Len(keys) : longer[i] = keys[i]
  BY DEF Bridge!BridgeAssumption
<1>. HIDE DEF longer
<1>2. DOMAIN longer = 1 .. Len(keys) + 1 /\ DOMAIN keys = 1 .. Len(keys)
  BY <1>1
<1>3. Range(keys) \subseteq Range(longer) /\ k \in Range(longer)
  BY <1>1, <1>2 DEF Range
<1>4. Bridge!Range(keys) = Range(keys)
  BY DEF Bridge!Range, Range
<1>5. Bridge!append_unique_key(keys, k) = IF k \in Range(keys) \/ Len(keys) >= Slots THEN keys ELSE longer
  BY <1>4 DEF Bridge!append_unique_key, longer
<1>6. QED
  BY <1>1, <1>3, <1>5

\* merge_keyboard_reports() goes over the keys of b one after the other.
LEMMA MergeFolds ==
  ASSUME Bridge!BridgeAssumption, NEW K, NEW a \in Seq(K), NEW b \in Seq(K)
  PROVE  \E f : /\ f[0] = a /\ f[Len(b)] = Bridge!merge_keyboard_reports(a, b)
                /\ \A i \in 1 .. Len(b) : f[i] = Bridge!append_unique_key(f[i - 1], b[i])
<1>. DEFINE n == Len(b)
            G == [i \in 1 .. n |-> [x \in Seq(K) |-> Bridge!append_unique_key(x, b[i])]]
            Eq(it) == it = [s \in SUBSET (1 .. n) |->
                        IF s = {} THEN a
                        ELSE Bridge!append_unique_key(it[s \ {Bridge!Max(s)}], b[Bridge!Max(s)])]
            c == CHOOSE it : Eq(it)
<1>1. n \in Nat /\ DOMAIN b = 1 .. n /\ \A i \in 1 .. n : b[i] \in K
  OBVIOUS
<1>. HIDE DEF n
<1>2. G \in [1 .. n -> [Seq(K) -> Seq(K)]]
  BY <1>1, AppendFacts
<1>3. \E it : Eq(it)
  <2>1. PICK it \in [SUBSET (1 .. n) -> Seq(K)] : \A s \in SUBSET (1 .. n) :
          it[s] = IF s = {} THEN a ELSE G[Bridge!Max(s)][it[s \ {Bridge!Max(s)}]]
    <3>1. PICK it : FoldsUp(it, Seq(K), n, a, G)
      <4>. HIDE DEF G
      <4>1. QED
        BY <1>1, <1>2, FoldDefined
    <3>2. QED
      BY <3>1 DEF FoldsUp
  <2>2. ASSUME NEW s \in SUBSET (1 .. n), s # {}
        PROVE  it[s] = Bridge!append_unique_key(it[s \ {Bridge!Max(s)}], b[Bridge!Max(s)])
    <3>1. Bridge!Max(s) \in 1 .. n
      BY <1>1, <2>2, TopIn
    <3>2. it[s \ {Bridge!Max(s)}] \in Seq(K)
      OBVIOUS
    <3>3. QED
      BY <2>1, <2>2, <3>1, <3>2
  <2>3. it = [s \in SUBSET (1 .. n) |-> it[s]]
    OBVIOUS
  <2>4. \A s \in SUBSET (1 .. n) : it[s] =
          IF s = {} THEN a ELSE Bridge!append_unique_key(it[s \ {Bridge!Max(s)}], b[Bridge!Max(s)])
    BY <2>1, <2>2
  <2>5. Eq(it)
    BY <2>3, <2>4
  <2>6. QED
    BY <2>5
<1>4. Eq(c)
  BY <1>3
<1>5. Bridge!merge_keyboard_reports(a, b) = c[1 .. n]
  BY <1>1 DEF Bridge!merge_keyboard_reports, Bridge!FoldLeft, Bridge!MapThenFoldSet
<1>. HIDE DEF c
<1>. DEFINE f == [i \in 0 .. n |-> c[1 .. i]]
<1>6. f[0] = a
  BY <1>1, <1>4
<1>7. ASSUME NEW i \in 1 .. n PROVE f[i] = Bridge!append_unique_key(f[i - 1], b[i])
  <2>1. i \in Nat \ {0} /\ i \in 0 .. n /\ i - 1 \in 0 .. n /\ 1 .. i \in SUBSET (1 .. n)
    BY <1>1
  <2>2. f[i] = c[1 .. i] /\ f[i - 1] = c[1 .. i - 1]
    BY <2>1
  <2>3. c[1 .. i] = Bridge!append_unique_key(c[(1 .. i) \ {i}], b[i])
    BY <1>4, <2>1, Downwards
  <2>4. QED
    BY <2>1, <2>2, <2>3, Downwards
<1>8. f[n] = c[1 .. n]
  BY <1>1
<1>. HIDE DEF f
<1>9. QED
  BY <1>5, <1>6, <1>7, <1>8 DEF n

LEMMA MergeFacts ==
  ASSUME Bridge!BridgeAssumption, NEW K, NEW a \in Seq(K), NEW b \in Seq(K)
  PROVE  LET merged == Bridge!merge_keyboard_reports(a, b)
         IN  /\ merged \in Seq(K) /\ Range(a) \subseteq Range(merged)
             /\ Len(a) <= Slots => Len(merged) <= Slots
             /\ a = <<>> /\ Len(b) <= Slots => Range(b) \subseteq Range(merged)
<1>. DEFINE n == Len(b)
<1>1. PICK f : /\ f[0] = a /\ f[n] = Bridge!merge_keyboard_reports(a, b)
               /\ \A i \in 1 .. n : f[i] = Bridge!append_unique_key(f[i - 1], b[i])
  BY MergeFolds
<1>2. n \in Nat /\ Len(a) \in Nat /\ Slots \in Nat /\ DOMAIN b = 1 .. n /\ \A i \in 1 .. n : b[i] \in K
  BY DEF Bridge!BridgeAssumption
<1>. HIDE DEF n
<1>. DEFINE So(i) == /\ f[i] \in Seq(K) /\ Range(a) \subseteq Range(f[i]) /\ Len(f[i]) <= Len(a) + i
                     /\ Len(a) <= Slots => Len(f[i]) <= Slots
                     /\ a = <<>> /\ n <= Slots => \A j \in 1 .. i : b[j] \in Range(f[i])
            T == {i \in Nat : i <= n => So(i)}
<1>3. So(0)
  BY <1>1, <1>2
<1>4. ASSUME NEW i \in Nat, i + 1 <= n, So(i) PROVE So(i + 1)
  <2>1. f[i + 1] = Bridge!append_unique_key(f[i], b[i + 1]) /\ b[i + 1] \in K
    BY <1>1, <1>2, <1>4
  <2>2. /\ f[i + 1] \in Seq(K) /\ Len(f[i + 1]) <= Len(f[i]) + 1
        /\ Len(f[i]) <= Slots => Len(f[i + 1]) <= Slots
        /\ Range(f[i]) \subseteq Range(f[i + 1])
        /\ Len(f[i]) < Slots => b[i + 1] \in Range(f[i + 1])
    BY <1>4, <2>1, AppendFacts
  <2>3. Len(f[i]) \in Nat /\ Len(f[i + 1]) \in Nat
    BY <1>4, <2>2
  <2>4. ASSUME a = <<>>, n <= Slots PROVE \A j \in 1 .. i + 1 : b[j] \in Range(f[i + 1])
    <3>1. Len(f[i]) < Slots
      BY <1>2, <1>4, <2>3, <2>4
    <3>2. QED
      BY <1>4, <2>2, <2>4, <3>1
  <2>5. Len(f[i + 1]) <= Len(a) + (i + 1)
    BY <1>2, <1>4, <2>2, <2>3
  <2>6. QED
    BY <1>4, <2>2, <2>4, <2>5
<1>. HIDE DEF So
<1>5. 0 \in T /\ \A i \in Nat : i \in T => i + 1 \in T
  BY <1>2, <1>3, <1>4
<1>. HIDE DEF T
<1>6. n \in T
  BY <1>2, <1>5, Induction
<1>7. So(n)
  BY <1>2, <1>6 DEF T
<1>8. QED
  BY <1>1, <1>2, <1>7 DEF So, n, Range

\* What fill_keys_from_gamepad() does with a key of its list
Filled(keys, k) == IF k \in gp.keys THEN Bridge!append_unique_key(keys, k) ELSE keys

LEMMA FillFolds ==
  ASSUME Bridge!BridgeAssumption
  PROVE  \E f : /\ f[0] = <<>> /\ f[Len(GamepadKeys)] = Bridge!fill_keys_from_gamepad
                /\ \A i \in 1 .. Len(GamepadKeys) : f[i] = Filled(f[i - 1], GamepadKeys[i])
<1>. DEFINE K == Bridge!GamepadKey
            n == Len(GamepadKeys)
            G == [i \in 1 .. n |-> [x \in Seq(K) |-> Filled(x, GamepadKeys[i])]]
            Eq(it) == it = [s \in SUBSET (1 .. n) |->
                        IF s = {} THEN <<>> ELSE Filled(it[s \ {Bridge!Max(s)}], GamepadKeys[Bridge!Max(s)])]
            c == CHOOSE it : Eq(it)
<1>1. /\ n \in Nat /\ DOMAIN GamepadKeys = 1 .. n /\ \A i \in 1 .. n : GamepadKeys[i] \in K
      /\ <<>> \in Seq(K)
  BY DEF Bridge!BridgeAssumption
<1>. HIDE DEF n, K
<1>2. G \in [1 .. n -> [Seq(K) -> Seq(K)]]
  BY <1>1, AppendFacts DEF Filled
<1>3. \E it : Eq(it)
  <2>1. PICK it \in [SUBSET (1 .. n) -> Seq(K)] : \A s \in SUBSET (1 .. n) :
          it[s] = IF s = {} THEN <<>> ELSE G[Bridge!Max(s)][it[s \ {Bridge!Max(s)}]]
    <3>1. PICK it : FoldsUp(it, Seq(K), n, <<>>, G)
      <4>. HIDE DEF G
      <4>1. QED
        BY <1>1, <1>2, FoldDefined
    <3>2. QED
      BY <3>1 DEF FoldsUp
  <2>2. ASSUME NEW s \in SUBSET (1 .. n), s # {}
        PROVE  it[s] = Filled(it[s \ {Bridge!Max(s)}], GamepadKeys[Bridge!Max(s)])
    <3>1. Bridge!Max(s) \in 1 .. n
      BY <1>1, <2>2, TopIn
    <3>2. it[s \ {Bridge!Max(s)}] \in Seq(K)
      OBVIOUS
    <3>3. QED
      BY <2>1, <2>2, <3>1, <3>2
  <2>3. it = [s \in SUBSET (1 .. n) |-> it[s]]
    OBVIOUS
  <2>4. \A s \in SUBSET (1 .. n) : it[s] =
          IF s = {} THEN <<>> ELSE Filled(it[s \ {Bridge!Max(s)}], GamepadKeys[Bridge!Max(s)])
    BY <2>1, <2>2
  <2>5. Eq(it)
    BY <2>3, <2>4
  <2>6. QED
    BY <2>5
<1>4. Eq(c)
  BY <1>3
<1>5. Bridge!fill_keys_from_gamepad = c[1 .. n]
  BY <1>1 DEF Bridge!fill_keys_from_gamepad, Bridge!FoldLeft, Bridge!MapThenFoldSet, Filled
<1>. HIDE DEF c
<1>. DEFINE f == [i \in 0 .. n |-> c[1 .. i]]
<1>6. f[0] = <<>>
  BY <1>1, <1>4
<1>7. ASSUME NEW i \in 1 .. n PROVE f[i] = Filled(f[i - 1], GamepadKeys[i])
  <2>1. i \in Nat \ {0} /\ i \in 0 .. n /\ i - 1 \in 0 .. n /\ 1 .. i \in SUBSET (1 .. n)
    BY <1>1
  <2>2. f[i] = c[1 .. i] /\ f[i - 1] = c[1 .. i - 1]
    BY <2>1
  <2>3. c[1 .. i] = Filled(c[(1 .. i) \ {i}], GamepadKeys[i])
    BY <1>4, <2>1, Downwards
  <2>4. QED
    BY <2>1, <2>2, <2>3, Downwards
<1>8. f[n] = c[1 .. n]
  BY <1>1
<1>. HIDE DEF f
<1>9. QED
  BY <1>5, <1>6, <1>7, <1>8 DEF n

LEMMA FillFacts ==
  ASSUME Bridge!BridgeAssumption PROVE Bridge!fill_keys_from_gamepad \in Seq(Bridge!GamepadKey)
<1>. DEFINE n == Len(GamepadKeys)
            K == Bridge!GamepadKey
<1>1. PICK f : /\ f[0] = <<>> /\ f[n] = Bridge!fill_keys_from_gamepad
               /\ \A i \in 1 .. n : f[i] = Filled(f[i - 1], GamepadKeys[i])
  BY FillFolds
<1>2. n \in Nat /\ <<>> \in Seq(K) /\ \A i \in 1 .. n : GamepadKeys[i] \in K
  BY DEF Bridge!BridgeAssumption
<1>. HIDE DEF n, K
<1>. DEFINE T == {i \in Nat : i <= n => f[i] \in Seq(K)}
<1>3. 0 \in T
  BY <1>1, <1>2
<1>4. ASSUME NEW i \in Nat, i + 1 <= n, f[i] \in Seq(K) PROVE f[i + 1] \in Seq(K)
  <2>1. f[i + 1] = Filled(f[i], GamepadKeys[i + 1]) /\ GamepadKeys[i + 1] \in K
    BY <1>1, <1>2, <1>4
  <2>2. QED
    BY <1>4, <2>1, AppendFacts DEF Filled
<1>5. \A i \in Nat : i \in T => i + 1 \in T
  BY <1>2, <1>4
<1>. HIDE DEF T
<1>6. n \in T
  BY <1>2, <1>3, <1>5, Induction
<1>7. f[n] \in Seq(K)
  BY <1>2, <1>6 DEF T
<1>8. QED
  BY <1>1, <1>7 DEF K

(* ------------------------------ the bridge ----------------------------- *)

\* Keys that keyboards and a gamepad may send
AnyKey == Bridge!GamepadKey \cup UNION {Range(r) : r \in UNION {w.keys : w \in BridgeWorkload}}

KeyboardsTyped ==
  kbd \in [Bridge!Keyboard -> [on : BOOLEAN, new : BOOLEAN, keys : devices.keys \cup {<<>>}]]

LEMMA KeysFacts ==
  ASSUME Bridge!BridgeAssumption, NEW w \in BridgeWorkload, NEW r \in w.keys \cup {<<>>}
  PROVE  r \in Seq(AnyKey) /\ Len(r) <= Slots
<1>1. CASE r = <<>>
  BY <1>1 DEF Bridge!BridgeAssumption
<1>2. CASE r \in w.keys
  <2>1. r \in Seq(Range(r)) /\ Len(r) <= Slots
    BY <1>2 DEF Bridge!BridgeAssumption, Bridge!Range, Range
  <2>2. Range(r) \subseteq AnyKey
    BY <1>2 DEF AnyKey
  <2>3. \A i \in 1 .. Len(r) : r[i] \in AnyKey
    BY <2>1, <2>2
  <2>4. QED
    BY <2>1, <2>3
<1>3. QED
  BY <1>1, <1>2

\* peek_keyboard_reports_merged() goes over the keyboards one after the other.
LEMMA PeekFolds ==
  ASSUME Bridge!BridgeAssumption, devices \in BridgeWorkload, KeyboardsTyped
  PROVE  \E f : /\ f[0] = <<>> /\ f[Keyboards] = Bridge!peek_keyboard_reports_merged
                /\ \A i \in 1 .. Keyboards : f[i] = Bridge!merge_keyboard_reports(f[i - 1], kbd[i].keys)
<1>. DEFINE n == Keyboards
            b == [k \in 1 .. n |-> kbd[k].keys]
            G == [i \in 1 .. n |-> [x \in Seq(AnyKey) |-> Bridge!merge_keyboard_reports(x, b[i])]]
            Eq(it) == it = [s \in SUBSET (1 .. n) |->
                        IF s = {} THEN <<>>
                        ELSE Bridge!merge_keyboard_reports(it[s \ {Bridge!Max(s)}], b[Bridge!Max(s)])]
            c == CHOOSE it : Eq(it)
<1>0. Bridge!Keyboard = 1 .. n
  BY DEF Bridge!Keyboard
<1>1. n \in Nat /\ DOMAIN b = 1 .. n /\ <<>> \in Seq(AnyKey) /\ \A i \in 1 .. n : b[i] \in Seq(AnyKey)
  BY <1>0, KeysFacts DEF Bridge!BridgeAssumption, KeyboardsTyped
<1>5. Bridge!peek_keyboard_reports_merged = c[1 .. n]
  BY <1>0, <1>1 DEF Bridge!peek_keyboard_reports_merged, Bridge!FoldLeft, Bridge!MapThenFoldSet
<1>. HIDE DEF b, n
<1>2. G \in [1 .. n -> [Seq(AnyKey) -> Seq(AnyKey)]]
  BY <1>1, MergeFacts
<1>3. \E it : Eq(it)
  <2>1. PICK it \in [SUBSET (1 .. n) -> Seq(AnyKey)] : \A s \in SUBSET (1 .. n) :
          it[s] = IF s = {} THEN <<>> ELSE G[Bridge!Max(s)][it[s \ {Bridge!Max(s)}]]
    <3>1. PICK it : FoldsUp(it, Seq(AnyKey), n, <<>>, G)
      <4>. HIDE DEF G
      <4>1. QED
        BY <1>1, <1>2, FoldDefined
    <3>2. QED
      BY <3>1 DEF FoldsUp
  <2>2. ASSUME NEW s \in SUBSET (1 .. n), s # {}
        PROVE  it[s] = Bridge!merge_keyboard_reports(it[s \ {Bridge!Max(s)}], b[Bridge!Max(s)])
    <3>1. Bridge!Max(s) \in 1 .. n
      BY <1>1, <2>2, TopIn
    <3>2. it[s \ {Bridge!Max(s)}] \in Seq(AnyKey)
      OBVIOUS
    <3>3. QED
      BY <2>1, <2>2, <3>1, <3>2
  <2>3. it = [s \in SUBSET (1 .. n) |-> it[s]]
    OBVIOUS
  <2>4. \A s \in SUBSET (1 .. n) : it[s] =
          IF s = {} THEN <<>> ELSE Bridge!merge_keyboard_reports(it[s \ {Bridge!Max(s)}], b[Bridge!Max(s)])
    BY <2>1, <2>2
  <2>5. Eq(it)
    BY <2>3, <2>4
  <2>6. QED
    BY <2>5
<1>4. Eq(c)
  BY <1>3
<1>. HIDE DEF c
<1>. DEFINE f == [i \in 0 .. n |-> c[1 .. i]]
<1>6. f[0] = <<>>
  BY <1>1, <1>4
<1>7. ASSUME NEW i \in 1 .. n PROVE f[i] = Bridge!merge_keyboard_reports(f[i - 1], b[i])
  <2>1. i \in Nat \ {0} /\ i \in 0 .. n /\ i - 1 \in 0 .. n /\ 1 .. i \in SUBSET (1 .. n)
    BY <1>1
  <2>2. f[i] = c[1 .. i] /\ f[i - 1] = c[1 .. i - 1]
    BY <2>1
  <2>3. c[1 .. i] = Bridge!merge_keyboard_reports(c[(1 .. i) \ {i}], b[i])
    BY <1>4, <2>1, Downwards
  <2>4. QED
    BY <2>1, <2>2, <2>3, Downwards
<1>8. f[n] = c[1 .. n]
  BY <1>1
<1>. HIDE DEF f
<1>9. \A i \in 1 .. n : b[i] = kbd[i].keys
  BY DEF b
<1>10. QED
  BY <1>5, <1>6, <1>7, <1>8, <1>9 DEF n

\* The merged report has room for its keys, and the first keyboard is the first.
LEMMA PeekFacts ==
  ASSUME Bridge!BridgeAssumption, devices \in BridgeWorkload, KeyboardsTyped
  PROVE  LET merged == Bridge!peek_keyboard_reports_merged
         IN  merged \in Seq(AnyKey) /\ Len(merged) <= Slots /\ Range(kbd[1].keys) \subseteq Range(merged)
<1>. DEFINE n == Keyboards
<1>1. PICK f : /\ f[0] = <<>> /\ f[n] = Bridge!peek_keyboard_reports_merged
               /\ \A i \in 1 .. n : f[i] = Bridge!merge_keyboard_reports(f[i - 1], kbd[i].keys)
  BY PeekFolds
<1>2. n \in Nat \ {0} /\ Slots \in Nat /\ <<>> \in Seq(AnyKey)
  BY DEF Bridge!BridgeAssumption
<1>3. \A i \in 1 .. n : kbd[i].keys \in Seq(AnyKey) /\ Len(kbd[i].keys) <= Slots
  BY KeysFacts DEF KeyboardsTyped, Bridge!Keyboard
<1>. HIDE DEF n
<1>. DEFINE So(i) == /\ f[i] \in Seq(AnyKey) /\ Len(f[i]) <= Slots
                     /\ i >= 1 => Range(kbd[1].keys) \subseteq Range(f[i])
            T == {i \in Nat : i <= n => So(i)}
<1>4. So(0)
  BY <1>1, <1>2
<1>5. ASSUME NEW i \in Nat, i + 1 <= n, So(i) PROVE So(i + 1)
  <2>1. f[i + 1] = Bridge!merge_keyboard_reports(f[i], kbd[i + 1].keys) /\ i + 1 \in 1 .. n
    BY <1>1, <1>2, <1>5
  <2>2. /\ f[i + 1] \in Seq(AnyKey) /\ Range(f[i]) \subseteq Range(f[i + 1]) /\ Len(f[i + 1]) <= Slots
        /\ f[i] = <<>> => Range(kbd[i + 1].keys) \subseteq Range(f[i + 1])
    BY <1>3, <1>5, <2>1, MergeFacts
  <2>3. i = 0 => Range(kbd[1].keys) \subseteq Range(f[i + 1])
    BY <1>1, <2>2
  <2>4. QED
    BY <1>5, <2>2, <2>3
<1>. HIDE DEF So
<1>6. 0 \in T /\ \A i \in Nat : i \in T => i + 1 \in T
  BY <1>2, <1>4, <1>5
<1>. HIDE DEF T
<1>7. n \in T
  BY <1>2, <1>6, Induction
<1>8. So(n)
  BY <1>2, <1>7 DEF T
<1>9. QED
  BY <1>1, <1>2, <1>8 DEF So

BridgeTyped ==
  /\ devices \in BridgeWorkload /\ KeyboardsTyped
  /\ mouse \in [on : BOOLEAN, new : BOOLEAN, buttons : SUBSET devices.mouse, moves : BOOLEAN]
  /\ gp \in [on : BOOLEAN, new : BOOLEAN, keys : SUBSET devices.padKeys, buttons : SUBSET devices.pad,
             moves : BOOLEAN]
  /\ ~gp.on => gp.buttons = {}
  /\ s_bt_buttons_latched \subseteq devices.mouse /\ s_gp_buttons_latched \subseteq devices.pad
  /\ parsed \subseteq devices.mouse \cup devices.pad \cup devices.usb
  /\ pending \subseteq {"mouse", "stick", "usb"}

\* What was parsed last had room, and the first keyboard's keys are in it.
HeldHasRoom ==
  /\ IsFiniteSet(held) /\ Cardinality(held) <= Slots
  /\ kbd[1].on /\ ~kbd[1].new => Range(kbd[1].keys) \subseteq held

BridgeInv == BridgeTyped /\ HeldHasRoom

LEMMA BridgeStart == ASSUME Bridge!BridgeAssumption, Bridge!Init PROVE BridgeInv
<1>1. /\ devices \in BridgeWorkload /\ kbd = [k \in Bridge!Keyboard |-> Bridge!NoKeyboard]
      /\ Bridge!NoKeyboard = [on |-> FALSE, new |-> FALSE, keys |-> <<>>]
  BY DEF Bridge!Init, Bridge!NoKeyboard
<1>2. KeyboardsTyped
  BY <1>1 DEF KeyboardsTyped
<1>3. BridgeTyped
  BY <1>1, <1>2 DEF Bridge!Init, Bridge!NoMouse, Bridge!NoGamepad, BridgeTyped
<1>4. 1 \in Bridge!Keyboard /\ Slots \in Nat
  BY DEF Bridge!BridgeAssumption, Bridge!Keyboard
<1>5. held = {} /\ ~kbd[1].on
  BY <1>1, <1>4 DEF Bridge!Init
<1>6. HeldHasRoom
  BY <1>4, <1>5, FS_EmptySet DEF HeldHasRoom
<1>7. QED
  BY <1>3, <1>6 DEF BridgeInv

LEMMA RangeFacts ==
  ASSUME NEW K, NEW s \in Seq(K) PROVE IsFiniteSet(Range(s)) /\ Cardinality(Range(s)) <= Len(s)
<1>1. Len(s) \in Nat /\ DOMAIN s = 1 .. Len(s)
  OBVIOUS
<1>2. IsFiniteSet(1 .. Len(s)) /\ Cardinality(1 .. Len(s)) = Len(s)
  BY <1>1, FS_Interval
<1>3. s \in Surjection(1 .. Len(s), Range(s))
  BY <1>1, Fun_RangeProperties DEF Range, Surjection
<1>4. QED
  BY <1>2, <1>3, FS_Surjection

\* A keyboard connects, leaves or sends a report.
LEMMA KeyboardSteps ==
  ASSUME Bridge!BridgeAssumption, BridgeInv, NEW k \in Bridge!Keyboard,
         Bridge!KeyboardLink(k) \/ Bridge!KeyboardData(k)
  PROVE  BridgeInv'
<1>. DEFINE new == kbd'[k]
<1>1. 1 \in Bridge!Keyboard
  BY DEF Bridge!BridgeAssumption, Bridge!Keyboard
<1>2. /\ UNCHANGED <<mouse, gp, devices, s_bt_buttons_latched, s_gp_buttons_latched, parsed, pending, held>>
      /\ \E r \in [on : BOOLEAN, new : BOOLEAN, keys : devices.keys \cup {<<>>}] :
           kbd' = [kbd EXCEPT ![k] = r] /\ (r.new \/ r.keys = <<>>)
  <2>1. CASE Bridge!KeyboardLink(k)
    <3>. DEFINE r == [Bridge!NoKeyboard EXCEPT !.on = ~kbd[k].on]
    <3>1. kbd' = [kbd EXCEPT ![k] = r] /\ UNCHANGED <<mouse, gp, devices, Bridge!latch_vars, Bridge!parser_vars>>
      BY <2>1 DEF Bridge!KeyboardLink
    <3>2. r \in [on : BOOLEAN, new : BOOLEAN, keys : devices.keys \cup {<<>>}] /\ r.keys = <<>>
      BY DEF Bridge!NoKeyboard, BridgeInv, BridgeTyped, KeyboardsTyped
    <3>. HIDE DEF r
    <3>3. QED
      BY <3>1, <3>2 DEF Bridge!latch_vars, Bridge!parser_vars
  <2>2. CASE Bridge!KeyboardData(k)
    <3>1. PICK keys \in devices.keys : kbd' = [kbd EXCEPT ![k] = [on |-> TRUE, new |-> TRUE, keys |-> keys]]
      BY <2>2 DEF Bridge!KeyboardData
    <3>2. UNCHANGED <<mouse, gp, devices, Bridge!latch_vars, Bridge!parser_vars>>
      BY <2>2 DEF Bridge!KeyboardData
    <3>. DEFINE r == [on |-> TRUE, new |-> TRUE, keys |-> keys]
    <3>3. r \in [on : BOOLEAN, new : BOOLEAN, keys : devices.keys \cup {<<>>}] /\ r.new
      OBVIOUS
    <3>. HIDE DEF r
    <3>4. kbd' = [kbd EXCEPT ![k] = r]
      BY <3>1 DEF r
    <3>5. QED
      BY <3>2, <3>3, <3>4 DEF Bridge!latch_vars, Bridge!parser_vars
  <2>3. QED
    BY <2>1, <2>2
<1>3. PICK r \in [on : BOOLEAN, new : BOOLEAN, keys : devices.keys \cup {<<>>}] :
        kbd' = [kbd EXCEPT ![k] = r] /\ (r.new \/ r.keys = <<>>)
  BY <1>2
<1>4. KeyboardsTyped'
  BY <1>2, <1>3 DEF BridgeInv, BridgeTyped, KeyboardsTyped
<1>5. BridgeTyped'
  BY <1>2, <1>4 DEF BridgeInv, BridgeTyped
<1>6. kbd'[1] = IF k = 1 THEN r ELSE kbd[1]
  BY <1>1, <1>3 DEF BridgeInv, BridgeTyped, KeyboardsTyped
<1>7. Range(<<>>) = {}
  BY DEF Range
<1>8. HeldHasRoom'
  BY <1>2, <1>3, <1>6, <1>7 DEF BridgeInv, HeldHasRoom
<1>9. QED
  BY <1>5, <1>8 DEF BridgeInv

\* A mouse or a gamepad does, core 1 is paused, or the USB mouse or the ADB host
\* come in between.
LEMMA OtherSteps ==
  ASSUME Bridge!BridgeAssumption, BridgeInv,
         \/ Bridge!MouseLink \/ Bridge!GamepadLink \/ Bridge!MouseData \/ Bridge!GamepadData
         \/ Bridge!Pause \/ Bridge!UsbMouse \/ Bridge!GetAdbRegister0 \/ UNCHANGED Bridge!vars
  PROVE  BridgeInv'
<1>1. UNCHANGED <<kbd, held, devices, s_bt_buttons_latched, s_gp_buttons_latched>>
  BY DEF Bridge!MouseLink, Bridge!GamepadLink, Bridge!MouseData, Bridge!GamepadData, Bridge!Pause, Bridge!UsbMouse,
    Bridge!GetAdbRegister0, Bridge!vars, Bridge!store_vars, Bridge!latch_vars, Bridge!parser_vars
<1>2. HeldHasRoom' /\ KeyboardsTyped' /\ devices \in BridgeWorkload /\ devices.stick \in BOOLEAN
  BY <1>1 DEF BridgeInv, BridgeTyped, HeldHasRoom, KeyboardsTyped, Bridge!BridgeAssumption
<1>. USE DEF BridgeInv, BridgeTyped
<1>3. CASE Bridge!MouseLink \/ Bridge!MouseData
  <2>1. /\ UNCHANGED <<gp, parsed, pending>>
        /\ mouse' \in [on : BOOLEAN, new : BOOLEAN, buttons : SUBSET devices.mouse, moves : BOOLEAN]
    <3>1. CASE Bridge!MouseLink
      BY <3>1 DEF Bridge!MouseLink, Bridge!NoMouse, Bridge!parser_vars
    <3>2. CASE Bridge!MouseData
      BY <3>2 DEF Bridge!MouseData, Bridge!parser_vars
    <3>3. QED
      BY <1>3, <3>1, <3>2
  <2>2. QED
    BY <1>1, <1>2, <2>1
<1>4. CASE Bridge!GamepadLink \/ Bridge!GamepadData
  <2>1. /\ UNCHANGED <<mouse, parsed, pending>>
        /\ gp' \in [on : BOOLEAN, new : BOOLEAN, keys : SUBSET devices.padKeys, buttons : SUBSET devices.pad,
                    moves : BOOLEAN]
        /\ ~gp'.on => gp'.buttons = {}
    <3>1. CASE Bridge!GamepadLink
      BY <3>1 DEF Bridge!GamepadLink, Bridge!NoGamepad, Bridge!parser_vars
    <3>2. CASE Bridge!GamepadData
      <4>1. PICK keys \in SUBSET devices.padKeys, b \in SUBSET devices.pad, moves \in {FALSE, devices.stick} :
              gp' = [on |-> TRUE, new |-> TRUE, keys |-> keys, buttons |-> b, moves |-> moves]
        BY <3>2 DEF Bridge!GamepadData
      <4>2. UNCHANGED <<mouse, Bridge!parser_vars>>
        BY <3>2 DEF Bridge!GamepadData
      <4>3. QED
        BY <1>2, <4>1, <4>2 DEF Bridge!parser_vars
    <3>3. QED
      BY <1>4, <3>1, <3>2
  <2>2. QED
    BY <1>1, <1>2, <2>1
<1>5. CASE Bridge!Pause \/ UNCHANGED Bridge!vars
  BY <1>1, <1>2, <1>5 DEF Bridge!Pause, Bridge!vars, Bridge!store_vars, Bridge!parser_vars
<1>6. CASE Bridge!UsbMouse
  <2>1. parsed' \subseteq devices.usb /\ pending' \subseteq pending \cup {"usb"} /\ UNCHANGED <<mouse, gp>>
    BY <1>6 DEF Bridge!UsbMouse, Bridge!store_vars
  <2>2. QED
    BY <1>1, <1>2, <2>1
<1>7. CASE Bridge!GetAdbRegister0
  BY <1>1, <1>2, <1>7 DEF Bridge!GetAdbRegister0, Bridge!store_vars
<1>8. QED
  BY <1>3, <1>4, <1>5, <1>6, <1>7

\* The keys that are parsed, and those of the first keyboard among them
LEMMA ParsedKeys ==
  ASSUME Bridge!BridgeAssumption, BridgeInv, Bridge!process_bluepad32_devices
  PROVE  /\ IsFiniteSet(held') /\ Cardinality(held') <= Slots
         /\ kbd[1].on => Range(kbd[1].keys) \subseteq held'
<1>. DEFINE peeked == Bridge!peek_keyboard_reports_merged
            gp_keys == Bridge!GamepadKeysIncluded
            merged == Bridge!merge_keyboard_reports(peeked, gp_keys)
<1>1. peeked \in Seq(AnyKey) /\ Len(peeked) <= Slots /\ Range(kbd[1].keys) \subseteq Range(peeked)
  BY PeekFacts DEF BridgeInv, BridgeTyped
<1>2. gp_keys \in Seq(AnyKey)
  <2>1. Bridge!GamepadKey \subseteq AnyKey
    BY DEF AnyKey
  <2>2. Bridge!fill_keys_from_gamepad \in Seq(AnyKey)
    BY <2>1, FillFacts
  <2>3. QED
    BY <2>2 DEF Bridge!GamepadKeysIncluded
<1>3. merged \in Seq(AnyKey) /\ Len(merged) <= Slots /\ Range(peeked) \subseteq Range(merged)
  BY <1>1, <1>2, MergeFacts
<1>4. /\ IsFiniteSet(Range(merged)) /\ Cardinality(Range(merged)) <= Slots
  <2>1. IsFiniteSet(Range(merged)) /\ Cardinality(Range(merged)) <= Len(merged)
    BY <1>3, RangeFacts
  <2>2. Cardinality(Range(merged)) \in Nat /\ Len(merged) \in Nat /\ Slots \in Nat
    BY <1>3, <2>1, FS_CardinalityType DEF Bridge!BridgeAssumption
  <2>3. QED
    BY <1>3, <2>1, <2>2
<1>5. /\ held' \in {held, Range(merged)}
      /\ Bridge!Connected # {} /\ Bridge!bluepad32_get_keyboard => held' = Range(merged)
      /\ Bridge!Connected # {} /\ Bridge!bluepad32_get_gamepad => held' = Range(merged)
  <2>1. Bridge!Range(merged) = Range(merged)
    BY DEF Bridge!Range, Range
  <2>2. QED
    BY <2>1 DEF Bridge!process_bluepad32_devices, Bridge!process_bluepad32_keyboard_and_gamepad
<1>. HIDE DEF merged, peeked
<1>6. ASSUME kbd[1].on PROVE Range(kbd[1].keys) \subseteq held'
  <2>1. Bridge!Connected # {} /\ (kbd[1].new => Bridge!bluepad32_get_keyboard)
    <3>1. 1 \in Bridge!Keyboard
      BY DEF Bridge!BridgeAssumption, Bridge!Keyboard
    <3>2. 1 \in Bridge!Connected
      BY <1>6, <3>1 DEF Bridge!Connected
    <3>3. QED
      BY <3>2 DEF Bridge!bluepad32_get_keyboard
  <2>2. CASE held' = Range(merged)
    BY <1>1, <1>3, <2>2
  <2>3. CASE held' # Range(merged)
    BY <1>5, <1>6, <2>1, <2>3 DEF BridgeInv, HeldHasRoom
  <2>4. QED
    BY <2>2, <2>3
<1>7. QED
  BY <1>4, <1>5, <1>6 DEF BridgeInv, HeldHasRoom

LEMMA ProcessStep ==
  ASSUME Bridge!BridgeAssumption, BridgeInv, Bridge!process_bluepad32_devices
  PROVE  BridgeInv'
<1>1. /\ UNCHANGED devices
      /\ kbd' = [k \in Bridge!Keyboard |-> [kbd[k] EXCEPT !.new = FALSE]]
      /\ mouse' = [mouse EXCEPT !.new = FALSE] /\ gp' = [gp EXCEPT !.new = FALSE]
      /\ Bridge!process_bluepad32_mouse_merged
  BY DEF Bridge!process_bluepad32_devices
<1>2. KeyboardsTyped'
  BY <1>1 DEF BridgeInv, BridgeTyped, KeyboardsTyped
<1>3. /\ mouse' \in [on : BOOLEAN, new : BOOLEAN, buttons : SUBSET devices.mouse, moves : BOOLEAN]
      /\ gp' \in [on : BOOLEAN, new : BOOLEAN, keys : SUBSET devices.padKeys, buttons : SUBSET devices.pad,
                  moves : BOOLEAN]
      /\ ~gp'.on => gp'.buttons = {}
  BY <1>1 DEF BridgeInv, BridgeTyped
<1>4. Bridge!BtLatch \subseteq devices.mouse /\ Bridge!GpLatch \subseteq devices.pad
  BY DEF Bridge!BtLatch, Bridge!GpLatch, Bridge!Kept, BridgeInv, BridgeTyped
<1>5. Bridge!Buttons \subseteq devices.mouse \cup devices.pad
  BY <1>4 DEF Bridge!Buttons, BridgeInv, BridgeTyped
<1>6. /\ s_bt_buttons_latched' \subseteq devices.mouse /\ s_gp_buttons_latched' \subseteq devices.pad
      /\ parsed' \subseteq devices.mouse \cup devices.pad \cup devices.usb
  BY <1>1, <1>4, <1>5 DEF Bridge!process_bluepad32_mouse_merged, BridgeInv, BridgeTyped
<1>7. pending' \subseteq {"mouse", "stick", "usb"}
  <2>1. Bridge!Source \subseteq {"mouse", "stick"} /\ Bridge!Cleared \subseteq {"mouse", "stick", "usb"}
    BY DEF Bridge!Source, Bridge!Cleared, BridgeInv, BridgeTyped
  <2>2. QED
    BY <1>1, <2>1 DEF Bridge!process_bluepad32_mouse_merged
<1>8. BridgeTyped'
  BY <1>1, <1>2, <1>3, <1>6, <1>7 DEF BridgeInv, BridgeTyped
<1>9. kbd'[1].on = kbd[1].on /\ kbd'[1].keys = kbd[1].keys
  <2>1. 1 \in Bridge!Keyboard
    BY DEF Bridge!BridgeAssumption, Bridge!Keyboard
  <2>2. QED
    BY <1>1, <2>1 DEF BridgeInv, BridgeTyped, KeyboardsTyped
<1>10. HeldHasRoom'
  BY <1>9, ParsedKeys DEF HeldHasRoom
<1>11. QED
  BY <1>8, <1>10 DEF BridgeInv

LEMMA BridgeStep ==
  ASSUME Bridge!BridgeAssumption, BridgeInv, [Bridge!Next]_(Bridge!vars)
  PROVE  BridgeInv'
  BY KeyboardSteps, OtherSteps, ProcessStep DEF Bridge!Next, Bridge!Link, Bridge!Data

LEMMA BridgeKept == ASSUME BridgeInv PROVE Bridge!Inv
<1>1. Bridge!Cardinality(held) = Cardinality(held)
  BY DEF Bridge!Cardinality, Cardinality
<1>2. Bridge!TypeOK
  BY <1>1 DEF BridgeInv, BridgeTyped, KeyboardsTyped, HeldHasRoom, Bridge!TypeOK
<1>3. Bridge!KeyboardKeysHaveRoom
  BY DEF BridgeInv, HeldHasRoom, Bridge!KeyboardKeysHaveRoom, Bridge!Range, Range
<1>4. QED
  BY <1>2, <1>3 DEF Bridge!Inv

(* ------------------------------- theorems ------------------------------ *)

\* Each of the two only takes its own steps, whichever runs.
LEMMA PointingSteps == [PointingNext]_all_vars => [Next]_vars /\ [Bridge!Next]_(Bridge!vars)
<1>1. UNCHANGED bridge_vars => UNCHANGED Bridge!vars
  BY DEF bridge_vars, Bridge!vars, Bridge!store_vars, Bridge!latch_vars, Bridge!parser_vars
<1>2. QED
  BY <1>1 DEF PointingNext, all_vars

LEMMA PointingInvariant == PointingSpec => [](MouseInv /\ BridgeInv)
<1>1. PointingInit => MouseInv /\ BridgeInv
  BY MouseStart, BridgeStart, BridgeAssumed DEF PointingInit
<1>2. MouseInv /\ BridgeInv /\ [PointingNext]_all_vars => (MouseInv /\ BridgeInv)'
  BY PointingSteps, MouseStep, BridgeStep, BridgeAssumed
<1>3. QED
  BY <1>1, <1>2, PTL DEF PointingSpec

\* For any mice and any range of a delta: two mice that only move one way never move
\* the pointer the other way, whatever core 1 adds between two accesses of core 0,
\* and a mouse without a middle button that holds none leaves no button and no Ctrl
\* pressed.  For any keyboards, keys and slots: a report has room for its keys, and
\* those of the first keyboard are always among them.
THEOREM InputsAlwaysKept == PointingSpec => []InputsKept
<1>1. MouseInv /\ BridgeInv => InputsKept
  BY MouseKept, BridgeKept DEF InputsKept
<1>2. QED
  BY <1>1, PointingInvariant, PTL

LEMMA ButtonStays ==
  ASSUME BridgeInv, [Bridge!Next]_(Bridge!vars), NEW b \in parsed, ~devices.usbMouse,
         \/ b \in mouse.buttons /\ b \in mouse'.buttons
         \/ b \in s_gp_buttons_latched /\ b \in gp.buttons
  PROVE  b \in parsed'
<1>1. CASE Bridge!process_bluepad32_devices
  <2>1. mouse'.buttons = mouse.buttons
    BY <1>1 DEF Bridge!process_bluepad32_devices, BridgeInv, BridgeTyped
  <2>2. ASSUME b \in s_gp_buttons_latched, b \in gp.buttons PROVE b \in Bridge!GpLatch
    <3>1. gp.on
      BY <2>2 DEF BridgeInv, BridgeTyped
    <3>2. QED
      BY <2>2, <3>1 DEF Bridge!GpLatch, Bridge!Kept, Bridge!GamepadLost
  <2>3. b \in Bridge!Buttons
    BY <2>1, <2>2 DEF Bridge!Buttons
  <2>4. QED
    BY <1>1, <2>3 DEF Bridge!process_bluepad32_devices, Bridge!process_bluepad32_mouse_merged
<1>2. CASE Bridge!UsbMouse
  BY <1>2 DEF Bridge!UsbMouse
<1>3. CASE Bridge!Link \/ Bridge!Data
  BY <1>3 DEF Bridge!Link, Bridge!Data, Bridge!MouseLink, Bridge!GamepadLink, Bridge!KeyboardLink,
    Bridge!MouseData, Bridge!GamepadData, Bridge!KeyboardData, Bridge!parser_vars
<1>4. CASE Bridge!Pause \/ Bridge!GetAdbRegister0 \/ UNCHANGED Bridge!vars
  BY <1>4 DEF Bridge!Pause, Bridge!GetAdbRegister0, Bridge!vars, Bridge!parser_vars
<1>5. QED
  BY <1>1, <1>2, <1>3, <1>4 DEF Bridge!Next

\* A button held on the Bluetooth mouse, or on the gamepad as long as that is there,
\* is not released by any report of another device, for any devices.
THEOREM DragsHold == PointingSpec => DragHolds
<1>1. BridgeInv /\ [PointingNext]_all_vars =>
        [\A b \in parsed :
           /\ ~devices.usbMouse
           /\ \/ b \in mouse.buttons /\ b \in mouse'.buttons
              \/ b \in s_gp_buttons_latched /\ b \in gp.buttons
           => b \in parsed']_(Bridge!vars)
  BY PointingSteps, ButtonStays
<1>2. QED
  BY <1>1, PointingInvariant, PTL DEF PointingSpec, DragHolds, Bridge!DragHolds
=============================================================================
