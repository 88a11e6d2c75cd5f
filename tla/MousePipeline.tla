--------------------------- MODULE MousePipeline ---------------------------
(***************************************************************************)
(* From mouse reports to ADB register 0.  PlatformMouseParser::Parse adds  *)
(* the movement to a pending delta and turns changes of the buttons into   *)
(* two flags; GetAdbRegister0 (lib/adb/src/adbmouseparser.cpp) reads and   *)
(* clears them, and the host reads the register.                           *)
(*                                                                         *)
(* Parse runs on core 1 for USB mice and on core 0 for Bluetooth, on one   *)
(* parser and one static mouse_info without a lock, and core 0 reads.  A   *)
(* store to what the cores share is a step, with the tests that lead to    *)
(* it; the parts of an addition are steps of their own.  One axis is       *)
(* modelled (both are treated alike, one after the other), the buttons of  *)
(* a report are stored at once, and the range of the delta is a parameter. *)
(* Ctrl, which the right button holds on systems with one button, is the   *)
(* last event queued for it; KeyPipeline models the queue.                 *)
(***************************************************************************)
EXTENDS Integers, FiniteSets, Sequences

CONSTANTS
  Reach,       (* a movement in register 0 is -Reach .. Reach - 1 (64), and  *)
               (* a delta has one bit more                                   *)
  Workload     (* what may come: for each core the reports it may parse      *)
               (* (report, each [dx, buttons, replace]) and a bound on those *)
               (* that change the buttons (count); a bound on the bus resets *)
               (* (resets)                                                   *)

Core == {0, 1}
Button == {"left", "right", "middle"}
Delta == -(2 * Reach) .. 2 * Reach - 1     \* int8_t
Movement == -Reach .. Reach - 1            \* seven bits

ASSUME MouseAssumption ==
  /\ Reach \in Nat \ {0}
  /\ \A w \in Workload :
       /\ w.report \in [Core -> SUBSET [dx : Delta, buttons : SUBSET Button, replace : BOOLEAN]]
       /\ w.count \in [Core -> Nat] /\ w.resets \in Nat

VARIABLES
  m_moved,     (* m_movedx                                                   *)
  pressed,     (* m_mouse_left_button_is_pressed, m_mouse_right_...          *)
  m_mouse_button_changed,
  m_right_btn_mode,
  prevState,   (* the buttons of the last report, of whatever mouse          *)
  ctrl,        (* the last event queued for Ctrl was a press                 *)
  mouse_info,  (* Parse's copy of its report, one for both cores             *)
  pc,          (* what each core does next                                   *)
  parsing,     (* the report each core was called with                       *)
  seen,        (* the delta it has read, or is about to store                *)
  mousereg0, mousepending,
  host,        (* the buttons and the movement of the last register read     *)
  workload,          (* what comes in this behaviour                         *)
  reports, resets    (* changes of the buttons and resets so far (bounded)   *)

parsed_vars == <<m_moved, pressed, m_mouse_button_changed, m_right_btn_mode, prevState, ctrl>>
parser_vars == <<parsed_vars, mouse_info>>
core_vars == <<pc, parsing, seen>>
adb_vars == <<mousereg0, mousepending, host>>
env_vars == <<workload, reports, resets>>
vars == <<parser_vars, core_vars, adb_vars, env_vars>>

NoReport == [dx |-> 0, buttons |-> {}, replace |-> FALSE]
NoRegister == [buttons |-> {}, dx |-> 0]
ZeroRegister == [buttons |-> {"left", "right"}, dx |-> 0]   \* 0 means pressed

Init ==
  /\ m_moved = 0 /\ pressed = {} /\ m_mouse_button_changed = FALSE
  /\ m_right_btn_mode = "ctrl_click"
  /\ prevState = {} /\ ctrl = FALSE /\ mouse_info = NoRegister
  /\ pc = [c \in Core |-> "task"]
  /\ parsing = [c \in Core |-> NoReport]
  /\ seen = [c \in Core |-> 0]
  /\ mousereg0 = NoRegister /\ mousepending = FALSE /\ host = NoRegister
  /\ workload \in Workload /\ reports = [c \in Core |-> 0] /\ resets = 0

Goto(c, label) == pc' = [pc EXCEPT ![c] = label]

(* ------------------------------- the parser ---------------------------- *)

\* Parse of a report, which is copied to mouse_info: its buttons
Parse(c, report) ==
  /\ pc[c] = "task"
  /\ reports[c] < workload.count[c] \/ report.buttons = parsing[c].buttons
  /\ reports' = IF report.buttons = parsing[c].buttons THEN reports
                ELSE [reports EXCEPT ![c] = @ + 1]
  /\ parsing' = [parsing EXCEPT ![c] = report]
  /\ mouse_info' = [mouse_info EXCEPT !.buttons = report.buttons]
  /\ Goto(c, "fill")
  /\ UNCHANGED <<parsed_vars, seen, adb_vars, workload, resets>>

\* Core 0 has no report.
NothingToParse ==
  /\ pc[0] = "task"
  /\ Goto(0, "look")
  /\ UNCHANGED <<parser_vars, parsing, seen, adb_vars, env_vars>>

\* and its movement.  What follows reads mouse_info, be it of this report or of
\* one the other core has begun to parse.
FillMovement(c) ==
  /\ pc[c] = "fill"
  /\ mouse_info' = [mouse_info EXCEPT !.dx = parsing[c].dx]
  /\ Goto(c, "moved")
  /\ UNCHANGED <<parsed_vars, parsing, seen, adb_vars, env_vars>>

\* Movement is added, or replaced when the report is of the gamepad's stick.
HasMoved(c) ==
  /\ pc[c] = "moved"
  /\ Goto(c, IF mouse_info.dx = 0 THEN "left_down"
             ELSE IF parsing[c].replace THEN "replace" ELSE "load")
  /\ UNCHANGED <<parser_vars, parsing, seen, adb_vars, env_vars>>

saturating_add_i8(current, delta) ==
  LET sum == current + delta
  IN IF sum > 2 * Reach - 1 THEN 2 * Reach - 1
     ELSE IF sum < -(2 * Reach) THEN -(2 * Reach) ELSE sum

\* OnMouseMove reads the delta, adds the movement and stores the sum; the other
\* core may add its own, or read and clear the delta, in between.
LoadMovement(c) ==
  /\ pc[c] = "load"
  /\ seen' = [seen EXCEPT ![c] = m_moved]
  /\ Goto(c, "add")
  /\ UNCHANGED <<parser_vars, parsing, adb_vars, env_vars>>

AddMovement(c) ==
  /\ pc[c] = "add"
  /\ seen' = [seen EXCEPT ![c] = saturating_add_i8(@, mouse_info.dx)]
  /\ Goto(c, "move")
  /\ UNCHANGED <<parser_vars, parsing, adb_vars, env_vars>>

LoadReplacement(c) ==
  /\ pc[c] = "replace"
  /\ seen' = [seen EXCEPT ![c] = mouse_info.dx]
  /\ Goto(c, "move")
  /\ UNCHANGED <<parser_vars, parsing, adb_vars, env_vars>>

StoreMovement(c) ==
  /\ pc[c] = "move"
  /\ m_moved' = seen[c]
  /\ Goto(c, "left_down")
  /\ UNCHANGED <<pressed, m_mouse_button_changed, m_right_btn_mode, prevState, ctrl, mouse_info,
                 parsing, seen, adb_vars, env_vars>>

(* The tests for an edge, in their order: the button, whether it is tested for *)
(* going down, where the mark is set after the flag, and what is tested next.  *)
Test ==
  [left_down  |-> [button |-> "left",  down |-> TRUE,  mark |-> "left_pressed",   next |-> "left_up"],
   left_up    |-> [button |-> "left",  down |-> FALSE, mark |-> "left_released",  next |-> "right_down"],
   right_down |-> [button |-> "right", down |-> TRUE,  mark |-> "right_pressed",  next |-> "right_up"],
   right_up   |-> [button |-> "right", down |-> FALSE, mark |-> "right_released", next |-> "middle"]]

IsEdge(b, down) ==
  IF down THEN b \in mouse_info.buttons \ prevState ELSE b \in prevState \ mouse_info.buttons

\* With one button the right one presses the left and holds Ctrl.
PressedBy(b) == IF b = "right" /\ m_right_btn_mode = "ctrl_click" THEN {"left"} ELSE {b}

\* Mutant: the release of the right button does not lift Ctrl.
CtrlAfter_NoUp(b, down) ==
  IF b = "right" /\ m_right_btn_mode = "ctrl_click" THEN TRUE ELSE ctrl
CtrlAfter(b, down) ==
  IF b = "right" /\ m_right_btn_mode = "ctrl_click" THEN down ELSE ctrl

\* OnLeftButtonDown/Up, OnRightButtonDown/Up, up to the flag
ButtonEdge(c, test) == LET b == Test[test].button  down == Test[test].down IN
  /\ pc[c] = test
  /\ IsEdge(b, down)
  /\ pressed' = IF down THEN pressed \cup PressedBy(b) ELSE pressed \ PressedBy(b)
  /\ ctrl' = CtrlAfter(b, down)
  /\ Goto(c, Test[test].mark)
  /\ UNCHANGED <<m_moved, m_mouse_button_changed, m_right_btn_mode, prevState, mouse_info, parsing,
                 seen, adb_vars, env_vars>>

NoEdge(c, test) ==
  /\ pc[c] = test
  /\ ~IsEdge(Test[test].button, Test[test].down)
  /\ Goto(c, Test[test].next)
  /\ UNCHANGED <<parser_vars, parsing, seen, adb_vars, env_vars>>

MarkChanged(c, test) ==
  /\ pc[c] = Test[test].mark
  /\ m_mouse_button_changed' = TRUE
  /\ Goto(c, Test[test].next)
  /\ UNCHANGED <<m_moved, pressed, m_right_btn_mode, prevState, ctrl, mouse_info, parsing, seen,
                 adb_vars, env_vars>>

Switched(mode) == IF mode = "ctrl_click" THEN "right_click" ELSE "ctrl_click"

\* OnMiddleButtonDown
MiddleButton(c) ==
  /\ pc[c] = "middle"
  /\ m_right_btn_mode' = IF IsEdge("middle", TRUE) THEN Switched(m_right_btn_mode) ELSE m_right_btn_mode
  /\ Goto(c, "store")
  /\ UNCHANGED <<m_moved, pressed, m_mouse_button_changed, prevState, ctrl, mouse_info, parsing, seen,
                 adb_vars, env_vars>>

\* What is in mouse_info becomes the previous report.
StoreState(c) ==
  /\ pc[c] = "store"
  /\ prevState' = mouse_info.buttons
  /\ Goto(c, IF c = 0 THEN "look" ELSE "task")
  /\ UNCHANGED <<m_moved, pressed, m_mouse_button_changed, m_right_btn_mode, ctrl, mouse_info, parsing,
                 seen, adb_vars, env_vars>>

(* ------------------------------ the register --------------------------- *)

\* Mutant: only buttons fill the register.
ButtonsChanged == m_mouse_button_changed
MouseChanged == m_moved # 0 \/ m_mouse_button_changed

Look ==
  /\ pc[0] = "look"
  /\ Goto(0, IF ~mousepending /\ MouseChanged THEN "read left" ELSE "command")
  /\ UNCHANGED <<parser_vars, parsing, seen, adb_vars, env_vars>>

\* GetAdbRegister0, access by access
ReadButton(b) ==
  /\ pc[0] = IF b = "left" THEN "read left" ELSE "read right"
  /\ mousereg0' = [mousereg0 EXCEPT !.buttons = (@ \ {b}) \cup ({b} \cap pressed)]
  /\ Goto(0, IF b = "left" THEN "read right" ELSE "read movement")
  /\ UNCHANGED <<parser_vars, parsing, seen, mousepending, host, env_vars>>

\* Half of the delta, towards zero, in one bit less, as the host decodes it
Half(n) == IF n >= 0 THEN n \div 2 ELSE -((-n) \div 2)
EightBitToSevenBitSigned(n) ==
  ((Half(n) + Reach) % (2 * Reach)) - Reach

ReadMovement ==
  /\ pc[0] = "read movement"
  /\ mousereg0' = [mousereg0 EXCEPT !.dx = EightBitToSevenBitSigned(m_moved)]
  /\ Goto(0, "clear movement")
  /\ UNCHANGED <<parser_vars, parsing, seen, mousepending, host, env_vars>>

ClearMovement ==
  /\ pc[0] = "clear movement"
  /\ m_moved' = 0
  /\ Goto(0, "clear changed")
  /\ UNCHANGED <<pressed, m_mouse_button_changed, m_right_btn_mode, prevState, ctrl, mouse_info,
                 parsing, seen, adb_vars, env_vars>>

Latch ==
  /\ pc[0] = "clear changed"
  /\ m_mouse_button_changed' = FALSE
  /\ mousepending' = TRUE
  /\ Goto(0, "command")
  /\ UNCHANGED <<m_moved, pressed, m_right_btn_mode, prevState, ctrl, mouse_info, parsing, seen,
                 mousereg0, host, env_vars>>

\* The host reads the register, or sends another command, or resets the bus:
\* the register and the movement are discarded.
HostReads ==
  /\ pc[0] = "command" /\ mousepending
  /\ host' = mousereg0
  /\ mousepending' = FALSE
  /\ Goto(0, "task")
  /\ UNCHANGED <<parser_vars, parsing, seen, mousereg0, env_vars>>

OtherCommand ==
  /\ pc[0] = "command"
  /\ Goto(0, "task")
  /\ UNCHANGED <<parser_vars, parsing, seen, adb_vars, env_vars>>

BusReset ==
  /\ pc[0] = "command"
  /\ resets < workload.resets
  /\ resets' = resets + 1
  /\ mousereg0' = ZeroRegister /\ mousepending' = FALSE
  /\ m_moved' = 0 /\ m_mouse_button_changed' = FALSE
  /\ Goto(0, "task")
  /\ UNCHANGED <<pressed, m_right_btn_mode, prevState, ctrl, mouse_info, parsing, seen, host,
                 workload, reports>>

ParserStep(c) ==
  \/ FillMovement(c) \/ HasMoved(c)
  \/ LoadMovement(c) \/ AddMovement(c) \/ LoadReplacement(c) \/ StoreMovement(c)
  \/ \E test \in DOMAIN Test : ButtonEdge(c, test) \/ NoEdge(c, test) \/ MarkChanged(c, test)
  \/ MiddleButton(c) \/ StoreState(c)

GetAdbRegister0 ==
  \/ \E b \in {"left", "right"} : ReadButton(b)
  \/ ReadMovement \/ ClearMovement \/ Latch

Core0Step == ParserStep(0) \/ NothingToParse \/ Look \/ GetAdbRegister0 \/ OtherCommand

Next ==
  \/ \E c \in Core : \E r \in workload.report[c] : Parse(c, r)
  \/ ParserStep(1) \/ Core0Step
  \/ HostReads \/ BusReset

Spec == Init /\ [][Next]_vars

\* Both cores go on, and the host polls the mouse again and again.
FairSpec == Spec /\ WF_vars(ParserStep(1)) /\ WF_vars(Core0Step) /\ SF_vars(HostReads)

\* A USB mouse that keeps moving, without a change of its buttons
Moves == \E r \in workload.report[1] : r.dx # 0 /\ r.buttons = parsing[1].buttons /\ Parse(1, r)

(* ------------------------------ properties ----------------------------- *)

TypeOK ==
  /\ workload \in Workload
  /\ m_moved \in Delta /\ seen \in [Core -> Delta]
  /\ mouse_info \in [dx : Delta, buttons : SUBSET Button]
  /\ pressed \subseteq {"left", "right"} /\ prevState \subseteq Button
  /\ m_mouse_button_changed \in BOOLEAN /\ ctrl \in BOOLEAN /\ mousepending \in BOOLEAN
  /\ m_right_btn_mode \in {"ctrl_click", "right_click"}
  /\ \A c \in Core : parsing[c] \in workload.report[c] \cup {NoReport}
  /\ {mousereg0, host} \subseteq [buttons : SUBSET {"left", "right"}, dx : Movement]

Idle == pc[1] = "task"

\* A mouse that only moves one way never moves the pointer the other way,
\* beside a second mouse on the other core, which may overwrite mouse_info and
\* the delta at any point: sums stop at the limit of a delta, and half of each
\* fits the register.
DirectionKept ==
  (\A c \in Core : \A r \in workload.report[c] : r.dx >= 0) => host.dx >= 0

Inv == TypeOK /\ DirectionKept

\* With one mouse and without a middle button, which switches the meaning of the
\* right one while it is held, no button and no Ctrl stays pressed when the
\* mouse has none.
ReleasedWithTheMouse ==
  /\ workload.report[0] = {} /\ \A r \in workload.report[1] : "middle" \notin r.buttons
  /\ Idle /\ prevState = {}
  => pressed = {} /\ ~ctrl

\* While a USB mouse goes on moving, the host learns the buttons in the end: a
\* change whose mark core 0 clears unseen is made good by the next movement.
ButtonsFollowMovement ==
  (workload.report[0] = {} /\ \E r \in workload.report[1] : r.dx # 0) =>
    \A held \in SUBSET {"left", "right"} :
      <>[](pressed = held) => <>[](host.buttons = held)
=============================================================================
