----------------------------- MODULE AdbDevice -----------------------------
(***************************************************************************)
(* The adapter as an ADB bus device: the loop of core 0 in                 *)
(* lib/QuokkADB/src/quokkadb.cpp, with ReceiveCommand, ProcessCommand and  *)
(* Reset of lib/adb/src/adb.cpp and the address bookkeeping of             *)
(* src/adb_hub.c.  One adapter answers at two bus addresses, as a keyboard *)
(* and as a mouse.  The host (an Apple IIgs or a Macintosh) is the         *)
(* environment: any command may come at any time, any transmission may     *)
(* collide with another device on the bus, any Listen may be garbled.      *)
(*                                                                         *)
(* A pass of the loop is: capture reports, serve one command, apply a      *)
(* reset.  Register contents are reduced to what tells reports apart: the  *)
(* n-th report captured from a parser is the number n.                     *)
(***************************************************************************)
EXTENDS Integers, Sequences

CONSTANTS HostAddress,    (* the addresses in the host's commands          *)
          AssignAddress,  (* the addresses it assigns with Listen 3 / 0xFE *)
          RandomAddress,  (* the outcomes of rand() & 0x0F explored        *)
          Commands,       (* the kinds of command the host uses            *)
          HubMode,        (* s_hub_mode, from flash                        *)
          SuppressMouseSrq,   (* ADB_IIGS_MOUSE_SUPPRESS_SRQ               *)
          MaxReports,     (* bound on the reports captured, by device      *)
          MaxLinks        (* bound on the Bluetooth links formed           *)

Device == {"kbd", "mouse"}
Address == 0 .. 15
OperationName == {"none", "globalReset", "sendReset", "other",
                  "talk0", "talk3", "listen2", "listen3"}

ASSUME AdbAssumption ==
  /\ HostAddress \subseteq Address
  /\ AssignAddress \subseteq Address
  /\ RandomAddress \subseteq Address /\ RandomAddress # {}
  /\ Commands \subseteq OperationName
  /\ HubMode \in BOOLEAN
  /\ SuppressMouseSrq \in BOOLEAN
  /\ MaxReports \in [Device -> Nat]
  /\ MaxLinks \in Nat

VARIABLES
  addr,         (* kbd_addr, mouse_addr                                    *)
  assigned,     (* s_kbd_host_assigned, s_mouse_host_assigned              *)
  skip,         (* kbd_skip_next_listen_reg3, mouse_skip_next_listen_reg3  *)
  collided,     (* s_mouse_r3_collision                                    *)
  handler,      (* kbd_handler_id (the mouse's never changes)              *)
  pending,      (* kbdpending, mousepending                                *)
  srq,          (* kbdsrq, mousesrq                                        *)
  report,       (* the report held in kbdreg0, mousereg0; 0 is none        *)
  leds,         (* where the last request of adb_set_leds came from        *)
  adb_reset,    (* a reset was seen and is not applied yet                 *)
  usb_reset,    (* core 1 has been asked to reset the keyboards            *)
  deferring,    (* what bluepad32_bt_defer_adb_reset() answers             *)
  links,        (* Bluetooth links formed so far (bounded by MaxLinks)     *)
  pc,           (* what core 0 does next                                   *)
  line,         (* the adapter stretched the stop bit of the last command  *)
  captured,     (* history: reports taken from each parser                 *)
  sent,         (* history: reports sent without a collision, in order     *)
  contested,    (* history: a Talk 3 answer collided and no Listen 3/0xFE
                   nor reset has come since                                *)
  proposal      (* the address field in the Talk 3 answer just sent by the
                   mouse, NoProposal after any other command               *)

vars == <<addr, assigned, skip, collided, handler, pending, srq, report, leds,
          adb_reset, usb_reset, deferring, links, pc, line, captured, sent,
          contested, proposal>>

address_vars == <<addr, assigned, skip, collided, handler, contested>>
report_vars == <<pending, report, captured, sent>>
link_vars == <<deferring, links>>

NoProposal == -1
DefaultAddr == [d \in Device |-> IF d = "kbd" THEN 2 ELSE 3]
KBD_DEFAULT_HANDLER_ID == 2
KBD_EXTENDED_HANDLER_ID == 3
HubSlots == 4 .. 7

Init ==
  /\ addr = DefaultAddr
  /\ assigned = [d \in Device |-> FALSE]
  /\ skip = [d \in Device |-> FALSE]
  /\ collided = FALSE
  /\ handler = KBD_DEFAULT_HANDLER_ID
  /\ pending = [d \in Device |-> FALSE]
  /\ srq = [d \in Device |-> FALSE]
  /\ report = [d \in Device |-> 0]
  /\ leds = "off"
  /\ adb_reset = FALSE
  /\ usb_reset = FALSE
  /\ deferring = FALSE
  /\ links = 0
  /\ pc = "capture"
  /\ line = FALSE
  /\ captured = [d \in Device |-> 0]
  /\ sent = [d \in Device |-> <<>>]
  /\ contested = [d \in Device |-> FALSE]
  /\ proposal = NoProposal

(* ---------------------- taking reports from the parsers ---------------- *)

\* A parser may have input when its latch is free: GetAdbRegister0 then takes
\* a snapshot that stays until the host has read it.
Capture == \E ready \in SUBSET {d \in Device : ~pending[d] /\ captured[d] < MaxReports[d]} :
  /\ pc = "capture"
  /\ pc' = "command"
  /\ captured' = [d \in Device |-> IF d \in ready THEN captured[d] + 1 ELSE captured[d]]
  /\ report' = [d \in Device |-> IF d \in ready THEN captured'[d] ELSE report[d]]
  /\ pending' = [d \in Device |-> pending[d] \/ d \in ready]
  /\ UNCHANGED <<address_vars, link_vars, srq, leds, adb_reset, usb_reset, line, sent, proposal>>

(* ------------------------- serving one command ------------------------- *)

\* Mutant: the mouse alone.
StretchesMouseOnly == srq["mouse"]

\* The argument of ReceiveCommand: the mouse may be left out of the request.
Stretches == srq["kbd"] \/ (srq["mouse"] /\ ~SuppressMouseSrq)

\* ReceiveCommand decoded a command; it stretches the stop bit if asked to.
Decode(op) ==
  /\ pc = "command"
  /\ op \in Commands
  /\ pc' = "reset"
  /\ line' = Stretches

\* ReceiveCommand gave up before the stop bit.
GiveUp(op) ==
  /\ pc = "command"
  /\ op \in Commands
  /\ pc' = "reset"
  /\ line' = FALSE
  /\ proposal' = NoProposal

\* A device with a report requests service when a command is not for it.
RequestService(a) ==
  srq' = [d \in Device |-> srq[d] \/ (addr[d] # a /\ pending[d])]

\* No attention pulse, bad sync or bad bit cell.
NoCommand ==
  /\ GiveUp("none")
  /\ UNCHANGED <<address_vars, report_vars, link_vars, srq, leds, adb_reset, usb_reset>>

\* The line was held low for 2.8 ms: ReceiveCommand answers -100.
GlobalReset ==
  /\ GiveUp("globalReset")
  /\ adb_reset' = TRUE
  /\ UNCHANGED <<address_vars, report_vars, link_vars, srq, leds, usb_reset>>

\* The command SendReset, at any address.
SendReset ==
  /\ Decode("sendReset")
  /\ adb_reset' = TRUE
  /\ proposal' = NoProposal
  /\ UNCHANGED <<address_vars, report_vars, link_vars, srq, leds, usb_reset>>

\* Flush, Talk 1 and 2, Listen 0 and 1: nothing but the service requests.
OtherCommand(a) ==
  /\ Decode("other")
  /\ RequestService(a)
  /\ proposal' = NoProposal
  /\ UNCHANGED <<address_vars, report_vars, link_vars, leds, adb_reset, usb_reset>>

Answers(a) == {d \in Device : addr[d] = a /\ pending[d]}

\* Mutant: the result of Send16bitRegister ignored.
DoneRegardless(a, clear) == Answers(a)

\* The devices whose report went out clear of any collision.
Done(a, clear) == Answers(a) \cap clear

\* Talk register 0: a pending report goes out; unless it collides it is done.
Talk0(a) == \E clear \in SUBSET Device :
  LET done == Done(a, clear)
      heard == Answers(a) \cap clear
  IN
  /\ Decode("talk0")
  /\ pending' = [d \in Device |-> pending[d] /\ d \notin done]
  /\ srq' = [d \in Device |-> d \notin done /\ (srq[d] \/ pending[d])]
  /\ sent' = [d \in Device |-> IF d \in heard THEN Append(sent[d], report[d]) ELSE sent[d]]
  /\ proposal' = NoProposal
  /\ UNCHANGED <<address_vars, link_vars, report, captured, leds, adb_reset, usb_reset>>

\* Mutant: the collision is forgotten.
AddressFieldNoHub(d) == IF assigned[d] THEN {addr[d]} ELSE RandomAddress

\* GetAdbRegister3Keyboard, GetAdbRegister3Mouse: the address field
AddressField(d) ==
  IF assigned[d] THEN {addr[d]}
  ELSE IF HubMode /\ d = "mouse" /\ addr[d] = DefaultAddr[d] /\ collided THEN HubSlots
  ELSE RandomAddress

\* Talk register 3: a collision is remembered, the loser is to stay.
Talk3(a) == \E clear \in SUBSET Device :
  LET loses(d) == addr[d] = a /\ d \notin clear IN
  /\ Decode("talk3")
  /\ skip' = [d \in Device |-> skip[d] \/ loses(d)]
  /\ contested' = [d \in Device |-> contested[d] \/ loses(d)]
  /\ collided' = (collided \/ loses("mouse"))
  /\ IF addr["mouse"] = a /\ "mouse" \in clear
     THEN proposal' \in AddressField("mouse")
     ELSE proposal' = NoProposal
  /\ RequestService(a)
  /\ UNCHANGED <<report_vars, link_vars, addr, assigned, handler, leds, adb_reset, usb_reset>>

\* A register can be received once: when both devices answer at one address,
\* the mouse takes it and the keyboard waits for another in vain.
Listeners(a) ==
  IF addr["mouse"] = a THEN {"mouse"}
  ELSE IF addr["kbd"] = a THEN {"kbd"} ELSE {}

\* Mutant: the skip flag is not looked at.
MoversAll(a) == Listeners(a)

\* The device that lost a collision skips the next change of address.
Movers(a) == {d \in Listeners(a) : ~skip[d]}

\* Listen register 3 with handler 0xFE: a change of address.
Listen3Move(a) == \E to \in AssignAddress :
  /\ Decode("listen3")
  /\ addr' = [d \in Device |-> IF d \in Movers(a) THEN to ELSE addr[d]]
  /\ assigned' = [d \in Device |-> assigned[d] \/ d \in Movers(a)]
  /\ skip' = [d \in Device |-> skip[d] /\ d \notin Listeners(a)]
  /\ contested' = [d \in Device |-> contested[d] /\ d \notin Listeners(a)]
  /\ RequestService(a)
  /\ proposal' = NoProposal
  /\ UNCHANGED <<report_vars, link_vars, collided, handler, leds, adb_reset, usb_reset>>

\* Listen register 3 with another handler; only 2 and 3 are taken, by the
\* keyboard.  A self-test (0xFF), an unknown handler and an error change nothing.
Listen3Handler(a) == \E id \in {KBD_DEFAULT_HANDLER_ID, KBD_EXTENDED_HANDLER_ID, 255} :
  /\ Decode("listen3")
  /\ handler' = IF "kbd" \in Listeners(a) /\ id # 255 THEN id ELSE handler
  /\ RequestService(a)
  /\ proposal' = NoProposal
  /\ UNCHANGED <<report_vars, link_vars, addr, assigned, skip, collided, contested, leds,
                 adb_reset, usb_reset>>

\* Listen register 2: the extended keyboard shows it on its LEDs, whatever
\* Receive16bitRegister answered, an error code included.
Listen2(a) == \E received \in BOOLEAN :
  /\ Decode("listen2")
  /\ leds' = IF addr["kbd"] # a \/ handler # KBD_EXTENDED_HANDLER_ID THEN leds
             ELSE IF received THEN "register2" ELSE "errorCode"
  /\ RequestService(a)
  /\ proposal' = NoProposal
  /\ UNCHANGED <<address_vars, report_vars, link_vars, adb_reset, usb_reset>>

Command(a) ==
  \/ OtherCommand(a) \/ Talk0(a) \/ Talk3(a)
  \/ Listen3Move(a) \/ Listen3Handler(a) \/ Listen2(a)

ReceiveAndProcess ==
  \/ NoCommand \/ GlobalReset \/ SendReset
  \/ \E a \in HostAddress : Command(a)

(* ----------------------------- the reset ------------------------------- *)

\* bluepad32_bt_defer_adb_reset()
Defers == deferring

\* adb_hub_restore_addresses()
Restored == DefaultAddr

\* Mutant: mousepending not cleared.
LatchKept == pending

\* mousepending = 0
LatchCleared == [pending EXCEPT !["mouse"] = FALSE]

\* adb.Reset(), then what quokkadb() adds to it.  The keyboard's report, its
\* service request and both skip flags survive.
ApplyReset ==
  /\ pc = "reset"
  /\ adb_reset /\ ~Defers
  /\ pc' = "capture"
  /\ addr' = Restored
  /\ assigned' = [d \in Device |-> FALSE]
  /\ collided' = FALSE
  /\ handler' = KBD_DEFAULT_HANDLER_ID
  /\ contested' = [d \in Device |-> FALSE]
  /\ adb_reset' = FALSE
  /\ usb_reset' = TRUE
  /\ pending' = LatchCleared
  /\ srq' = [srq EXCEPT !["mouse"] = FALSE]
  /\ report' = [report EXCEPT !["mouse"] = 0]
  /\ UNCHANGED <<link_vars, skip, leds, line, captured, sent, proposal>>

\* Mutant: a deferred reset is dropped.
NoResetForgets ==
  /\ pc = "reset"
  /\ ~adb_reset \/ Defers
  /\ pc' = "capture"
  /\ adb_reset' = FALSE
  /\ UNCHANGED <<address_vars, report_vars, link_vars, srq, leds, usb_reset, line, proposal>>

\* Nothing to reset, or not before the Bluetooth links are up and settled.
NoReset ==
  /\ pc = "reset"
  /\ ~adb_reset \/ Defers
  /\ pc' = "capture"
  /\ UNCHANGED <<address_vars, report_vars, link_vars, srq, leds, adb_reset, usb_reset,
                 line, proposal>>

(* --------------------- core 1 and the Bluetooth stack ------------------ *)

\* core1_main: KeyboardPrs.Reset() darkens the LEDs
ResetKeyboards ==
  /\ usb_reset
  /\ usb_reset' = FALSE
  /\ leds' = "off"
  /\ UNCHANGED <<address_vars, report_vars, link_vars, srq, adb_reset, pc, line, proposal>>

\* the callbacks of BTstack run inside bluepad32_poll(), at the top of a pass
LinkForms ==
  /\ pc = "capture"
  /\ ~deferring /\ links < MaxLinks
  /\ deferring' = TRUE
  /\ links' = links + 1
  /\ UNCHANGED <<address_vars, report_vars, srq, leds, adb_reset, usb_reset, pc, line, proposal>>

LinkSettles ==
  /\ deferring
  /\ deferring' = FALSE
  /\ UNCHANGED <<address_vars, report_vars, srq, leds, adb_reset, usb_reset, links, pc, line,
                 proposal>>

Next ==
  \/ Capture
  \/ ReceiveAndProcess
  \/ ApplyReset \/ NoReset
  \/ ResetKeyboards
  \/ LinkForms \/ LinkSettles

Spec == Init /\ [][Next]_vars

(* ----------------------------- fairness -------------------------------- *)

Core0 == Capture \/ ReceiveAndProcess \/ ApplyReset \/ NoReset

\* The host goes on addressing others than device d: the one it polled last.
HostPolls(d) == \E a \in HostAddress : a # addr[d] /\ (OtherCommand(a) \/ Talk0(a))

\* Having seen a stretched stop bit the host asks every address in turn, so
\* device d too, and not every answer collides.
HostServes(d) == line /\ (\E a \in HostAddress : a = addr[d] /\ Talk0(a)) /\ ~pending'[d]

FairSpec ==
  /\ Spec
  /\ WF_vars(Core0)
  /\ WF_vars(LinkSettles)
  /\ \A d \in Device : SF_vars(HostPolls(d)) /\ SF_vars(HostServes(d))

(* ----------------------------- properties ------------------------------ *)

TypeOK ==
  /\ addr \in [Device -> Address]
  /\ assigned \in [Device -> BOOLEAN]
  /\ skip \in [Device -> BOOLEAN]
  /\ collided \in BOOLEAN
  /\ handler \in {KBD_DEFAULT_HANDLER_ID, KBD_EXTENDED_HANDLER_ID}
  /\ pending \in [Device -> BOOLEAN]
  /\ srq \in [Device -> BOOLEAN]
  /\ report \in [Device -> Nat]
  /\ leds \in {"off", "register2", "errorCode"}
  /\ adb_reset \in BOOLEAN
  /\ usb_reset \in BOOLEAN
  /\ deferring \in BOOLEAN
  /\ links \in 0 .. MaxLinks
  /\ pc \in {"capture", "command", "reset"}
  /\ line \in BOOLEAN
  /\ captured \in [Device -> Nat]
  /\ sent \in [Device -> Seq(Nat)]
  /\ contested \in [Device -> BOOLEAN]
  /\ proposal \in Address \cup {NoProposal}

\* A service request flag never outlives its report: after any mix of
\* collisions, commands to others and resets, a device that still asks for
\* service still has something to say (the host would poll in vain for ever).
NoIdleServiceRequest == \A d \in Device : srq[d] => pending[d]

\* On the wire: the adapter stretches a stop bit only while it holds a report,
\* and never for the mouse when mouse service requests are suppressed.
StretchMeansReport ==
  [][pc = "command" /\ pc' = "reset" /\ line'
       => pending["kbd"] \/ (pending["mouse"] /\ ~SuppressMouseSrq)]_vars

\* Keyboard reports reach the bus in order, none lost and none repeated by a
\* collision, a retry, a change of address or a reset: all those captured
\* have been sent, but for the one still pending.
KeyReportsInOrder ==
  /\ Len(sent["kbd"]) = captured["kbd"] - (IF pending["kbd"] THEN 1 ELSE 0)
  /\ \A i \in 1 .. Len(sent["kbd"]) : sent["kbd"][i] = i

\* What a device would send is the report captured last, newer than all it has
\* sent: a reset leaves no half-cleared mouse latch that repeats old motion or
\* sends an empty register.
PendingReportIsFresh ==
  \A d \in Device : pending[d] =>
    /\ report[d] = captured[d] /\ report[d] # 0
    /\ \A i \in 1 .. Len(sent[d]) : sent[d][i] < report[d]

\* A device that lost a collision in its Talk 3 answer keeps its address until
\* the winner has been moved away (the next Listen 3/0xFE) or the bus is reset.
LoserStays ==
  [][\A d \in Device : contested[d] /\ addr'[d] # addr[d]
       => adb_reset /\ addr'[d] = DefaultAddr[d]]_vars

\* Away from its default address a device is there because the host sent it
\* there after the last reset, and it says so in its next Talk 3 answer.
MovedByHost == \A d \in Device : addr[d] # DefaultAddr[d] => assigned[d]

\* Hub mode: a mouse that lost a collision at the default address offers to
\* move to 4..7, leaving 3 to the device chained behind the adapter.
HubLeavesDefault ==
  HubMode /\ contested["mouse"] /\ ~assigned["mouse"]
    => proposal \in HubSlots \cup {NoProposal}

\* A reset that was seen is not forgotten, however long Bluetooth defers it: the
\* request goes away only with addresses, handler and mouse latch restored.
ResetNotLost ==
  [][adb_reset /\ ~adb_reset' =>
       /\ addr' = DefaultAddr
       /\ handler' = KBD_DEFAULT_HANDLER_ID
       /\ \A d \in Device : ~assigned'[d]
       /\ ~pending'["mouse"] /\ ~srq'["mouse"] /\ ~collided']_vars

\* Service requests work: a report that waits is read in the end (or, the
\* mouse's, dropped by a reset), although the host polls a device other than
\* the last one only when a stop bit is stretched.  Mouse reports count only
\* where its service requests are not suppressed.
ReportsServed ==
  \A d \in Device :
    (d = "mouse" => ~SuppressMouseSrq) => (pending[d] ~> ~pending[d])

\* Deferral ends: a reset that was seen is applied.
ResetApplied == adb_reset ~> ~adb_reset

\* Towards the parsers each latch is a ReportLatch: the reports the host hears are
\* those that went out clear of a collision.
Latched(d) == IF pending[d] THEN <<report[d]>> ELSE <<>>
KeyLatch == INSTANCE ReportLatch WITH Nothing <- <<>>, Hears <- Append, MayDrop <- FALSE,
                                      latch <- Latched("kbd"), heard <- sent["kbd"]
MouseLatch == INSTANCE ReportLatch WITH Nothing <- <<>>, Hears <- Append, MayDrop <- TRUE,
                                        latch <- Latched("mouse"), heard <- sent["mouse"]
ImplementsKeyLatch == KeyLatch!Spec
ImplementsMouseLatch == MouseLatch!Spec
ImplementsLatches == ImplementsKeyLatch /\ ImplementsMouseLatch

\* What happens to reports: each is sent once and in order, and nothing asks for
\* service without one.
ReportsKept == TypeOK /\ NoIdleServiceRequest /\ KeyReportsInOrder /\ PendingReportIsFresh

\* Where the devices are: where the host put them, or on offer in 4..7.
AddressesMeant == MovedByHost /\ HubLeavesDefault

\* No report and no reset waits for ever.
NothingWaits == ReportsServed /\ ResetApplied
=============================================================================
