-------------------------- MODULE AdbDeviceProofs --------------------------
(***************************************************************************)
(* Proofs about AdbDevice for every choice of its constants: any host      *)
(* addresses, any commands, any number of reports and Bluetooth links.     *)
(***************************************************************************)
EXTENDS AdbDevice, TLAPS

(* --------------------------- type correctness -------------------------- *)

LEMMA DefaultAddrType == DefaultAddr \in [Device -> Address]
  BY DEF DefaultAddr, Address

LEMMA TypeInit == Init => TypeOK
<1>. SUFFICES ASSUME Init PROVE TypeOK
  OBVIOUS
<1>1. 0 \in 0 .. MaxLinks
  BY AdbAssumption DEF AdbAssumption
<1>2. sent \in [Device -> Seq(Nat)]
  BY DEF Init
<1>3. proposal \in Address \cup {NoProposal}
  BY DEF Init
<1>4. QED
  BY <1>1, <1>2, <1>3, DefaultAddrType
  DEF Init, TypeOK, KBD_DEFAULT_HANDLER_ID, KBD_EXTENDED_HANDLER_ID

LEMMA AddressFieldType ==
  ASSUME TypeOK, NEW d \in Device
  PROVE  AddressField(d) \subseteq Address
<1>1. {addr[d]} \subseteq Address
  BY DEF TypeOK
<1>2. HubSlots \subseteq Address
  BY DEF HubSlots, Address
<1>3. RandomAddress \subseteq Address
  BY AdbAssumption DEF AdbAssumption
<1>4. QED
  BY <1>1, <1>2, <1>3, Zenon DEF AddressField

LEMMA TypeCommand ==
  ASSUME TypeOK, NEW a \in HostAddress, Command(a)
  PROVE  TypeOK'
<1>. USE AdbAssumption DEF AdbAssumption, TypeOK, address_vars, report_vars, link_vars, Decode, RequestService,
     KBD_DEFAULT_HANDLER_ID, KBD_EXTENDED_HANDLER_ID
<1>1. Stretches \in BOOLEAN
  BY DEF Stretches, Device
<1>2. CASE OtherCommand(a)
  BY <1>1, <1>2 DEF OtherCommand
<1>3. CASE Talk0(a)
  <2>1. PICK clear \in SUBSET Device : Talk0(a)!(clear)
    BY <1>3 DEF Talk0
  <2>2. sent' \in [Device -> Seq(Nat)]
    BY <2>1
  <2>3. QED
    BY <2>1, <2>2, <1>1
<1>4. CASE Talk3(a)
  <2>1. PICK clear \in SUBSET Device : Talk3(a)!(clear)
    BY <1>4 DEF Talk3
  <2>2. proposal' \in Address \cup {NoProposal}
    BY <2>1, AddressFieldType DEF Device
  <2>3. QED
    BY <2>1, <2>2, <1>1 DEF Device
<1>5. CASE Listen3Move(a)
  <2>1. PICK to \in AssignAddress : Listen3Move(a)!(to)
    BY <1>5 DEF Listen3Move
  <2>2. QED
    BY <2>1, <1>1
<1>6. CASE Listen3Handler(a)
  BY <1>1, <1>6 DEF Listen3Handler
<1>7. CASE Listen2(a)
  BY <1>1, <1>7 DEF Listen2
<1>8. QED
  BY <1>2, <1>3, <1>4, <1>5, <1>6, <1>7 DEF Command

LEMMA TypeStep == TypeOK /\ [Next]_vars => TypeOK'
<1>. SUFFICES ASSUME TypeOK, [Next]_vars PROVE TypeOK'
  OBVIOUS
<1>. USE AdbAssumption DEF AdbAssumption, TypeOK, address_vars, report_vars, link_vars, GiveUp, Decode
<1>1. CASE Capture
  BY <1>1 DEF Capture
<1>2. CASE NoCommand
  BY <1>2 DEF NoCommand, NoProposal
<1>3. CASE GlobalReset
  BY <1>3 DEF GlobalReset, NoProposal
<1>4. CASE SendReset
  BY <1>4 DEF SendReset, NoProposal, Stretches, Device
<1>5. CASE \E a \in HostAddress : Command(a)
  BY <1>5, TypeCommand
<1>6. CASE ApplyReset
  BY <1>6, DefaultAddrType DEF ApplyReset, Restored, LatchCleared
<1>7. CASE NoReset
  BY <1>7 DEF NoReset
<1>8. CASE ResetKeyboards
  BY <1>8 DEF ResetKeyboards
<1>9. CASE LinkForms
  BY <1>9 DEF LinkForms
<1>10. CASE LinkSettles
  BY <1>10 DEF LinkSettles
<1>11. CASE UNCHANGED vars
  BY <1>11 DEF vars
<1>12. QED
  BY <1>1, <1>2, <1>3, <1>4, <1>5, <1>6, <1>7, <1>8, <1>9, <1>10, <1>11
  DEF Next, ReceiveAndProcess

\* Every variable keeps its type: addresses stay in 0..15 whatever the host
\* assigns and rand() answers.
THEOREM TypeCorrect == Spec => []TypeOK
  BY TypeInit, TypeStep, PTL DEF Spec

(* --------------------------- service requests -------------------------- *)

LEMMA ServiceStep ==
  TypeOK /\ NoIdleServiceRequest /\ [Next]_vars => NoIdleServiceRequest'
<1>. SUFFICES ASSUME TypeOK, NoIdleServiceRequest, [Next]_vars PROVE NoIdleServiceRequest'
  OBVIOUS
<1>. USE DEF TypeOK, NoIdleServiceRequest, report_vars
<1>1. CASE Capture
  BY <1>1 DEF Capture
<1>2. CASE NoCommand \/ GlobalReset \/ SendReset
  BY <1>2 DEF NoCommand, GlobalReset, SendReset
<1>3. ASSUME NEW a \in HostAddress, Command(a) PROVE NoIdleServiceRequest'
  <2>1. CASE Talk0(a)
    BY <2>1 DEF Talk0
  <2>2. CASE UNCHANGED pending /\ RequestService(a)
    BY <2>2 DEF RequestService
  <2>3. QED
    BY <1>3, <2>1, <2>2 DEF Command, OtherCommand, Talk3, Listen3Move, Listen3Handler, Listen2
<1>4. CASE ApplyReset
  BY <1>4 DEF ApplyReset, LatchCleared, Device
<1>5. CASE NoReset \/ ResetKeyboards \/ LinkForms \/ LinkSettles
  BY <1>5 DEF NoReset, ResetKeyboards, LinkForms, LinkSettles
<1>6. CASE UNCHANGED vars
  BY <1>6 DEF vars
<1>7. QED
  BY <1>1, <1>2, <1>3, <1>4, <1>5, <1>6 DEF Next, ReceiveAndProcess

\* A service request flag never outlives its report.
THEOREM ServiceRequestsAreMeant == Spec => []NoIdleServiceRequest
<1>1. Init => NoIdleServiceRequest
  BY DEF Init, NoIdleServiceRequest
<1>2. QED
  BY <1>1, TypeCorrect, ServiceStep, PTL DEF Spec

\* On the wire: no stretched stop bit without a report, none for a mouse whose
\* service requests are suppressed.
THEOREM StretchesAreMeant == Spec => StretchMeansReport
<1>1. ASSUME TypeOK, NoIdleServiceRequest, Next, pc = "command", pc' = "reset", line'
      PROVE  pending["kbd"] \/ (pending["mouse"] /\ ~SuppressMouseSrq)
  <2>1. line' = Stretches \/ line' = FALSE
    BY <1>1 DEF Next, ReceiveAndProcess, Command, Capture, NoCommand, GlobalReset, SendReset,
       OtherCommand, Talk0, Talk3, Listen3Move, Listen3Handler, Listen2, ApplyReset, NoReset,
       ResetKeyboards, LinkForms, LinkSettles, Decode, GiveUp
  <2>2. QED
    BY <1>1, <2>1, Zenon DEF Stretches, NoIdleServiceRequest, Device
<1>2. TypeOK /\ NoIdleServiceRequest /\ [Next]_vars
        => [pc = "command" /\ pc' = "reset" /\ line'
              => pending["kbd"] \/ (pending["mouse"] /\ ~SuppressMouseSrq)]_vars
  BY <1>1
<1>3. QED
  BY <1>2, TypeCorrect, ServiceRequestsAreMeant, PTL DEF Spec, StretchMeansReport

(* -------------------------- the reports in order ----------------------- *)

(***************************************************************************)
(* KeyReportsInOrder and PendingReportIsFresh are not inductive: that the  *)
(* next report captured is newer than all those sent needs a bound on what *)
(* was sent.                                                               *)
(***************************************************************************)
SentWasCaptured ==
  \A d \in Device : \A i \in 1 .. Len(sent[d]) : sent[d][i] <= captured[d]

ReportInv == KeyReportsInOrder /\ PendingReportIsFresh /\ SentWasCaptured

LEMMA CaptureKeepsReports ==
  ASSUME TypeOK, ReportInv, Capture
  PROVE  ReportInv'
<1>. USE DEF TypeOK, ReportInv
<1>1. PICK ready \in SUBSET {d \in Device : ~pending[d] /\ captured[d] < MaxReports[d]} :
        Capture!(ready)
  BY DEF Capture
<1>2. sent' = sent
  BY <1>1
<1>3. ASSUME NEW d \in Device, d \in ready
      PROVE  /\ captured'[d] = captured[d] + 1 /\ report'[d] = captured[d] + 1
             /\ ~pending[d] /\ pending'[d]
  BY <1>1, <1>3
<1>4. ASSUME NEW d \in Device, d \notin ready
      PROVE  captured'[d] = captured[d] /\ report'[d] = report[d] /\ pending'[d] = pending[d]
  BY <1>1, <1>4
<1>5. KeyReportsInOrder'
  <2>1. captured["kbd"] \in Nat /\ Len(sent["kbd"]) \in Nat
    BY DEF Device
  <2>2. CASE "kbd" \in ready
    BY <1>2, <1>3, <2>1, <2>2 DEF KeyReportsInOrder, Device
  <2>3. CASE "kbd" \notin ready
    BY <1>2, <1>4, <2>3 DEF KeyReportsInOrder, Device
  <2>4. QED
    BY <2>2, <2>3
<1>6. ASSUME NEW d \in Device, pending'[d]
      PROVE  /\ report'[d] = captured'[d] /\ report'[d] # 0
             /\ \A i \in 1 .. Len(sent'[d]) : sent'[d][i] < report'[d]
  <2>1. sent[d] \in Seq(Nat) /\ captured[d] \in Nat
    OBVIOUS
  <2>2. \A i \in 1 .. Len(sent[d]) : sent[d][i] \in Nat /\ sent[d][i] <= captured[d]
    BY <2>1 DEF SentWasCaptured
  <2>3. CASE d \in ready
    BY <1>2, <1>3, <2>1, <2>2, <2>3
  <2>4. CASE d \notin ready
    BY <1>2, <1>4, <1>6, <2>4 DEF PendingReportIsFresh
  <2>5. QED
    BY <2>3, <2>4
<1>7. ASSUME NEW d \in Device, NEW i \in 1 .. Len(sent'[d])
      PROVE  sent'[d][i] <= captured'[d]
  <2>1. sent[d] \in Seq(Nat) /\ captured[d] \in Nat /\ i \in 1 .. Len(sent[d])
    BY <1>2, <1>7
  <2>2. sent[d][i] \in Nat /\ sent[d][i] <= captured[d]
    BY <2>1 DEF SentWasCaptured
  <2>3. captured'[d] = captured[d] \/ captured'[d] = captured[d] + 1
    BY <1>3, <1>4
  <2>4. QED
    BY <1>2, <2>1, <2>2, <2>3
<1>8. QED
  BY <1>5, <1>6, <1>7 DEF PendingReportIsFresh, SentWasCaptured

LEMMA Talk0KeepsReports ==
  ASSUME TypeOK, ReportInv, NEW a \in HostAddress, Talk0(a)
  PROVE  ReportInv'
<1>. USE DEF TypeOK, ReportInv
<1>1. PICK clear \in SUBSET Device : Talk0(a)!(clear)
  BY DEF Talk0
<1>. DEFINE done == Done(a, clear)
<1>2. captured' = captured /\ report' = report
  BY <1>1
<1>3. ASSUME NEW d \in Device, d \in done
      PROVE  /\ pending[d] /\ ~pending'[d]
             /\ captured[d] \in Nat /\ captured[d] # 0
             /\ Len(sent[d]) \in Nat /\ Len(sent'[d]) = Len(sent[d]) + 1
             /\ \A i \in 1 .. Len(sent[d]) : sent'[d][i] = sent[d][i]
             /\ sent'[d][Len(sent[d]) + 1] = captured[d]
  <2>1. pending[d] /\ ~pending'[d]
    BY <1>1, <1>3 DEF Done, Answers
  <2>2. sent'[d] = Append(sent[d], report[d])
    BY <1>1, <1>3 DEF Done
  <2>3. sent[d] \in Seq(Nat) /\ report[d] \in Nat
    OBVIOUS
  <2>4. report[d] = captured[d] /\ report[d] # 0
    BY <2>1 DEF PendingReportIsFresh
  <2>5. QED
    BY <2>1, <2>2, <2>3, <2>4
<1>4. ASSUME NEW d \in Device, d \notin done
      PROVE  pending'[d] = pending[d] /\ sent'[d] = sent[d]
  BY <1>1, <1>4 DEF Done
<1>5. KeyReportsInOrder'
  <2>1. CASE "kbd" \in done
    <3>1. /\ pending["kbd"] /\ ~pending'["kbd"]
          /\ captured["kbd"] \in Nat
          /\ Len(sent["kbd"]) \in Nat /\ Len(sent'["kbd"]) = Len(sent["kbd"]) + 1
          /\ \A i \in 1 .. Len(sent["kbd"]) : sent'["kbd"][i] = sent["kbd"][i]
          /\ sent'["kbd"][Len(sent["kbd"]) + 1] = captured["kbd"]
      BY <1>3, <2>1 DEF Device
    <3>2. /\ Len(sent["kbd"]) = captured["kbd"] - 1
          /\ \A i \in 1 .. Len(sent["kbd"]) : sent["kbd"][i] = i
      BY <3>1 DEF KeyReportsInOrder
    <3>3. Len(sent'["kbd"]) = captured'["kbd"] - (IF pending'["kbd"] THEN 1 ELSE 0)
      BY <1>2, <3>1, <3>2
    <3>4. ASSUME NEW i \in 1 .. Len(sent'["kbd"]) PROVE sent'["kbd"][i] = i
      <4>1. CASE i \in 1 .. Len(sent["kbd"])
        BY <3>1, <3>2, <4>1
      <4>2. CASE i = Len(sent["kbd"]) + 1
        BY <3>1, <3>2, <4>2
      <4>3. QED
        BY <3>1, <3>4, <4>1, <4>2
    <3>5. QED
      BY <3>3, <3>4 DEF KeyReportsInOrder
  <2>2. CASE "kbd" \notin done
    BY <1>2, <1>4, <2>2 DEF KeyReportsInOrder, Device
  <2>3. QED
    BY <2>1, <2>2
<1>6. ASSUME NEW d \in Device, pending'[d]
      PROVE  /\ report'[d] = captured'[d] /\ report'[d] # 0
             /\ \A i \in 1 .. Len(sent'[d]) : sent'[d][i] < report'[d]
  BY <1>2, <1>3, <1>4, <1>6 DEF PendingReportIsFresh
<1>7. ASSUME NEW d \in Device, NEW i \in 1 .. Len(sent'[d])
      PROVE  sent'[d][i] <= captured'[d]
  <2>1. CASE d \in done
    <3>1. CASE i \in 1 .. Len(sent[d])
      BY <1>2, <1>3, <2>1, <3>1 DEF SentWasCaptured
    <3>2. CASE i = Len(sent[d]) + 1
      BY <1>2, <1>3, <2>1, <3>2
    <3>3. QED
      BY <1>3, <1>7, <2>1, <3>1, <3>2
  <2>2. CASE d \notin done
    BY <1>2, <1>4, <1>7, <2>2 DEF SentWasCaptured
  <2>3. QED
    BY <2>1, <2>2
<1>8. QED
  BY <1>5, <1>6, <1>7 DEF PendingReportIsFresh, SentWasCaptured

LEMMA ResetKeepsReports ==
  ASSUME TypeOK, ReportInv, ApplyReset
  PROVE  ReportInv'
<1>1. /\ sent' = sent /\ captured' = captured
      /\ pending'["kbd"] = pending["kbd"] /\ report'["kbd"] = report["kbd"]
      /\ ~pending'["mouse"]
  BY DEF ApplyReset, LatchCleared, TypeOK, Device
<1>2. QED
  BY <1>1 DEF ReportInv, KeyReportsInOrder, PendingReportIsFresh, SentWasCaptured, Device

LEMMA ReportStep == TypeOK /\ ReportInv /\ [Next]_vars => ReportInv'
<1>. SUFFICES ASSUME TypeOK, ReportInv, [Next]_vars PROVE ReportInv'
  OBVIOUS
<1>1. CASE UNCHANGED report_vars
  BY <1>1 DEF report_vars, ReportInv, KeyReportsInOrder, PendingReportIsFresh, SentWasCaptured
<1>2. CASE Capture
  BY <1>2, CaptureKeepsReports
<1>3. CASE \E a \in HostAddress : Talk0(a)
  BY <1>3, Talk0KeepsReports
<1>4. CASE ApplyReset
  BY <1>4, ResetKeepsReports
<1>5. UNCHANGED vars => UNCHANGED report_vars
  BY DEF vars, report_vars
<1>6. NoCommand \/ GlobalReset \/ SendReset => UNCHANGED report_vars
  BY DEF NoCommand, GlobalReset, SendReset
<1>7. \A a \in HostAddress : OtherCommand(a) \/ Talk3(a) \/ Listen3Move(a) \/ Listen3Handler(a)
                              \/ Listen2(a) => UNCHANGED report_vars
  BY DEF OtherCommand, Talk3, Listen3Move, Listen3Handler, Listen2
<1>8. NoReset \/ ResetKeyboards \/ LinkForms \/ LinkSettles => UNCHANGED report_vars
  BY DEF NoReset, ResetKeyboards, LinkForms, LinkSettles
<1>9. QED
  BY <1>1, <1>2, <1>3, <1>4, <1>5, <1>6, <1>7, <1>8, Zenon DEF Next, ReceiveAndProcess, Command

LEMMA ReportsInvariant == Spec => []ReportInv
<1>1. Init => ReportInv
  BY DEF Init, ReportInv, KeyReportsInOrder, PendingReportIsFresh, SentWasCaptured, Device
<1>2. QED
  BY <1>1, TypeCorrect, ReportStep, PTL DEF Spec

\* Keyboard reports reach the bus in order, none lost, none repeated.
THEOREM KeyReportsAreInOrder == Spec => []KeyReportsInOrder
  BY ReportsInvariant, PTL DEF ReportInv

\* The report that waits is newer than every report sent before it.
THEOREM PendingReportsAreFresh == Spec => []PendingReportIsFresh
  BY ReportsInvariant, PTL DEF ReportInv

(* ------------------------------ addresses ------------------------------ *)

(***************************************************************************)
(* The flags of the firmware cover what happened on the bus: a collision   *)
(* since the last Listen 3/0xFE or reset is remembered by the skip flag,   *)
(* and by s_mouse_r3_collision for the mouse.  (The converse fails: a reset *)
(* leaves the skip flag.)                                                  *)
(***************************************************************************)
ContestIsRemembered ==
  /\ \A d \in Device : contested[d] => skip[d]
  /\ contested["mouse"] => collided

AddressInv == MovedByHost /\ ContestIsRemembered

LEMMA AddressStep == TypeOK /\ AddressInv /\ [Next]_vars => AddressInv'
<1>. SUFFICES ASSUME TypeOK, AddressInv, [Next]_vars PROVE AddressInv'
  OBVIOUS
<1>. USE DEF TypeOK, AddressInv, MovedByHost, ContestIsRemembered
<1>1. CASE UNCHANGED address_vars
  BY <1>1 DEF address_vars
<1>2. ASSUME NEW a \in HostAddress, Talk3(a) PROVE AddressInv'
  BY <1>2 DEF Talk3, Device
<1>3. ASSUME NEW a \in HostAddress, Listen3Move(a) PROVE AddressInv'
  <2>1. PICK to \in AssignAddress : Listen3Move(a)!(to)
    BY <1>3 DEF Listen3Move
  <2>2. ASSUME NEW d \in Device, addr'[d] # DefaultAddr[d] PROVE assigned'[d]
    <3>1. CASE d \in Movers(a)
      BY <2>1, <3>1
    <3>2. CASE d \notin Movers(a)
      BY <2>1, <2>2, <3>2
    <3>3. QED
      BY <3>1, <3>2
  <2>3. ASSUME NEW d \in Device, contested'[d] PROVE skip'[d] /\ contested[d]
    BY <2>1, <2>3
  <2>4. QED
    BY <2>1, <2>2, <2>3 DEF Device
<1>4. ASSUME NEW a \in HostAddress, Listen3Handler(a) PROVE AddressInv'
  BY <1>4 DEF Listen3Handler
<1>5. CASE ApplyReset
  BY <1>5 DEF ApplyReset, Restored, Device
<1>6. UNCHANGED vars => UNCHANGED address_vars
  BY DEF vars, address_vars
<1>7. Capture \/ NoCommand \/ GlobalReset \/ SendReset => UNCHANGED address_vars
  BY DEF Capture, NoCommand, GlobalReset, SendReset
<1>8. \A a \in HostAddress : OtherCommand(a) \/ Talk0(a) \/ Listen2(a) => UNCHANGED address_vars
  BY DEF OtherCommand, Talk0, Listen2
<1>9. NoReset \/ ResetKeyboards \/ LinkForms \/ LinkSettles => UNCHANGED address_vars
  BY DEF NoReset, ResetKeyboards, LinkForms, LinkSettles
<1>10. QED
  BY <1>1, <1>2, <1>3, <1>4, <1>5, <1>6, <1>7, <1>8, <1>9, Zenon DEF Next, ReceiveAndProcess, Command

LEMMA AddressInvariant == Spec => []AddressInv
<1>1. Init => AddressInv
  BY DEF Init, AddressInv, MovedByHost, ContestIsRemembered, Device
<1>2. QED
  BY <1>1, TypeCorrect, AddressStep, PTL DEF Spec

\* A device away from its default address was sent there by the host after the
\* last reset.
THEOREM AddressesComeFromHost == Spec => []MovedByHost
  BY AddressInvariant, PTL DEF AddressInv

\* The loser of a collision in a Talk 3 answer stays until the winner has been
\* moved away or the bus is reset.
THEOREM LosersStay == Spec => LoserStays
<1>1. ASSUME TypeOK, AddressInv, Next, NEW d \in Device, contested[d], addr'[d] # addr[d]
      PROVE  adb_reset /\ addr'[d] = DefaultAddr[d]
  <2>1. skip[d]
    BY <1>1 DEF AddressInv, ContestIsRemembered
  <2>2. ASSUME NEW a \in HostAddress, Listen3Move(a) PROVE FALSE
    BY <1>1, <2>1, <2>2 DEF Listen3Move, Movers, TypeOK
  <2>3. CASE ApplyReset
    BY <2>3 DEF ApplyReset, Restored
  <2>4. addr' = addr \/ ApplyReset \/ \E a \in HostAddress : Listen3Move(a)
    BY <1>1 DEF Next, ReceiveAndProcess, Command, Capture, NoCommand, GlobalReset, SendReset,
       OtherCommand, Talk0, Talk3, Listen3Handler, Listen2, NoReset, ResetKeyboards, LinkForms,
       LinkSettles, address_vars
  <2>5. QED
    BY <1>1, <2>2, <2>3, <2>4
<1>2. TypeOK /\ AddressInv /\ [Next]_vars
        => [\A d \in Device : contested[d] /\ addr'[d] # addr[d]
              => adb_reset /\ addr'[d] = DefaultAddr[d]]_vars
  BY <1>1
<1>3. QED
  BY <1>2, TypeCorrect, AddressInvariant, PTL DEF Spec, LoserStays

LEMMA HubStep ==
  TypeOK /\ AddressInv /\ HubLeavesDefault /\ [Next]_vars => HubLeavesDefault'
<1>. SUFFICES ASSUME TypeOK, AddressInv, HubLeavesDefault, [Next]_vars,
                     HubMode, contested'["mouse"], ~assigned'["mouse"]
              PROVE  proposal' \in HubSlots \cup {NoProposal}
  BY DEF HubLeavesDefault
<1>1. CASE proposal' = NoProposal
  BY <1>1
<1>2. ASSUME NEW a \in HostAddress, Talk3(a), proposal' # NoProposal
      PROVE  proposal' \in HubSlots
  <2>1. PICK clear \in SUBSET Device : Talk3(a)!(clear)
    BY <1>2 DEF Talk3
  <2>2. proposal' \in AddressField("mouse") /\ "mouse" \in clear
    BY <1>2, <2>1
  <2>3. contested["mouse"] /\ ~assigned["mouse"]
    BY <2>1, <2>2 DEF TypeOK, Device
  <2>4. collided /\ addr["mouse"] = DefaultAddr["mouse"]
    BY <2>3 DEF AddressInv, ContestIsRemembered, MovedByHost, Device
  <2>5. QED
    BY <2>2, <2>3, <2>4, Zenon DEF AddressField
<1>3. CASE contested' = contested /\ assigned' = assigned /\ proposal' = proposal
  BY <1>3 DEF HubLeavesDefault
<1>4. CASE ApplyReset
  BY <1>4 DEF ApplyReset, Device
<1>5. QED
  BY <1>1, <1>2, <1>3, <1>4 DEF Next, ReceiveAndProcess, Command, Capture, NoCommand, GlobalReset,
     SendReset, OtherCommand, Talk0, Listen3Move, Listen3Handler, Listen2, NoReset, ResetKeyboards,
     LinkForms, LinkSettles, GiveUp, address_vars, vars

\* Hub mode leaves address 3 to the chained device after a lost collision.
THEOREM HubLeavesDefaultFree == Spec => []HubLeavesDefault
<1>1. Init => HubLeavesDefault
  BY DEF Init, HubLeavesDefault, Device
<1>2. QED
  BY <1>1, TypeCorrect, AddressInvariant, HubStep, PTL DEF Spec

\* A reset that was seen is forgotten only by being applied in full.
THEOREM ResetsAreNotLost == Spec => ResetNotLost
<1>. DEFINE Applied == /\ addr' = DefaultAddr
                       /\ handler' = KBD_DEFAULT_HANDLER_ID
                       /\ \A d \in Device : ~assigned'[d]
                       /\ ~pending'["mouse"] /\ ~srq'["mouse"] /\ ~collided'
<1>1. ASSUME TypeOK, Next, adb_reset, ~adb_reset' PROVE Applied
  <2>1. ApplyReset
    BY <1>1 DEF Next, ReceiveAndProcess, Command, Capture, NoCommand, GlobalReset, SendReset,
       OtherCommand, Talk0, Talk3, Listen3Move, Listen3Handler, Listen2, NoReset, ResetKeyboards,
       LinkForms, LinkSettles
  <2>2. QED
    BY <1>1, <2>1 DEF ApplyReset, Restored, LatchCleared, TypeOK, Device
<1>2. TypeOK /\ [Next]_vars => [adb_reset /\ ~adb_reset' => Applied]_vars
  BY <1>1
<1>3. QED
  BY <1>2, TypeCorrect, PTL DEF Spec, ResetNotLost

(* ------------------------ what a latch promises ------------------------ *)

\* What one step does to a latch and to what the host has heard of it.
Taken(d) == ~pending[d] /\ pending'[d] /\ sent'[d] = sent[d]
Delivered(d) == pending[d] /\ ~pending'[d] /\ sent'[d] = Append(sent[d], report[d])
Dropped(d) == d = "mouse" /\ pending[d] /\ ~pending'[d] /\ sent'[d] = sent[d]
Kept(d) == pending'[d] = pending[d] /\ (pending[d] => report'[d] = report[d]) /\ sent'[d] = sent[d]

LEMMA LatchStep ==
  ASSUME TypeOK, [Next]_vars, NEW d \in Device
  PROVE  Taken(d) \/ Delivered(d) \/ Dropped(d) \/ Kept(d)
<1>1. CASE UNCHANGED report_vars
  BY <1>1 DEF report_vars, Kept
<1>2. CASE Capture
  <2>1. PICK ready \in SUBSET {e \in Device : ~pending[e] /\ captured[e] < MaxReports[e]} :
          /\ report' = [e \in Device |-> IF e \in ready THEN captured'[e] ELSE report[e]]
          /\ pending' = [e \in Device |-> pending[e] \/ e \in ready]
          /\ sent' = sent
    BY <1>2 DEF Capture
  <2>2. CASE d \in ready
    BY <2>1, <2>2 DEF Taken
  <2>3. CASE d \notin ready
    BY <2>1, <2>3 DEF Kept, TypeOK
  <2>4. QED
    BY <2>2, <2>3
<1>3. ASSUME NEW a \in HostAddress, Talk0(a) PROVE Delivered(d) \/ Kept(d)
  <2>1. PICK clear \in SUBSET Device : Talk0(a)!(clear)
    BY <1>3 DEF Talk0
  <2>2. CASE d \in Answers(a) \cap clear
    BY <2>1, <2>2 DEF Done, Answers, Delivered, TypeOK
  <2>3. CASE d \notin Answers(a) \cap clear
    BY <2>1, <2>3 DEF Done, Kept, TypeOK
  <2>4. QED
    BY <2>2, <2>3
<1>4. CASE ApplyReset
  BY <1>4 DEF ApplyReset, LatchCleared, Dropped, Kept, Device, TypeOK
<1>5. UNCHANGED vars \/ NoCommand \/ GlobalReset \/ SendReset => UNCHANGED report_vars
  BY DEF vars, report_vars, NoCommand, GlobalReset, SendReset
<1>6. \A a \in HostAddress : OtherCommand(a) \/ Talk3(a) \/ Listen3Move(a) \/ Listen3Handler(a)
                              \/ Listen2(a) => UNCHANGED report_vars
  BY DEF OtherCommand, Talk3, Listen3Move, Listen3Handler, Listen2
<1>7. NoReset \/ ResetKeyboards \/ LinkForms \/ LinkSettles => UNCHANGED report_vars
  BY DEF NoReset, ResetKeyboards, LinkForms, LinkSettles
<1>8. QED
  BY <1>1, <1>2, <1>3, <1>4, <1>5, <1>6, <1>7, Zenon DEF Next, ReceiveAndProcess, Command

\* The latch of the keyboard implements ReportLatch: whatever collides, moves or
\* resets, a report is heard once, as it was taken, and never dropped.
THEOREM KeyboardIsALatch == Spec => ImplementsKeyLatch
<1>. DEFINE L == Latched("kbd")
<1>1. Init => KeyLatch!Init
  BY DEF Init, KeyLatch!Init, Latched, Device
<1>2. ASSUME TypeOK, [Next]_vars PROVE [KeyLatch!Next]_<<L, sent["kbd"]>>
  <2>1. Taken("kbd") \/ Delivered("kbd") \/ Dropped("kbd") \/ Kept("kbd")
    BY <1>2, LatchStep DEF Device
  <2>2. QED
    BY <2>1 DEF Taken, Delivered, Dropped, Kept, Latched, KeyLatch!Next, KeyLatch!Take,
       KeyLatch!Deliver, KeyLatch!Drop
<1>3. QED
  BY <1>1, <1>2, TypeCorrect, PTL DEF Spec, ImplementsKeyLatch, KeyLatch!Spec

\* So does the latch of the mouse, which a reset may empty.
THEOREM MouseIsALatch == Spec => ImplementsMouseLatch
<1>. DEFINE L == Latched("mouse")
<1>1. Init => MouseLatch!Init
  BY DEF Init, MouseLatch!Init, Latched, Device
<1>2. ASSUME TypeOK, [Next]_vars PROVE [MouseLatch!Next]_<<L, sent["mouse"]>>
  <2>1. Taken("mouse") \/ Delivered("mouse") \/ Dropped("mouse") \/ Kept("mouse")
    BY <1>2, LatchStep DEF Device
  <2>2. QED
    BY <2>1 DEF Taken, Delivered, Dropped, Kept, Latched, MouseLatch!Next, MouseLatch!Take,
       MouseLatch!Deliver, MouseLatch!Drop
<1>3. QED
  BY <1>1, <1>2, TypeCorrect, PTL DEF Spec, ImplementsMouseLatch, MouseLatch!Spec

(* ------------------------------ together ------------------------------- *)

\* The loop keeps its reports: typed, in order, fresh, and asked for only while
\* there is one.
THEOREM ReportsAreKept == Spec => []ReportsKept
  BY TypeCorrect, ServiceRequestsAreMeant, ReportsInvariant, PTL DEF ReportsKept, ReportInv

\* The host alone moves a device, and a mouse in hub mode leaves its default free.
THEOREM AddressesAreMeant == Spec => []AddressesMeant
  BY AddressesComeFromHost, HubLeavesDefaultFree, PTL DEF AddressesMeant

\* Both latches implement the abstract one.
THEOREM DevicesAreLatches == Spec => ImplementsLatches
  BY KeyboardIsALatch, MouseIsALatch DEF ImplementsLatches
=============================================================================
