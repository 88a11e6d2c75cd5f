----------------------------- MODULE MCServing -----------------------------
(* Who waits is served: the queue between the cores under any operations of     *)
(* both (SCQueue) and, in behaviours of their own, the reports of the ADB device *)
(* with a host that polls it on a service request (AdbDevice).  A behaviour runs *)
(* one of the two while the other rests.                                         *)
EXTENDS SCQueue

CONSTANTS HostAddress, AssignAddress, RandomAddress, Commands,  (* of AdbDevice *)
          HubMode, SuppressMouseSrq, MaxLinks

VARIABLES
  part,          \* which of the two runs in this behaviour: "queue", "service"
  addr, assigned, skip, collided, handler, pending, srq, report, leds, adb_reset, usb_reset,
  deferring, links, pass, line, captured, sent, contested, proposal

Adb == INSTANCE AdbDevice WITH
  MaxReports <- [d \in {"kbd", "mouse"} |-> 1], pc <- pass

ASSUME AdbAssumed == Adb!AdbAssumption

adb_vars ==
  <<addr, assigned, skip, collided, handler, pending, srq, report, leds, adb_reset, usb_reset,
    deferring, links, pass, line, captured, sent, contested, proposal>>
all_vars == <<vars, adb_vars, part>>

ServingInit ==
  /\ Init /\ Adb!Init
  /\ part \in {"queue", "service"}

\* A step of the part that runs.
Step(queue_step, adb_step) ==
  \/ part = "queue" /\ queue_step /\ UNCHANGED <<adb_vars, part>>
  \/ part = "service" /\ adb_step /\ UNCHANGED <<vars, part>>

ServingNext == Step(Next, Adb!Next)

\* The fairness of SCQueue and of AdbDevice, each where it runs.
ServingSpec ==
  /\ ServingInit /\ [][ServingNext]_all_vars
  /\ \A c \in Client : WF_all_vars(Step(Operation(c), FALSE))
  /\ WF_all_vars(Step(FALSE, Adb!Core0))
  /\ WF_all_vars(Step(FALSE, Adb!LinkSettles))
  /\ \A d \in Adb!Device :
       SF_all_vars(Step(FALSE, Adb!HostPolls(d))) /\ SF_all_vars(Step(FALSE, Adb!HostServes(d)))

\* A report that waits is read by a host that polls its device only on a service
\* request, and a reset that Bluetooth defers is applied in the end.
NothingWaits == part = "service" => Adb!NothingWaits
=============================================================================
