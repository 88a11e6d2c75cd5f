----------------------------- MODULE MCHostMode -----------------------------
(* Host mode at both ends: the ADB bus the adapter polls (AdbHost) and, in      *)
(* behaviours of their own, the reports it makes of what it hears               *)
(* (UsbHidDevice).  The two share no state: one runs while the other rests.     *)
EXTENDS UsbHidDevice

CONSTANTS   \* of AdbHost
  Device, Home, Answers3, Relocates, Noise, kMaxDevices, kProbePollAttempts, MaxPlugs, MaxSwitches

\* more key events than the ring holds; keys, pulses and a mouse that moves on
Typing == [events |-> 4, pulses |-> 0, moves |-> 0]
Mixed == [events |-> 2, pulses |-> 1, moves |-> 1]
Dragging == [events |-> 1, pulses |-> 1, moves |-> 2]
Workloads == {Typing, Mixed, Dragging}

Pointing == {"mouse", "trackball", "tablet"}
HomeOf == [d \in Pointing |-> IF d = "tablet" THEN 4 ELSE 3]

VARIABLES
  part,        \* which of the two runs in this behaviour
  noisy, plugged, at, entered_, devices_, plugs, switches

Bus == INSTANCE AdbHost

ASSUME BusAssumed == Bus!HostAssumption

bus_vars == <<noisy, plugged, at, entered_, devices_, plugs, switches>>
all_vars == <<vars, bus_vars, part>>

\* The part that rests has some workload or noise, and always the same.
Resting(choices) == CHOOSE c \in choices : TRUE

HostModeInit ==
  /\ Init /\ Bus!Init
  /\ part \in {"bus", "reports"}
  /\ part # "reports" => workload = Resting(Workload)
  /\ part # "bus" => noisy = Resting(Noise) /\ plugged = {}

HostModeNext ==
  /\ \/ part = "bus" /\ Bus!Next /\ UNCHANGED vars
     \/ part = "reports" /\ Next /\ UNCHANGED bus_vars
  /\ part' = part

\* The fairness of UsbHidDevice, where it runs.
HostModeSpec ==
  /\ HostModeInit /\ [][HostModeNext]_all_vars
  /\ WF_vars(part = "reports" /\ Translate) /\ WF_vars(part = "reports" /\ Task)
  /\ WF_vars(part = "reports" /\ Mount) /\ WF_vars(part = "reports" /\ PcPolls)

\* The poll table has one slot per address, and a pointing device that answers
\* is left at its address and has its slot.
TableKept == Bus!TableKept

\* A keyboard is polled after each enumeration and rescan.
KeyboardPolled == Bus!KeyboardPolled
=============================================================================
