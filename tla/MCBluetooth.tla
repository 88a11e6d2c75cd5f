---------------------------- MODULE MCBluetooth ----------------------------
(* Two scenes of BtNames, which is BtPlatform with the names of devices.  In  *)
(* "pauses" a keyboard and a controller meet the pause of core 1 and the      *)
(* clock, and nothing announces a name; in "names" a keyboard, a mouse and a  *)
(* bystander announce themselves and come and go, and the clock stands still. *)
EXTENDS BtNames

CONSTANTS kb, xbox, board, pad, lamp

\* the keyboards have touch pads; the lamp only announces itself
KindOf == [d \in Device |-> CASE d \in {kb, board} -> "keyboard"
                              [] d = xbox          -> "gamepad"
                              [] OTHER             -> "mouse"]
SendsOf == [d \in Device |-> CASE d \in {kb, board} -> {"keyboard", "mouse"}
                               [] d = xbox          -> {"gamepad"}
                               [] d = pad           -> {"mouse"}
                               [] OTHER             -> {}]
OneEach == [k \in Class |-> 1]

VARIABLE scene   \* which of the two this behaviour shows

all_vars == <<vars, name_vars, scene>>

\* Two links are enough to meet every pause.
Pauses ==
  /\ Unnamed \/ \E d \in {kb, xbox} : Callback(d)
  /\ links' <= 2 /\ heard' = 0

\* The loop of core 0 goes round the callbacks of three devices.
Names ==
  \/ (Loop \/ WatchdogTick \/ Polled) /\ UNCHANGED <<now, name_vars>>
  \/ \E d \in {board, pad, lamp} : Callback(d)

ScenesInit == NamesInit /\ scene \in {"pauses", "names"}
ScenesNext ==
  /\ \/ scene = "pauses" /\ Pauses
     \/ scene = "names" /\ Names
  /\ scene' = scene

\* The fairness of BtPlatform, where it is about the pauses.
ScenesSpec ==
  /\ ScenesInit /\ [][ScenesNext]_all_vars
  /\ WF_vars(scene = "pauses" /\ Core0) /\ WF_vars(scene = "pauses" /\ Core1)
  /\ SF_vars(scene = "pauses" /\ Loop /\ now' # now)
  /\ SF_vars(scene = "pauses" /\ WatchdogTick)
  /\ \A d \in {kb, xbox} :
       SF_vars(scene = "pauses" /\ (Ready(d) \/ (link[d] = "connected" /\ Disconnected(d))))

\* A reset of the host is not put off for ever.
ResetsGoOn == scene = "pauses" => DeferralEnds
=============================================================================
