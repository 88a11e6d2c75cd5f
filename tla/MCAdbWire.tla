----------------------------- MODULE MCAdbWire -----------------------------
(***************************************************************************)
(* Two scenes on the ADB line, for TLC.  The constants of the              *)
(* configuration are those of the first, "apart": Talks, Listens and       *)
(* resets for two devices of different addresses, one of which may stretch *)
(* a stop bit.  In "together" the two have one address, answer the same    *)
(* Talk and may be unplugged.  A behaviour stays in its scene.             *)
(***************************************************************************)
EXTENDS AdbWire

CONSTANTS d1, d2

A == <<0, 1>>
B == <<1, 0>>
TwoAddresses == {A, B}
Apart == [d \in Device |-> IF d = d1 THEN A ELSE B]
Registers == {<<0, 1, 1>>, <<1, 0, 0>>}

\* rand() % 101 at both ends; for the host also where its register comes too
\* late: with the longest jitter 73 is in time and 74 is not, with none 83 is
\* and 84 is not
Ends == {0, 100}
Limits == [p \in Sender |-> IF p = host THEN Ends \cup {73, 74, 83, 84} ELSE Ends]

\* which of the two is first does not matter, but the delays never come near
\* each other
Distinct == [p \in Sender |-> IF p = d2 THEN {25} ELSE {0}]
Together == INSTANCE AdbWire WITH
  Address <- {A}, AddressOf <- [d \in Device |-> A], Kind <- {"talk"},
  Extra <- Distinct, Requesting <- {}, Unplugs <- TRUE, Late <- {0}

VARIABLE scene

MCInit == Init /\ scene \in {"apart", "together"}
MCWorks ==
  /\ \/ scene = "apart" /\ Works
     \/ scene = "together" /\ Together!Works
  /\ UNCHANGED scene
MCNext ==
  /\ \/ scene = "apart" /\ Next
     \/ scene = "together" /\ Together!Next
  /\ UNCHANGED scene
MCSpec == MCInit /\ [][MCNext]_<<vars, scene>> /\ WF_<<vars, scene>>(MCWorks)

\* Every listener makes of the line the commands the host sent, and a reset of
\* the line is a reset to all of them.
CommandsHeard == TypeOK /\ CommandsUnderstood

\* Whoever answers a Talk is heard or knows that it is not: a device that is
\* told its register went out was heard, the host receives nothing no device
\* said, one of those that answer gets through, and a device notices that the
\* line is low when it means it to be high.
AnswersHeard == SentIsHeard /\ NothingInvented /\ OneGetsThrough /\ CollisionNoticed
=============================================================================
