------------------------------ MODULE MCTyping ------------------------------
(* Typing, from the reports of keyboards to the keys two hosts take for held: *)
(* the way of events through the queue (KeyPipeline) and, in behaviours of    *)
(* their own, the codes those events carry (KeyCodes).  The two share no      *)
(* state, so a behaviour runs one of them while the other rests.              *)
EXTENDS KeyPipeline, TLC

CONSTANTS
  KeySet,      (* KeyCodes: which sets of keys a user may be pressing        *)
  Sentence     (* KeyCodes: the messages the adapter may be asked to type    *)

(* --------------------- what comes, in the pipeline --------------------- *)

OneModifier == <<"shift">>
TwoLetters == <<"a", "b">>

\* reports of two slots over the keys, with and without modifiers
EveryReport(ks, mods) == [mods : SUBSET mods, keys : [1 .. 2 -> ks \cup {"none"}]]
\* two different keys in either order, rollover, shift with at most one key
Typical(r) ==
  /\ r.keys[1] = r.keys[2] => r.keys[1] \in {"none", "overflow"}
  /\ "overflow" \in Range(r.keys) => Range(r.keys) = {"overflow"} /\ r.mods = {}
  /\ r.mods # {} => r.keys[2] = "none"
TypingReports == {r \in EveryReport({"a", "b", "caps", "overflow"}, {"shift"}) : Typical(r)}
GhostKeys == [mods |-> {"shift"}, keys |-> [i \in 1 .. 2 |-> IF i = 1 THEN "caps" ELSE "v"]]
GhostCombination == {GhostKeys}

PerCore(bt, usb) == [c \in {0, 1} |-> IF c = 0 THEN bt ELSE usb]

\* a USB keyboard; a Bluetooth keyboard; a message between reports; and below
\* keyboards with special keys
UsbTyping ==
  [report |-> PerCore({}, TypingReports), count |-> PerCore(0, 2), resets |-> 0]
BtTyping ==
  [report |-> PerCore(EveryReport({"a", "caps"}, {}), {}), count |-> PerCore(2, 0), resets |-> 0]
Ghosts ==
  [report |-> PerCore({}, EveryReport({"a", "fn"}, {}) \cup GhostCombination),
   count |-> PerCore(0, 2), resets |-> 0]
\* a key that is queued twice, beside one that is not, in a queue of three
TwiceTyping ==
  [report |-> PerCore({}, {r \in EveryReport({"b", "pause"}, {}) : Typical(r)}),
   count |-> PerCore(0, 3), resets |-> 0]
\* one keyboard of each kind and a reset of the bus
BothAndReset ==
  [report |-> PerCore({r \in EveryReport({"b"}, {}) : r.keys[2] = "none"},
                      {r \in EveryReport({"a", "power"}, {}) : r.keys[2] = "none"}),
   count |-> PerCore(1, 1), resets |-> 1]
Reports == {UsbTyping, BtTyping, Ghosts, TwiceTyping, BothAndReset}

(* ------------------------- one of the two runs ------------------------- *)

VARIABLES
  part,        \* which of the two
  keys, held, extended, bmCapsLock, mac, personal, message, text, clash, dropped

Codes == INSTANCE KeyCodes WITH Workload <- KeySet, Message <- Sentence, pc <- personal

ASSUME CodesAssumed == Codes!KeyAssumption

code_vars == <<keys, held, extended, bmCapsLock, mac, personal, message, text, clash, dropped>>
all_vars == <<vars, code_vars, part>>

\* In the part that rests always the same may come.
Resting(workloads) == CHOOSE w \in workloads : TRUE

TypingInit ==
  /\ Init /\ Codes!Init
  /\ part \in {"pipeline", "codes"}
  /\ part # "pipeline" => workload = Resting(Workload)
  /\ part # "codes" => keys = Resting(KeySet)

TypingNext ==
  /\ \/ part = "pipeline" /\ Next /\ UNCHANGED code_vars
     \/ part = "codes" /\ Codes!Next /\ UNCHANGED vars
  /\ part' = part

\* The fairness of KeyPipeline, where it runs.
TypingSpec ==
  /\ TypingInit /\ [][TypingNext]_all_vars
  /\ \A c \in Core : WF_vars(part = "pipeline" /\ Keyboards(c))
  /\ WF_vars(part = "pipeline" /\ Packer)
  /\ SF_vars(part = "pipeline" /\ HostReads)
  /\ WF_vars(part = "pipeline" /\ Reset)

\* The codes of keys: a Macintosh and a PC hold the keys that are held, none is
\* stuck at either, and a typed message is read as it was meant.
CodesAgree ==
  Codes!TypeOK /\ Codes!HostHoldsKeys /\ Codes!PcHoldsKeys /\ Codes!NothingStuck /\ Codes!MessageReads

(* ------------------------ the keys and messages ------------------------ *)

Tables == INSTANCE KeyTables

\* every key the tables know, and some that they do not
AnyKey == {k \in Tables!Usage : Tables!CodeTable[FALSE][k] # Tables!NoCode} \cup {0, 1, \h66, \h80}
Pairs == {{j, k} : j \in AnyKey, k \in AnyKey}
\* seven keys at once; the combination for messages
Many == {\h04 .. \h0A, {\h39, \hE0, \hE4, \hE5, \h04}}
PairsAndMany == Pairs \cup Many

Sign(sign) == [sign |-> sign, shift |-> FALSE]
Shifted(sign) == [sign |-> sign, shift |-> TRUE]
\* the characters of the version and of "Busy LED is on", each a message
Characters ==
  {Sign(Tables!Letters[i]) : i \in 1 .. 26} \cup {Shifted(Tables!Letters[i]) : i \in 1 .. 26}
  \cup {Sign(Tables!Digits[i]) : i \in 1 .. 10}
  \cup {Sign("."), Shifted(";"), Sign(" "), Sign("-")}
Messages == {<<c>> : c \in Characters}
=============================================================================
