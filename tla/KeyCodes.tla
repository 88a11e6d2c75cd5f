------------------------------ MODULE KeyCodes ------------------------------
(***************************************************************************)
(* The codes of keys, from end to end: an adapter in device mode turns the *)
(* keys of a USB keyboard into ADB codes (usb_keycode_to_adb_code) for a   *)
(* Macintosh, and an adapter in host mode turns the codes of an ADB        *)
(* keyboard into HID usages again (src/adb_to_usb.cpp) for a PC; the       *)
(* tables of both are KeyTables.  Both listen here to the same register 0. *)
(* The messages the adapter types by itself go the same way.               *)
(*                                                                         *)
(* The queue and the packing of registers are KeyPipeline's and the way to *)
(* the PC is UsbHidDevice's: events arrive here at once and in order.      *)
(***************************************************************************)
EXTENDS KeyTables, Sequences, FiniteSets, SequencesExt

CONSTANTS
  Workload,    (* which sets of keys a user may be pressing: sets of usages  *)
  Message      (* the messages the adapter may be asked to type              *)

\* Two keys that the comments of the table give one code.
Shared == {{\h31, \h32}, {\h47, \h69}, {\h48, \h6A}, {\h49, \h75}, {\h46, \h68}, {\hE3, \hE7}}
Hands(ext) == IF ext THEN {} ELSE {{\hE0, \hE4}, {\hE1, \hE5}, {\hE2, \hE6}}
SameAs(k, ext) == {k} \cup UNION {pair \in Shared \cup Hands(ext) : k \in pair}

adb_keycode_valid(code) == code < \h7F

\* Pause and F15 are queued twice.
QueuedTwice == {\h48, \h6A}

\* The codes a Macintosh takes for modifiers
ModifierCode == {\h36, \h37, \h38, \h3A, \h7B, \h7C, \h7D}

(* What the tables have in common, and the messages with them *)

\* Keys of one code share it by intent, and the handler only tells hands apart;
\* left Shift is Shift.
CodesApart ==
  /\ CodeTable \in [BOOLEAN -> [Usage -> 0 .. \h7F \cup {NoCode}]]
  /\ \A k \in Usage \ RightHand : CodeTable[TRUE][k] = CodeTable[FALSE][k]
  /\ \A ext \in BOOLEAN : \A k \in Usage :
       /\ \A j \in Usage : CodeTable[ext][j] = CodeTable[ext][k] /\ CodeTable[ext][k] # NoCode =>
                            j \in SameAs(k, ext)
       /\ k \in {0, 1} => CodeTable[ext][k] = NoCode
       /\ CodeTable[ext][k] = CapsKey <=> k = CapsKey
       /\ CodeTable[ext][k] \in ModifierCode <=> k \in Modifier
  /\ \A ext \in BOOLEAN : CodeTable[ext][\hE1] = \h38

\* The tables of the host mode turn a code into the key it comes from, or into
\* one that shares it.
InverseFits ==
  /\ adb_code_to_modifier \in [ModifierCode -> Modifier] /\ IsInjective(adb_code_to_modifier)
  /\ s_adb_to_usb \in [0 .. \h7E -> Usage]
  /\ \A c, d \in 0 .. \h7E : s_adb_to_usb[c] = s_adb_to_usb[d] /\ s_adb_to_usb[c] # 0 => c = d
  /\ \A ext \in BOOLEAN :
       /\ \A k \in Modifier : adb_code_to_modifier[CodeTable[ext][k]] \in SameAs(k, ext) \cap Modifier
       /\ \A k \in Usage \ (Modifier \cup {CapsKey}) :
            adb_keycode_valid(CodeTable[ext][k]) =>
              s_adb_to_usb[CodeTable[ext][k]] \in SameAs(k, ext) \ {0}

\* Each character of a message has a key the Macintosh reads as its sign.
Readable(c) ==
  LET k == char_to_usb_keycode(c) IN
  /\ c \in [sign : STRING, shift : BOOLEAN]
  /\ k \in Usage \ (Modifier \cup QueuedTwice \cup {CapsKey})
  /\ CodeTable[FALSE][k] + 1 \in DOMAIN Layout
  /\ Layout[CodeTable[FALSE][k] + 1] = c.sign

KeyAssumption ==
  /\ Workload \subseteq SUBSET Usage
  /\ CodesApart /\ InverseFits
  /\ \A m \in Message : m \in Seq(Range(m)) /\ \A c \in Range(m) : Readable(c)

VARIABLES
  keys,        (* the keys that may be pressed in this behaviour             *)
  held,        (* the USB keys that are held                                 *)
  extended,    (* IS_EXTENDED_KEYBOARD(): the host has set handler 3         *)
  bmCapsLock,  (* the Caps Lock LED                                          *)
  mac,         (* the codes the Macintosh takes for held                     *)
  pc,          (* s_keys and s_mod, as the PC sees them                      *)
  message,     (* the message typed just now                                 *)
  text,        (* what the Macintosh has read of it                          *)
  clash,       (* history, until all keys are released: two keys of one code *)
               (* were held, or a message typed                              *)
  dropped      (* history, as long: more keys than a report holds, or one    *)
               (* without a code the PC gets                                 *)

vars == <<keys, held, extended, bmCapsLock, mac, pc, message, text, clash, dropped>>

(* ----------------------------- device mode ----------------------------- *)

usb_keycode_to_adb_code(k) == CodeTable[extended][k]

Down(k) == [code |-> usb_keycode_to_adb_code(k), up |-> FALSE]
\* An unmapped code is never paired with a release.
Up(k) == [code |-> usb_keycode_to_adb_code(k), up |-> usb_keycode_to_adb_code(k) # NoCode]

NoUsage(k) == k \in {0, 1}
Twice(k, e) == IF k \in QueuedTwice THEN <<e, e>> ELSE <<e>>
\* Caps Lock latches: down when its LED has come on, up when it has gone out.
OnKeyDown(k) ==
  IF NoUsage(k) THEN <<>>
  ELSE IF k = CapsKey THEN <<IF bmCapsLock THEN Up(k) ELSE Down(k)>>
  ELSE Twice(k, Down(k))
OnKeyUp(k) == IF NoUsage(k) \/ k = CapsKey THEN <<>> ELSE Twice(k, Up(k))

(* ------------------------------ host mode ------------------------------ *)

\* A key-down finds a free entry of six or is dropped.
Pushed(keys_, usb, up) ==
  IF up THEN keys_ \ {usb}
  ELSE IF Cardinality(keys_) < 6 THEN keys_ \cup {usb} ELSE keys_

push_key(p, e) ==
  IF e.code = CapsKey THEN p
  ELSE IF e.code \in DOMAIN adb_code_to_modifier
  THEN [p EXCEPT !.s_mod = IF e.up THEN @ \ {adb_code_to_modifier[e.code]}
                           ELSE @ \cup {adb_code_to_modifier[e.code]}]
  ELSE IF s_adb_to_usb[e.code] = 0 THEN p
  ELSE [p EXCEPT !.s_keys = Pushed(@, s_adb_to_usb[e.code], e.up)]

\* A register without a valid code releases everything.
adb_to_usb_keyboard_reg0(p, e) ==
  IF adb_keycode_valid(e.code) THEN push_key(p, e) ELSE [s_keys |-> {}, s_mod |-> {}]

(* ------------------------- both ends get the events -------------------- *)

HoldsAfter(m, e) ==
  IF e.code = NoCode THEN m ELSE IF e.up THEN m \ {e.code} ELSE m \cup {e.code}

Reads(m, code) ==
  [sign |-> IF m \cap {\h36, \h37, \h3A, \h7C, \h7D} # {} \/ code >= Len(Layout) THEN ""
            ELSE Layout[code + 1],
   shift |-> m \cap {\h38, \h39, \h7B} # {}]

\* An event reaches both; a key that goes down writes.
Gets(s, e) ==
  [mac |-> HoldsAfter(s.mac, e),
   pc |-> adb_to_usb_keyboard_reg0(s.pc, e),
   text |-> IF e.up \/ e.code \in ModifierCode THEN s.text ELSE Append(s.text, Reads(s.mac, e.code))]

After(s, events) == FoldLeft(Gets, s, events)

Ends == [mac |-> mac, pc |-> pc, text |-> <<>>]
Deliver(events) ==
  LET s == After(Ends, events) IN mac' = s.mac /\ pc' = s.pc

Same(k) == SameAs(k, extended)

Init ==
  /\ keys \in Workload
  /\ held = {}
  /\ extended = FALSE
  /\ bmCapsLock = FALSE
  /\ mac = {}
  /\ pc = [s_keys |-> {}, s_mod |-> {}]
  /\ message = <<>> /\ text = <<>>
  /\ clash = FALSE /\ dropped = FALSE

Press(k) ==
  /\ k \in keys \ held
  /\ held' = held \cup {k}
  /\ Deliver(OnKeyDown(k))
  /\ bmCapsLock' = (bmCapsLock # (k = CapsKey))
  /\ clash' = (clash \/ Same(k) \cap held # {})
  /\ dropped' = (\/ dropped
                 \/ ~adb_keycode_valid(usb_keycode_to_adb_code(k))
                 \/ Cardinality(held' \ Modifier) > 6)
  /\ message' = <<>> /\ text' = <<>>
  /\ UNCHANGED <<keys, extended>>

Release(k) ==
  /\ k \in held
  /\ held' = held \ {k}
  /\ Deliver(OnKeyUp(k))
  /\ clash' = (clash /\ held' # {})
  /\ dropped' = (dropped /\ held' # {})
  /\ message' = <<>> /\ text' = <<>>
  /\ UNCHANGED <<keys, extended, bmCapsLock>>

\* Listen 3 sets the handler, a bus reset sets it back; here while no key of
\* the right hand is held.
SetHandler ==
  /\ held \cap RightHand = {}
  /\ extended' = ~extended
  /\ message' = <<>> /\ text' = <<>>
  /\ UNCHANGED <<keys, held, bmCapsLock, mac, pc, clash, dropped>>

Keystroke(c) ==
  LET k == char_to_usb_keycode(c) IN
  IF c.shift THEN OnKeyDown(\hE1) \o OnKeyDown(k) \o OnKeyUp(k) \o OnKeyUp(\hE1)
  ELSE OnKeyDown(k) \o OnKeyUp(k)

Types(s, c) == After(s, Keystroke(c))
Written(s, m) == FoldLeft(Types, s, m)

\* Mutant: Caps Lock is not let go of.
ForceUpKeepsCaps ==
  [i \in 1 .. 8 |-> Up(<<\hE1, \hE5, \hE0, \hE4, \hE2, \hE6, \hE3, \hE7>>[i])]
Forced == <<\hE1, \hE5, \hE0, \hE4, \hE2, \hE6, \hE3, \hE7, CapsKey>>
ForceUp == [i \in 1 .. Len(Forced) |-> Up(Forced[i])]

\* The report that completes Ctrl, Shift, Caps Lock and V or L is not parsed; a
\* message is typed, and nothing else is while it is.
SendString(m) ==
  /\ CapsKey \in held /\ held \cap {\hE0, \hE4} # {} /\ held \cap {\hE1, \hE5} # {}
  /\ held \cap {\h19, \h0F} = {}
  /\ LET s == Written(After(Ends, ForceUp), m) IN
       mac' = s.mac /\ pc' = s.pc /\ text' = s.text
  /\ bmCapsLock' = FALSE
  /\ message' = m
  /\ clash' = TRUE
  /\ UNCHANGED <<keys, held, extended, dropped>>

Next ==
  \/ \E k \in keys : Press(k) \/ Release(k)
  \/ SetHandler
  \/ \E m \in Message : SendString(m)

Spec == Init /\ [][Next]_vars

(* ----------------------------- properties ------------------------------ *)

TypeOK ==
  /\ keys \in Workload /\ held \subseteq keys
  /\ extended \in BOOLEAN /\ bmCapsLock \in BOOLEAN
  /\ mac \subseteq 0 .. \h7F
  /\ pc.s_keys \subseteq Usage \ {0} /\ pc.s_mod \subseteq Modifier /\ Cardinality(pc.s_keys) <= 6
  /\ message \in Message \cup {<<>>} /\ Len(text) = Len(message)
  /\ clash \in BOOLEAN /\ dropped \in BOOLEAN

CapsCode == {CapsKey}

\* The Macintosh holds the codes of exactly the keys that are held: but for the
\* keys the comments of usb_keycode_to_adb_code() give one code, no release of
\* one key releases another, whatever is pressed and released in whatever order
\* and whenever the handler changes (Caps Lock apart, which latches).
HostHoldsKeys ==
  ~clash => mac \ CapsCode = {usb_keycode_to_adb_code(k) : k \in held \ {0, 1, CapsKey}} \ {NoCode}

\* The PC at the other end sees the keys that are held on the USB keyboard, or
\* those that share their codes, and no others: the table, its inverse and the
\* table of the modifiers agree.
PcHoldsKeys ==
  LET sent == {k \in held \ {CapsKey} : adb_keycode_valid(usb_keycode_to_adb_code(k))}
      seen == pc.s_keys \cup pc.s_mod
  IN
  ~clash /\ ~dropped =>
    /\ \A k \in sent : Same(k) \cap seen # {}
    /\ \A usb \in seen : Same(usb) \cap sent # {}

\* When all keys are released none is stuck, neither at the Macintosh nor at
\* the PC, although keys shared a code, did not fit a report, had no code or a
\* message was typed while they were held.
NothingStuck == held = {} => mac \subseteq CapsCode /\ pc.s_keys = {} /\ pc.s_mod = {}

\* A message typed by the adapter is read as it was meant, letter by letter,
\* although the combination that asks for it holds Control, Shift and Caps Lock.
MessageReads == text = message
=============================================================================
