------------------------------ MODULE KeyTables -----------------------------
(***************************************************************************)
(* The tables of key codes: usb_keycode_to_adb_code and char_to_usb_keycode *)
(* of the device mode, adb_code_to_modifier and the inverse table of the   *)
(* host mode.  KeyCodes says what they have to do with each other.         *)
(***************************************************************************)
EXTENDS Naturals, FiniteSetsExt, Functions, TLC

Usage == 0 .. 255

CapsKey == \h39
NoCode == \hFF
RightHand == \hE4 .. \hE6
Modifier == \hE0 .. \hE7

\* The keys of the codes 00 to 33, in the order of the codes.
MainKeys ==
  <<\h04, \h16, \h07, \h09, \h0B, \h0A, \h1D, \h1B, \h06, \h19, \h64, \h05, \h14, \h1A, \h08, \h15,
    \h1C, \h17, \h1E, \h1F, \h20, \h21, \h23, \h22, \h2E, \h26, \h24, \h2D, \h25, \h27, \h30, \h12,
    \h18, \h2F, \h0C, \h13, \h28, \h0F, \h0D, \h34, \h0E, \h33, \h31, \h36, \h38, \h11, \h10, \h37,
    \h2B, \h2C, \h35, \h2A>>

\* Editing keys, arrows and the keypad; the second key of a code among them.
PadKeys ==
  \h32 :> \h2A @@ \h29 :> \h35 @@ \h39 :> \h39 @@ \h50 :> \h3B @@ \h4F :> \h3C @@ \h51 :> \h3D @@
  \h52 :> \h3E @@ \h63 :> \h41 @@ \h55 :> \h43 @@ \h57 :> \h45 @@ \h53 :> \h47 @@ \h54 :> \h4B @@
  \h58 :> \h4C @@ \h56 :> \h4E @@ \h67 :> \h51 @@ \h62 :> \h52 @@ \h59 :> \h53 @@ \h5A :> \h54 @@
  \h5B :> \h55 @@ \h5C :> \h56 @@ \h5D :> \h57 @@ \h5E :> \h58 @@ \h5F :> \h59 @@ \h60 :> \h5B @@
  \h61 :> \h5C

FunctionKeys ==
  \h3E :> \h60 @@ \h3F :> \h61 @@ \h40 :> \h62 @@ \h3C :> \h63 @@ \h41 :> \h64 @@ \h42 :> \h65 @@
  \h44 :> \h67 @@ \h47 :> \h6B @@ \h69 :> \h6B @@ \h43 :> \h6D @@ \h45 :> \h6F @@ \h6A :> \h71 @@
  \h48 :> \h71 @@ \h49 :> \h72 @@ \h75 :> \h72 @@ \h4A :> \h73 @@ \h4B :> \h74 @@ \h4C :> \h75 @@
  \h3D :> \h76 @@ \h4D :> \h77 @@ \h3B :> \h78 @@ \h4E :> \h79 @@ \h3A :> \h7A @@ \h46 :> \h7F @@
  \h68 :> \h7F

LeftCodes == \hE0 :> \h36 @@ \hE1 :> \h38 @@ \hE2 :> \h3A @@ \hE3 :> \h37 @@ \hE7 :> \h37
\* An extended keyboard tells left and right apart.
RightCodes(ext) ==
  IF ext THEN \hE4 :> \h7D @@ \hE5 :> \h7B @@ \hE6 :> \h7C
  ELSE \hE4 :> \h36 @@ \hE5 :> \h38 @@ \hE6 :> \h3A

CodeTable ==
  LET main == [k \in Range(MainKeys) |-> CHOOSE i \in DOMAIN MainKeys : MainKeys[i] = k]
      all(ext) == PadKeys @@ FunctionKeys @@ LeftCodes @@ RightCodes(ext)
  IN [ext \in BOOLEAN |-> [k \in Usage |->
        IF k \in Range(MainKeys) THEN main[k] - 1
        ELSE IF k \in DOMAIN all(ext) THEN all(ext)[k] ELSE NoCode]]

\* build_reverse_map(): of the keys of a code the last; 0 for none.  The host
\* is not an extended keyboard.
s_adb_to_usb ==
  [code \in 0 .. \h7E |-> Max({0} \cup {k \in Usage : CodeTable[FALSE][k] = code})]

adb_code_to_modifier ==
  \h36 :> \hE0 @@ \h38 :> \hE1 @@ \h3A :> \hE2 @@ \h37 :> \hE3 @@ \h7D :> \hE4 @@ \h7B :> \hE5 @@
  \h7C :> \hE6

Letters == <<"a", "b", "c", "d", "e", "f", "g", "h", "i", "j", "k", "l", "m",
             "n", "o", "p", "q", "r", "s", "t", "u", "v", "w", "x", "y", "z">>
Digits == <<"1", "2", "3", "4", "5", "6", "7", "8", "9", "0">>
IndexOf(seq, x) == CHOOSE i \in DOMAIN seq : seq[i] = x

\* The key of a character and whether Shift is pressed with it: A and a are one
\* sign, so are ":" and ";".  Signs that are not among these give key 0.
char_to_usb_keycode(c) ==
  CASE c.sign \in Range(Letters) -> 3 + IndexOf(Letters, c.sign)
    [] c.sign \in Range(Digits) /\ ~c.shift -> 29 + IndexOf(Digits, c.sign)
    [] c.sign = "." /\ ~c.shift -> \h37
    [] c.sign = ";" /\ c.shift -> \h33
    [] c.sign = " " /\ ~c.shift -> \h2C
    [] c.sign = "-" /\ ~c.shift -> \h2D
    [] c.sign = "newline" /\ c.shift -> \h28
    [] OTHER -> 0

\* What a Macintosh with the US layout reads when a key goes down.
Layout == <<"a", "s", "d", "f", "h", "g", "z", "x", "c", "v", "", "b", "q", "w", "e", "r",
            "y", "t", "1", "2", "3", "4", "6", "5", "=", "9", "7", "-", "8", "0", "]", "o",
            "u", "[", "i", "p", "newline", "l", "j", "quote", "k", ";", "backslash", ",", "/", "n", "m", ".",
            "tab", " ", "grave", "">>
=============================================================================
