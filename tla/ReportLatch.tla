---------------------------- MODULE ReportLatch ----------------------------
(***************************************************************************)
(* What a latch such as kbdreg0 with kbdpending promises, seen from the    *)
(* parser that fills it and from the host that reads it                    *)
(* (lib/QuokkADB/src/quokkadb.cpp, lib/adb/src/adb.cpp): a report is taken *)
(* only when the last one is gone, stays as it is until the host has heard *)
(* it, and is heard once.  The latch is <<>> or <<report>>.                *)
(*                                                                         *)
(* AdbDevice implements it on the side of the bus, under collisions and    *)
(* resets, and KeyPipeline on the side of the parsers: what KeyPipeline    *)
(* takes for granted of the host is what AdbDevice grants.                 *)
(***************************************************************************)
EXTENDS Naturals, Sequences

CONSTANTS
  Nothing,       (* what the host has heard at first                         *)
  Hears(_, _),   (* what it has heard after one report more                  *)
  MayDrop        (* a reset may empty the latch (the mouse's)                *)

VARIABLES latch, heard

Init == latch = <<>> /\ heard = Nothing

Take == latch = <<>> /\ Len(latch') = 1 /\ heard' = heard
Deliver == latch # <<>> /\ heard' = Hears(heard, latch[1]) /\ latch' = <<>>
Drop == MayDrop /\ latch # <<>> /\ latch' = <<>> /\ heard' = heard

Next == Take \/ Deliver \/ Drop

Spec == Init /\ [][Next]_<<latch, heard>>

\* A report does not wait for ever.
FairSpec == Spec /\ WF_<<latch, heard>>(Deliver \/ Drop)
=============================================================================
