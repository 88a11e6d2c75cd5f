---------------------------- MODULE MCAdbDevice ----------------------------
(* Values of the function-valued constants of AdbDevice, for TLC. *)
EXTENDS AdbDevice

TwoKeyReports == [d \in Device |-> IF d = "kbd" THEN 2 ELSE 1]
=============================================================================
