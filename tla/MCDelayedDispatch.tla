------------------------- MODULE MCDelayedDispatch -------------------------
(***************************************************************************)
(* Three requests for a table of two slots: one of group "G", one of no    *)
(* group that asks for the longest delay, and one that asks for none.  In   *)
(* DXE a clock of 4 MHz and a period of 1 us, cut from 1.5.                *)
(***************************************************************************)
EXTENDS FirmwareClock

MCRequest == {"g", "long", "zero"}
MCGroupOf == [r \in MCRequest |-> IF r = "g" THEN "G" ELSE "none"]
MCDelayOf == [r \in MCRequest |-> CASE r = "g" -> 1 [] r = "long" -> 2 [] OTHER -> 0]
=============================================================================
