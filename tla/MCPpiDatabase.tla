--------------------------- MODULE MCPpiDatabase ---------------------------
(***************************************************************************)
(* A small PPI database for TLC: two GUIDs, two versions of the first PPI  *)
(* and one of the second, one descriptor without the PPI flag, one notify  *)
(* per level for the first GUID, a callback for the second, and one        *)
(* notify descriptor without a notify flag.                                *)
(***************************************************************************)
EXTENDS PpiDatabase

MCPpi == {"a1", "a2", "b1", "bad"}
MCNotify == {"cA", "cB", "dA", "none"}
MCGuidOf == [d \in MCPpi \cup MCNotify |->
               IF d \in {"a1", "a2", "cA", "dA"} THEN "A" ELSE "B"]
MCIsPpi == [d \in MCPpi |-> d # "bad"]
MCLevelOf == [n \in MCNotify |->
                CASE n \in {"cA", "cB"} -> "callback"
                  [] n = "dA" -> "dispatch"
                  [] OTHER -> "none"]
MCPpiLists == {<<"a1">>, <<"b1">>, <<"b1", "a1">>, <<"a1", "bad">>}
MCNotifyLists == {<<"dA">>, <<"dA", "cA">>, <<"cB">>, <<"cA", "none">>}
=============================================================================
