-------------------------- MODULE MCPeiDispatcher --------------------------
(***************************************************************************)
(* Small platforms for TLC.  In all of them the boot volume holds PEIMs    *)
(* "a", "m" (which discovers memory) and "b", named in the Apriori file, a *)
(* PEIM "p" that waits for PPI "x", and a compressed volume image "i" that *)
(* needs PPI "dec" and holds volume "F1" with PEIM "r"; volume "F2", found *)
(* by a notification, holds PEIM "s", which waits for memory and is        *)
(* compressed and signed, and another image "j" of the volume "F1".        *)
(***************************************************************************)
EXTENDS PeiDispatcher

MCFile == {"a", "m", "b", "p", "i", "r", "s", "j"}
MCFv == {"Boot", "F1", "F2"}
MCPpi == {"x", "y", "z", "dec", "mem"}
MCDelayed == {"d", "e"}
MCFilesOf == [v \in MCFv |-> CASE v = "Boot" -> <<"b", "p", "i", "m", "a">>
                               [] v = "F1" -> <<"r">>
                               [] OTHER -> <<"j", "s">>]
MCAprioriFile ==
  [v \in MCFv |-> IF v = "Boot" THEN <<"r", "a", "m", "b">> ELSE <<>>]
MCContains == [f \in MCFile |-> IF f \in {"i", "j"} THEN "F1" ELSE "none"]

\* Only the Apriori file lets "a" and "b" be dispatched.
With(p) == {S \in SUBSET MCPpi : p \in S}
Always == SUBSET MCPpi
MCDepex == [f \in MCFile |-> CASE f \in {"p", "j"} -> With("x")
                                [] f \in {"a", "b"} -> {}
                                [] f = "s" -> With("mem")
                                [] OTHER -> Always]
MCNeedsToLoad == [f \in MCFile |-> IF f \in {"i", "s"} THEN {"dec"} ELSE {}]
MCNeedsToVerify == [f \in MCFile |-> IF f = "s" THEN {"x"} ELSE {}]

CodeOf == ({"peim", "shadow"} \X MCFile) \cup ({"notify"} \X MCPpi)
          \cup ({"delayed"} \X MCDelayed)
Doing(table) == [c \in CodeOf |-> {t[2] : t \in {u \in table : u[1] = c}}]

MCDoes == Doing({
  <<<<"peim", "a">>, <<"delay", "d">>>>,
  <<<<"delayed", "d">>, <<"delay", "e">>>>,
  <<<<"delayed", "e">>, <<"install", "z">>>>,
  <<<<"peim", "a">>, <<"shadow", "a">>>>,
  <<<<"peim", "m">>, <<"memory", "none">>>>,
  <<<<"peim", "m">>, <<"install", "dec">>>>,
  <<<<"peim", "m">>, <<"shadow", "m">>>>,
  <<<<"peim", "r">>, <<"install", "x">>>>,
  <<<<"peim", "r">>, <<"memory", "none">>>>,
  <<<<"peim", "p">>, <<"shadow", "p">>>>,
  <<<<"peim", "p">>, <<"install", "y">>>>,
  <<<<"shadow", "a">>, <<"install", "x">>>>,
  <<<<"delayed", "d">>, <<"install", "z">>>>,
  <<<<"notify", "z">>, <<"publish", "F2">>>>,
  <<<<"notify", "dec">>, <<"memory", "none">>>>,
  <<<<"notify", "y">>, <<"memory", "none">>>>,
  <<<<"notify", "mem">>, <<"publish", "F2">>>>})
=============================================================================
