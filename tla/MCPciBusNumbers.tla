-------------------------- MODULE MCPciBusNumbers --------------------------
(***************************************************************************)
(* Small machines for PciBusNumbers.                                       *)
(***************************************************************************)
EXTENDS PciBusNumbers

(* One root bridge, 1, and three functions, whose names follow the order   *)
(* of a walk: every tree, with every choice of what the leaves are.  A     *)
(* bridge at the root may be a hot plug bus, with its functions there from *)
(* the beginning or not: then there are two passes.  The numbers of a root *)
(* bridge may be too few, have a hole, or reach the largest there is.      *)
LOCAL Fun == 2 .. 4
LOCAL Parents ==
  {p \in [Fun -> 1 .. 3] : p[2] = 1 /\ p[3] \in 1 .. 2 /\ p[4] \in {p[3], 1, 3}}
LOCAL Above(p) ==
  [n \in 1 .. 4 |-> LET up[m \in 1 .. 4] == IF m = 1 THEN {} ELSE {p[m]} \cup up[p[m]]
                    IN  up[n]]
LOCAL Kinds(p) ==
  {k \in [1 .. 4 -> {"root", "bridge", "cardbus", "device"}] :
     /\ Cardinality({f \in Fun : k[f] = "cardbus"}) <= 1
     /\ \A n \in 1 .. 4 : /\ (k[n] = "root") = (n = 1)
                          /\ (\E f \in Fun : p[f] = n) /\ n # 1 => k[n] = "bridge"}

LOCAL Whole == <<[min |-> 0, max |-> 9]>>

LOCAL Machine(p, k, ranges, hot, late, toRoot) ==
  [parent |-> p, above |-> Above(p), kind |-> k, device |-> [n \in 1 .. 4 |-> n],
   ranges |-> [r \in {1} |-> ranges],
   hotPlug |-> hot # {}, controllers |-> IF late = {} THEN {} ELSE hot,
   late |-> late, toRoot |-> toRoot,
   padding |-> [n \in 1 .. 4 |-> IF n \notin hot THEN 0
                                 ELSE IF ranges = Whole THEN 8 ELSE 2],
   ari |-> {}, virtual |-> [n \in 1 .. 4 |-> 0]]

LOCAL Under(p, B) == {f \in Fun : Above(p)[f] \cap B # {}}
LOCAL TooFew    == <<[min |-> 0, max |-> 2]>>
LOCAL OneRange  == <<[min |-> 0, max |-> 4]>>
LOCAL AtTheEnd  == <<[min |-> 5, max |-> 6], [min |-> 9, max |-> 9]>>

Trees ==
  UNION {UNION {
    {Machine(p, k, ranges, {}, {}, {}) : ranges \in {TooFew, AtTheEnd}} \cup
    UNION {{Machine(p, k, OneRange, {b}, late, toRoot) :
              late \in {{}, Under(p, {b})}, toRoot \in {{}, {b}}} \cup
           {Machine(p, k, Whole, {b}, {}, {})} :
           b \in {f \in Fun : k[f] \in {"bridge", "cardbus"} /\ p[f] = 1}} :
    k \in Kinds(p)} : p \in Parents}

(* Two root bridges with multi-function devices, ARI and SR-IOV, and a     *)
(* CardBus bridge.                                                         *)
Large ==
  [parent |-> (3 :> 1 @@ 4 :> 3 @@ 5 :> 3 @@ 6 :> 1 @@ 7 :> 1 @@ 8 :> 2 @@ 9 :> 8),
   above |-> <<{}, {}, {1}, {1, 3}, {1, 3}, {1}, {1}, {2}, {2, 8}>>,
   kind |-> <<"root", "root", "bridge", "device", "device", "bridge", "cardbus", "bridge", "device">>,
   device |-> <<0, 0, 1, 0, 1, 1, 2, 0, 0>>,
   ranges |-> (1 :> <<[min |-> 0, max |-> 5]>> @@ 2 :> <<[min |-> 8, max |-> 9]>>),
   hotPlug |-> FALSE, controllers |-> {}, late |-> {}, toRoot |-> {},
   padding |-> [n \in 1 .. 9 |-> 0],
   ari |-> {4, 5}, virtual |-> [n \in 1 .. 9 |-> CASE n = 4 -> 1 [] n = 5 -> 2 [] OTHER -> 0]]

MCMachines == Trees \cup {Large, [Large EXCEPT !.ari = {4}]}
=============================================================================
