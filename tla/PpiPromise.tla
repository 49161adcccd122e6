----------------------------- MODULE PpiPromise -----------------------------
(***************************************************************************)
(* What the PPI database promises its users, without saying how: PPIs are  *)
(* published and replaced, notifications are registered, and every         *)
(* registered notification is told of every PPI of its GUID, once for each *)
(* version at the callback level and once at the dispatch level, before    *)
(* the dispatcher goes on to the next PEIM.  PpiDatabase implements it.    *)
(***************************************************************************)
EXTENDS Integers, Sequences, FiniteSets

CONSTANTS Ppi, Notify, GuidOf, LevelOf, PpiLists, NotifyLists, Level,
          MaxPpis, MaxNotifies,   \* the pairs told may speak of
          Empty                   \* told of nothing

VARIABLES
  ppis,      \* the PPIs published, in order
  notifies,  \* the notifications registered at each level, in order
  told,      \* [pair -> the version the notify was told of last]
  replaced,  \* the PPIs replaced at least once
  phase      \* "open": a PEIM runs; "settling": it returned; "settled"

vars == <<ppis, notifies, told, replaced, phase>>

Pair == Level \X (0 .. MaxNotifies - 1) \X (0 .. MaxPpis - 1)

Registered(x) == x[2] < Len(notifies[x[1]]) /\ x[3] < Len(ppis)
Version(x)    == ppis[x[3] + 1]
Wanted(x)     == /\ Registered(x)
                 /\ GuidOf[notifies[x[1]][x[2] + 1]] = GuidOf[Version(x)]

\* A callback notify is owed every version of a PPI, a dispatch notify the
\* PPI it finds when it is dispatched.
Due(x) == /\ Wanted(x)
          /\ IF x[1] = "callback" THEN told[x] # Version(x)
             ELSE told[x] = Empty /\ x[3] \notin replaced

Init ==
  /\ ppis = <<>>
  /\ notifies = [l \in Level |-> <<>>]
  /\ told = [x \in Pair |-> Empty]
  /\ replaced = {}
  /\ phase = "open"

Publish(list) ==
  /\ phase # "settled"
  /\ ppis' = ppis \o list
  /\ UNCHANGED <<notifies, told, replaced, phase>>

Replace(i, new) ==
  /\ phase # "settled"
  /\ ppis' = [ppis EXCEPT ![i] = new]
  /\ replaced' = replaced \cup {i - 1}
  /\ UNCHANGED <<notifies, told, phase>>

\* The notifications of each level follow those registered before, in order.
Register(list) ==
  /\ phase # "settled"
  /\ notifies' \in [Level -> Seq(Notify)]
  /\ \A l \in Level :
       LET added == {i \in DOMAIN list : LevelOf[list[i]] = l}
           old   == Len(notifies[l])
       IN  /\ Len(notifies'[l]) = old + Cardinality(added)
           /\ \A i \in 1 .. old : notifies'[l][i] = notifies[l][i]
           /\ \A i \in added :
                notifies'[l][old + 1 + Cardinality({j \in added : j < i})] = list[i]
  /\ UNCHANGED <<ppis, told, replaced, phase>>

\* Nobody is told of a PPI twice, unless it was replaced meanwhile.
Tell(x) ==
  /\ phase # "settled"
  /\ Wanted(x)
  /\ told[x] = Empty \/ x[3] \in replaced
  /\ told' = [told EXCEPT ![x] = Version(x)]
  /\ UNCHANGED <<ppis, notifies, replaced, phase>>

PeimReturns ==
  /\ phase = "open"
  /\ \A x \in Pair : x[1] = "callback" => ~Due(x)
  /\ phase' = "settling"
  /\ UNCHANGED <<ppis, notifies, told, replaced>>

Settle ==
  /\ phase = "settling"
  /\ \A x \in Pair : ~Due(x)
  /\ phase' = "settled"
  /\ UNCHANGED <<ppis, notifies, told, replaced>>

NextPeim ==
  /\ phase = "settled"
  /\ phase' = "open"
  /\ UNCHANGED <<ppis, notifies, told, replaced>>

Next ==
  \/ \E list \in PpiLists : Publish(list)
  \/ \E i \in DOMAIN ppis, new \in Ppi : Replace(i, new)
  \/ \E list \in NotifyLists : Register(list)
  \/ \E x \in Pair : Tell(x)
  \/ PeimReturns \/ Settle \/ NextPeim

Spec == Init /\ [][Next]_vars
=============================================================================
