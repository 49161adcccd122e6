------------------------- MODULE PpiDatabaseProofs -------------------------
(***************************************************************************)
(* Proofs about PpiDatabase for any descriptors, any lists and any bounds. *)
(***************************************************************************)
EXTENDS PpiDatabase, FiniteSetTheorems, TLAPS

-----------------------------------------------------------------------------
(* Operators.                                                              *)

\* A set of positions of a list has at most as many elements as the list.
LEMMA PositionsBound ==
  ASSUME NEW n \in Nat, NEW S \in SUBSET (1 .. n)
  PROVE  Cardinality(S) \in 0 .. n
PROOF
<1>1. IsFiniteSet(1 .. n) /\ Cardinality(1 .. n) = IF 1 > n THEN 0 ELSE n - 1 + 1
  BY FS_Interval
<1>2. Cardinality(1 .. n) = n
  BY <1>1
<1>3. IsFiniteSet(S) /\ Cardinality(S) <= n
  BY <1>1, <1>2, FS_Subset
<1>4. Cardinality(S) \in Nat
  BY <1>3, FS_CardinalityType
<1> QED
  BY <1>3, <1>4

\* The positions of a level are no more than the list has.
LEMMA AtLevelBound ==
  ASSUME NEW list \in Seq(Notify), NEW l
  PROVE  Cardinality(AtLevel(list, l)) \in 0 .. Len(list)
BY PositionsBound DEF AtLevel

\* The part of a list a service accepts before it stops is a list.
LEMMA PrefixType ==
  ASSUME NEW S, NEW list \in Seq(S), NEW good \in SUBSET (1 .. Len(list))
  PROVE  SubSeq(list, 1, Cardinality(good)) \in Seq(S)
PROOF
<1>1. Cardinality(good) \in 0 .. Len(list)
  BY PositionsBound
<1> QED
  BY <1>1

LEMMA ValidPpisType ==
  ASSUME NEW list \in Seq(Ppi)
  PROVE  ValidPpis(list) \in Seq(Ppi)
PROOF
<1> DEFINE good == {i \in DOMAIN list : \A j \in 1 .. i : IsPpi[list[j]]}
<1>1. good \in SUBSET (1 .. Len(list))
  OBVIOUS
<1> QED
  BY <1>1, PrefixType DEF ValidPpis

LEMMA ValidNotifiesType ==
  ASSUME NEW list \in Seq(Notify)
  PROVE  ValidNotifies(list) \in Seq(Notify)
PROOF
<1> DEFINE good == {i \in DOMAIN list :
                      \A j \in 1 .. i : LevelOf[list[j]] # "none"}
<1>1. good \in SUBSET (1 .. Len(list))
  OBVIOUS
<1> QED
  BY <1>1, PrefixType DEF ValidNotifies

\* Writing a list from a slot on keeps the slots below it.
LEMMA WrittenKeeps ==
  ASSUME NEW S, NEW list \in Seq(S), NEW from \in Nat, NEW lim \in Nat,
         NEW ptrs \in [0 .. lim - 1 -> S \cup {Empty}]
  PROVE  /\ Written(ptrs, from, list) \in [0 .. lim - 1 -> S \cup {Empty}]
         /\ \A i \in 0 .. lim - 1 :
              i < from => Written(ptrs, from, list)[i] = ptrs[i]
BY DEF Written

\* Registering a list keeps the notifications registered before.
LEMMA RegisteredKeeps ==
  ASSUME TypeOK, NEW list \in Seq(Notify)
  PROVE  /\ Registered(list) \in [Level -> [NotifySlot -> Notify \cup {Empty}]]
         /\ \A l \in Level, i \in NotifySlot :
              i < notifyCount[l] => Registered(list)[l][i] = notifyPtrs[l][i]
PROOF
<1> DEFINE here(l, slot) ==
             {i \in AtLevel(list, l) :
                slot = notifyCount[l]
                       + Cardinality({j \in AtLevel(list, l) : j < i})}
           Reg(l, slot) == IF here(l, slot) = {} THEN notifyPtrs[l][slot]
                           ELSE list[CHOOSE i \in here(l, slot) : TRUE]
<1>1. Registered(list) = [l \in Level |-> [slot \in NotifySlot |-> Reg(l, slot)]]
  BY DEF Registered
<1>2. ASSUME NEW l \in Level, NEW slot \in NotifySlot
      PROVE  Reg(l, slot) \in Notify \cup {Empty}
  <2>1. CASE here(l, slot) = {}
    BY <2>1 DEF TypeOK
  <2>2. CASE here(l, slot) # {}
    <3>1. (CHOOSE i \in here(l, slot) : TRUE) \in here(l, slot)
      BY <2>2
    <3>2. here(l, slot) \subseteq DOMAIN list
      BY DEF AtLevel
    <3> HIDE DEF here
    <3>3. list[CHOOSE i \in here(l, slot) : TRUE] \in Notify
      BY <3>1, <3>2
    <3> QED
      BY <2>2, <3>3
  <2> QED
    BY <2>1, <2>2
<1>3. ASSUME NEW l \in Level, NEW slot \in NotifySlot, slot < notifyCount[l]
      PROVE  Reg(l, slot) = notifyPtrs[l][slot]
  <2>1. SUFFICES ASSUME NEW i \in here(l, slot) PROVE FALSE
    OBVIOUS
  <2>3. {j \in AtLevel(list, l) : j < i} \in SUBSET (1 .. Len(list))
    BY DEF AtLevel
  <2>4. Cardinality({j \in AtLevel(list, l) : j < i}) \in Nat
    BY <2>3, PositionsBound
  <2> QED
    BY <1>3, <2>1, <2>4 DEF TypeOK, NotifySlot
<1> HIDE DEF Reg
<1> QED
  BY <1>1, <1>2, <1>3

-----------------------------------------------------------------------------
(* Type correctness.                                                       *)

\* What the stack becomes when ProcessNotify is called, moves or returns.
LEMMA PushType ==
  ASSUME stack \in Seq(Frame), NEW level \in Level,
         NEW a \in 0 .. MaxPpis, NEW b \in 0 .. MaxPpis,
         NEW c \in 0 .. MaxNotifies, NEW d \in 0 .. MaxNotifies,
         CallProcessNotify(level, a, b, c, d)
  PROVE  stack' \in Seq(Frame)
BY DEF CallProcessNotify, NotifyFrame, Frame

LEMMA TopType ==
  ASSUME stack \in Seq(Frame), stack # <<>>
  PROVE  /\ Len(stack) \in Nat \ {0}
         /\ Top \in Frame
         /\ Popped \in Seq(Frame)
BY DEF Top, Popped

LEMMA FrameMoves ==
  ASSUME NEW f \in Frame
  PROVE  /\ [f EXCEPT !.busy = FALSE] \in Frame
         /\ f.Index2 < f.InstallStop =>
              /\ f.Index2 \in PpiSlot
              /\ [f EXCEPT !.Index2 = @ + 1] \in Frame
              /\ [f EXCEPT !.Index2 = @ + 1, !.busy = TRUE] \in Frame
         /\ f.Index1 < f.NotifyStop =>
              [f EXCEPT !.Index1 = @ + 1, !.Index2 = f.InstallStart] \in Frame
PROOF
<1>1. [f EXCEPT !.busy = FALSE] \in Frame
  BY DEF Frame
<1>2. ASSUME f.Index2 < f.InstallStop
      PROVE  f.Index2 \in PpiSlot /\ f.Index2 + 1 \in 0 .. MaxPpis
  BY <1>2, BoundAssumption DEF Frame, PpiSlot
<1>3. ASSUME f.Index2 < f.InstallStop
      PROVE  /\ [f EXCEPT !.Index2 = @ + 1] \in Frame
             /\ [f EXCEPT !.Index2 = @ + 1, !.busy = TRUE] \in Frame
  BY <1>2, <1>3 DEF Frame
<1>4. ASSUME f.Index1 < f.NotifyStop
      PROVE  f.Index1 + 1 \in 0 .. MaxNotifies
  BY <1>4, BoundAssumption DEF Frame
<1>5. ASSUME f.Index1 < f.NotifyStop
      PROVE  [f EXCEPT !.Index1 = @ + 1, !.Index2 = f.InstallStart] \in Frame
  BY <1>4, <1>5 DEF Frame
<1> QED
  BY <1>1, <1>2, <1>3, <1>5

LEMMA SetTopType ==
  ASSUME stack \in Seq(Frame), stack # <<>>, NEW f \in Frame, SetTop(f)
  PROVE  stack' \in Seq(Frame)
BY DEF SetTop

LEMMA InstallType ==
  ASSUME TypeOK, NEW list \in PpiLists, InstallPpi(list)
  PROVE  TypeOK'
PROOF
<1>1. list \in Seq(Ppi) /\ ValidPpis(list) \in Seq(Ppi) /\ Len(list) \in Nat
  BY ListAssumption, ValidPpisType
<1>2. CASE InstallRejected(list)
  <2>1. ppiPtrs' \in [PpiSlot -> Ppi \cup {Empty}]
    BY <1>1, <1>2, WrittenKeeps, BoundAssumption DEF InstallRejected, TypeOK, PpiSlot
  <2> QED
    BY <1>2, <2>1 DEF InstallRejected, TypeOK, history
<1>3. CASE InstallAccepted(list)
  <2>1. ppiPtrs' \in [PpiSlot -> Ppi \cup {Empty}]
    BY <1>1, <1>3, WrittenKeeps, BoundAssumption DEF InstallAccepted, TypeOK, PpiSlot
  <2>2. ppiCount' \in 0 .. MaxPpis
    BY <1>1, <1>3, BoundAssumption DEF InstallAccepted, InstallPpi, TypeOK
  <2>3. stack' \in Seq(Frame)
    BY <1>1, <1>3, <2>2, PushType, BoundAssumption DEF InstallAccepted, TypeOK, Level
  <2> QED
    BY <1>3, <2>1, <2>2, <2>3 DEF InstallAccepted, TypeOK, history
<1> QED
  BY <1>2, <1>3 DEF InstallPpi

LEMMA ReInstallType ==
  ASSUME TypeOK, NEW old \in Ppi, NEW new \in Ppi, ReInstallPpi(old, new)
  PROVE  TypeOK'
PROOF
<1>1. PICK i \in FirstSlot(old) :
        /\ ppiPtrs' = [ppiPtrs EXCEPT ![i] = new]
        /\ reinstalled' = reinstalled \cup {i}
        /\ CallProcessNotify("callback", i, i + 1, 0, notifyCount["callback"])
  BY DEF ReInstallPpi
<1>2. i \in PpiSlot /\ i \in Nat
  BY BoundAssumption DEF FirstSlot, TypeOK, PpiSlot
<1>3. stack' \in Seq(Frame)
  BY <1>1, <1>2, PushType, BoundAssumption DEF TypeOK, Level, PpiSlot
<1>4. /\ ppiPtrs' \in [PpiSlot -> Ppi \cup {Empty}]
      /\ reinstalled' \subseteq PpiSlot
  BY <1>1, <1>2 DEF TypeOK
<1>5. reinstalls' \in 0 .. MaxReinstalls
  BY BoundAssumption DEF ReInstallPpi, TypeOK
<1> QED
  BY <1>3, <1>4, <1>5 DEF ReInstallPpi, TypeOK

LEMMA NotifyType ==
  ASSUME TypeOK, NEW list \in NotifyLists, NotifyPpi(list)
  PROVE  TypeOK'
PROOF
<1>1. list \in Seq(Notify) /\ ValidNotifies(list) \in Seq(Notify)
  BY ListAssumption, ValidNotifiesType
<1>2. CASE NotifyRejected(list)
  <2>1. notifyPtrs' \in [Level -> [NotifySlot -> Notify \cup {Empty}]]
    BY <1>1, <1>2, RegisteredKeeps DEF NotifyRejected
  <2> QED
    BY <1>2, <2>1 DEF NotifyRejected, TypeOK, history
<1>3. CASE NotifyAccepted(list)
  <2>1. notifyPtrs' \in [Level -> [NotifySlot -> Notify \cup {Empty}]]
    BY <1>1, <1>3, RegisteredKeeps DEF NotifyAccepted
  <2>2. ASSUME NEW l \in Level
        PROVE  notifyCount[l] + Cardinality(AtLevel(list, l)) \in 0 .. MaxNotifies
    BY <1>1, AtLevelBound, BoundAssumption DEF NotifyPpi, TypeOK
  <2>3. notifyCount' \in [Level -> 0 .. MaxNotifies]
    BY <1>3, <2>2 DEF NotifyAccepted
  <2>4. stack' \in Seq(Frame)
    BY <1>3, <2>3, PushType, BoundAssumption DEF NotifyAccepted, TypeOK, Level
  <2> QED
    BY <1>3, <2>1, <2>3, <2>4 DEF NotifyAccepted, TypeOK, history
<1> QED
  BY <1>2, <1>3 DEF NotifyPpi

LEMMA CoreType ==
  ASSUME TypeOK, Core
  PROVE  TypeOK'
PROOF
<1> USE DEF database, history
<1>1. CASE Signal
  <2> DEFINE x == <<Top.level, Top.Index1, Top.Index2>>
  <2>1. stack # <<>> /\ Top \in Frame
    BY <1>1, TopType DEF Signal, AtPair, Looping, TypeOK
  <2>2. [Top EXCEPT !.Index2 = @ + 1, !.busy = TRUE] \in Frame
    BY <1>1, <2>1, FrameMoves DEF Signal, AtPair
  <2>3. stack' \in Seq(Frame)
    BY <1>1, <2>1, <2>2, SetTopType DEF Signal, TypeOK
  <2>4. calls' = [calls EXCEPT ![x] = @ + 1] /\ told' = [told EXCEPT ![x] = PpiAt]
    BY <1>1 DEF Signal
  <2>5. PpiAt \in Ppi \cup {Empty}
    BY <1>1, <2>1, FrameMoves DEF Signal, AtPair, PpiAt, TypeOK
  <2> HIDE DEF x
  <2>6. told' \in [Pair -> Ppi \cup {Empty}]
    BY <2>4, <2>5 DEF TypeOK
  <2>7. calls \in [Pair -> Nat] /\ (x \in Pair => calls[x] + 1 \in Nat)
    BY DEF TypeOK
  <2>8. calls' \in [Pair -> Nat]
    BY <2>4, <2>7
  <2> QED
    BY <1>1, <2>3, <2>6, <2>8 DEF Signal, TypeOK
<1>2. CASE Skip
  <2>1. stack # <<>> /\ [Top EXCEPT !.Index2 = @ + 1] \in Frame
    BY <1>2, TopType, FrameMoves DEF Skip, AtPair, Looping, TypeOK
  <2>2. stack' \in Seq(Frame)
    BY <1>2, <2>1, SetTopType DEF Skip, TypeOK
  <2> QED
    BY <1>2, <2>2 DEF Skip, TypeOK
<1>3. CASE NextNotify
  <2>1. /\ stack # <<>>
        /\ [Top EXCEPT !.Index1 = @ + 1, !.Index2 = Top.InstallStart] \in Frame
    BY <1>3, TopType, FrameMoves DEF NextNotify, Looping, TypeOK
  <2>2. stack' \in Seq(Frame)
    BY <1>3, <2>1, SetTopType DEF NextNotify, TypeOK
  <2> QED
    BY <1>3, <2>2 DEF NextNotify, TypeOK
<1>4. CASE NotificationReturns
  <2>1. stack # <<>> /\ [Top EXCEPT !.busy = FALSE] \in Frame
    BY <1>4, TopType, FrameMoves DEF NotificationReturns, TypeOK
  <2>2. stack' \in Seq(Frame)
    BY <1>4, <2>1, SetTopType DEF NotificationReturns, TypeOK
  <2> QED
    BY <1>4, <2>2 DEF NotificationReturns, TypeOK
<1>5. CASE ServiceReturns
  BY <1>5, TopType DEF ServiceReturns, Looping, TypeOK
<1>6. CASE PeimReturns
  BY <1>6 DEF PeimReturns, TypeOK, Control
<1>7. CASE DispatchNewNotifies
  <2>1. "dispatch" \in Level /\ notifyCount["dispatch"] \in 0 .. MaxNotifies
        /\ 0 \in 0 .. MaxPpis /\ 0 \in 0 .. MaxNotifies
    BY BoundAssumption DEF TypeOK, Level
  <2>2. stack' \in Seq(Frame)
    <3>1. CASE notifyLast # notifyCount["dispatch"]
      BY <1>7, <2>1, <3>1, PushType DEF DispatchNewNotifies, TypeOK
    <3>2. CASE ~(notifyLast # notifyCount["dispatch"])
      BY <1>7, <3>2 DEF DispatchNewNotifies, TypeOK
    <3> QED
      BY <3>1, <3>2
  <2> QED
    BY <1>7, <2>2 DEF DispatchNewNotifies, TypeOK, Control
<1>8. CASE DispatchNewPpis
  <2>1. "dispatch" \in Level /\ notifyCount["dispatch"] \in 0 .. MaxNotifies
        /\ 0 \in 0 .. MaxPpis /\ 0 \in 0 .. MaxNotifies
    BY BoundAssumption DEF TypeOK, Level
  <2>2. stack' \in Seq(Frame)
    <3>1. CASE ppiLast # ppiCount
      BY <1>8, <2>1, <3>1, PushType DEF DispatchNewPpis, TypeOK
    <3>2. CASE ~(ppiLast # ppiCount)
      BY <1>8, <3>2 DEF DispatchNewPpis, TypeOK
    <3> QED
      BY <3>1, <3>2
  <2> QED
    BY <1>8, <2>2 DEF DispatchNewPpis, TypeOK, Control
<1>9. CASE DispatchReturns
  <2>1. /\ stack # <<>> /\ stack' \in Seq(Frame)
        /\ Top.NotifyStop \in 0 .. MaxNotifies /\ Top.InstallStop \in 0 .. MaxPpis
    BY <1>9, TopType DEF DispatchReturns, Looping, TypeOK, Frame
  <2> QED
    BY <1>9, <2>1 DEF DispatchReturns, TypeOK
<1> QED
  BY <1>1, <1>2, <1>3, <1>4, <1>5, <1>6, <1>7, <1>8, <1>9 DEF Core

\* Every variable keeps its type, and no list outgrows its bound.
THEOREM TypeCorrect == Spec => []TypeOK
PROOF
<1>1. Init => TypeOK
  BY BoundAssumption DEF Init, TypeOK, Pair, Level, Control
<1>2. TypeOK /\ [Next]_vars => TypeOK'
  <2> SUFFICES ASSUME TypeOK, [Next]_vars PROVE TypeOK'
    OBVIOUS
  <2>1. CASE Services
    BY <2>1, InstallType, ReInstallType, NotifyType DEF Services
  <2>2. CASE Core
    BY <2>2, CoreType
  <2>3. CASE NextPeim
    BY <2>3 DEF NextPeim, TypeOK, Control, database, history
  <2>4. CASE UNCHANGED vars
    BY <2>4 DEF vars, TypeOK
  <2> QED
    BY <2>1, <2>2, <2>3, <2>4 DEF Next
<1> QED
  BY <1>1, <1>2, PTL DEF Spec
-----------------------------------------------------------------------------
(* What a call of ProcessNotify owes, and how its moves change it.         *)

LEMMA PairParts ==
  /\ \A x \in Pair : /\ x[1] \in Level /\ x[2] \in NotifySlot /\ x[3] \in PpiSlot
                     /\ x = <<x[1], x[2], x[3]>>
  /\ \A l \in Level, n \in NotifySlot, p \in PpiSlot : <<l, n, p>> \in Pair
BY DEF Pair

LEMMA SlotsAreNumbers == NotifySlot \subseteq Nat /\ PpiSlot \subseteq Nat
BY BoundAssumption DEF NotifySlot, PpiSlot

LEMMA OwedAtFirst ==
  ASSUME NEW level \in Level, NEW a \in Nat, NEW b \in Nat, NEW c \in Nat, NEW d \in Nat
  PROVE  LET f == NotifyFrame(level, a, b, c, d)
         IN  /\ Owed(f) = {x \in Pair : /\ x[1] = level /\ c <= x[2] /\ x[2] < d
                                        /\ a <= x[3] /\ x[3] < b}
             /\ Window(f) \ Owed(f) = {x \in Pair : /\ x[1] = level
                                                    /\ x[2] < c /\ x[2] < d
                                                    /\ a <= x[3] /\ x[3] < b}
BY PairParts, SlotsAreNumbers DEF NotifyFrame, Owed, Window

\* Index2 moves past a pair: that pair is no longer owed.
LEMMA OwedAfterPair ==
  ASSUME NEW f \in Frame, NEW b \in BOOLEAN,
         f.Index1 < f.NotifyStop, f.InstallStart <= f.Index2, f.Index2 < f.InstallStop
  PROVE  LET g == [f EXCEPT !.Index2 = @ + 1, !.busy = b]
             x == <<f.level, f.Index1, f.Index2>>
         IN  /\ Owed(g) = Owed(f) \ {x}
             /\ Window(g) = Window(f)
             /\ x \in Owed(f)
PROOF
<1> DEFINE g == [f EXCEPT !.Index2 = @ + 1, !.busy = b]
           x == <<f.level, f.Index1, f.Index2>>
<1>1. /\ f.Index1 \in NotifySlot /\ f.Index2 \in PpiSlot /\ f.level \in Level
      /\ f.Index1 \in Nat /\ f.Index2 \in Nat
  BY BoundAssumption DEF Frame, NotifySlot, PpiSlot
<1>2. /\ g.level = f.level /\ g.Index1 = f.Index1 /\ g.Index2 = f.Index2 + 1
      /\ g.InstallStart = f.InstallStart /\ g.InstallStop = f.InstallStop
      /\ g.NotifyStop = f.NotifyStop
  BY DEF Frame
<1>3. x \in Pair /\ x[1] = f.level /\ x[2] = f.Index1 /\ x[3] = f.Index2
  BY <1>1, PairParts
<1> HIDE DEF g
<1>4. Window(g) = Window(f)
  BY <1>2 DEF Window
<1>5. x \in Owed(f)
  BY <1>1, <1>3 DEF Owed, Window
<1>6. ASSUME NEW y \in Window(f)
      PROVE  y \in Owed(g) <=> (y \in Owed(f) /\ y # x)
  <2>1. y \in Pair /\ y[1] = f.level /\ y[2] \in Nat /\ y[3] \in Nat
    BY PairParts, SlotsAreNumbers DEF Window
  <2>2. y = x <=> (y[2] = f.Index1 /\ y[3] = f.Index2)
    BY <2>1, <1>3, PairParts
  <2> HIDE DEF x
  <2> QED
    BY <1>1, <1>2, <1>4, <2>1, <2>2 DEF Owed
<1>7. Owed(g) \subseteq Window(g) /\ Owed(f) \subseteq Window(f)
  BY DEF Owed
<1> QED
  BY <1>4, <1>5, <1>6, <1>7 DEF g

\* Index1 moves when Index2 has been through the window.
LEMMA OwedAfterNotify ==
  ASSUME NEW f \in Frame, f.Index2 >= f.InstallStop
  PROVE  LET g == [f EXCEPT !.Index1 = @ + 1, !.Index2 = f.InstallStart]
         IN  Owed(g) = Owed(f) /\ Window(g) = Window(f)
PROOF
<1> DEFINE g == [f EXCEPT !.Index1 = @ + 1, !.Index2 = f.InstallStart]
<1>1. /\ g.level = f.level /\ g.Index1 = f.Index1 + 1
      /\ g.Index2 = f.InstallStart
      /\ g.InstallStart = f.InstallStart /\ g.InstallStop = f.InstallStop
      /\ g.NotifyStop = f.NotifyStop
  BY DEF Frame
<1>2. f.Index1 \in Nat /\ f.Index2 \in Nat /\ f.InstallStart \in Nat /\ f.InstallStop \in Nat
  BY BoundAssumption DEF Frame
<1> HIDE DEF g
<1>3. Window(g) = Window(f)
  BY <1>1 DEF Window
<1>4. ASSUME NEW y \in Window(f)
      PROVE  y \in Owed(g) <=> y \in Owed(f)
  <2>1. /\ y[2] \in Nat /\ y[3] \in Nat
        /\ f.InstallStart <= y[3] /\ y[3] < f.InstallStop
    BY PairParts, SlotsAreNumbers DEF Window
  <2> QED
    BY <1>1, <1>2, <1>3, <2>1 DEF Owed
<1>5. Owed(g) \subseteq Window(g) /\ Owed(f) \subseteq Window(f)
  BY DEF Owed
<1> QED
  BY <1>3, <1>4, <1>5 DEF g

LEMMA OwedWhenDone ==
  ASSUME NEW f \in Frame, f.Index1 >= f.NotifyStop
  PROVE  Owed(f) = {}
BY BoundAssumption, PairParts, SlotsAreNumbers DEF Owed, Window, Frame

-----------------------------------------------------------------------------
(* The stack after a call, a move of the innermost call, and its return.   *)

LEMMA Pushed ==
  ASSUME stack \in Seq(Frame), NEW level, NEW a, NEW b, NEW c, NEW d,
         CallProcessNotify(level, a, b, c, d)
  PROVE  /\ Len(stack) \in Nat /\ Len(stack') = Len(stack) + 1
         /\ \A k \in 1 .. Len(stack) : stack'[k] = stack[k]
         /\ stack'[Len(stack) + 1] = NotifyFrame(level, a, b, c, d)
         /\ stack' # <<>>
PROOF
<1> DEFINE f == NotifyFrame(level, a, b, c, d)
<1>1. stack' = Append(stack, f) /\ stack \in Seq(Frame \cup {f})
  BY DEF CallProcessNotify
<1> HIDE DEF f
<1>2. /\ Len(stack) \in Nat /\ Len(stack') = Len(stack) + 1
      /\ \A k \in 1 .. Len(stack) : stack'[k] = stack[k]
      /\ stack'[Len(stack) + 1] = f
  BY <1>1
<1> QED
  BY <1>2 DEF f

LEMMA TopSet ==
  ASSUME stack \in Seq(Frame), stack # <<>>, NEW f \in Frame, SetTop(f)
  PROVE  /\ Len(stack) \in Nat \ {0} /\ Len(stack') = Len(stack)
         /\ \A k \in 1 .. Len(stack) : k # Len(stack) => stack'[k] = stack[k]
         /\ stack'[Len(stack)] = f
         /\ stack' # <<>>
BY DEF SetTop

LEMMA PoppedOnce ==
  ASSUME stack \in Seq(Frame), stack # <<>>, stack' = Popped
  PROVE  /\ Len(stack) \in Nat \ {0} /\ Len(stack') = Len(stack) - 1
         /\ \A k \in 1 .. Len(stack') : stack'[k] = stack[k]
         /\ Len(stack) = 1 <=> stack' = <<>>
PROOF
<1>1. Len(stack) \in Nat \ {0}
  BY TopType
<1> DEFINE m == Len(stack) - 1
<1>2. m \in Nat /\ m <= Len(stack) /\ stack' = SubSeq(stack, 1, m)
  BY <1>1 DEF Popped
<1> HIDE DEF m
<1>5. Len(stack') = m /\ \A k \in 1 .. m : stack'[k] = stack[k]
  BY <1>1, <1>2
<1>3. stack' \in Seq(Frame)
  BY TopType
<1>4. stack' = <<>> <=> Len(stack') = 0
  BY <1>3
<1> QED
  BY <1>1, <1>4, <1>5 DEF m
-----------------------------------------------------------------------------
(* What every call of a service keeps.                                     *)

LEMMA DispatchedBounds ==
  ASSUME TypeOK, StackOK, CursorsOK, NEW x \in Dispatched
  PROVE  /\ x \in Pair /\ x[1] = "dispatch"
         /\ x[2] < notifyCount["dispatch"] /\ x[3] < ppiCount
PROOF
<1>1. x \in Pair
  BY DEF Dispatched, Window
<1>2. x[2] \in Nat /\ x[3] \in Nat
  BY <1>1, PairParts, SlotsAreNumbers
<1>3. /\ ppiLast \in Nat /\ notifyLast \in Nat /\ ppiCount \in Nat
      /\ notifyCount["dispatch"] \in Nat
  BY BoundAssumption DEF TypeOK, Level
<1>4. CASE x[1] = "dispatch" /\ x[2] < notifyLast /\ x[3] < ppiLast
  BY <1>1, <1>2, <1>3, <1>4 DEF CursorsOK
<1>5. CASE stack # <<>> /\ stack[1].level = "dispatch" /\ x \in Window(stack[1])
  <2>1. Len(stack) \in Nat \ {0} /\ 1 \in 1 .. Len(stack) /\ stack[1] \in Frame
    BY <1>5, TopType DEF TypeOK
  <2>2. FrameOK(stack[1])
    BY <2>1 DEF StackOK
  <2>3. /\ x[1] = "dispatch" /\ x[2] < stack[1].NotifyStop
        /\ x[3] < stack[1].InstallStop
    BY <1>5 DEF Window
  <2>4. /\ stack[1].InstallStop <= ppiCount
        /\ stack[1].NotifyStop <= notifyCount["dispatch"]
    BY <1>5, <2>2 DEF FrameOK
  <2>5. stack[1].InstallStop \in Nat /\ stack[1].NotifyStop \in Nat
    BY <2>1, BoundAssumption DEF Frame
  <2> QED
    BY <1>1, <1>2, <1>3, <2>3, <2>4, <2>5
<1> QED
  BY <1>4, <1>5 DEF Dispatched

\* Callback pairs are numbered by naturals below the counts.
LEMMA CallbackPairParts ==
  \A x \in Pair : x[1] \in Level /\ x[2] \in Nat /\ x[3] \in Nat
BY PairParts, SlotsAreNumbers

\* What a call in progress owes is about registered notifies and installed
\* PPIs.
LEMMA OwedBounds ==
  ASSUME TypeOK, StackOK, NEW k \in 1 .. Len(stack), NEW x \in Owed(stack[k])
  PROVE  /\ x \in Pair /\ x[1] = stack[k].level
         /\ x[2] < notifyCount[x[1]] /\ x[3] < ppiCount
PROOF
<1>1. stack[k] \in Frame /\ FrameOK(stack[k])
  BY DEF TypeOK, StackOK
<1>2. /\ x \in Pair /\ x[1] = stack[k].level /\ x[2] < stack[k].NotifyStop
      /\ x[3] < stack[k].InstallStop
  BY DEF Owed, Window
<1>3. x[2] \in Nat /\ x[3] \in Nat /\ x[1] \in Level
  BY <1>2, PairParts, SlotsAreNumbers
<1>4. stack[k].NotifyStop \in Nat /\ stack[k].InstallStop \in Nat
  BY <1>1, BoundAssumption DEF Frame
<1>5. ppiCount \in Nat /\ notifyCount[x[1]] \in Nat
  BY <1>3, BoundAssumption DEF TypeOK
<1> QED
  BY <1>1, <1>2, <1>3, <1>4, <1>5, SMTT(30) DEF FrameOK

LEMMA FrameParts ==
  ASSUME NEW f \in Frame
  PROVE  /\ f.level \in Level /\ f.busy \in BOOLEAN
         /\ f.Index1 \in Nat /\ f.Index2 \in Nat
         /\ f.InstallStart \in Nat /\ f.InstallStop \in Nat
         /\ f.NotifyStop \in Nat
BY BoundAssumption DEF Frame

LEMMA FrameOKGrows ==
  ASSUME NEW f \in Frame, FrameOK(f),
         ppiCount \in Nat, ppiCount' \in Nat, ppiCount <= ppiCount',
         \A l \in Level : /\ notifyCount[l] \in Nat /\ notifyCount'[l] \in Nat
                          /\ notifyCount[l] <= notifyCount'[l]
  PROVE  FrameOK(f)'
PROOF
<1>1. /\ f.level \in Level /\ f.InstallStop \in Nat /\ f.NotifyStop \in Nat
  BY FrameParts
<1>2. f.InstallStop <= ppiCount' /\ f.NotifyStop <= notifyCount'[f.level]
  BY <1>1 DEF FrameOK
<1> QED
  BY <1>2 DEF FrameOK

\* A service called by whoever runs starts a callback level ProcessNotify
\* on top of the stack; the lists only grow.
LEMMA CallbackPush ==
  ASSUME TypeOK, StackOK, CursorsOK, Running,
         NEW a \in Nat, NEW b \in Nat, NEW c \in Nat, NEW d \in Nat, a <= b, c <= d,
         CallProcessNotify("callback", a, b, c, d),
         ppiCount' \in Nat, ppiCount <= ppiCount', b <= ppiCount',
         notifyCount' \in [Level -> Nat],
         \A l \in Level : notifyCount[l] <= notifyCount'[l],
         d <= notifyCount'["callback"],
         UNCHANGED <<ppiLast, notifyLast, control>>
  PROVE  StackOK' /\ CursorsOK' /\ Dispatched' = Dispatched
PROOF
<1> DEFINE f == NotifyFrame("callback", a, b, c, d)
<1>1. /\ Len(stack) \in Nat /\ Len(stack') = Len(stack) + 1
      /\ \A k \in 1 .. Len(stack) : stack'[k] = stack[k]
      /\ stack'[Len(stack) + 1] = f
      /\ stack' # <<>>
  BY Pushed DEF TypeOK
<1>2. /\ f.level = "callback" /\ f.Index1 = c /\ f.Index2 = a
      /\ f.InstallStart = a /\ f.InstallStop = b /\ f.NotifyStop = d
  BY DEF NotifyFrame
<1> HIDE DEF f
<1>3. /\ ppiCount \in Nat /\ ppiLast \in Nat /\ notifyLast \in Nat
      /\ \A l \in Level : notifyCount[l] \in Nat /\ notifyCount'[l] \in Nat
      /\ "dispatch" \in Level
  BY BoundAssumption DEF TypeOK, Level
<1>4. /\ control # "done"
      /\ stack = <<>> => control = "peim"
      /\ stack # <<>> => Len(stack) \in Nat \ {0} /\ 1 \in 1 .. Len(stack) /\ stack'[1] = stack[1]
  BY <1>1, TopType DEF Running, StackOK, TypeOK
<1>5. CursorsOK'
  BY <1>3, <1>4 DEF CursorsOK
<1>6. ASSUME NEW k \in 1 .. Len(stack')
      PROVE  /\ FrameOK(stack[k])'
             /\ k < Len(stack') => stack'[k].busy
             /\ stack'[k].level = "dispatch" =>
                  k = 1 /\ control \in {"notifies", "ppis"}
  <2>1. CASE k = Len(stack) + 1
    BY <1>1, <1>2, <2>1 DEF FrameOK
  <2>2. CASE k \in 1 .. Len(stack)
    <3>1. stack'[k] = stack[k] /\ FrameOK(stack[k]) /\ stack[k] \in Frame
      BY <1>1, <2>2 DEF StackOK, TypeOK
    <3>2. FrameOK(stack[k])'
      BY <1>3, <3>1, FrameOKGrows
    <3>3. stack[k].busy
      BY <1>1, <2>2, TopType DEF StackOK, Running, Top, TypeOK
    <3> QED
      BY <2>2, <3>1, <3>2, <3>3 DEF StackOK
  <2> QED
    BY <1>1, <2>1, <2>2
<1>7. /\ control' \in {"notifies", "ppis"} => stack'[1].level = "dispatch"
      /\ control' = "notifies" =>
            /\ stack'[1].InstallStart = 0 /\ stack'[1].InstallStop = ppiLast'
            /\ notifyLast' <= stack'[1].Index1
      /\ control' = "ppis" =>
            stack'[1].InstallStart = ppiLast' /\ stack'[1].NotifyStop = notifyLast'
  BY <1>4 DEF StackOK
<1>8. StackOK'
  BY <1>1, <1>4, <1>6, <1>7 DEF StackOK
<1>9. Dispatched' = Dispatched
  <2>1. CASE stack = <<>>
    <3>1. stack'[1] = f /\ f.level # "dispatch"
      BY <1>1, <1>2, <2>1
    <3> QED
      BY <1>1, <2>1, <3>1 DEF Dispatched
  <2>2. CASE stack # <<>>
    BY <1>1, <1>4, <2>2 DEF Dispatched
  <2> QED
    BY <2>1, <2>2
<1> QED
  BY <1>5, <1>8, <1>9

\* A new call may owe pairs of slots never reinstalled only if nobody was
\* signalled for them and no call in progress owes them.
LEMMA PushOwedOnce ==
  ASSUME TypeOK, OwedOnce,
         NEW level, NEW a, NEW b, NEW c, NEW d,
         CallProcessNotify(level, a, b, c, d),
         \A x \in Owed(NotifyFrame(level, a, b, c, d)) : x[3] \notin reinstalled' =>
            calls[x] = 0 /\ \A k \in 1 .. Len(stack) : x \notin Owed(stack[k]),
         Dispatched' = Dispatched, calls' = calls, reinstalled \subseteq reinstalled',
         ppiCount' \in Nat, ppiCount <= ppiCount', notifyCount' \in [Level -> Nat],
         \A l \in Level : notifyCount[l] <= notifyCount'[l]
  PROVE  OwedOnce'
PROOF
<1> DEFINE f == NotifyFrame(level, a, b, c, d)
<1>1. /\ Len(stack) \in Nat /\ Len(stack') = Len(stack) + 1
      /\ \A k \in 1 .. Len(stack) : stack'[k] = stack[k]
      /\ stack'[Len(stack) + 1] = f
  BY Pushed DEF TypeOK
<1> SUFFICES ASSUME NEW x \in Pair, x[3] \notin reinstalled'
             PROVE  /\ calls[x] <= 1
                    /\ (x[2] >= notifyCount'[x[1]] \/ x[3] >= ppiCount') => calls[x] = 0
                    /\ (x[1] = "dispatch" /\ x \notin Dispatched) => calls[x] = 0
                    /\ \A k \in 1 .. Len(stack') : x \in Owed(stack'[k]) =>
                         /\ calls[x] = 0
                         /\ \A j \in 1 .. Len(stack') : x \in Owed(stack'[j]) => j = k
  BY DEF OwedOnce
<1> HIDE DEF f
<1>2. /\ x[3] \notin reinstalled /\ x[1] \in Level /\ x[2] \in Nat /\ x[3] \in Nat
      /\ notifyCount[x[1]] \in Nat /\ notifyCount'[x[1]] \in Nat /\ ppiCount \in Nat
  BY PairParts, SlotsAreNumbers, BoundAssumption DEF TypeOK
<1>3. /\ calls[x] <= 1
      /\ (x[2] >= notifyCount[x[1]] \/ x[3] >= ppiCount) => calls[x] = 0
      /\ (x[1] = "dispatch" /\ x \notin Dispatched) => calls[x] = 0
      /\ \A k \in 1 .. Len(stack) : x \in Owed(stack[k]) =>
           /\ calls[x] = 0
           /\ \A j \in 1 .. Len(stack) : x \in Owed(stack[j]) => j = k
  BY <1>2 DEF OwedOnce
<1>4. (x[2] >= notifyCount'[x[1]] \/ x[3] >= ppiCount') => calls[x] = 0
  BY <1>2, <1>3
<1>5. ASSUME NEW k \in 1 .. Len(stack'), x \in Owed(stack'[k])
      PROVE  /\ calls[x] = 0
             /\ \A j \in 1 .. Len(stack') : x \in Owed(stack'[j]) => j = k
  <2>1. CASE x \in Owed(f)
    <3>1. calls[x] = 0 /\ \A j \in 1 .. Len(stack) : x \notin Owed(stack[j])
      BY <2>1 DEF f
    <3> QED
      BY <1>1, <1>5, <3>1
  <2>2. CASE x \notin Owed(f)
    <3>1. \A j \in 1 .. Len(stack') : x \in Owed(stack'[j]) =>
             j \in 1 .. Len(stack) /\ x \in Owed(stack[j])
      BY <1>1, <2>2
    <3> QED
      BY <1>3, <1>5, <3>1
  <2> QED
    BY <2>1, <2>2
<1> QED
  BY <1>3, <1>4, <1>5
-----------------------------------------------------------------------------
(* The services preserve the invariant.                                    *)

\* Nothing of the invariant speaks of the slots above the counts: writing
\* there without raising the counts, as a rejected list does, keeps it.
LEMMA UnusedSlots ==
  ASSUME IInv, TypeOK',
         \A p \in PpiSlot : p < ppiCount => ppiPtrs'[p] = ppiPtrs[p],
         \A l \in Level, n \in NotifySlot :
            n < notifyCount[l] => notifyPtrs'[l][n] = notifyPtrs[l][n],
         UNCHANGED <<ppiCount, ppiLast, notifyCount, notifyLast, stack,
                     control, calls, told, reinstalled>>
  PROVE  IInv'
PROOF
<1>1. StackOK' /\ CursorsOK'
  BY DEF IInv, StackOK, CursorsOK, FrameOK
<1>2. Dispatched' = Dispatched
  BY DEF Dispatched
<1>3. OwedOnce'
  BY <1>2 DEF IInv, OwedOnce
<1>4. ASSUME NEW x \in Pair, x[2] < notifyCount[x[1]], x[3] < ppiCount
      PROVE  ppiPtrs'[x[3]] = ppiPtrs[x[3]] /\ PairMatches(x)' = PairMatches(x)
  BY <1>4, PairParts DEF PairMatches, Matches
<1>5. CallbackPairs' = CallbackPairs /\ \A x \in CallbackPairs :
         x \in Pair /\ x[2] < notifyCount[x[1]] /\ x[3] < ppiCount
  BY DEF CallbackPairs
<1>6. CallbacksOwed'
  BY <1>4, <1>5 DEF IInv, CallbacksOwed
<1>7. DispatchedTold'
  BY <1>2, <1>4, DispatchedBounds DEF IInv, DispatchedTold
<1> QED
  BY <1>1, <1>3, <1>6, <1>7 DEF IInv

LEMMA InstallInv ==
  ASSUME IInv, NEW list \in PpiLists, InstallPpi(list)
  PROVE  IInv'
PROOF
<1>0. TypeOK /\ TypeOK'
  BY InstallType DEF IInv
<1>1. /\ list \in Seq(Ppi) /\ ValidPpis(list) \in Seq(Ppi) /\ Len(list) \in Nat
      /\ ppiCount \in Nat /\ notifyCount \in [Level -> Nat]
      /\ "callback" \in Level
  BY <1>0, ListAssumption, ValidPpisType, BoundAssumption DEF TypeOK, Level
<1>4. MaxPpis \in Nat /\ ppiPtrs \in [0 .. MaxPpis - 1 -> Ppi \cup {Empty}]
  BY <1>0, BoundAssumption DEF TypeOK, PpiSlot
<1>2. CASE InstallRejected(list)
  <2>1. \A p \in PpiSlot : p < ppiCount => ppiPtrs'[p] = ppiPtrs[p]
    BY <1>1, <1>2, <1>4, WrittenKeeps DEF InstallRejected, PpiSlot
  <2>2. UNCHANGED <<ppiCount, ppiLast, notifyPtrs, notifyCount, notifyLast,
                    stack, control, calls, told, reinstalled>>
    BY <1>2 DEF InstallRejected, history
  <2> QED
    BY <1>0, <2>1, <2>2, UnusedSlots
<1>3. CASE InstallAccepted(list)
  <2> DEFINE f == NotifyFrame("callback", ppiCount, ppiCount + Len(list),
                              0, notifyCount["callback"])
  <2>1. \A p \in PpiSlot : p < ppiCount => ppiPtrs'[p] = ppiPtrs[p]
    BY <1>1, <1>3, <1>4, WrittenKeeps DEF InstallAccepted, PpiSlot
  <2>2. /\ ppiCount' = ppiCount + Len(list)
        /\ CallProcessNotify("callback", ppiCount, ppiCount + Len(list),
                             0, notifyCount["callback"])
        /\ UNCHANGED <<ppiLast, notifyPtrs, notifyCount, notifyLast, control,
                       calls, told, reinstalled, reinstalls>>
    BY <1>3 DEF InstallAccepted, history
  <2>3. Running /\ StackOK /\ CursorsOK
    BY DEF InstallPpi, IInv
  <2>4. StackOK' /\ CursorsOK' /\ Dispatched' = Dispatched
    BY <1>0, <1>1, <2>2, <2>3, CallbackPush
  <2>5. Owed(f) = {x \in Pair : /\ x[1] = "callback" /\ 0 <= x[2]
                                /\ x[2] < notifyCount["callback"]
                                /\ ppiCount <= x[3] /\ x[3] < ppiCount + Len(list)}
    <3> DEFINE b == ppiCount + Len(list)
               d == notifyCount["callback"]
    <3>1. b \in Nat /\ d \in Nat /\ 0 \in Nat
      BY <1>1
    <3> HIDE DEF b, d
    <3>2. Owed(NotifyFrame("callback", ppiCount, b, 0, d)) =
            {x \in Pair : /\ x[1] = "callback" /\ 0 <= x[2] /\ x[2] < d
                          /\ ppiCount <= x[3] /\ x[3] < b}
      BY <1>1, <3>1, OwedAtFirst
    <3> QED
      BY <3>2 DEF b, d
  <2>6. ASSUME NEW x \in Owed(f), x[3] \notin reinstalled'
        PROVE  calls[x] = 0 /\ \A k \in 1 .. Len(stack) : x \notin Owed(stack[k])
    <3>1. x \in Pair /\ x[3] >= ppiCount /\ x[3] \in Nat
      BY <1>1, <2>5, PairParts, SlotsAreNumbers
    <3>2. calls[x] = 0
      BY <2>2, <2>6, <3>1 DEF IInv, OwedOnce
    <3>3. \A k \in 1 .. Len(stack) : x \notin Owed(stack[k])
      BY <1>0, <1>1, <2>3, <3>1, OwedBounds
    <3> QED
      BY <3>2, <3>3
  <2>7. OwedOnce'
    BY <1>0, <1>1, <2>2, <2>4, <2>6, PushOwedOnce DEF IInv
  <2>8. DispatchedTold'
    <3>1. ASSUME NEW x \in Dispatched
          PROVE  ppiPtrs'[x[3]] = ppiPtrs[x[3]] /\ PairMatches(x)' = PairMatches(x)
      BY <1>0, <2>1, <2>2, <2>3, DispatchedBounds, PairParts DEF PairMatches, Matches
    <3> QED
      BY <2>2, <2>4, <3>1 DEF IInv, DispatchedTold
  <2>9. CallbacksOwed'
    <3>1. /\ Len(stack) \in Nat /\ Len(stack') = Len(stack) + 1
          /\ \A k \in 1 .. Len(stack) : stack'[k] = stack[k]
          /\ stack'[Len(stack) + 1] = f
      BY <1>0, <2>2, Pushed DEF TypeOK
    <3> HIDE DEF f
    <3> SUFFICES ASSUME NEW x \in CallbackPairs', PairMatches(x)'
                 PROVE  \/ told[x] = ppiPtrs'[x[3]]
                        \/ \E k \in 1 .. Len(stack') : x \in Owed(stack'[k])
      BY <2>2 DEF CallbacksOwed
    <3>2. /\ x \in Pair /\ x[1] = "callback" /\ x[2] < notifyCount["callback"]
          /\ x[3] < ppiCount + Len(list) /\ x[2] \in Nat /\ x[3] \in Nat
      BY <2>2, CallbackPairParts DEF CallbackPairs
    <3>3. CASE x[3] < ppiCount
      <4>1. x \in CallbackPairs
        BY <3>2, <3>3 DEF CallbackPairs
      <4>2. ppiPtrs'[x[3]] = ppiPtrs[x[3]] /\ PairMatches(x)
        BY <2>1, <2>2, <3>2, <3>3, PairParts DEF PairMatches, Matches
      <4> QED
        BY <3>1, <4>1, <4>2 DEF IInv, CallbacksOwed
    <3>4. CASE x[3] >= ppiCount
      <4>1. x \in Owed(f)
        BY <2>5, <3>2, <3>4
      <4> QED
        BY <3>1, <4>1
    <3> QED
      BY <1>1, <3>2, <3>3, <3>4
  <2> QED
    BY <1>0, <2>4, <2>7, <2>8, <2>9 DEF IInv
<1> QED
  BY <1>2, <1>3 DEF InstallPpi

LEMMA ReInstallInv ==
  ASSUME IInv, NEW old \in Ppi, NEW new \in Ppi, ReInstallPpi(old, new)
  PROVE  IInv'
PROOF
<1>0. TypeOK /\ TypeOK'
  BY ReInstallType DEF IInv
<1>1. PICK i \in FirstSlot(old) :
        /\ ppiPtrs' = [ppiPtrs EXCEPT ![i] = new]
        /\ reinstalled' = reinstalled \cup {i}
        /\ CallProcessNotify("callback", i, i + 1, 0, notifyCount["callback"])
  BY DEF ReInstallPpi
<1> DEFINE f == NotifyFrame("callback", i, i + 1, 0, notifyCount["callback"])
<1>2. /\ i \in Nat /\ i < ppiCount /\ ppiCount \in Nat
      /\ notifyCount \in [Level -> Nat] /\ "callback" \in Level
  BY <1>0, BoundAssumption DEF FirstSlot, TypeOK, Level
<1>3. \A p \in PpiSlot : p # i => ppiPtrs'[p] = ppiPtrs[p]
  BY <1>0, <1>1 DEF TypeOK
<1>4. /\ Running /\ StackOK /\ CursorsOK
      /\ UNCHANGED <<ppiCount, ppiLast, notifyPtrs, notifyCount, notifyLast,
                     control, calls, told>>
  BY DEF ReInstallPpi, IInv
<1>5. StackOK' /\ CursorsOK' /\ Dispatched' = Dispatched
  BY <1>0, <1>1, <1>2, <1>4, CallbackPush
<1>6. Owed(f) = {x \in Pair : /\ x[1] = "callback" /\ 0 <= x[2]
                              /\ x[2] < notifyCount["callback"]
                              /\ i <= x[3] /\ x[3] < i + 1}
  BY <1>2, OwedAtFirst
<1>7. OwedOnce'
  <2>1. \A x \in Owed(f) : x[3] \in reinstalled'
    BY <1>1, <1>2, <1>6, PairParts, SlotsAreNumbers
  <2> QED
    BY <1>0, <1>1, <1>2, <1>4, <1>5, <2>1, PushOwedOnce DEF IInv
<1>8. DispatchedTold'
  <2>1. ASSUME NEW x \in Dispatched, x[3] \notin reinstalled'
        PROVE  ppiPtrs'[x[3]] = ppiPtrs[x[3]] /\ PairMatches(x)' = PairMatches(x)
    <3>1. x \in Pair /\ x[3] # i
      BY <1>0, <1>1, <1>4, <2>1, DispatchedBounds
    <3> QED
      BY <1>3, <1>4, <3>1, PairParts DEF PairMatches, Matches
  <2> QED
    BY <1>1, <1>4, <1>5, <2>1 DEF IInv, DispatchedTold
<1>9. CallbacksOwed'
  <2>1. /\ Len(stack) \in Nat /\ Len(stack') = Len(stack) + 1
        /\ \A k \in 1 .. Len(stack) : stack'[k] = stack[k]
        /\ stack'[Len(stack) + 1] = f
    BY <1>0, <1>1, Pushed DEF TypeOK
  <2> HIDE DEF f
  <2> SUFFICES ASSUME NEW x \in CallbackPairs, PairMatches(x)'
               PROVE  \/ told[x] = ppiPtrs'[x[3]]
                      \/ \E k \in 1 .. Len(stack') : x \in Owed(stack'[k])
    BY <1>4 DEF CallbacksOwed, CallbackPairs
  <2>2. /\ x \in Pair /\ x[1] = "callback" /\ x[2] < notifyCount["callback"]
        /\ x[2] \in Nat /\ x[3] \in Nat
    BY CallbackPairParts DEF CallbackPairs
  <2>3. CASE x[3] = i
    <3>1. x \in Owed(f)
      BY <1>2, <1>6, <2>2, <2>3
    <3> QED
      BY <2>1, <3>1
  <2>4. CASE x[3] # i
    <3>1. ppiPtrs'[x[3]] = ppiPtrs[x[3]] /\ PairMatches(x)
      BY <1>3, <1>4, <2>2, <2>4, PairParts DEF PairMatches, Matches
    <3> QED
      BY <2>1, <3>1 DEF IInv, CallbacksOwed
  <2> QED
    BY <2>3, <2>4
<1> QED
  BY <1>0, <1>5, <1>7, <1>8, <1>9 DEF IInv

LEMMA NotifyInv ==
  ASSUME IInv, NEW list \in NotifyLists, NotifyPpi(list)
  PROVE  IInv'
PROOF
<1>0. TypeOK /\ TypeOK'
  BY NotifyType DEF IInv
<1>1. /\ list \in Seq(Notify) /\ ValidNotifies(list) \in Seq(Notify)
      /\ ppiCount \in Nat /\ notifyCount \in [Level -> Nat]
      /\ notifyCount' \in [Level -> Nat] /\ "callback" \in Level
  BY <1>0, ListAssumption, ValidNotifiesType, BoundAssumption DEF TypeOK, Level
<1>2. CASE NotifyRejected(list)
  <2>1. \A l \in Level, n \in NotifySlot :
          n < notifyCount[l] => notifyPtrs'[l][n] = notifyPtrs[l][n]
    BY <1>0, <1>1, <1>2, RegisteredKeeps DEF NotifyRejected
  <2>2. UNCHANGED <<ppiPtrs, ppiCount, ppiLast, notifyCount, notifyLast,
                    stack, control, calls, told, reinstalled>>
    BY <1>2 DEF NotifyRejected, history
  <2> QED
    BY <1>0, <2>1, <2>2, UnusedSlots
<1>3. CASE NotifyAccepted(list)
  <2> DEFINE c == notifyCount["callback"]
             d == notifyCount'["callback"]
             f == NotifyFrame("callback", 0, ppiCount, c, d)
  <2>1. \A l \in Level, n \in NotifySlot :
          n < notifyCount[l] => notifyPtrs'[l][n] = notifyPtrs[l][n]
    BY <1>0, <1>1, <1>3, RegisteredKeeps DEF NotifyAccepted
  <2>2. /\ CallProcessNotify("callback", 0, ppiCount, c, d)
        /\ UNCHANGED <<ppiPtrs, ppiCount, ppiLast, notifyLast, control,
                       calls, told, reinstalled, reinstalls>>
    BY <1>3 DEF NotifyAccepted, history
  <2>3. \A l \in Level : notifyCount[l] <= notifyCount'[l]
    <3>1. ASSUME NEW l \in Level
          PROVE  /\ notifyCount'[l] = notifyCount[l] + Cardinality(AtLevel(list, l))
                 /\ Cardinality(AtLevel(list, l)) \in Nat
      BY <1>1, <1>3, AtLevelBound DEF NotifyAccepted
    <3> QED
      BY <1>1, <3>1
  <2>4. Running /\ StackOK /\ CursorsOK
    BY DEF NotifyPpi, IInv
  <2>5. StackOK' /\ CursorsOK' /\ Dispatched' = Dispatched
    <3>1. /\ c \in Nat /\ d \in Nat /\ 0 \in Nat /\ 0 <= ppiCount /\ c <= d
          /\ ppiCount' \in Nat /\ ppiCount <= ppiCount' /\ d <= notifyCount'["callback"]
      BY <1>1, <2>2, <2>3
    <3> HIDE DEF c, d
    <3> QED
      BY <1>0, <1>1, <2>2, <2>3, <2>4, <3>1, CallbackPush
  <2>6. Owed(f) = {x \in Pair : /\ x[1] = "callback" /\ c <= x[2] /\ x[2] < d
                                /\ 0 <= x[3] /\ x[3] < ppiCount}
    <3>1. c \in Nat /\ d \in Nat /\ 0 \in Nat
      BY <1>1
    <3> HIDE DEF c, d
    <3> QED
      BY <1>1, <3>1, OwedAtFirst, SMTT(30)
  <2>7. ASSUME NEW x \in Owed(f), x[3] \notin reinstalled'
        PROVE  calls[x] = 0 /\ \A k \in 1 .. Len(stack) : x \notin Owed(stack[k])
    <3>1. x \in Pair /\ x[1] = "callback" /\ x[2] >= c /\ x[2] \in Nat /\ c \in Nat
      BY <1>1, <2>6, PairParts, SlotsAreNumbers
    <3>2. calls[x] = 0
      BY <2>2, <2>7, <3>1 DEF IInv, OwedOnce
    <3>3. \A k \in 1 .. Len(stack) : x \notin Owed(stack[k])
      BY <1>0, <2>4, <3>1, OwedBounds
    <3> QED
      BY <3>2, <3>3
  <2>8. OwedOnce'
    BY <1>0, <1>1, <2>2, <2>3, <2>5, <2>7, PushOwedOnce DEF IInv
  <2>9. DispatchedTold'
    <3>1. ASSUME NEW x \in Dispatched
          PROVE  PairMatches(x)' = PairMatches(x)
      BY <1>0, <2>1, <2>2, <2>4, <3>1, DispatchedBounds, PairParts
         DEF PairMatches, Matches
    <3> QED
      BY <2>2, <2>5, <3>1 DEF IInv, DispatchedTold
  <2>10. CallbacksOwed'
    <3>1. /\ Len(stack) \in Nat /\ Len(stack') = Len(stack) + 1
          /\ \A k \in 1 .. Len(stack) : stack'[k] = stack[k]
          /\ stack'[Len(stack) + 1] = f
      BY <1>0, <2>2, Pushed DEF TypeOK
    <3> HIDE DEF f
    <3> SUFFICES ASSUME NEW x \in CallbackPairs', PairMatches(x)'
                 PROVE  \/ told[x] = ppiPtrs[x[3]]
                        \/ \E k \in 1 .. Len(stack') : x \in Owed(stack'[k])
      BY <2>2 DEF CallbacksOwed
    <3>2. /\ x \in Pair /\ x[1] = "callback" /\ x[2] < d
          /\ x[3] < ppiCount /\ x[2] \in Nat /\ x[3] \in Nat /\ c \in Nat
      BY <1>1, <2>2, CallbackPairParts DEF CallbackPairs
    <3>3. CASE x[2] < c
      <4>1. x \in CallbackPairs
        BY <3>2, <3>3 DEF CallbackPairs
      <4>2. PairMatches(x)
        BY <2>1, <2>2, <3>2, <3>3, PairParts DEF PairMatches, Matches
      <4> QED
        BY <3>1, <4>1, <4>2 DEF IInv, CallbacksOwed
    <3>4. CASE x[2] >= c
      <4>1. x \in Owed(f)
        BY <2>6, <3>2, <3>4
      <4> QED
        BY <3>1, <4>1
    <3> QED
      BY <3>2, <3>3, <3>4
  <2> QED
    BY <1>0, <2>5, <2>8, <2>9, <2>10 DEF IInv
<1> QED
  BY <1>2, <1>3 DEF NotifyPpi
-----------------------------------------------------------------------------
(* The moves and returns of ProcessNotify preserve the invariant.          *)

LEMMA TopFrameOK ==
  ASSUME TypeOK, StackOK, stack # <<>>
  PROVE  FrameOK(Top)
PROOF
<1>1. Len(stack) \in 1 .. Len(stack)
  BY TopType DEF TypeOK
<1> QED
  BY <1>1 DEF StackOK, Top

\* A move of the innermost call keeps its window and takes pairs off what it
\* owes; at the dispatch level those pairs become dispatched.
LEMMA TopMoves ==
  ASSUME TypeOK, StackOK, CursorsOK, stack # <<>>,
         NEW g \in Frame, SetTop(g), FrameOK(g),
         g.level = Top.level, g.InstallStart = Top.InstallStart,
         g.InstallStop = Top.InstallStop, g.NotifyStop = Top.NotifyStop,
         g.Index1 >= Top.Index1, Owed(g) \subseteq Owed(Top),
         UNCHANGED <<ppiCount, notifyCount, ppiLast, notifyLast, control>>
  PROVE  /\ StackOK' /\ CursorsOK'
         /\ Dispatched \subseteq Dispatched'
         /\ Dispatched' \subseteq Dispatched \cup (Owed(Top) \ Owed(g))
PROOF
<1>1. /\ Len(stack) \in Nat \ {0} /\ Len(stack') = Len(stack)
      /\ \A k \in 1 .. Len(stack) : k # Len(stack) => stack'[k] = stack[k]
      /\ stack'[Len(stack)] = g
      /\ stack' # <<>>
  BY TopSet DEF TypeOK
<1>2. Top = stack[Len(stack)] /\ Len(stack) \in 1 .. Len(stack) /\ 1 \in 1 .. Len(stack)
  BY <1>1 DEF Top
<1>3. Top \in Frame /\ stack[1] \in Frame
  BY <1>2 DEF TypeOK
<1>4. CursorsOK'
  BY DEF CursorsOK
<1>5. stack'[1] = IF Len(stack) = 1 THEN g ELSE stack[1]
  BY <1>1, <1>2
<1>6. ASSUME NEW k \in 1 .. Len(stack')
      PROVE  /\ FrameOK(stack[k])'
             /\ k < Len(stack') => stack'[k].busy
             /\ stack'[k].level = "dispatch" =>
                  k = 1 /\ control' \in {"notifies", "ppis"}
  <2>1. CASE k = Len(stack)
    BY <1>1, <1>2, <2>1 DEF FrameOK, StackOK
  <2>2. CASE k # Len(stack)
    BY <1>1, <2>2 DEF FrameOK, StackOK
  <2> QED
    BY <2>1, <2>2
<1>7. /\ control # "done"
      /\ control \in {"notifies", "ppis"} => stack[1].level = "dispatch"
      /\ control = "notifies" =>
           /\ stack[1].InstallStart = 0 /\ stack[1].InstallStop = ppiLast
           /\ notifyLast <= stack[1].Index1
      /\ control = "ppis" =>
           stack[1].InstallStart = ppiLast /\ stack[1].NotifyStop = notifyLast
  BY DEF StackOK
<1>8. /\ control \in {"notifies", "ppis"} => stack'[1].level = "dispatch"
      /\ control = "notifies" =>
           /\ stack'[1].InstallStart = 0 /\ stack'[1].InstallStop = ppiLast
           /\ notifyLast <= stack'[1].Index1
      /\ control = "ppis" =>
           stack'[1].InstallStart = ppiLast /\ stack'[1].NotifyStop = notifyLast
  <2>1. CASE Len(stack) = 1
    <3>1. stack[1] = Top /\ stack'[1] = g
      BY <1>2, <1>5, <2>1
    <3>2. g.Index1 \in Nat /\ Top.Index1 \in Nat /\ notifyLast \in Nat
      BY <1>3, FrameParts, BoundAssumption DEF TypeOK
    <3> QED
      BY <1>7, <3>1, <3>2
  <2>2. CASE Len(stack) # 1
    BY <1>5, <1>7, <2>2
  <2> QED
    BY <2>1, <2>2
<1>9. StackOK'
  BY <1>1, <1>6, <1>7, <1>8 DEF StackOK
<1>10. Window(g) = Window(Top)
  BY DEF Window
<1>11. /\ Dispatched \subseteq Dispatched'
       /\ Dispatched' \subseteq Dispatched \cup (Owed(Top) \ Owed(g))
  <2>1. CASE Len(stack) = 1
    <3>1. stack[1] = Top /\ stack'[1] = g
      BY <1>2, <1>5, <2>1
    <3>2. Dispatched =
            {x \in Pair : x[1] = "dispatch" /\ x[2] < notifyLast /\ x[3] < ppiLast}
            \cup (IF Top.level = "dispatch" THEN (Window(Top) \ Owed(Top)) ELSE {})
      BY <3>1 DEF Dispatched
    <3>3. Dispatched' =
            {x \in Pair : x[1] = "dispatch" /\ x[2] < notifyLast /\ x[3] < ppiLast}
            \cup (IF Top.level = "dispatch" THEN (Window(Top) \ Owed(g)) ELSE {})
      BY <1>1, <1>10, <3>1 DEF Dispatched
    <3>4. Owed(Top) \subseteq Window(Top)
      BY DEF Owed
    <3> QED
      BY <3>2, <3>3, <3>4
  <2>2. CASE Len(stack) # 1
    BY <1>1, <1>5, <2>2 DEF Dispatched
  <2> QED
    BY <2>1, <2>2
<1> QED
  BY <1>4, <1>9, <1>11

\* A move that passes no pair whose GUIDs are equal.
LEMMA QuietMove ==
  ASSUME IInv, TypeOK', stack # <<>>,
         NEW g \in Frame, SetTop(g), FrameOK(g),
         g.level = Top.level, g.InstallStart = Top.InstallStart,
         g.InstallStop = Top.InstallStop, g.NotifyStop = Top.NotifyStop,
         g.Index1 >= Top.Index1, Owed(g) \subseteq Owed(Top),
         \A x \in Owed(Top) \ Owed(g) : ~PairMatches(x),
         UNCHANGED <<database, history, ppiLast, notifyLast, control>>
  PROVE  IInv'
PROOF
<1>1. UNCHANGED <<ppiPtrs, ppiCount, notifyPtrs, notifyCount, ppiLast, notifyLast,
                  control, calls, told, reinstalled>>
  BY DEF database, history
<1>2. /\ StackOK' /\ CursorsOK'
      /\ Dispatched \subseteq Dispatched'
      /\ Dispatched' \subseteq Dispatched \cup (Owed(Top) \ Owed(g))
  BY <1>1, TopMoves DEF IInv
<1>3. /\ Len(stack) \in Nat \ {0} /\ Len(stack') = Len(stack)
      /\ \A k \in 1 .. Len(stack) : k # Len(stack) => stack'[k] = stack[k]
      /\ stack'[Len(stack)] = g
  BY TopSet DEF IInv, TypeOK
<1>4. \A x \in Pair : PairMatches(x)' = PairMatches(x)
  BY <1>1 DEF PairMatches, Matches
<1>5. DispatchedTold'
  <2>1. ASSUME NEW x \in Dispatched', PairMatches(x)
        PROVE  x \in Dispatched
    BY <1>2, <2>1
  <2>2. \A x \in Dispatched' : x \in Pair
    BY <1>2 DEF Dispatched, Owed, Window
  <2> QED
    BY <1>1, <1>4, <2>1, <2>2 DEF IInv, DispatchedTold
<1>6. Top = stack[Len(stack)] /\ Len(stack) \in 1 .. Len(stack)
  BY <1>3 DEF Top
<1>7. ASSUME NEW x, NEW k \in 1 .. Len(stack), x \in Owed(stack'[k])
      PROVE  x \in Owed(stack[k])
  BY <1>3, <1>6, <1>7
<1>8. OwedOnce'
  BY <1>1, <1>2, <1>3, <1>7 DEF IInv, OwedOnce
<1>9. CallbacksOwed'
  <2> SUFFICES ASSUME NEW x \in CallbackPairs, PairMatches(x)
               PROVE  \/ told[x] = ppiPtrs[x[3]]
                      \/ \E k \in 1 .. Len(stack) : x \in Owed(stack'[k])
    BY <1>1, <1>3, <1>4 DEF CallbacksOwed, CallbackPairs
  <2>1. CASE told[x] = ppiPtrs[x[3]]
    BY <2>1
  <2>2. CASE \E k \in 1 .. Len(stack) : x \in Owed(stack[k])
    <3>1. PICK k \in 1 .. Len(stack) : x \in Owed(stack[k])
      BY <2>2
    <3>2. CASE k # Len(stack)
      BY <1>3, <3>1, <3>2
    <3>3. CASE k = Len(stack)
      <4>1. x \in Owed(g)
        BY <1>6, <3>1, <3>3
      <4> QED
        BY <1>3, <1>6, <4>1
    <3> QED
      BY <3>2, <3>3
  <2> QED
    BY <2>1, <2>2 DEF IInv, CallbacksOwed
<1> QED
  BY <1>2, <1>5, <1>8, <1>9 DEF IInv

LEMMA SkipInv ==
  ASSUME IInv, Skip
  PROVE  IInv'
PROOF
<1> DEFINE g == [Top EXCEPT !.Index2 = @ + 1]
           h == [Top EXCEPT !.Index2 = @ + 1, !.busy = FALSE]
           x == <<Top.level, Top.Index1, Top.Index2>>
<1>1. TypeOK' /\ TypeOK /\ StackOK
  BY CoreType DEF IInv, Core
<1>2. /\ stack # <<>> /\ Top \in Frame /\ g \in Frame /\ SetTop(g) /\ ~Top.busy
      /\ Top.Index1 < Top.NotifyStop /\ Top.Index2 < Top.InstallStop
  BY <1>1, TopType, FrameMoves DEF Skip, AtPair, Looping, TypeOK
<1>3. g = h
  BY <1>2 DEF Frame
<1>4. FrameOK(Top)
  BY <1>1, <1>2, TopFrameOK
<1>5. Top.InstallStart <= Top.Index2
  BY <1>4 DEF FrameOK
<1>6. Owed(h) = Owed(Top) \ {x}
  BY <1>2, <1>5, OwedAfterPair
<1>7. ~PairMatches(x)
  BY DEF Skip, NotifyAt, PpiAt, PairMatches, Matches
<1>8. /\ g.level = Top.level /\ g.InstallStart = Top.InstallStart
      /\ g.InstallStop = Top.InstallStop /\ g.NotifyStop = Top.NotifyStop
      /\ g.Index1 = Top.Index1 /\ g.Index2 = Top.Index2 + 1
  BY <1>2 DEF Frame
<1>9. /\ Top.Index1 \in Nat /\ Top.Index2 \in Nat /\ Top.InstallStart \in Nat
  BY <1>2, FrameParts
<1> HIDE DEF g, h, x
<1>10. FrameOK(g)
  BY <1>4, <1>8, <1>9 DEF FrameOK
<1>11. /\ Owed(g) \subseteq Owed(Top) /\ \A y \in Owed(Top) \ Owed(g) : ~PairMatches(y)
       /\ g.Index1 >= Top.Index1
  BY <1>3, <1>6, <1>7, <1>8, <1>9
<1>12. UNCHANGED <<database, history, ppiLast, notifyLast, control>>
  BY DEF Skip
<1> QED
  BY <1>1, <1>2, <1>8, <1>10, <1>11, <1>12, QuietMove

LEMMA NextNotifyInv ==
  ASSUME IInv, NextNotify
  PROVE  IInv'
PROOF
<1> DEFINE g == [Top EXCEPT !.Index1 = @ + 1, !.Index2 = Top.InstallStart]
<1>1. TypeOK' /\ TypeOK /\ StackOK
  BY CoreType DEF IInv, Core
<1>2. /\ stack # <<>> /\ Top \in Frame /\ g \in Frame /\ SetTop(g)
      /\ Top.Index1 < Top.NotifyStop /\ Top.Index2 >= Top.InstallStop
  BY <1>1, TopType, FrameMoves DEF NextNotify, Looping, TypeOK
<1>3. FrameOK(Top)
  BY <1>1, <1>2, TopFrameOK
<1>4. Owed(g) = Owed(Top)
  BY <1>2, OwedAfterNotify
<1>5. /\ g.level = Top.level /\ g.InstallStart = Top.InstallStart
      /\ g.InstallStop = Top.InstallStop /\ g.NotifyStop = Top.NotifyStop
      /\ g.Index1 = Top.Index1 + 1 /\ g.Index2 = Top.InstallStart
  BY <1>2 DEF Frame
<1>6. Top.Index1 \in Nat /\ Top.InstallStart \in Nat /\ Top.NotifyStop \in Nat
  BY <1>2, FrameParts
<1> HIDE DEF g
<1>7. FrameOK(g)
  BY <1>2, <1>3, <1>5, <1>6 DEF FrameOK
<1>8. Owed(g) \subseteq Owed(Top) /\ Owed(Top) \ Owed(g) = {} /\ g.Index1 >= Top.Index1
  BY <1>4, <1>5, <1>6
<1>9. UNCHANGED <<database, history, ppiLast, notifyLast, control>>
  BY DEF NextNotify
<1> QED
  BY <1>1, <1>2, <1>5, <1>7, <1>8, <1>9, QuietMove

LEMMA NotificationReturnsInv ==
  ASSUME IInv, NotificationReturns
  PROVE  IInv'
PROOF
<1> DEFINE g == [Top EXCEPT !.busy = FALSE]
<1>1. TypeOK' /\ TypeOK /\ StackOK
  BY CoreType DEF IInv, Core
<1>2. stack # <<>> /\ Top \in Frame /\ g \in Frame /\ SetTop(g)
  BY <1>1, TopType, FrameMoves DEF NotificationReturns, TypeOK
<1>3. FrameOK(Top)
  BY <1>1, <1>2, TopFrameOK
<1>4. /\ g.level = Top.level /\ g.InstallStart = Top.InstallStart
      /\ g.InstallStop = Top.InstallStop /\ g.NotifyStop = Top.NotifyStop
      /\ g.Index1 = Top.Index1 /\ g.Index2 = Top.Index2
  BY <1>2 DEF Frame
<1>5. Top.Index1 \in Nat
  BY <1>2, FrameParts
<1> HIDE DEF g
<1>6. FrameOK(g) /\ Owed(g) = Owed(Top)
  BY <1>3, <1>4 DEF FrameOK, Owed, Window
<1>7. Owed(g) \subseteq Owed(Top) /\ Owed(Top) \ Owed(g) = {} /\ g.Index1 >= Top.Index1
  BY <1>4, <1>5, <1>6
<1>8. UNCHANGED <<database, history, ppiLast, notifyLast, control>>
  BY DEF NotificationReturns
<1> QED
  BY <1>1, <1>2, <1>4, <1>6, <1>7, <1>8, QuietMove

\* The pair signalled is owed by the innermost call alone, so nobody was
\* signalled for it before unless its slot was reinstalled.
LEMMA SignalInv ==
  ASSUME IInv, Signal
  PROVE  IInv'
PROOF
<1> DEFINE g == [Top EXCEPT !.Index2 = @ + 1, !.busy = TRUE]
           x == <<Top.level, Top.Index1, Top.Index2>>
<1>1. TypeOK' /\ TypeOK /\ StackOK /\ CursorsOK
  BY CoreType DEF IInv, Core
<1>2. /\ stack # <<>> /\ Top \in Frame /\ g \in Frame /\ SetTop(g)
      /\ Top.Index1 < Top.NotifyStop /\ Top.Index2 < Top.InstallStop
  BY <1>1, TopType, FrameMoves DEF Signal, AtPair, Looping, TypeOK
<1>3. FrameOK(Top)
  BY <1>1, <1>2, TopFrameOK
<1>4. Top.InstallStart <= Top.Index2
  BY <1>3 DEF FrameOK
<1>5. Owed(g) = Owed(Top) \ {x} /\ x \in Owed(Top)
  BY <1>2, <1>4, OwedAfterPair
<1>6. /\ g.level = Top.level /\ g.InstallStart = Top.InstallStart
      /\ g.InstallStop = Top.InstallStop /\ g.NotifyStop = Top.NotifyStop
      /\ g.Index1 = Top.Index1 /\ g.Index2 = Top.Index2 + 1
  BY <1>2 DEF Frame
<1>7. /\ Top.Index1 \in Nat /\ Top.Index2 \in Nat /\ Top.InstallStart \in Nat
  BY <1>2, FrameParts
<1>8. /\ calls' = [calls EXCEPT ![x] = @ + 1]
      /\ told' = [told EXCEPT ![x] = ppiPtrs[x[3]]]
      /\ UNCHANGED <<ppiPtrs, ppiCount, notifyPtrs, notifyCount, ppiLast,
                     notifyLast, control, reinstalled>>
  BY DEF Signal, PpiAt, database
<1> HIDE DEF g, x
<1>9. FrameOK(g) /\ g.Index1 >= Top.Index1 /\ Owed(g) \subseteq Owed(Top)
  BY <1>3, <1>5, <1>6, <1>7 DEF FrameOK
<1>10. /\ StackOK' /\ CursorsOK'
       /\ Dispatched \subseteq Dispatched'
       /\ Dispatched' \subseteq Dispatched \cup {x}
  BY <1>1, <1>2, <1>5, <1>6, <1>8, <1>9, TopMoves
<1>11. /\ Len(stack) \in Nat \ {0} /\ Len(stack') = Len(stack)
       /\ \A k \in 1 .. Len(stack) : k # Len(stack) => stack'[k] = stack[k]
       /\ stack'[Len(stack)] = g
       /\ Top = stack[Len(stack)] /\ Len(stack) \in 1 .. Len(stack)
  BY <1>1, <1>2, TopSet DEF TypeOK, Top
<1>12. \A y \in Pair : PairMatches(y)' = PairMatches(y)
  BY <1>8 DEF PairMatches, Matches
<1>13. x \in Pair
  BY <1>5 DEF Owed, Window
<1>14. /\ calls'[x] = calls[x] + 1 /\ told'[x] = ppiPtrs[x[3]] /\ calls[x] \in Nat
       /\ \A y \in Pair : y # x => calls'[y] = calls[y] /\ told'[y] = told[y]
  BY <1>1, <1>8, <1>13 DEF TypeOK
<1>15. DispatchedTold'
  <2>1. \A y \in Dispatched' : y \in Pair
    BY <1>10, <1>13 DEF Dispatched, Window
  <2> QED
    BY <1>8, <1>10, <1>12, <1>14, <2>1 DEF IInv, DispatchedTold
<1>16. CallbacksOwed'
  <2> SUFFICES ASSUME NEW y \in CallbackPairs, PairMatches(y)
               PROVE  \/ told'[y] = ppiPtrs[y[3]]
                      \/ \E k \in 1 .. Len(stack) : y \in Owed(stack'[k])
    BY <1>8, <1>11, <1>12 DEF CallbacksOwed, CallbackPairs
  <2>1. CASE y = x
    BY <1>14, <2>1
  <2>2. CASE y # x /\ told[y] = ppiPtrs[y[3]]
    BY <1>14, <2>2 DEF CallbackPairs
  <2>3. CASE y # x /\ \E k \in 1 .. Len(stack) : y \in Owed(stack[k])
    <3>1. PICK k \in 1 .. Len(stack) : y \in Owed(stack[k])
      BY <2>3
    <3>2. CASE k # Len(stack)
      BY <1>11, <3>1, <3>2
    <3>3. CASE k = Len(stack)
      <4>1. y \in Owed(g)
        BY <1>5, <1>11, <2>3, <3>1, <3>3
      <4> QED
        BY <1>11, <4>1
    <3> QED
      BY <3>2, <3>3
  <2> QED
    BY <2>1, <2>2, <2>3 DEF IInv, CallbacksOwed
<1>17. OwedOnce'
  <2>1. ASSUME NEW y, NEW k \in 1 .. Len(stack), y \in Owed(stack'[k])
        PROVE  y \in Owed(stack[k])
    BY <1>9, <1>11, <2>1
  <2> SUFFICES ASSUME NEW y \in Pair, y[3] \notin reinstalled
               PROVE  /\ calls'[y] <= 1
                      /\ (y[2] >= notifyCount[y[1]] \/ y[3] >= ppiCount) => calls'[y] = 0
                      /\ (y[1] = "dispatch" /\ y \notin Dispatched') => calls'[y] = 0
                      /\ \A k \in 1 .. Len(stack) : y \in Owed(stack'[k]) =>
                           /\ calls'[y] = 0
                           /\ \A j \in 1 .. Len(stack) : y \in Owed(stack'[j]) => j = k
    BY <1>8, <1>11 DEF OwedOnce
  <2>2. CASE y # x
    BY <1>10, <1>14, <2>1, <2>2 DEF IInv, OwedOnce
  <2>3. CASE y = x
    <3>1. /\ calls[y] = 0
          /\ \A j \in 1 .. Len(stack) : y \in Owed(stack[j]) => j = Len(stack)
      BY <1>5, <1>11, <2>3 DEF IInv, OwedOnce
    <3>2. calls'[y] = 1
      BY <1>14, <2>3, <3>1
    <3>3. \A k \in 1 .. Len(stack) : y \notin Owed(stack'[k])
      <4> SUFFICES ASSUME NEW k \in 1 .. Len(stack), y \in Owed(stack'[k]) PROVE FALSE
        OBVIOUS
      <4>1. k = Len(stack)
        BY <2>1, <3>1
      <4> QED
        BY <1>5, <1>11, <2>3, <4>1
    <3>4. y[2] < notifyCount[y[1]] /\ y[3] < ppiCount
      BY <1>1, <1>5, <1>11, <2>3, OwedBounds
    <3>5. /\ y[2] \in Nat /\ y[3] \in Nat /\ notifyCount[y[1]] \in Nat /\ ppiCount \in Nat
      BY <1>1, PairParts, SlotsAreNumbers, BoundAssumption DEF TypeOK
    <3>6. y[1] = "dispatch" => y \in Dispatched'
      <4> SUFFICES ASSUME y[1] = "dispatch" PROVE y \in Dispatched'
        OBVIOUS
      <4>1. Top.level = "dispatch"
        BY <1>5, <2>3 DEF Owed, Window
      <4>2. Len(stack) = 1
        BY <1>1, <1>11, <4>1 DEF StackOK
      <4>3. y \in Window(g)
        BY <1>5, <1>6, <2>3 DEF Owed, Window
      <4> QED
        BY <1>2, <1>5, <1>6, <1>11, <2>3, <4>1, <4>2, <4>3, TopSet DEF Dispatched, TypeOK
    <3> QED
      BY <3>2, <3>3, <3>4, <3>5, <3>6
  <2> QED
    BY <2>2, <2>3
<1> QED
  BY <1>1, <1>10, <1>15, <1>16, <1>17 DEF IInv
LEMMA ServiceReturnsInv ==
  ASSUME IInv, ServiceReturns
  PROVE  IInv'
PROOF
<1>1. TypeOK' /\ TypeOK /\ StackOK /\ CursorsOK
  BY CoreType DEF IInv, Core
<1>2. /\ stack # <<>> /\ Top \in Frame /\ stack' = Popped
      /\ Top.Index1 >= Top.NotifyStop /\ Top.level = "callback"
  BY <1>1, TopType DEF ServiceReturns, Looping, TypeOK
<1>3. UNCHANGED <<ppiPtrs, ppiCount, notifyPtrs, notifyCount, ppiLast, notifyLast,
                  control, calls, told, reinstalled>>
  BY DEF ServiceReturns, database, history
<1>4. /\ Len(stack) \in Nat \ {0} /\ Len(stack') = Len(stack) - 1
      /\ \A k \in 1 .. Len(stack') : stack'[k] = stack[k]
      /\ Len(stack) = 1 <=> stack' = <<>>
      /\ Top = stack[Len(stack)]
  BY <1>1, <1>2, PoppedOnce DEF TypeOK, Top
<1>5. Owed(Top) = {}
  BY <1>2, OwedWhenDone
<1>6. CursorsOK'
  BY <1>1, <1>3 DEF CursorsOK
<1>7. stack' # <<>> => 1 \in 1 .. Len(stack') /\ stack'[1] = stack[1]
  BY <1>4
<1>8. StackOK'
  <2>1. ASSUME NEW k \in 1 .. Len(stack')
        PROVE  /\ FrameOK(stack[k])'
               /\ k < Len(stack') => stack'[k].busy
               /\ stack'[k].level = "dispatch" =>
                    k = 1 /\ control' \in {"notifies", "ppis"}
    BY <1>1, <1>3, <1>4 DEF StackOK, FrameOK
  <2> QED
    BY <1>1, <1>2, <1>3, <1>7, <2>1 DEF StackOK
<1>9. Dispatched' = Dispatched
  <2>1. CASE stack' = <<>>
    BY <1>2, <1>3, <1>4, <2>1 DEF Dispatched
  <2>2. CASE stack' # <<>>
    BY <1>2, <1>3, <1>7, <2>2 DEF Dispatched
  <2> QED
    BY <2>1, <2>2
<1>10. \A y \in Pair : PairMatches(y)' = PairMatches(y)
  BY <1>3 DEF PairMatches, Matches
<1>11. DispatchedTold'
  <2>1. Dispatched \subseteq Pair
    BY DEF Dispatched, Window
  <2> QED
    BY <1>3, <1>9, <1>10, <2>1 DEF IInv, DispatchedTold
<1>12. OwedOnce'
  BY <1>3, <1>4, <1>9 DEF IInv, OwedOnce
<1>13. CallbacksOwed'
  <2> SUFFICES ASSUME NEW y \in CallbackPairs, PairMatches(y), told[y] # ppiPtrs[y[3]]
               PROVE  \E k \in 1 .. Len(stack') : y \in Owed(stack'[k])
    BY <1>3, <1>10 DEF CallbacksOwed, CallbackPairs
  <2>1. PICK k \in 1 .. Len(stack) : y \in Owed(stack[k])
    BY DEF IInv, CallbacksOwed
  <2>2. k # Len(stack)
    BY <1>4, <1>5, <2>1
  <2> QED
    BY <1>4, <2>1, <2>2
<1> QED
  BY <1>1, <1>6, <1>8, <1>11, <1>12, <1>13 DEF IInv

-----------------------------------------------------------------------------
(* ProcessDispatchNotifyList preserves the invariant.                      *)

\* A step that moves control only, with no call in progress.
LEMMA ControlStep ==
  ASSUME IInv, TypeOK', stack = <<>>,
         control' = "done" => ppiLast = ppiCount /\ notifyLast = notifyCount["dispatch"],
         UNCHANGED <<database, history, ppiLast, notifyLast, stack>>
  PROVE  IInv'
PROOF
<1>1. UNCHANGED <<ppiPtrs, ppiCount, notifyPtrs, notifyCount, ppiLast, notifyLast,
                  stack, calls, told, reinstalled>>
  BY DEF database, history
<1>2. StackOK' /\ CursorsOK'
  BY <1>1 DEF IInv, StackOK, CursorsOK
<1>3. Dispatched' = Dispatched /\ Dispatched \subseteq Pair
  BY <1>1 DEF Dispatched, Window
<1>4. \A y \in Pair : PairMatches(y)' = PairMatches(y)
  BY <1>1 DEF PairMatches, Matches
<1>5. DispatchedTold'
  BY <1>1, <1>3, <1>4 DEF IInv, DispatchedTold
<1>6. OwedOnce'
  BY <1>1, <1>3 DEF IInv, OwedOnce
<1>7. CallbacksOwed'
  BY <1>1, <1>4 DEF IInv, CallbacksOwed, CallbackPairs
<1> QED
  BY <1>2, <1>5, <1>6, <1>7 DEF IInv

\* A loop of ProcessDispatchNotifyList calls ProcessNotify for pairs of which
\* none is below both cursors; none of them was signalled.
LEMMA DispatchPush ==
  ASSUME IInv, TypeOK', stack = <<>>, control \in {"notifies", "ppis"},
         NEW a \in Nat, NEW b \in Nat, NEW c \in Nat, NEW d \in Nat,
         CallProcessNotify("dispatch", a, b, c, d),
         a <= b, c <= d, b <= ppiCount, d <= notifyCount["dispatch"],
         control = "notifies" => a = 0 /\ b = ppiLast /\ c = notifyLast,
         control = "ppis" => a = ppiLast /\ c = 0 /\ d = notifyLast,
         UNCHANGED <<database, history, ppiLast, notifyLast, control>>
  PROVE  IInv'
PROOF
<1> DEFINE f == NotifyFrame("dispatch", a, b, c, d)
<1>1. UNCHANGED <<ppiPtrs, ppiCount, notifyPtrs, notifyCount, ppiLast, notifyLast,
                  control, calls, told, reinstalled>>
  BY DEF database, history
<1>2. TypeOK /\ StackOK /\ CursorsOK
  BY DEF IInv
<1>3. Len(stack') = 1 /\ stack'[1] = f /\ stack' # <<>>
  BY <1>2, Pushed DEF TypeOK
<1>4. /\ Owed(f) = {x \in Pair : /\ x[1] = "dispatch" /\ c <= x[2] /\ x[2] < d
                                 /\ a <= x[3] /\ x[3] < b}
      /\ Window(f) \ Owed(f) = {x \in Pair : /\ x[1] = "dispatch"
                                             /\ x[2] < c /\ x[2] < d
                                             /\ a <= x[3] /\ x[3] < b}
  BY OwedAtFirst DEF Level
<1>5. /\ f.level = "dispatch" /\ f.Index1 = c /\ f.Index2 = a
      /\ f.InstallStart = a /\ f.InstallStop = b /\ f.NotifyStop = d
  BY DEF NotifyFrame
<1> HIDE DEF f
<1>6. StackOK' /\ CursorsOK'
  <2>1. FrameOK(f)'
    BY <1>1, <1>5 DEF FrameOK
  <2>2. c >= notifyLast \/ control # "notifies"
    BY <1>2, BoundAssumption DEF TypeOK
  <2>3. CursorsOK'
    BY <1>1, <1>2 DEF CursorsOK
  <2>4. StackOK'
    BY <1>1, <1>2, <1>3, <1>5, <2>1, <2>2, BoundAssumption DEF StackOK, TypeOK
  <2> QED
    BY <2>3, <2>4
<1>7. Dispatched =
        {x \in Pair : x[1] = "dispatch" /\ x[2] < notifyLast /\ x[3] < ppiLast}
  BY DEF Dispatched
<1>8. Dispatched' = Dispatched
  <2>1. Dispatched' =
          {x \in Pair : x[1] = "dispatch" /\ x[2] < notifyLast /\ x[3] < ppiLast}
          \cup (Window(f) \ Owed(f))
    BY <1>1, <1>3, <1>5 DEF Dispatched
  <2>2. ASSUME NEW x \in Window(f) \ Owed(f)
        PROVE  x[1] = "dispatch" /\ x[2] < notifyLast /\ x[3] < ppiLast
    <3>1. x \in Pair /\ x[1] = "dispatch" /\ x[2] < c /\ x[3] < b
      BY <1>4
    <3>2. x[2] \in Nat
      BY <3>1, PairParts, SlotsAreNumbers
    <3> QED
      BY <3>1, <3>2
  <2>3. Window(f) \ Owed(f) \subseteq Pair
    BY DEF Window
  <2> QED
    BY <1>7, <2>1, <2>2, <2>3
<1>9. \A y \in Pair : PairMatches(y)' = PairMatches(y)
  BY <1>1 DEF PairMatches, Matches
<1>10. DispatchedTold'
  <2>1. Dispatched \subseteq Pair
    BY <1>7
  <2> QED
    BY <1>1, <1>8, <1>9, <2>1 DEF IInv, DispatchedTold
<1>11. ASSUME NEW x \in Owed(f), x[3] \notin reinstalled
       PROVE  calls[x] = 0
  <2>1. x \in Pair /\ x[1] = "dispatch" /\ x[2] >= c /\ x[3] >= a
    BY <1>4, PairParts, SlotsAreNumbers
  <2>2. x[2] \in Nat /\ x[3] \in Nat /\ notifyLast \in Nat /\ ppiLast \in Nat
    BY <1>2, <2>1, PairParts, SlotsAreNumbers, BoundAssumption DEF TypeOK
  <2>3. x \notin Dispatched
    BY <1>7, <2>1, <2>2
  <2> QED
    BY <1>11, <2>1, <2>3 DEF IInv, OwedOnce
<1>12. OwedOnce'
  <2>1. /\ ppiCount \in Nat /\ notifyCount \in [Level -> Nat]
        /\ \A l \in Level : notifyCount[l] <= notifyCount[l]
    BY <1>2, BoundAssumption DEF TypeOK
  <2>2. \A x \in Owed(NotifyFrame("dispatch", a, b, c, d)) : x[3] \notin reinstalled' =>
          calls[x] = 0 /\ \A k \in 1 .. Len(stack) : x \notin Owed(stack[k])
    BY <1>1, <1>11 DEF f
  <2> QED
    BY <1>1, <1>2, <1>8, <2>1, <2>2, PushOwedOnce DEF IInv
<1>13. CallbacksOwed'
  BY <1>1, <1>9 DEF IInv, CallbacksOwed, CallbackPairs
<1> QED
  BY <1>6, <1>10, <1>12, <1>13 DEF IInv

LEMMA DispatchNewNotifiesInv ==
  ASSUME IInv, DispatchNewNotifies
  PROVE  IInv'
PROOF
<1>1. TypeOK /\ TypeOK' /\ CursorsOK
  BY CoreType DEF IInv, Core
<1>2. /\ ppiLast \in Nat /\ notifyLast \in Nat /\ notifyCount["dispatch"] \in Nat
      /\ ppiLast <= ppiCount /\ notifyLast <= notifyCount["dispatch"] /\ 0 \in Nat
  BY <1>1, BoundAssumption DEF TypeOK, CursorsOK, Level
<1>3. CASE notifyLast # notifyCount["dispatch"]
  <2> DEFINE d == notifyCount["dispatch"]
  <2>1. d \in Nat /\ d <= notifyCount["dispatch"] /\ notifyLast <= d
    BY <1>2
  <2>2. /\ CallProcessNotify("dispatch", 0, ppiLast, notifyLast, d)
        /\ stack = <<>> /\ control = "notifies"
        /\ UNCHANGED <<database, history, ppiLast, notifyLast, control>>
    BY <1>3 DEF DispatchNewNotifies
  <2> HIDE DEF d
  <2> QED
    BY <1>1, <1>2, <2>1, <2>2, DispatchPush
<1>4. CASE notifyLast = notifyCount["dispatch"]
  BY <1>1, <1>4, ControlStep DEF DispatchNewNotifies
<1> QED
  BY <1>3, <1>4

LEMMA DispatchNewPpisInv ==
  ASSUME IInv, DispatchNewPpis
  PROVE  IInv'
PROOF
<1>1. TypeOK /\ TypeOK' /\ CursorsOK
  BY CoreType DEF IInv, Core
<1>2. /\ ppiLast \in Nat /\ notifyLast \in Nat /\ ppiCount \in Nat
      /\ ppiCount <= ppiCount /\ notifyLast <= notifyCount["dispatch"]
      /\ 0 <= notifyLast /\ 0 \in Nat /\ ppiLast <= ppiCount
  BY <1>1, BoundAssumption DEF TypeOK, CursorsOK, Level
<1>3. CASE ppiLast # ppiCount
  <2>1. /\ CallProcessNotify("dispatch", ppiLast, ppiCount, 0, notifyLast)
        /\ stack = <<>> /\ control = "ppis"
        /\ UNCHANGED <<database, history, ppiLast, notifyLast, control>>
    BY <1>3 DEF DispatchNewPpis
  <2> QED
    BY <1>1, <1>2, <2>1, DispatchPush
<1>4. CASE ppiLast = ppiCount
  BY <1>1, <1>4, ControlStep DEF DispatchNewPpis
<1> QED
  BY <1>3, <1>4

\* The window of the call that returns is dispatched: the cursor takes it in.
LEMMA DispatchReturnsInv ==
  ASSUME IInv, DispatchReturns
  PROVE  IInv'
PROOF
<1>1. TypeOK' /\ TypeOK /\ StackOK /\ CursorsOK
  BY CoreType DEF IInv, Core
<1>2. /\ stack # <<>> /\ Top \in Frame /\ stack' = Popped
      /\ Top.Index1 >= Top.NotifyStop /\ Top.level = "dispatch"
  BY <1>1, TopType DEF DispatchReturns, Looping, TypeOK
<1>3. UNCHANGED <<ppiPtrs, ppiCount, notifyPtrs, notifyCount,
                  control, calls, told, reinstalled>>
  BY DEF DispatchReturns, database, history
<1>4. /\ Len(stack) \in Nat \ {0} /\ Len(stack') = Len(stack) - 1
      /\ Len(stack) = 1 <=> stack' = <<>>
      /\ Top = stack[Len(stack)] /\ Len(stack) \in 1 .. Len(stack)
  BY <1>1, <1>2, PoppedOnce DEF TypeOK, Top
<1>5. /\ Len(stack) = 1 /\ stack' = <<>> /\ Top = stack[1] /\ Len(stack') = 0
      /\ control \in {"notifies", "ppis"}
  BY <1>1, <1>2, <1>4 DEF StackOK
<1>6. FrameOK(Top) /\ Owed(Top) = {}
  BY <1>1, <1>2, TopFrameOK, OwedWhenDone
<1>7. /\ Top.InstallStart \in Nat /\ Top.InstallStop \in Nat /\ Top.NotifyStop \in Nat
      /\ Top.Index1 \in Nat /\ ppiLast \in Nat /\ notifyLast \in Nat
      /\ ppiCount \in Nat /\ notifyCount["dispatch"] \in Nat
  BY <1>1, <1>2, FrameParts, BoundAssumption DEF TypeOK, Level
<1>8. /\ control = "notifies" => /\ notifyLast' = Top.NotifyStop /\ ppiLast' = ppiLast
                                 /\ Top.InstallStart = 0 /\ Top.InstallStop = ppiLast
                                 /\ notifyLast <= Top.Index1 /\ Top.Index1 <= Top.NotifyStop
      /\ control = "ppis" => /\ ppiLast' = Top.InstallStop /\ notifyLast' = notifyLast
                             /\ Top.InstallStart = ppiLast /\ Top.NotifyStop = notifyLast
                             /\ ppiLast <= Top.Index2
  BY <1>1, <1>2, <1>5, <1>6 DEF DispatchReturns, StackOK, FrameOK
<1>9. StackOK' /\ CursorsOK'
  <2>1. Top.InstallStop <= ppiCount /\ Top.NotifyStop <= notifyCount["dispatch"]
    BY <1>2, <1>6 DEF FrameOK
  <2>2. CursorsOK'
    BY <1>1, <1>3, <1>5, <1>8, <2>1 DEF CursorsOK
  <2>3. StackOK'
    BY <1>3, <1>5 DEF StackOK
  <2> QED
    BY <2>2, <2>3
<1>10. Dispatched \subseteq Pair /\ Dispatched' \subseteq Pair
  BY DEF Dispatched, Window
<1>11. ASSUME NEW x \in Pair
       PROVE  /\ x \in Dispatched' => x \in Dispatched
              /\ (x[1] = "dispatch" /\ x \in Dispatched) => x \in Dispatched'
  <2>1. x[2] \in Nat /\ x[3] \in Nat
    BY PairParts, SlotsAreNumbers
  <2>2. x \in Dispatched' <=> x[1] = "dispatch" /\ x[2] < notifyLast' /\ x[3] < ppiLast'
    BY <1>5 DEF Dispatched
  <2>3. x \in Dispatched <=>
          x[1] = "dispatch" /\ (\/ x[2] < notifyLast /\ x[3] < ppiLast
                                \/ /\ x[2] < Top.NotifyStop /\ Top.InstallStart <= x[3]
                                   /\ x[3] < Top.InstallStop)
    BY <1>2, <1>5, <1>6 DEF Dispatched, Window
  <2>4. CASE control = "notifies"
    BY <1>7, <1>8, <2>1, <2>2, <2>3, <2>4
  <2>5. CASE control = "ppis"
    <3>1. ppiLast <= Top.InstallStop
      BY <1>6, <1>8, <2>5 DEF FrameOK
    <3> QED
      BY <1>7, <1>8, <2>1, <2>2, <2>3, <2>5, <3>1
  <2> QED
    BY <1>5, <2>4, <2>5
<1>12. \A x \in Dispatched : x[1] = "dispatch"
  BY <1>2, <1>5 DEF Dispatched, Window
<1>13. Dispatched' = Dispatched
  BY <1>10, <1>11, <1>12
<1>14. \A y \in Pair : PairMatches(y)' = PairMatches(y)
  BY <1>3 DEF PairMatches, Matches
<1>15. DispatchedTold'
  BY <1>3, <1>10, <1>13, <1>14 DEF IInv, DispatchedTold
<1>16. OwedOnce'
  BY <1>3, <1>5, <1>13 DEF IInv, OwedOnce
<1>17. CallbacksOwed'
  <2> SUFFICES ASSUME NEW y \in CallbackPairs, PairMatches(y), told[y] # ppiPtrs[y[3]]
               PROVE  FALSE
    BY <1>3, <1>14 DEF CallbacksOwed, CallbackPairs
  <2>1. PICK k \in 1 .. Len(stack) : y \in Owed(stack[k])
    BY DEF IInv, CallbacksOwed
  <2> QED
    BY <1>5, <1>6, <2>1
<1> QED
  BY <1>1, <1>9, <1>15, <1>16, <1>17 DEF IInv
-----------------------------------------------------------------------------
(* The theorems.                                                           *)

\* The inductive invariant holds in every reachable state.
THEOREM InductiveInvariant == Spec => []IInv
PROOF
<1>1. Init => IInv
  <2> SUFFICES ASSUME Init PROVE IInv
    OBVIOUS
  <2>1. TypeOK
    BY BoundAssumption DEF Init, TypeOK, Pair, Level, Control
  <2>2. StackOK /\ CursorsOK /\ Len(stack) = 0
    BY DEF Init, StackOK, CursorsOK, Level
  <2>3. CallbacksOwed
    BY SlotsAreNumbers, PairParts DEF Init, CallbacksOwed, CallbackPairs
  <2>4. DispatchedTold
    BY SlotsAreNumbers, PairParts DEF Init, DispatchedTold, Dispatched
  <2>5. OwedOnce
    BY <2>2 DEF Init, OwedOnce
  <2> QED
    BY <2>1, <2>2, <2>3, <2>4, <2>5 DEF IInv
<1>2. IInv /\ [Next]_vars => IInv'
  <2> SUFFICES ASSUME IInv, [Next]_vars PROVE IInv'
    OBVIOUS
  <2>1. CASE Services
    BY <2>1, InstallInv, ReInstallInv, NotifyInv DEF Services
  <2>2. CASE Signal
    BY <2>2, SignalInv
  <2>3. CASE Skip
    BY <2>3, SkipInv
  <2>4. CASE NextNotify
    BY <2>4, NextNotifyInv
  <2>5. CASE NotificationReturns
    BY <2>5, NotificationReturnsInv
  <2>6. CASE ServiceReturns
    BY <2>6, ServiceReturnsInv
  <2>7. CASE PeimReturns
    BY <2>7, ControlStep, CoreType DEF PeimReturns, IInv, Core
  <2>8. CASE DispatchNewNotifies
    BY <2>8, DispatchNewNotifiesInv
  <2>9. CASE DispatchNewPpis
    BY <2>9, DispatchNewPpisInv
  <2>10. CASE DispatchReturns
    BY <2>10, DispatchReturnsInv
  <2>11. CASE NextPeim
    <3>1. TypeOK'
      BY <2>11 DEF NextPeim, IInv, TypeOK, Control, database, history
    <3> QED
      BY <2>11, <3>1, ControlStep DEF NextPeim
  <2>12. CASE UNCHANGED vars
    <3>1. UNCHANGED <<ppiPtrs, ppiCount, notifyPtrs, notifyCount, ppiLast,
                      notifyLast, stack, control, calls, told, reinstalled, reinstalls>>
      BY <2>12 DEF vars
    <3>2. TypeOK'
      BY <3>1 DEF IInv, TypeOK
    <3> QED
      BY <3>1, <3>2, UnusedSlots DEF IInv
  <2> QED
    BY <2>1, <2>2, <2>3, <2>4, <2>5, <2>6, <2>7, <2>8, <2>9, <2>10, <2>11,
       <2>12 DEF Next, Core
<1> QED
  BY <1>1, <1>2, PTL DEF Spec

\* Whatever is installed, reinstalled or registered from inside
\* notifications, nobody is signalled twice for a PPI not reinstalled.
THEOREM SignalledAtMostOnce == Spec => []SignalledOnce
PROOF
<1>1. IInv => SignalledOnce
  BY DEF IInv, OwedOnce, SignalledOnce
<1> QED
  BY <1>1, InductiveInvariant, PTL

\* When the services a PEIM called have returned, every callback notify has
\* been told of the present version of every PPI of its GUID.
THEOREM CallbacksAlwaysUpToDate == Spec => []CallbacksUpToDate
PROOF
<1>1. IInv => CallbacksUpToDate
  <2> SUFFICES ASSUME IInv, stack = <<>>, NEW x \in CallbackPairs, PairMatches(x)
               PROVE  told[x] = ppiPtrs[x[3]]
    BY DEF CallbacksUpToDate
  <2>1. Len(stack) = 0
    OBVIOUS
  <2> QED
    BY <2>1 DEF IInv, CallbacksOwed
<1> QED
  BY <1>1, InductiveInvariant, PTL

\* ProcessDispatchNotifyList returns only when every dispatch notify has been
\* told of every PPI of its GUID.
THEOREM DispatchAlwaysComplete == Spec => []DispatchComplete
PROOF
<1>1. IInv => DispatchComplete
  <2> SUFFICES ASSUME IInv, control = "done", NEW x \in DispatchPairs,
                      x[3] \notin reinstalled, PairMatches(x)
               PROVE  told[x] = ppiPtrs[x[3]]
    BY DEF DispatchComplete
  <2>1. x \in Dispatched
    BY DEF IInv, CursorsOK, DispatchPairs, Dispatched
  <2> QED
    BY <2>1 DEF IInv, DispatchedTold
<1> QED
  BY <1>1, InductiveInvariant, PTL
-----------------------------------------------------------------------------
(* The refinement of PpiPromise.                                           *)

\* The positions in a set of positions, counted from 0.
Rank(S, i) == Cardinality({j \in S : j < i})

\* The ranks are exactly the numbers below the size of the set.
LEMMA RankOnto ==
  ASSUME NEW n \in Nat, NEW S \in SUBSET (1 .. n)
  PROVE  /\ \A i \in S : Rank(S, i) \in 0 .. Cardinality(S) - 1
         /\ \A i, k \in S : Rank(S, i) = Rank(S, k) => i = k
         /\ \A r \in 0 .. Cardinality(S) - 1 : \E i \in S : Rank(S, i) = r
PROOF
<1> DEFINE below(i) == {j \in S : j < i}
           m == Cardinality(S)
<1>1. IsFiniteSet(S) /\ m \in Nat
  <2>1. IsFiniteSet(1 .. n)
    BY FS_Interval
  <2>2. IsFiniteSet(S)
    BY <2>1, FS_Subset
  <2> QED
    BY <2>2, FS_CardinalityType
<1>2. \A i : IsFiniteSet(below(i)) /\ Cardinality(below(i)) \in Nat
  BY <1>1, FS_Subset, FS_CardinalityType
<1>3. ASSUME NEW i \in S, NEW T \in SUBSET S, i \in T, below(i) \subseteq T
      PROVE  Cardinality(below(i)) < Cardinality(T)
  <2>1. IsFiniteSet(T)
    BY <1>1, FS_Subset
  <2>2. i \notin below(i) /\ Cardinality(below(i)) <= Cardinality(T)
        /\ Cardinality(T) # Cardinality(below(i))
    BY <1>3, <2>1, FS_Subset
  <2> QED
    BY <1>2, <2>1, <2>2, FS_CardinalityType
<1>4. \A i \in S : Cardinality(below(i)) < m
  BY <1>3
<1>5. ASSUME NEW i \in S, NEW k \in S, i < k
      PROVE  Cardinality(below(i)) < Cardinality(below(k))
  <2>1. i \in below(k) /\ below(i) \subseteq below(k) /\ below(k) \in SUBSET S
    <3>1. \A j \in S : j < i => j < k
      BY <1>5
    <3> QED
      BY <1>5, <3>1
  <2> QED
    BY <1>3, <2>1
<1>6. \A i, k \in S : Cardinality(below(i)) = Cardinality(below(k)) => i = k
  <2> SUFFICES ASSUME NEW i \in S, NEW k \in S, i < k
               PROVE  Cardinality(below(i)) # Cardinality(below(k))
    OBVIOUS
  <2> QED
    BY <1>2, <1>5
<1>7. \A i \in S : Cardinality(below(i)) \in 0 .. m - 1
  BY <1>1, <1>2, <1>4
<1> HIDE DEF below, m
<1> DEFINE f == [i \in S |-> Cardinality(below(i))]
<1>8. f \in Injection(S, 0 .. m - 1)
  BY <1>6, <1>7 DEF Injection, IsInjective
<1>9. IsFiniteSet(0 .. m - 1) /\ Cardinality(0 .. m - 1) = m
  BY <1>1, FS_Interval
<1>10. f \in Surjection(S, 0 .. m - 1)
  BY <1>8, <1>9, FS_Injection DEF m
<1>11. \A r \in 0 .. m - 1 : \E i \in S : f[i] = r
  BY <1>10 DEF Surjection
<1> QED
  BY <1>6, <1>7, <1>11 DEF Rank, below, m

\* What registering a list adds to the list of a level: the descriptors of
\* that level, in order, and no gap between them.
LEMMA RegisteredAdds ==
  ASSUME TypeOK, NEW list \in Seq(Notify), NEW l \in Level,
         notifyCount[l] + Len(list) <= MaxNotifies
  PROVE  /\ \A i \in AtLevel(list, l) :
              /\ notifyCount[l] + Rank(AtLevel(list, l), i) \in NotifySlot
              /\ Registered(list)[l][notifyCount[l] + Rank(AtLevel(list, l), i)]
                   = list[i]
         /\ \A s \in NotifySlot :
              (/\ notifyCount[l] <= s
               /\ s < notifyCount[l] + Cardinality(AtLevel(list, l)))
                => Registered(list)[l][s] \in Notify
PROOF
<1> DEFINE at == AtLevel(list, l)
           here(slot) == {i \in at : slot = notifyCount[l] + Rank(at, i)}
<1>1. at \in SUBSET (1 .. Len(list)) /\ Len(list) \in Nat
  BY DEF AtLevel
<1>2. /\ \A i \in at : Rank(at, i) \in 0 .. Cardinality(at) - 1
      /\ \A i, k \in at : Rank(at, i) = Rank(at, k) => i = k
      /\ \A r \in 0 .. Cardinality(at) - 1 : \E i \in at : Rank(at, i) = r
  BY <1>1, RankOnto
<1>3. Cardinality(at) \in 0 .. Len(list)
  BY <1>1, PositionsBound
<1>4. notifyCount[l] \in Nat /\ MaxNotifies \in Nat
  BY BoundAssumption DEF TypeOK
<1>5. \A slot \in NotifySlot :
        Registered(list)[l][slot] = IF here(slot) = {} THEN notifyPtrs[l][slot]
                                    ELSE list[CHOOSE i \in here(slot) : TRUE]
  BY DEF Registered, Rank
<1> HIDE DEF at
<1>6. ASSUME NEW i \in at
      PROVE  /\ notifyCount[l] + Rank(at, i) \in NotifySlot
             /\ Registered(list)[l][notifyCount[l] + Rank(at, i)] = list[i]
  <2> DEFINE s == notifyCount[l] + Rank(at, i)
  <2>1. s \in NotifySlot
    BY <1>2, <1>3, <1>4 DEF NotifySlot
  <2>2. i \in here(s)
    OBVIOUS
  <2>3. \A k \in here(s) : k = i
    BY <1>2, <1>4
  <2> HIDE DEF s, here
  <2>4. (CHOOSE k \in here(s) : TRUE) = i
    BY <2>2, <2>3
  <2> QED
    BY <1>5, <2>1, <2>2, <2>4 DEF s
<1>7. ASSUME NEW s \in NotifySlot, notifyCount[l] <= s,
             s < notifyCount[l] + Cardinality(at)
      PROVE  Registered(list)[l][s] \in Notify
  <2>1. s - notifyCount[l] \in 0 .. Cardinality(at) - 1
    BY <1>3, <1>4, <1>7 DEF NotifySlot
  <2>2. PICK i \in at : Rank(at, i) = s - notifyCount[l]
    BY <1>2, <2>1
  <2>3. notifyCount[l] + Rank(at, i) = s
    BY <1>4, <2>1, <2>2 DEF NotifySlot
  <2>4. Registered(list)[l][s] = list[i]
    BY <1>6, <2>3
  <2>5. list[i] \in Notify
    BY <1>1
  <2> QED
    BY <2>4, <2>5
<1> QED
  BY <1>6, <1>7 DEF at

\* The slots below the counts hold descriptors.
FilledSlots ==
  /\ \A i \in PpiSlot : i < ppiCount => ppiPtrs[i] \in Ppi
  /\ \A l \in Level, i \in NotifySlot :
       i < notifyCount[l] => notifyPtrs[l][i] \in Notify

\* Nobody is told of anything but by a signal.
ToldBySignal == \A x \in Pair : calls[x] = 0 => told[x] = Empty

\* The values PpiPromise gives to its lists and its phase.
Published == [i \in 1 .. ppiCount |-> ppiPtrs[i - 1]]
Asked     == [l \in Level |->
                [i \in 1 .. notifyCount[l] |-> notifyPtrs[l][i - 1]]]
Phase     == CASE control = "peim" -> "open"
               [] control = "done" -> "settled"
               [] OTHER -> "settling"

\* The services fill the slots they count and keep those counted before.
LEMMA InstallFills ==
  ASSUME TypeOK, FilledSlots, NEW list \in PpiLists, InstallPpi(list)
  PROVE  FilledSlots'
PROOF
<1>1. list \in Seq(Ppi) /\ Len(list) \in Nat
  BY ListAssumption
<1>2. ppiCount \in Nat /\ MaxPpis \in Nat /\ ppiPtrs \in [0 .. MaxPpis - 1 -> Ppi \cup {Empty}]
  BY BoundAssumption DEF TypeOK, PpiSlot
<1>3. notifyPtrs' = notifyPtrs /\ notifyCount' = notifyCount
  BY DEF InstallPpi, InstallRejected, InstallAccepted
<1>4. CASE InstallRejected(list)
  <2>1. \A i \in PpiSlot : i < ppiCount => ppiPtrs'[i] = ppiPtrs[i]
    BY <1>1, <1>2, <1>4, ValidPpisType, WrittenKeeps DEF InstallRejected, PpiSlot
  <2> QED
    BY <1>3, <1>4, <2>1 DEF FilledSlots, InstallRejected
<1>5. CASE InstallAccepted(list)
  <2>1. \A i \in PpiSlot : i < ppiCount + Len(list) => ppiPtrs'[i] \in Ppi
    BY <1>1, <1>2, <1>5 DEF InstallAccepted, Written, FilledSlots, PpiSlot
  <2> QED
    BY <1>3, <1>5, <2>1 DEF FilledSlots, InstallAccepted
<1> QED
  BY <1>4, <1>5 DEF InstallPpi

LEMMA ReInstallFills ==
  ASSUME TypeOK, FilledSlots, NEW old \in Ppi, NEW new \in Ppi,
         ReInstallPpi(old, new)
  PROVE  FilledSlots'
PROOF
<1>1. PICK i \in FirstSlot(old) : ppiPtrs' = [ppiPtrs EXCEPT ![i] = new]
  BY DEF ReInstallPpi
<1>2. UNCHANGED <<ppiCount, notifyPtrs, notifyCount>>
  BY DEF ReInstallPpi
<1>3. \A k \in PpiSlot : ppiPtrs'[k] \in {ppiPtrs[k], new}
  BY <1>1 DEF TypeOK
<1> QED
  BY <1>2, <1>3 DEF FilledSlots

LEMMA NotifyFills ==
  ASSUME TypeOK, FilledSlots, NEW list \in NotifyLists, NotifyPpi(list)
  PROVE  FilledSlots'
PROOF
<1>1. list \in Seq(Notify)
  BY ListAssumption
<1>2. ppiPtrs' = ppiPtrs /\ ppiCount' = ppiCount
  BY DEF NotifyPpi, NotifyRejected, NotifyAccepted
<1>3. CASE NotifyRejected(list)
  <2>1. \A l \in Level, i \in NotifySlot :
          i < notifyCount[l] => notifyPtrs'[l][i] = notifyPtrs[l][i]
    BY <1>1, <1>3, ValidNotifiesType, RegisteredKeeps DEF NotifyRejected
  <2> QED
    BY <1>2, <1>3, <2>1 DEF FilledSlots, NotifyRejected
<1>4. CASE NotifyAccepted(list)
  <2> SUFFICES ASSUME NEW l \in Level, NEW i \in NotifySlot,
                      i < notifyCount[l] + Cardinality(AtLevel(list, l))
               PROVE  Registered(list)[l][i] \in Notify
    BY <1>2, <1>4 DEF FilledSlots, NotifyAccepted
  <2>1. notifyCount[l] + Len(list) <= MaxNotifies
    BY DEF NotifyPpi
  <2>2. notifyCount[l] \in Nat /\ i \in Nat
    BY SlotsAreNumbers DEF TypeOK
  <2>3. CASE i < notifyCount[l]
    BY <1>1, <2>3, RegisteredKeeps DEF FilledSlots
  <2>4. CASE notifyCount[l] <= i
    BY <1>1, <2>1, <2>4, RegisteredAdds
  <2> QED
    BY <2>2, <2>3, <2>4
<1> QED
  BY <1>3, <1>4 DEF NotifyPpi

\* With IInv these two hold in every reachable state.
LEMMA RefinementInvariant == Spec => [](IInv /\ FilledSlots /\ ToldBySignal)
PROOF
<1>1. Init => FilledSlots /\ ToldBySignal
  BY SlotsAreNumbers DEF Init, FilledSlots, ToldBySignal
<1>2. IInv /\ FilledSlots /\ ToldBySignal /\ [Next]_vars
        => FilledSlots' /\ ToldBySignal'
  <2> SUFFICES ASSUME IInv, FilledSlots, ToldBySignal, [Next]_vars
               PROVE  FilledSlots' /\ ToldBySignal'
    OBVIOUS
  <2>0. TypeOK
    BY DEF IInv
  <2>1. CASE Services
    <3>1. FilledSlots'
      BY <2>0, <2>1, InstallFills, ReInstallFills, NotifyFills DEF Services
    <3>2. UNCHANGED <<calls, told>>
      BY <2>1 DEF Services, InstallPpi, InstallRejected, InstallAccepted,
                  ReInstallPpi, NotifyPpi, NotifyRejected, NotifyAccepted, history
    <3> QED
      BY <3>1, <3>2 DEF ToldBySignal
  <2>2. CASE UNCHANGED database
    <3>1. FilledSlots'
      BY <2>2 DEF FilledSlots, database
    <3>2. CASE UNCHANGED <<calls, told>>
      BY <3>1, <3>2 DEF ToldBySignal
    <3>3. CASE Signal
      <4> DEFINE x == <<Top.level, Top.Index1, Top.Index2>>
      <4>1. /\ calls' = [calls EXCEPT ![x] = @ + 1]
            /\ told' = [told EXCEPT ![x] = PpiAt]
        BY <3>3 DEF Signal
      <4> HIDE DEF x
      <4>2. ToldBySignal'
        BY <2>0, <4>1 DEF ToldBySignal, TypeOK
      <4> QED
        BY <3>1, <4>2
    <3>4. Signal \/ UNCHANGED <<calls, told>> \/ Services
      BY DEF Next, Core, vars, Skip, NextNotify, NotificationReturns,
             ServiceReturns, PeimReturns, DispatchNewNotifies, DispatchNewPpis,
             DispatchReturns, NextPeim, history
    <3> QED
      BY <2>1, <3>2, <3>3, <3>4
  <2>3. Services \/ UNCHANGED database
    BY DEF Next, Core, vars, Signal, Skip, NextNotify, NotificationReturns,
           ServiceReturns, PeimReturns, DispatchNewNotifies, DispatchNewPpis,
           DispatchReturns, NextPeim, database
  <2> QED
    BY <2>1, <2>2, <2>3
<1> QED
  BY <1>1, <1>2, InductiveInvariant, PTL DEF Spec

\* What the steps of the database do to the lists of PpiPromise.
LEMMA PublishedSame ==
  ASSUME TypeOK, ppiCount' = ppiCount,
         \A i \in PpiSlot : i < ppiCount => ppiPtrs'[i] = ppiPtrs[i]
  PROVE  Published' = Published
PROOF
<1>1. ppiCount \in Nat /\ \A i \in 1 .. ppiCount : i - 1 \in PpiSlot /\ i - 1 < ppiCount
  BY BoundAssumption DEF TypeOK, PpiSlot
<1> QED
  BY <1>1 DEF Published

LEMMA AskedSame ==
  ASSUME TypeOK, notifyCount' = notifyCount,
         \A l \in Level, i \in NotifySlot :
           i < notifyCount[l] => notifyPtrs'[l][i] = notifyPtrs[l][i]
  PROVE  Asked' = Asked
PROOF
<1>1. \A l \in Level : /\ notifyCount[l] \in Nat
                       /\ \A i \in 1 .. notifyCount[l] :
                            i - 1 \in NotifySlot /\ i - 1 < notifyCount[l]
  BY BoundAssumption DEF TypeOK, NotifySlot
<1> QED
  BY <1>1 DEF Asked

LEMMA ListsSame ==
  ASSUME UNCHANGED database
  PROVE  Published' = Published /\ Asked' = Asked
BY DEF database, Published, Asked

\* What Asked is: the notifications below the counts, as sequences.
AskedIsList ==
  /\ Asked \in [Level -> Seq(Notify)]
  /\ \A l \in Level : Len(Asked[l]) = notifyCount[l]
  /\ \A l \in Level : \A i \in 1 .. notifyCount[l] :
       Asked[l][i] = notifyPtrs[l][i - 1]

LEMMA AskedType == TypeOK /\ FilledSlots => AskedIsList
PROOF
<1> SUFFICES ASSUME TypeOK, FilledSlots PROVE AskedIsList
  OBVIOUS
<1>1. ASSUME NEW l \in Level
      PROVE  /\ Asked[l] \in Seq(Notify)
             /\ Len(Asked[l]) = notifyCount[l]
             /\ \A i \in 1 .. notifyCount[l] : Asked[l][i] = notifyPtrs[l][i - 1]
  <2>1. notifyCount[l] \in Nat /\ notifyCount[l] <= MaxNotifies /\ MaxNotifies \in Nat
    BY BoundAssumption DEF TypeOK
  <2>2. \A i \in 1 .. notifyCount[l] : notifyPtrs[l][i - 1] \in Notify
    BY <2>1 DEF FilledSlots, NotifySlot
  <2>3. Asked[l] = [i \in 1 .. notifyCount[l] |-> notifyPtrs[l][i - 1]]
    BY DEF Asked
  <2> QED
    BY <2>1, <2>2, <2>3
<1>2. DOMAIN Asked = Level /\ Asked = [l \in Level |-> Asked[l]]
  BY DEF Asked
<1> QED
  BY <1>1, <1>2 DEF AskedIsList

LEMMA AskedTypeNext == TypeOK' /\ FilledSlots' => AskedIsList'
BY AskedType, PTL

\* What Published is: the descriptors below the count, as a sequence.
PublishedIsList ==
  /\ Published \in Seq(Ppi) /\ Len(Published) = ppiCount
  /\ DOMAIN Published = 1 .. ppiCount
  /\ \A i \in 1 .. ppiCount : Published[i] = ppiPtrs[i - 1]

LEMMA PublishedType == TypeOK /\ FilledSlots => PublishedIsList
PROOF
<1> SUFFICES ASSUME TypeOK, FilledSlots PROVE PublishedIsList
  OBVIOUS
<1>1. ppiCount \in Nat /\ ppiCount <= MaxPpis /\ MaxPpis \in Nat
  BY BoundAssumption DEF TypeOK
<1>2. \A i \in 1 .. ppiCount : ppiPtrs[i - 1] \in Ppi
  BY <1>1 DEF FilledSlots, PpiSlot
<1> QED
  BY <1>1, <1>2 DEF Published, PublishedIsList

LEMMA PublishedTypeNext == TypeOK' /\ FilledSlots' => PublishedIsList'
BY PublishedType, PTL

\* Two lists are the same when they have the same elements.
LEMMA SameList ==
  ASSUME NEW S, NEW s \in Seq(S), NEW u \in Seq(S), Len(s) = Len(u),
         \A i \in 1 .. Len(s) : s[i] = u[i]
  PROVE  s = u
OBVIOUS

\* A service runs only in an open or settling phase.
LEMMA RunningPhase ==
  ASSUME IInv, Running
  PROVE  Phase # "settled"
BY DEF IInv, StackOK, Running, Phase

\* An accepted list is published, a rejected one leaves no trace.
LEMMA InstallRefines ==
  ASSUME IInv, FilledSlots, FilledSlots', TypeOK', NEW list \in PpiLists,
         InstallPpi(list)
  PROVE  Promise!Publish(list) \/ UNCHANGED Promise!vars
PROOF
<1>0. TypeOK /\ list \in Seq(Ppi) /\ Len(list) \in Nat /\ ppiCount \in Nat
  BY ListAssumption DEF IInv, TypeOK
<1>1. UNCHANGED <<notifyPtrs, notifyCount, control, told, reinstalled>>
  BY DEF InstallPpi, InstallRejected, InstallAccepted, history
<1>2. Asked' = Asked /\ Phase' = Phase
  BY <1>1 DEF Asked, Phase
<1>3. Phase # "settled"
  BY RunningPhase DEF InstallPpi
<1>4. CASE InstallRejected(list)
  <2>1. \A i \in PpiSlot : i < ppiCount => ppiPtrs'[i] = ppiPtrs[i]
    <3>1. MaxPpis \in Nat /\ ppiPtrs \in [0 .. MaxPpis - 1 -> Ppi \cup {Empty}]
      BY <1>0, BoundAssumption DEF TypeOK, PpiSlot
    <3> QED
      BY <1>0, <1>4, <3>1, ValidPpisType, WrittenKeeps DEF InstallRejected, PpiSlot
  <2>2. Published' = Published
    BY <1>0, <1>4, <2>1, PublishedSame DEF InstallRejected
  <2> QED
    BY <1>1, <1>2, <2>2 DEF Promise!vars, Published, Asked, Phase
<1>5. CASE InstallAccepted(list)
  <2>1. ppiCount' = ppiCount + Len(list)
    BY <1>5 DEF InstallAccepted
  <2>2. /\ Published \in Seq(Ppi) /\ Len(Published) = ppiCount
        /\ \A i \in 1 .. ppiCount : Published[i] = ppiPtrs[i - 1]
    BY <1>0, PublishedType DEF PublishedIsList
  <2>3. /\ Published' \in Seq(Ppi) /\ Len(Published') = ppiCount'
        /\ \A i \in 1 .. ppiCount' : Published'[i] = ppiPtrs'[i - 1]
    BY PublishedTypeNext DEF PublishedIsList
  <2>4. \A i \in PpiSlot : ppiPtrs'[i] = IF i - ppiCount + 1 \in 1 .. Len(list)
                                         THEN list[i - ppiCount + 1] ELSE ppiPtrs[i]
    BY <1>0, <1>5 DEF InstallAccepted, Written, TypeOK
  <2>5. \A i \in 1 .. ppiCount' : i - 1 \in PpiSlot
    BY <1>0, <2>1, BoundAssumption DEF InstallPpi, PpiSlot
  <2> HIDE DEF Published
  <2>6. /\ Published \o list \in Seq(Ppi)
        /\ Len(Published \o list) = ppiCount + Len(list)
        /\ \A i \in 1 .. ppiCount + Len(list) :
             (Published \o list)[i] = IF i <= ppiCount THEN Published[i]
                                      ELSE list[i - ppiCount]
    BY <1>0, <2>2
  <2>7. \A i \in 1 .. ppiCount + Len(list) : Published'[i] = (Published \o list)[i]
    <3> SUFFICES ASSUME NEW i \in 1 .. ppiCount + Len(list)
                 PROVE  Published'[i] = (Published \o list)[i]
      OBVIOUS
    <3>1. Published'[i] = IF (i - 1) - ppiCount + 1 \in 1 .. Len(list)
                          THEN list[(i - 1) - ppiCount + 1] ELSE ppiPtrs[i - 1]
      BY <2>1, <2>3, <2>4, <2>5
    <3>2. (i - 1) - ppiCount + 1 = i - ppiCount
      BY <1>0
    <3> QED
      BY <1>0, <2>2, <2>6, <3>1, <3>2
  <2>8. Published' = Published \o list
    BY <2>1, <2>3, <2>6, <2>7, SameList
  <2> QED
    BY <1>1, <1>2, <1>3, <2>8 DEF Promise!Publish, Published, Asked, Phase
<1> QED
  BY <1>4, <1>5 DEF InstallPpi

\* The slot PeiReInstallPpi writes is replaced.
LEMMA ReInstallRefines ==
  ASSUME IInv, FilledSlots, FilledSlots', TypeOK', NEW old \in Ppi,
         NEW new \in Ppi, ReInstallPpi(old, new)
  PROVE  \E i \in DOMAIN Published : Promise!Replace(i, new)
PROOF
<1>1. PICK i \in FirstSlot(old) : /\ ppiPtrs' = [ppiPtrs EXCEPT ![i] = new]
                                  /\ reinstalled' = reinstalled \cup {i}
  BY DEF ReInstallPpi
<1>2. UNCHANGED <<ppiCount, notifyPtrs, notifyCount, control, told>>
  BY DEF ReInstallPpi
<1>3. Asked' = Asked /\ Phase' = Phase
  BY <1>2 DEF Asked, Phase
<1>4. Phase # "settled"
  BY RunningPhase DEF ReInstallPpi
<1>5. TypeOK /\ ppiCount \in Nat /\ ppiCount <= MaxPpis /\ MaxPpis \in Nat
  BY BoundAssumption DEF IInv, TypeOK
<1>6. i \in 0 .. ppiCount - 1 /\ i \in PpiSlot /\ (i + 1) - 1 = i
  BY <1>5 DEF FirstSlot, PpiSlot
<1>7. i + 1 \in DOMAIN Published
  BY <1>5, <1>6 DEF Published
<1>8. Published' = [Published EXCEPT ![i + 1] = new]
  <2>1. \A k \in 1 .. ppiCount : k - 1 \in PpiSlot
    BY <1>5 DEF PpiSlot
  <2>2. \A k \in 1 .. ppiCount : ppiPtrs'[k - 1] = IF k = i + 1 THEN new
                                                   ELSE ppiPtrs[k - 1]
    BY <1>1, <1>5, <1>6, <2>1 DEF TypeOK
  <2>3. Published' = [k \in 1 .. ppiCount |-> ppiPtrs'[k - 1]]
    BY <1>2 DEF Published
  <2> QED
    BY <1>6, <2>2, <2>3 DEF Published
<1>9. Promise!Replace(i + 1, new)
  BY <1>1, <1>2, <1>3, <1>4, <1>6, <1>8 DEF Promise!Replace, Published, Asked, Phase
<1> QED
  BY <1>7, <1>9

\* An accepted list is registered, a rejected one leaves no trace.
LEMMA NotifyRefines ==
  ASSUME IInv, FilledSlots, FilledSlots', TypeOK', NEW list \in NotifyLists,
         NotifyPpi(list)
  PROVE  Promise!Register(list) \/ UNCHANGED Promise!vars
PROOF
<1>0. TypeOK /\ list \in Seq(Notify)
  BY ListAssumption DEF IInv
<1>1. UNCHANGED <<ppiPtrs, ppiCount, control, told, reinstalled>>
  BY DEF NotifyPpi, NotifyRejected, NotifyAccepted, history
<1>2. Published' = Published /\ Phase' = Phase
  BY <1>1 DEF Published, Phase
<1>3. Phase # "settled"
  BY RunningPhase DEF NotifyPpi
<1>4. CASE NotifyRejected(list)
  <2>1. \A l \in Level, i \in NotifySlot :
          i < notifyCount[l] => notifyPtrs'[l][i] = notifyPtrs[l][i]
    BY <1>0, <1>4, ValidNotifiesType, RegisteredKeeps DEF NotifyRejected
  <2>2. Asked' = Asked
    BY <1>0, <1>4, <2>1, AskedSame DEF NotifyRejected
  <2> QED
    BY <1>1, <1>2, <2>2 DEF Promise!vars, Published, Asked, Phase
<1>5. CASE NotifyAccepted(list)
  <2>1. AskedIsList /\ AskedIsList'
    BY <1>0, AskedType, AskedTypeNext
  <2>2. Asked' \in [Level -> Seq(Notify)]
    BY <2>1 DEF AskedIsList
  <2>3. ASSUME NEW l \in Level
        PROVE  LET added == AtLevel(list, l)
                   n     == Len(Asked[l])
               IN  /\ Len(Asked'[l]) = n + Cardinality(added)
                   /\ \A i \in 1 .. n : Asked'[l][i] = Asked[l][i]
                   /\ \A i \in added :
                        Asked'[l][n + 1 + Cardinality({j \in added : j < i})]
                          = list[i]
    <3> DEFINE n == notifyCount[l]
               added == AtLevel(list, l)
    <3>1. /\ Len(Asked[l]) = n /\ Len(Asked'[l]) = notifyCount'[l]
          /\ \A i \in 1 .. n : Asked[l][i] = notifyPtrs[l][i - 1]
          /\ \A i \in 1 .. notifyCount'[l] : Asked'[l][i] = notifyPtrs'[l][i - 1]
      BY <2>1 DEF AskedIsList
    <3>2. /\ notifyPtrs'[l] = Registered(list)[l]
          /\ notifyCount'[l] = n + Cardinality(added)
      BY <1>5 DEF NotifyAccepted
    <3>3. n \in Nat /\ n <= MaxNotifies /\ MaxNotifies \in Nat
          /\ n + Len(list) <= MaxNotifies /\ Cardinality(added) \in Nat
      BY <1>0, BoundAssumption, AtLevelBound DEF TypeOK, NotifyPpi
    <3>4. \A i \in added : /\ Rank(added, i) \in 0 .. Cardinality(added) - 1
                           /\ n + Rank(added, i) \in NotifySlot
                           /\ Registered(list)[l][n + Rank(added, i)] = list[i]
      <4>1. added \in SUBSET (1 .. Len(list)) /\ Len(list) \in Nat
        BY <1>0 DEF AtLevel
      <4> QED
        BY <1>0, <3>3, <4>1, RankOnto, RegisteredAdds
    <3>5. \A i \in NotifySlot : i < n => Registered(list)[l][i] = notifyPtrs[l][i]
      BY <1>0, RegisteredKeeps
    <3>6. \A i \in added : Rank(added, i) = Cardinality({j \in added : j < i})
      BY DEF Rank
    <3> HIDE DEF n, added
    <3>7. \A i \in 1 .. n : Asked'[l][i] = Asked[l][i]
      <4>1. \A i \in 1 .. n : /\ i - 1 \in NotifySlot /\ i - 1 < n
                              /\ i \in 1 .. notifyCount'[l]
        BY <3>2, <3>3 DEF NotifySlot
      <4> QED
        BY <3>1, <3>2, <3>5, <4>1
    <3>8. \A i \in added : Asked'[l][n + 1 + Rank(added, i)] = list[i]
      <4> SUFFICES ASSUME NEW i \in added
                   PROVE  Asked'[l][n + 1 + Rank(added, i)] = list[i]
        OBVIOUS
      <4>1. /\ n + 1 + Rank(added, i) \in 1 .. notifyCount'[l]
            /\ (n + 1 + Rank(added, i)) - 1 = n + Rank(added, i)
        BY <3>2, <3>3, <3>4
      <4> QED
        BY <3>1, <3>2, <3>4, <4>1
    <3> QED
      BY <3>1, <3>2, <3>6, <3>7, <3>8 DEF n, added
  <2>4. \A S : Promise!Cardinality(S) = Cardinality(S)
    BY DEF Cardinality, Promise!Cardinality
  <2>5. \A l \in Level :
          LET added == {i \in DOMAIN list : LevelOf[list[i]] = l}
              old   == Len(Asked[l])
          IN  /\ Len(Asked'[l]) = old + Promise!Cardinality(added)
              /\ \A i \in 1 .. old : Asked'[l][i] = Asked[l][i]
              /\ \A i \in added :
                   Asked'[l][old + 1 + Promise!Cardinality({j \in added : j < i})]
                     = list[i]
    BY <2>3, <2>4, Zenon DEF AtLevel
  <2> QED
    BY <1>1, <1>2, <1>3, <2>2, <2>5
    DEF Promise!Register, Published, Asked, Phase
<1> QED
  BY <1>4, <1>5 DEF NotifyPpi

\* A signal tells a notify that is registered of the PPI as it is now.
LEMMA SignalRefines ==
  ASSUME IInv, FilledSlots, ToldBySignal, Signal
  PROVE  \E x \in Pair : Promise!Tell(x)
PROOF
<1> DEFINE x == <<Top.level, Top.Index1, Top.Index2>>
<1>1. TypeOK /\ StackOK
  BY DEF IInv
<1>2. /\ stack # <<>> /\ Top \in Frame
      /\ Top.Index1 < Top.NotifyStop /\ Top.Index2 < Top.InstallStop
      /\ GuidOf[notifyPtrs[Top.level][Top.Index1]] = GuidOf[ppiPtrs[Top.Index2]]
  BY <1>1, TopType DEF Signal, AtPair, Looping, TypeOK, NotifyAt, PpiAt
<1>3. FrameOK(Top)
  BY <1>1, <1>2, TopFrameOK
<1>4. /\ Top.Index1 \in Nat /\ Top.Index2 \in Nat /\ Top.InstallStart \in Nat
      /\ Top.InstallStop \in Nat /\ Top.NotifyStop \in Nat /\ Top.level \in Level
  BY <1>2, FrameParts
<1>5. notifyCount[Top.level] \in Nat /\ notifyCount[Top.level] <= MaxNotifies
      /\ ppiCount \in Nat /\ ppiCount <= MaxPpis
      /\ MaxPpis \in Nat /\ MaxNotifies \in Nat
  BY <1>1, <1>4, BoundAssumption DEF TypeOK
<1>6. /\ Top.Index1 < notifyCount[Top.level] /\ Top.Index2 < ppiCount
      /\ Top.Index1 \in NotifySlot /\ Top.Index2 \in PpiSlot
  BY <1>2, <1>3, <1>4, <1>5 DEF FrameOK, NotifySlot, PpiSlot
<1>7. x \in Pair
  BY <1>4, <1>6 DEF Pair
<1>8. x[1] = Top.level /\ x[2] = Top.Index1 /\ x[3] = Top.Index2
  OBVIOUS
<1>9. x \in Owed(Top)
  BY <1>2, <1>3, <1>4, <1>7 DEF Owed, Window, FrameOK
<1>10. Len(stack) \in 1 .. Len(stack)
  BY <1>1, <1>2, TopType DEF TypeOK
<1>11. told[x] = Empty \/ x[3] \in reinstalled
  BY <1>7, <1>9, <1>10 DEF IInv, OwedOnce, ToldBySignal, Top
<1>12. /\ Len(Asked[x[1]]) = notifyCount[x[1]] /\ Len(Published) = ppiCount
       /\ Asked[x[1]][x[2] + 1] = notifyPtrs[x[1]][x[2]]
       /\ Published[x[3] + 1] = ppiPtrs[x[3]]
  <2>1. /\ x[2] + 1 \in 1 .. notifyCount[x[1]] /\ (x[2] + 1) - 1 = x[2]
        /\ x[3] + 1 \in 1 .. ppiCount /\ (x[3] + 1) - 1 = x[3]
    BY <1>4, <1>5, <1>6, <1>8
  <2>2. x[1] \in Level
    BY <1>4, <1>8
  <2> QED
    BY <1>1, <2>1, <2>2, AskedType, PublishedType DEF AskedIsList, PublishedIsList
<1>13. told' = [told EXCEPT ![x] = Published[x[3] + 1]]
  BY <1>8, <1>12 DEF Signal, PpiAt
<1>14. /\ UNCHANGED database /\ reinstalled' = reinstalled /\ control' = control
       /\ Phase # "settled"
  BY <1>1, <1>2 DEF Signal, StackOK, Phase
<1>15. Published' = Published /\ Asked' = Asked /\ Phase' = Phase
  BY <1>14, ListsSame DEF Phase
<1> HIDE DEF x
<1>16. Promise!Wanted(x)
  BY <1>2, <1>6, <1>8, <1>12
  DEF Promise!Wanted, Promise!Registered, Promise!Version, Published, Asked
<1>17. Promise!Tell(x)
  BY <1>11, <1>13, <1>14, <1>15, <1>16
  DEF Promise!Tell, Promise!Version, Published, Asked, Phase
<1> QED
  BY <1>7, <1>17

\* In the terms of the database: what a PEIM's return and the end of
\* ProcessDispatchNotifyList owe nobody.
LEMMA DueParts ==
  ASSUME TypeOK, FilledSlots, NEW x \in Pair, Promise!Due(x)
  PROVE  /\ x[2] < notifyCount[x[1]] /\ x[3] < ppiCount /\ PairMatches(x)
         /\ IF x[1] = "callback" THEN told[x] # ppiPtrs[x[3]]
            ELSE told[x] = Empty /\ x[3] \notin reinstalled
PROOF
<1>1. /\ x[1] \in Level /\ x[2] \in Nat /\ x[3] \in Nat
  BY SlotsAreNumbers, PairParts
<1>2. AskedIsList /\ PublishedIsList
  BY AskedType, PublishedType
<1>3. /\ x[2] < Len(Asked[x[1]]) /\ x[3] < Len(Published)
      /\ GuidOf[Asked[x[1]][x[2] + 1]] = GuidOf[Published[x[3] + 1]]
      /\ IF x[1] = "callback" THEN told[x] # Published[x[3] + 1]
         ELSE told[x] = Empty /\ x[3] \notin reinstalled
  BY DEF Promise!Due, Promise!Wanted, Promise!Registered, Promise!Version,
         Published, Asked
<1>4. /\ x[2] < notifyCount[x[1]] /\ x[3] < ppiCount
      /\ notifyCount[x[1]] \in Nat /\ ppiCount \in Nat
  BY <1>1, <1>2, <1>3 DEF AskedIsList, PublishedIsList, TypeOK
<1>5. /\ x[2] + 1 \in 1 .. notifyCount[x[1]] /\ (x[2] + 1) - 1 = x[2]
      /\ x[3] + 1 \in 1 .. ppiCount /\ (x[3] + 1) - 1 = x[3]
  BY <1>1, <1>4
<1>6. Asked[x[1]][x[2] + 1] = notifyPtrs[x[1]][x[2]]
      /\ Published[x[3] + 1] = ppiPtrs[x[3]]
  BY <1>1, <1>2, <1>5 DEF AskedIsList, PublishedIsList
<1> QED
  BY <1>3, <1>4, <1>6 DEF PairMatches, Matches

\* With no call in progress no callback notify is owed anything.
LEMMA NoCallbackDue ==
  ASSUME IInv, FilledSlots, stack = <<>>, NEW x \in Pair, x[1] = "callback"
  PROVE  ~Promise!Due(x)
PROOF
<1> SUFFICES ASSUME Promise!Due(x) PROVE FALSE
  OBVIOUS
<1>1. x \in CallbackPairs /\ PairMatches(x) /\ told[x] # ppiPtrs[x[3]]
  BY DueParts DEF IInv, CallbackPairs
<1>2. Len(stack) = 0
  OBVIOUS
<1> QED
  BY <1>1, <1>2 DEF IInv, CallbacksOwed

\* Nor is a dispatch notify when both cursors are at their counts.
LEMMA NoDispatchDue ==
  ASSUME IInv, FilledSlots, ppiLast = ppiCount,
         notifyLast = notifyCount["dispatch"],
         NEW x \in Pair, x[1] = "dispatch"
  PROVE  ~Promise!Due(x)
PROOF
<1> SUFFICES ASSUME Promise!Due(x) PROVE FALSE
  OBVIOUS
<1>1. /\ x[2] < notifyCount["dispatch"] /\ x[3] < ppiCount /\ PairMatches(x)
      /\ told[x] = Empty /\ x[3] \notin reinstalled
  BY DueParts DEF IInv
<1>2. x \in Dispatched
  BY <1>1 DEF Dispatched
<1>3. told[x] = ppiPtrs[x[3]]
  BY <1>1, <1>2 DEF IInv, DispatchedTold
<1>4. x[3] \in PpiSlot
  BY PairParts
<1> QED
  BY <1>1, <1>3, <1>4, DescriptorAssumption DEF FilledSlots

\* Every step is a step of the promise, or changes nothing there.
LEMMA StepRefines ==
  ASSUME IInv, FilledSlots, ToldBySignal, IInv', FilledSlots', [Next]_vars
  PROVE  [Promise!Next]_(Promise!vars)
PROOF
<1>0. TypeOK /\ TypeOK'
  BY DEF IInv
<1>1. CASE \E list \in PpiLists : InstallPpi(list)
  BY <1>0, <1>1, InstallRefines DEF Promise!Next
<1>2. CASE \E old, new \in Ppi : ReInstallPpi(old, new)
  <2>1. \E i \in DOMAIN Published, new \in Ppi : Promise!Replace(i, new)
    BY <1>0, <1>2, ReInstallRefines
  <2> QED
    BY <2>1 DEF Promise!Next, Published
<1>3. CASE \E list \in NotifyLists : NotifyPpi(list)
  BY <1>0, <1>3, NotifyRefines DEF Promise!Next
<1>4. CASE Signal
  BY <1>4, SignalRefines DEF Promise!Next, Promise!Pair, Pair, NotifySlot, PpiSlot
<1>5. CASE UNCHANGED <<database, told, reinstalled>> /\ Phase' = Phase
  <2>1. Published' = Published /\ Asked' = Asked
    BY <1>5, ListsSame
  <2> QED
    BY <1>5, <2>1 DEF Promise!vars, Published, Asked, Phase
<1>6. CASE PeimReturns
  <2>1. Published' = Published /\ Asked' = Asked /\ UNCHANGED <<told, reinstalled>>
    BY <1>6, ListsSame DEF PeimReturns, history
  <2>2. \A x \in Pair : x[1] = "callback" => ~Promise!Due(x)
    BY <1>6, NoCallbackDue DEF PeimReturns
  <2>3. Phase = "open" /\ Phase' = "settling"
    BY <1>6 DEF PeimReturns, Phase
  <2>4. Promise!PeimReturns
    BY <2>1, <2>2, <2>3 DEF Promise!PeimReturns, Published, Asked, Phase,
       Promise!Pair, Pair, NotifySlot, PpiSlot
  <2> QED
    BY <2>4 DEF Promise!Next
<1>7. CASE DispatchNewPpis /\ control' = "done"
  <2>1. Published' = Published /\ Asked' = Asked /\ UNCHANGED <<told, reinstalled>>
    BY <1>7, ListsSame DEF DispatchNewPpis, history
  <2>2. /\ stack = <<>> /\ control = "ppis" /\ ppiLast = ppiCount
        /\ notifyLast = notifyCount["dispatch"]
    BY <1>7 DEF DispatchNewPpis
  <2>3. \A x \in Pair : ~Promise!Due(x)
    BY <2>2, NoCallbackDue, NoDispatchDue, PairParts DEF Level
  <2>4. Phase = "settling" /\ Phase' = "settled"
    BY <1>7, <2>2 DEF Phase
  <2>5. Promise!Settle
    BY <2>1, <2>3, <2>4 DEF Promise!Settle, Published, Asked, Phase,
       Promise!Pair, Pair, NotifySlot, PpiSlot
  <2> QED
    BY <2>5 DEF Promise!Next
<1>8. CASE NextPeim
  <2>1. Published' = Published /\ Asked' = Asked /\ UNCHANGED <<told, reinstalled>>
    BY <1>8, ListsSame DEF NextPeim, history
  <2>2. Phase = "settled" /\ Phase' = "open"
    BY <1>8 DEF NextPeim, Phase
  <2>3. Promise!NextPeim
    BY <2>1, <2>2 DEF Promise!NextPeim, Published, Asked, Phase
  <2> QED
    BY <2>3 DEF Promise!Next
<1>9. \/ Services \/ Signal \/ PeimReturns \/ NextPeim
      \/ DispatchNewPpis /\ control' = "done"
      \/ UNCHANGED <<database, told, reinstalled>> /\ Phase' = Phase
  <2>1. CASE Core
    <3>1. CASE DispatchNewPpis
      BY <3>1 DEF DispatchNewPpis, Phase, history
    <3>2. CASE DispatchNewNotifies
      BY <3>2 DEF DispatchNewNotifies, Phase, history
    <3> QED
      BY <2>1, <3>1, <3>2 DEF Core, Skip, NextNotify, NotificationReturns,
         ServiceReturns, DispatchReturns, Phase, history
  <2>2. CASE UNCHANGED vars
    BY <2>2 DEF vars, database, Phase
  <2> QED
    BY <2>1, <2>2 DEF Next
<1> QED
  BY <1>1, <1>2, <1>3, <1>4, <1>5, <1>6, <1>7, <1>8, <1>9 DEF Services

\* The database keeps its promise for any descriptors, lists and bounds:
\* every step of PpiDatabase is a step of PpiPromise or changes nothing there.
THEOREM DatabaseKeepsPromise == Spec => ImplementsPromise
PROOF
<1>1. Init => Promise!Init
  <2> SUFFICES ASSUME Init PROVE Promise!Init
    OBVIOUS
  <2>1. /\ ppiCount = 0 /\ notifyCount = [l \in Level |-> 0] /\ control = "peim"
        /\ told = [x \in Pair |-> Empty] /\ reinstalled = {}
    BY DEF Init
  <2>2. Published = <<>> /\ Asked = [l \in Level |-> <<>>] /\ Phase = "open"
    BY <2>1 DEF Published, Asked, Phase
  <2> QED
    BY <2>1, <2>2 DEF Promise!Init, Published, Asked, Phase, Promise!Pair, Pair,
       NotifySlot, PpiSlot
<1>2. IInv /\ FilledSlots /\ ToldBySignal
      /\ (IInv /\ FilledSlots /\ ToldBySignal)' /\ [Next]_vars
        => [Promise!Next]_(Promise!vars)
  BY StepRefines
<1> QED
  BY <1>1, <1>2, RefinementInvariant, PTL DEF Spec, ImplementsPromise, Promise!Spec
=============================================================================
