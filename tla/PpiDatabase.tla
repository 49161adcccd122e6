---------------------------- MODULE PpiDatabase ----------------------------
(***************************************************************************)
(* The PPI database of the PEI core (MdeMoudulePkg/Core/Pei/Ppi/Ppi.c):    *)
(* the list of installed PPIs, the two lists of notifications (callback    *)
(* level and dispatch level) and the signalling of notifications.          *)
(*                                                                         *)
(* A notification runs inside the service that triggered it and may itself *)
(* install, reinstall or ask to be notified, so ProcessNotify is           *)
(* re-entered to any depth.  The calls of ProcessNotify in progress are    *)
(* kept in "stack", the innermost one last; whoever runs (a PEIM's entry   *)
(* point or the innermost notification) may call any of the services.      *)
(***************************************************************************)
EXTENDS Integers, Sequences, FiniteSets

CONSTANTS
  Ppi,            \* PPI descriptors (addresses of EFI_PEI_PPI_DESCRIPTOR)
  Notify,         \* notification descriptors (EFI_PEI_NOTIFY_DESCRIPTOR)
  GuidOf,         \* [Ppi \cup Notify -> GUID]: the Guid field of each
  IsPpi,          \* [Ppi -> BOOLEAN]: is EFI_PEI_PPI_DESCRIPTOR_PPI set
  LevelOf,        \* [Notify -> Level \cup {"none"}]: the NOTIFY_TYPES flags
  PpiLists,       \* the lists of PPI descriptors the callers pass
  NotifyLists,    \* the lists of notification descriptors they pass
  MaxPpis,        \* bound on CurrentCount of the PPI list
  MaxNotifies,    \* bound on CurrentCount of each notification list
  MaxReinstalls,  \* bound on the number of PeiReInstallPpi calls
  Empty           \* an unwritten slot

Level == {"callback", "dispatch"}

ASSUME BoundAssumption ==
  MaxPpis \in Nat /\ MaxNotifies \in Nat /\ MaxReinstalls \in Nat
ASSUME DescriptorAssumption ==
  /\ Empty \notin Ppi /\ Empty \notin Notify
  /\ IsPpi \in [Ppi -> BOOLEAN]
  /\ LevelOf \in [Notify -> Level \cup {"none"}]
ASSUME ListAssumption ==
  /\ PpiLists \subseteq Seq(Ppi) \ {<<>>}
  /\ NotifyLists \subseteq Seq(Notify) \ {<<>>}

VARIABLES
  ppiPtrs,      \* PpiList.PpiPtrs: slots 0 .. MaxPpis - 1
  ppiCount,     \* PpiList.CurrentCount
  ppiLast,      \* PpiList.LastDispatchedCount
  notifyPtrs,   \* NotifyPtrs of the callback and the dispatch list
  notifyCount,  \* CurrentCount of the callback and the dispatch list
  notifyLast,   \* DispatchNotifyList.LastDispatchedCount
  stack,        \* the calls of ProcessNotify in progress
  control,      \* where the code under the stack is, see Control
  calls,        \* history: how often each notify was signalled for a slot
  told,         \* history: the descriptor each was last signalled with
  reinstalled,  \* history: the slots PeiReInstallPpi wrote
  reinstalls    \* history: the number of PeiReInstallPpi calls that wrote

database == <<ppiPtrs, ppiCount, notifyPtrs, notifyCount>>
history  == <<calls, told, reinstalled, reinstalls>>
vars == <<ppiPtrs, ppiCount, ppiLast, notifyPtrs, notifyCount, notifyLast,
          stack, control, calls, told, reinstalled, reinstalls>>

PpiSlot    == 0 .. MaxPpis - 1
NotifySlot == 0 .. MaxNotifies - 1
Pair       == Level \X NotifySlot \X PpiSlot

(* "peim": a PEIM's entry point runs.  "notifies" and "ppis": the first    *)
(* and the second inner loop of ProcessDispatchNotifyList.  "done":        *)
(* ProcessDispatchNotifyList has returned to the dispatcher.               *)
Control == {"peim", "notifies", "ppis", "done"}

(* The locals of one ProcessNotify call: Index1 and Index2 are the next    *)
(* pair to compare; "busy" says that the notification of the pair compared *)
(* last is running.                                                        *)
Frame == [level : Level, Index1 : 0 .. MaxNotifies, Index2 : 0 .. MaxPpis,
          InstallStart : 0 .. MaxPpis, InstallStop : 0 .. MaxPpis,
          NotifyStop : 0 .. MaxNotifies, busy : BOOLEAN]

TypeOK ==
  /\ ppiPtrs \in [PpiSlot -> Ppi \cup {Empty}]
  /\ ppiCount \in 0 .. MaxPpis
  /\ ppiLast \in 0 .. MaxPpis
  /\ notifyPtrs \in [Level -> [NotifySlot -> Notify \cup {Empty}]]
  /\ notifyCount \in [Level -> 0 .. MaxNotifies]
  /\ notifyLast \in 0 .. MaxNotifies
  /\ stack \in Seq(Frame)
  /\ control \in Control
  /\ calls \in [Pair -> Nat]
  /\ told \in [Pair -> Ppi \cup {Empty}]
  /\ reinstalled \subseteq PpiSlot
  /\ reinstalls \in 0 .. MaxReinstalls

Init ==
  /\ ppiPtrs = [i \in PpiSlot |-> Empty]
  /\ ppiCount = 0
  /\ ppiLast = 0
  /\ notifyPtrs = [l \in Level |-> [i \in NotifySlot |-> Empty]]
  /\ notifyCount = [l \in Level |-> 0]
  /\ notifyLast = 0
  /\ stack = <<>>
  /\ control = "peim"
  /\ calls = [x \in Pair |-> 0]
  /\ told = [x \in Pair |-> Empty]
  /\ reinstalled = {}
  /\ reinstalls = 0

-----------------------------------------------------------------------------
(* Who runs, and the frame it runs in.                                     *)

Top == stack[Len(stack)]

\* Code outside the PEI core is running: a PEIM's entry point, or the
\* notification the innermost ProcessNotify has called.
Running == IF stack = <<>> THEN control = "peim" ELSE Top.busy

\* The innermost ProcessNotify is in its own loop.
Looping == stack # <<>> /\ ~Top.busy

\* What a call of ProcessNotify starts with.
NotifyFrame(level, iStart, iStop, nStart, nStop) ==
  [level |-> level, Index1 |-> nStart, Index2 |-> iStart,
   InstallStart |-> iStart, InstallStop |-> iStop, NotifyStop |-> nStop,
   busy |-> FALSE]

CallProcessNotify(level, iStart, iStop, nStart, nStop) ==
  stack' = Append(stack, NotifyFrame(level, iStart, iStop, nStart, nStop))

SetTop(f) == stack' = [stack EXCEPT ![Len(stack)] = f]

-----------------------------------------------------------------------------
(* The services.                                                           *)

\* Slots from "from" on overwritten with the elements of list.
Written(ptrs, from, list) ==
  [i \in DOMAIN ptrs |->
     IF i - from + 1 \in DOMAIN list THEN list[i - from + 1] ELSE ptrs[i]]

\* The part of a list before its first descriptor that is not a PPI: what
\* the loop of InternalPeiInstallPpi has written when it stops there.
ValidPpis(list) ==
  SubSeq(list, 1, Cardinality({i \in DOMAIN list :
                                 \A j \in 1 .. i : IsPpi[list[j]]}))

\* Mutant: the descriptors that were written stay counted.
InstallRejectedKept(list) ==
  /\ \E i \in DOMAIN list : ~IsPpi[list[i]]
  /\ ppiPtrs' = Written(ppiPtrs, ppiCount, ValidPpis(list))
  /\ ppiCount' = ppiCount + Len(ValidPpis(list))
  /\ UNCHANGED <<ppiLast, notifyPtrs, notifyCount, notifyLast, stack,
                 control, history>>

\* PeiInstallPpi of a list with an invalid descriptor: the loop has written
\* the ones before it, CurrentCount is put back and nobody is signalled.
InstallRejected(list) ==
  /\ \E i \in DOMAIN list : ~IsPpi[list[i]]
  /\ ppiPtrs' = Written(ppiPtrs, ppiCount, ValidPpis(list))
  /\ ppiCount' = ppiCount
  /\ UNCHANGED <<ppiLast, notifyPtrs, notifyCount, notifyLast, stack,
                 control, history>>

\* Mutant: the callbacks are signalled for the whole database.
InstallAcceptedAll(list) ==
  /\ \A i \in DOMAIN list : IsPpi[list[i]]
  /\ ppiPtrs' = Written(ppiPtrs, ppiCount, list)
  /\ ppiCount' = ppiCount + Len(list)
  /\ CallProcessNotify("callback", 0, ppiCount + Len(list),
                       0, notifyCount["callback"])
  /\ UNCHANGED <<ppiLast, notifyPtrs, notifyCount, notifyLast, control,
                 history>>

InstallAccepted(list) ==
  /\ \A i \in DOMAIN list : IsPpi[list[i]]
  /\ ppiPtrs' = Written(ppiPtrs, ppiCount, list)
  /\ ppiCount' = ppiCount + Len(list)
  /\ CallProcessNotify("callback", ppiCount, ppiCount + Len(list),
                       0, notifyCount["callback"])
  /\ UNCHANGED <<ppiLast, notifyPtrs, notifyCount, notifyLast, control,
                 history>>

InstallPpi(list) ==
  /\ Running
  /\ ppiCount + Len(list) <= MaxPpis
  /\ InstallRejected(list) \/ InstallAccepted(list)

\* PeiReInstallPpi: the first slot that holds old gets new, whatever the
\* GUID of new, and the callback notifies are signalled for that slot.
FirstSlot(old) ==
  {i \in 0 .. ppiCount - 1 :
     ppiPtrs[i] = old /\ \A j \in 0 .. i - 1 : ppiPtrs[j] # old}

ReInstallPpi(old, new) ==
  /\ Running
  /\ IsPpi[new]
  /\ reinstalls < MaxReinstalls
  /\ \E i \in FirstSlot(old) :
       /\ ppiPtrs' = [ppiPtrs EXCEPT ![i] = new]
       /\ reinstalled' = reinstalled \cup {i}
       /\ CallProcessNotify("callback", i, i + 1, 0, notifyCount["callback"])
  /\ reinstalls' = reinstalls + 1
  /\ UNCHANGED <<ppiCount, ppiLast, notifyPtrs, notifyCount, notifyLast,
                 control, calls, told>>

\* The positions of a list whose descriptor goes to the notification list of
\* a level.  The code tests the callback flag first, so no position is in two.
AtLevel(list, level) == {i \in DOMAIN list : LevelOf[list[i]] = level}

\* The descriptors of each level appended to the list of that level.
Registered(list) ==
  [l \in Level |->
     [slot \in NotifySlot |->
        LET here == {i \in AtLevel(list, l) :
                       slot = notifyCount[l]
                              + Cardinality({j \in AtLevel(list, l) : j < i})}
        IN  IF here = {} THEN notifyPtrs[l][slot]
            ELSE list[CHOOSE i \in here : TRUE]]]

\* The part of a list before its first descriptor without a notify flag.
ValidNotifies(list) ==
  SubSeq(list, 1, Cardinality({i \in DOMAIN list :
                                 \A j \in 1 .. i : LevelOf[list[j]] # "none"}))

\* Both counts are put back when a descriptor has no notify flag.
NotifyRejected(list) ==
  /\ \E i \in DOMAIN list : LevelOf[list[i]] = "none"
  /\ notifyPtrs' = Registered(ValidNotifies(list))
  /\ notifyCount' = notifyCount
  /\ UNCHANGED <<ppiPtrs, ppiCount, ppiLast, notifyLast, stack, control,
                 history>>

NotifyAccepted(list) ==
  /\ \A i \in DOMAIN list : LevelOf[list[i]] # "none"
  /\ notifyPtrs' = Registered(list)
  /\ notifyCount' = [l \in Level |->
                       notifyCount[l] + Cardinality(AtLevel(list, l))]
  /\ CallProcessNotify("callback", 0, ppiCount,
                       notifyCount["callback"], notifyCount'["callback"])
  /\ UNCHANGED <<ppiPtrs, ppiCount, ppiLast, notifyLast, control, history>>

NotifyPpi(list) ==
  /\ Running
  /\ \A l \in Level : notifyCount[l] + Len(list) <= MaxNotifies
  /\ NotifyRejected(list) \/ NotifyAccepted(list)

-----------------------------------------------------------------------------
(* ProcessNotify: one action per turn of its inner loop.                   *)

\* The descriptors the innermost ProcessNotify compares.  They are read from
\* the lists again on every turn.
NotifyAt == notifyPtrs[Top.level][Top.Index1]
PpiAt    == ppiPtrs[Top.Index2]

AtPair == /\ Looping
          /\ Top.Index1 < Top.NotifyStop
          /\ Top.Index2 < Top.InstallStop

\* The GUIDs are equal: the notification is called with the PPI.
Signal ==
  /\ AtPair
  /\ GuidOf[NotifyAt] = GuidOf[PpiAt]
  /\ LET x == <<Top.level, Top.Index1, Top.Index2>>
     IN  /\ calls' = [calls EXCEPT ![x] = @ + 1]
         /\ told' = [told EXCEPT ![x] = PpiAt]
  /\ SetTop([Top EXCEPT !.Index2 = @ + 1, !.busy = TRUE])
  /\ UNCHANGED <<database, ppiLast, notifyLast, control, reinstalled,
                 reinstalls>>

Skip ==
  /\ AtPair
  /\ GuidOf[NotifyAt] # GuidOf[PpiAt]
  /\ SetTop([Top EXCEPT !.Index2 = @ + 1])
  /\ UNCHANGED <<database, ppiLast, notifyLast, control, history>>

NextNotify ==
  /\ Looping
  /\ Top.Index1 < Top.NotifyStop
  /\ Top.Index2 >= Top.InstallStop
  /\ SetTop([Top EXCEPT !.Index1 = @ + 1, !.Index2 = Top.InstallStart])
  /\ UNCHANGED <<database, ppiLast, notifyLast, control, history>>

\* The notification returns to the ProcessNotify that called it.
NotificationReturns ==
  /\ stack # <<>> /\ Top.busy
  /\ SetTop([Top EXCEPT !.busy = FALSE])
  /\ UNCHANGED <<database, ppiLast, notifyLast, control, history>>

Popped == SubSeq(stack, 1, Len(stack) - 1)

\* ProcessNotify returns to a service, which returns to its caller.
ServiceReturns ==
  /\ Looping
  /\ Top.Index1 >= Top.NotifyStop
  /\ Top.level = "callback"
  /\ stack' = Popped
  /\ UNCHANGED <<database, ppiLast, notifyLast, control, history>>

-----------------------------------------------------------------------------
(* ProcessDispatchNotifyList, which the dispatcher calls when a PEIM has   *)
(* returned.  TempValue, the count the loop has read before it called      *)
(* ProcessNotify, is the stop index of the frame.                          *)

PeimReturns ==
  /\ stack = <<>> /\ control = "peim"
  /\ control' = "notifies"
  /\ UNCHANGED <<database, ppiLast, notifyLast, stack, history>>

\* First inner loop: the notifies not looked at yet, against the PPIs
\* that the dispatched notifies were already signalled for.
DispatchNewNotifies ==
  /\ stack = <<>> /\ control = "notifies"
  /\ IF notifyLast # notifyCount["dispatch"]
     THEN /\ CallProcessNotify("dispatch", 0, ppiLast,
                               notifyLast, notifyCount["dispatch"])
          /\ UNCHANGED control
     ELSE control' = "ppis" /\ UNCHANGED stack
  /\ UNCHANGED <<database, ppiLast, notifyLast, history>>

\* Mutant: leaves without looking for notifies registered meanwhile.
DispatchNewPpisOnce ==
  /\ stack = <<>> /\ control = "ppis"
  /\ IF ppiLast # ppiCount
     THEN /\ CallProcessNotify("dispatch", ppiLast, ppiCount, 0, notifyLast)
          /\ UNCHANGED control
     ELSE control' = "done" /\ UNCHANGED stack
  /\ UNCHANGED <<database, ppiLast, notifyLast, history>>

\* Second inner loop: the PPIs not looked at yet, against the dispatched
\* notifies; then the test that leaves the outer loop.
DispatchNewPpis ==
  /\ stack = <<>> /\ control = "ppis"
  /\ IF ppiLast # ppiCount
     THEN /\ CallProcessNotify("dispatch", ppiLast, ppiCount, 0, notifyLast)
          /\ UNCHANGED control
     ELSE /\ control' = IF notifyLast = notifyCount["dispatch"]
                        THEN "done" ELSE "notifies"
          /\ UNCHANGED stack
  /\ UNCHANGED <<database, ppiLast, notifyLast, history>>

\* Mutant: the cursor is moved to the present count, not to the count read
\* before the call.
DispatchReturnsLate ==
  /\ Looping
  /\ Top.Index1 >= Top.NotifyStop
  /\ Top.level = "dispatch"
  /\ stack' = Popped
  /\ IF control = "notifies"
     THEN notifyLast' = notifyCount["dispatch"] /\ UNCHANGED ppiLast
     ELSE ppiLast' = ppiCount /\ UNCHANGED notifyLast
  /\ UNCHANGED <<database, control, history>>

\* ProcessNotify returns to one of the two loops, which moves its cursor.
DispatchReturns ==
  /\ Looping
  /\ Top.Index1 >= Top.NotifyStop
  /\ Top.level = "dispatch"
  /\ stack' = Popped
  /\ IF control = "notifies"
     THEN notifyLast' = Top.NotifyStop /\ UNCHANGED ppiLast
     ELSE ppiLast' = Top.InstallStop /\ UNCHANGED notifyLast
  /\ UNCHANGED <<database, control, history>>

\* The dispatcher enters the next PEIM.
NextPeim ==
  /\ stack = <<>> /\ control = "done"
  /\ control' = "peim"
  /\ UNCHANGED <<database, ppiLast, notifyLast, stack, history>>

-----------------------------------------------------------------------------
Services ==
  \/ \E list \in PpiLists : InstallPpi(list)
  \/ \E old, new \in Ppi : ReInstallPpi(old, new)
  \/ \E list \in NotifyLists : NotifyPpi(list)

\* What the PEI core does by itself, and the returns of the code it calls.
Core ==
  \/ Signal \/ Skip \/ NextNotify \/ NotificationReturns \/ ServiceReturns
  \/ PeimReturns \/ DispatchNewNotifies \/ DispatchNewPpis \/ DispatchReturns

Next == Services \/ Core \/ NextPeim

Spec == Init /\ [][Next]_vars

-----------------------------------------------------------------------------
(* Properties.                                                             *)

Matches(n, p) == GuidOf[n] = GuidOf[p]

\* Pairs of a registered notify and an installed PPI.
CallbackPairs ==
  {x \in Pair : x[1] = "callback" /\ x[2] < notifyCount["callback"] /\ x[3] < ppiCount}

DispatchPairs ==
  {x \in Pair : x[1] = "dispatch" /\ x[2] < notifyCount["dispatch"] /\ x[3] < ppiCount}

PairMatches(x) == Matches(notifyPtrs[x[1]][x[2]], ppiPtrs[x[3]])

\* When the services called by a PEIM have all returned, every callback
\* notify has been told of every PPI of its GUID, in its present version,
\* however installs, reinstalls and registrations were nested in each other.
CallbacksUpToDate ==
  stack = <<>> =>
    \A x \in CallbackPairs : PairMatches(x) => told[x] = ppiPtrs[x[3]]

\* Nobody is signalled twice for a PPI that was not reinstalled: the windows
\* of nested ProcessNotify calls never overlap, nor do those that the two
\* loops of ProcessDispatchNotifyList work through.
SignalledOnce ==
  \A x \in Pair : x[3] \notin reinstalled => calls[x] <= 1

\* When ProcessDispatchNotifyList returns, every dispatch notify has been
\* told of every PPI of its GUID, also of those that dispatch notifies
\* installed while it ran.
DispatchComplete ==
  control = "done" =>
    \A x \in DispatchPairs :
      (x[3] \notin reinstalled /\ PairMatches(x)) => told[x] = ppiPtrs[x[3]]

\* The database implements its promise: PpiPromise, with the lists cut at
\* their counts and the two loops of ProcessDispatchNotifyList as "settling".
Promise == INSTANCE PpiPromise WITH
  ppis     <- [i \in 1 .. ppiCount |-> ppiPtrs[i - 1]],
  notifies <- [l \in Level |->
                 [i \in 1 .. notifyCount[l] |-> notifyPtrs[l][i - 1]]],
  replaced <- reinstalled,
  phase    <- CASE control = "peim" -> "open"
                [] control = "done" -> "settled"
                [] OTHER -> "settling"

\* Whoever registers, publishes or replaces, in whatever nesting, the step
\* is one the promise allows; in particular a PEIM's return and the end of
\* ProcessDispatchNotifyList leave nobody untold.
ImplementsPromise == Promise!Spec

-----------------------------------------------------------------------------
(* The inductive invariant behind SignalledOnce, CallbacksUpToDate and     *)
(* DispatchComplete: which pairs each call of ProcessNotify still owes.    *)

\* The pairs a call of ProcessNotify was made for, and those it has not
\* compared yet.
Window(f) ==
  {x \in Pair : /\ x[1] = f.level
                /\ x[2] < f.NotifyStop
                /\ f.InstallStart <= x[3] /\ x[3] < f.InstallStop}

Owed(f) ==
  {x \in Window(f) : x[2] > f.Index1 \/ (x[2] = f.Index1 /\ x[3] >= f.Index2)}

FrameOK(f) ==
  /\ f.InstallStart <= f.Index2 /\ f.InstallStart <= f.InstallStop
  /\ f.Index1 <= f.NotifyStop
  /\ f.InstallStop <= ppiCount
  /\ f.NotifyStop <= notifyCount[f.level]

\* Only the innermost call is in its own loop, and a dispatch level call is
\* one that ProcessDispatchNotifyList made, for the window its loop chose.
StackOK ==
  /\ \A k \in 1 .. Len(stack) :
       /\ FrameOK(stack[k])
       /\ k < Len(stack) => stack[k].busy
       /\ stack[k].level = "dispatch" =>
            k = 1 /\ control \in {"notifies", "ppis"}
  /\ stack # <<>> =>
       /\ control # "done"
       /\ control \in {"notifies", "ppis"} => stack[1].level = "dispatch"
       /\ control = "notifies" =>
            /\ stack[1].InstallStart = 0 /\ stack[1].InstallStop = ppiLast
            /\ notifyLast <= stack[1].Index1
       /\ control = "ppis" =>
            stack[1].InstallStart = ppiLast /\ stack[1].NotifyStop = notifyLast

CursorsOK ==
  /\ ppiLast <= ppiCount /\ notifyLast <= notifyCount["dispatch"]
  /\ control = "done" =>
       ppiLast = ppiCount /\ notifyLast = notifyCount["dispatch"]

\* A callback pair that is not up to date is still owed by some call.
CallbacksOwed ==
  \A x \in CallbackPairs : PairMatches(x) =>
    \/ told[x] = ppiPtrs[x[3]]
    \/ \E k \in 1 .. Len(stack) : x \in Owed(stack[k])

\* The pairs below both cursors are dispatched, and those the dispatch level
\* call in progress has already compared; no other dispatch pair is.
Dispatched ==
  {x \in Pair : x[1] = "dispatch" /\ x[2] < notifyLast /\ x[3] < ppiLast}
  \cup (IF stack # <<>> /\ stack[1].level = "dispatch"
        THEN (Window(stack[1]) \ Owed(stack[1])) ELSE {})

DispatchedTold ==
  \A x \in Dispatched :
    (x[3] \notin reinstalled /\ PairMatches(x)) => told[x] = ppiPtrs[x[3]]

\* A pair of a slot never reinstalled is owed by one call at most, and then
\* it has not been signalled; nor has one that no call was made for yet.
OwedOnce ==
  \A x \in Pair : x[3] \notin reinstalled =>
    /\ calls[x] <= 1
    /\ (x[2] >= notifyCount[x[1]] \/ x[3] >= ppiCount) => calls[x] = 0
    /\ (x[1] = "dispatch" /\ x \notin Dispatched) => calls[x] = 0
    /\ \A k \in 1 .. Len(stack) : x \in Owed(stack[k]) =>
         /\ calls[x] = 0
         /\ \A j \in 1 .. Len(stack) : x \in Owed(stack[j]) => j = k

IInv == /\ TypeOK /\ StackOK /\ CursorsOK /\ CallbacksOwed
        /\ DispatchedTold /\ OwedOnce
=============================================================================
