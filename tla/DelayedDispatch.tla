-------------------------- MODULE DelayedDispatch --------------------------
(***************************************************************************)
(* Delayed dispatch (MdeMoudulePkg/Core/Pei/Dispatcher/Dispatcher.c, lines *)
(* 107-379): PEIMs put functions into a table, to be called when some time *)
(* has passed; the dispatcher goes through the table after every file, a   *)
(* PEIM may wait for a group of functions, and PEI ends only when the      *)
(* table is empty.  PeiDispatcher models the dispatcher around it.         *)
(*                                                                         *)
(* The calls of DelayedDispatchDispatcher in progress are a stack: while   *)
(* it calls a function, the function may use the PPI that leads back to    *)
(* it.  The table is the array it is, with the slots behind Count.         *)
(***************************************************************************)
EXTENDS Integers, Sequences, FiniteSets

CONSTANTS
  Request,       \* the calls of PeiDelayedDispatchRegister PEI may see
  Group,         \* groups, each named by a GUID
  NoGroup,       \* the zero GUID, and no group at all
  GroupOf,       \* [Request -> Group \cup {NoGroup}]
  DelayOf,       \* [Request -> Nat]
  DELAYED_DISPATCH_MAX_ENTRIES,
  PcdDelayedDispatchMaxDelayUs,
  PcdDelayedDispatchCompletionTimeoutUs,
  COUNT_MODULUS, \* the width of Count
  MaxTime,       \* bound: the time stops here
  LastRequest,   \* bound: nobody asks for a delay any more after this time
  MaxDepth       \* bound on the calls in progress

ASSUME TableAssumption ==
  /\ NoGroup \notin Group
  /\ GroupOf \in [Request -> Group \cup {NoGroup}]
  /\ DelayOf \in [Request -> 0 .. PcdDelayedDispatchMaxDelayUs]
  /\ DELAYED_DISPATCH_MAX_ENTRIES \in Nat \ {0}
  /\ PcdDelayedDispatchMaxDelayUs \in Nat \ {0}
  /\ PcdDelayedDispatchCompletionTimeoutUs \in Nat
  /\ MaxTime \in Nat
  /\ COUNT_MODULUS \in Nat /\ DELAYED_DISPATCH_MAX_ENTRIES < COUNT_MODULUS
  /\ LastRequest \in Nat /\ MaxDepth \in Nat \ {0}

VARIABLES
  entries,  \* Entry[]: request, DispatchTime and MicrosecondDelay of a slot
  count,    \* Count
  now,      \* GET_TIME_IN_US
  stack,    \* the calls of DelayedDispatchDispatcher in progress
  phase,    \* "pei", "ending": in PeiDelayedDispatchOnEndOfPei, "ended"
  corrupt,  \* CopyMem was given a length below zero
  state     \* history: what became of each request

vars == <<entries, count, now, stack, phase, corrupt, state>>

Slot  == 1 .. DELAYED_DISPATCH_MAX_ENTRIES
Time  == 0 .. MaxTime
Delay == 0 .. PcdDelayedDispatchMaxDelayUs

Entry == [request : Request, dispatchTime : Nat, delay : Delay]

SlotType == [request : Request \cup {NoGroup}, dispatchTime : Nat, delay : Delay]

\* A slot nobody has written yet: the table is zeroed when it is made.
Unused == [request |-> NoGroup, dispatchTime |-> 0, delay |-> 0]

(* "while" and "for": the heads of the two loops; "called": a function is  *)
(* called.  index, present and maxTime are the local variables; seen is    *)
(* the history of the requests this cycle has looked at, calls the request *)
(* that was called, kept whether in this cycle no cycle of a nested call   *)
(* has deleted the entry index stands at, or one before it.                *)
Frame == [at : {"while", "for", "called"}, group : Group \cup {NoGroup},
          present : BOOLEAN, maxTime : Nat, index : Nat,
          seen : SUBSET Request, calls : Request \cup {NoGroup},
          kept : BOOLEAN]

TypeOK ==
  /\ entries \in [Slot -> SlotType]
  /\ count \in 0 .. COUNT_MODULUS - 1
  /\ now \in Time
  /\ stack \in Seq(Frame)
  /\ phase \in {"pei", "ending", "ended"}
  /\ corrupt \in BOOLEAN
  /\ state \in [Request -> {"new", "refused", "waiting", "done", "dropped"}]

Init ==
  /\ entries = [s \in Slot |-> Unused] /\ count = 0
  /\ now = 0 /\ stack = <<>> /\ phase = "pei" /\ corrupt = FALSE
  /\ state = [r \in Request |-> "new"]

-----------------------------------------------------------------------------
Top == stack[Len(stack)]
At(place) == stack # <<>> /\ Top.at = place /\ ~corrupt
SetTop(frame) == stack' = [stack EXCEPT ![Len(stack)] = frame]

\* DelayedDispatchDispatcher is called.
NewFrame(group) ==
  [at |-> "while", group |-> group, present |-> TRUE,
   maxTime |-> now + PcdDelayedDispatchCompletionTimeoutUs,
   index |-> 0, seen |-> {}, calls |-> NoGroup, kept |-> TRUE]

DelayedDispatchDispatcher(group) == stack' = Append(stack, NewFrame(group))

\* The caller of the services: a PEIM, or the function that is called.
MayUsePpi(nests) ==
  \/ stack = <<>> /\ phase = "pei"
  \/ At("called") /\ (nests => Len(stack) < MaxDepth)

Full == count = DELAYED_DISPATCH_MAX_ENTRIES

\* Mutant: a new entry is written over the last one.
NewSlotShort == IF count = 0 THEN 1 ELSE count

NewSlot == count + 1

\* Delay 0 forces an early dispatch point.
PeiDelayedDispatchRegister(r) ==
  /\ MayUsePpi(DelayOf[r] = 0)
  /\ state[r] = "new" /\ now <= LastRequest
  /\ IF Full
     THEN /\ state' = [state EXCEPT ![r] = "refused"]
          /\ UNCHANGED <<entries, count, stack>>
     ELSE /\ entries' = [entries EXCEPT ![NewSlot] =
                [request |-> r, dispatchTime |-> now + DelayOf[r],
                 delay |-> DelayOf[r]]]
          /\ count' = count + 1
          /\ state' = [state EXCEPT ![r] = "waiting"]
          /\ IF DelayOf[r] = 0 THEN DelayedDispatchDispatcher(NoGroup)
                               ELSE UNCHANGED stack
  /\ UNCHANGED <<now, phase, corrupt>>

PeiDelayedDispatchWaitOnEvent(g) ==
  /\ MayUsePpi(TRUE)
  /\ DelayedDispatchDispatcher(g)
  /\ UNCHANGED <<entries, count, now, phase, corrupt, state>>

\* After every file PeiDispatcher goes through the table once.
DispatcherCycle ==
  /\ stack = <<>> /\ phase = "pei"
  /\ DelayedDispatchDispatcher(NoGroup)
  /\ UNCHANGED <<entries, count, now, phase, corrupt, state>>

\* The End of PEI signal is notified.
PeiDelayedDispatchOnEndOfPei ==
  /\ stack = <<>> /\ phase = "pei"
  /\ phase' = "ending"
  /\ UNCHANGED <<entries, count, now, stack, corrupt, state>>

EndOfPeiLoop ==
  /\ stack = <<>> /\ phase = "ending"
  /\ IF count > 0 THEN DelayedDispatchDispatcher(NoGroup) /\ UNCHANGED phase
                  ELSE phase' = "ended" /\ UNCHANGED stack
  /\ UNCHANGED <<entries, count, now, corrupt, state>>

-----------------------------------------------------------------------------
(* The steps of DelayedDispatchDispatcher.                                 *)

\* The calls below the one in progress, with kept brought up to date when
\* the entries from the slot at index first on are deleted or move.
Below(first) ==
  [i \in 1 .. Len(stack) - 1 |->
     [stack[i] EXCEPT !.kept = @ /\ stack[i].index < first]]

\* The condition of the while loop fails.
CycleReturns ==
  /\ At("while")
  /\ count = 0 \/ ~Top.present
  /\ stack' = SubSeq(stack, 1, Len(stack) - 1)
  /\ UNCHANGED <<entries, count, now, phase, corrupt, state>>

CycleStarts ==
  /\ At("while")
  /\ count > 0 /\ Top.present
  /\ now <= Top.maxTime
  /\ SetTop([Top EXCEPT !.at = "for", !.present = FALSE, !.index = 0,
                        !.seen = {}, !.kept = TRUE])
  /\ UNCHANGED <<entries, count, now, phase, corrupt, state>>

\* Dispatching took too long: the table is cleared.
CompletionTimeout ==
  /\ At("while")
  /\ count > 0 /\ Top.present
  /\ now > Top.maxTime
  /\ count' = 0
  /\ state' = [r \in Request |->
       IF \E s \in 1 .. count : entries[s].request = r THEN "dropped"
       ELSE state[r]]
  /\ stack' = Below(0)
  /\ UNCHANGED <<entries, now, phase, corrupt>>

ForEnds ==
  /\ At("for") /\ Top.index >= count
  /\ SetTop([Top EXCEPT !.at = "while"])
  /\ UNCHANGED <<entries, count, now, phase, corrupt, state>>

CurrentEntry == entries[Top.index + 1]

\* A group that is waited for makes another cycle necessary.
Looked ==
  [Top EXCEPT !.present = @ \/ /\ Top.group # NoGroup
                               /\ Top.group = GroupOf[CurrentEntry.request],
              !.seen = @ \cup {CurrentEntry.request}]

NotExpired ==
  /\ At("for") /\ Top.index < count
  /\ now < CurrentEntry.dispatchTime
  /\ SetTop([Looked EXCEPT !.index = @ + 1])
  /\ UNCHANGED <<entries, count, now, phase, corrupt, state>>

Expired ==
  /\ At("for") /\ Top.index < count
  /\ now >= CurrentEntry.dispatchTime
  /\ entries' = [entries EXCEPT ![Top.index + 1].delay = 0]
  /\ SetTop([Looked EXCEPT !.at = "called", !.calls = CurrentEntry.request])
  /\ UNCHANGED <<count, now, phase, corrupt, state>>

\* The entries behind the one at index move down by one; the slot that was
\* the last keeps what it holds.
CopyMem(from) ==
  [s \in Slot |-> IF s > from /\ s < count THEN entries[s + 1] ELSE entries[s]]

\* Mutant: the loop goes on behind the entry that moved down.
NextAfterDelete == [Top EXCEPT !.at = "for", !.index = @ + 1]

SameAfterDelete == [Top EXCEPT !.at = "for"]

\* The delay is zero: the entry is deleted.  It is found by its address, so
\* by its slot: if a nested cycle has deleted it meanwhile, whatever is in the
\* slot is deleted, or Count wraps or CopyMem runs away, and what follows is
\* undefined.
Delete ==
  /\ corrupt' = (count = 0 \/ count - 1 < Top.index)
  /\ count' = (count - 1) % COUNT_MODULUS
  /\ entries' = IF corrupt' THEN entries ELSE CopyMem(Top.index)
  /\ state' = [state EXCEPT ![Top.calls] = "done"]
  /\ stack' = Append(Below(Top.index), SameAfterDelete)
  /\ UNCHANGED <<now, phase>>

\* A delay that is too long is cut to the longest allowed.
Rearm(delay) ==
  LET allowed == IF delay > PcdDelayedDispatchMaxDelayUs
                 THEN PcdDelayedDispatchMaxDelayUs ELSE delay
  IN  /\ entries' = [entries EXCEPT ![Top.index + 1] =
              [@ EXCEPT !.delay = allowed, !.dispatchTime = now + allowed]]
      /\ SetTop([Top EXCEPT !.at = "for", !.index = @ + 1])
      /\ UNCHANGED <<count, now, phase, corrupt, state>>

\* The function leaves MicrosecondDelay alone, or sets it.
FunctionDone ==
  /\ At("called")
  /\ IF CurrentEntry.delay = 0 THEN Delete ELSE Rearm(CurrentEntry.delay)

FunctionAgain ==
  /\ At("called") /\ now <= LastRequest
  /\ \E delay \in 1 .. PcdDelayedDispatchMaxDelayUs + 1 : Rearm(delay)

Tick ==
  /\ ~corrupt
  /\ now < MaxTime
  /\ now' = now + 1
  /\ UNCHANGED <<entries, count, stack, phase, corrupt, state>>

\* PEI is over, or nothing can be said any more.
Over == (phase = "ended" \/ corrupt) /\ UNCHANGED vars

Ppi ==
  \/ \E r \in Request : PeiDelayedDispatchRegister(r)
  \/ \E g \in Group : PeiDelayedDispatchWaitOnEvent(g)

Core ==
  \/ EndOfPeiLoop \/ CycleReturns \/ CycleStarts \/ CompletionTimeout
  \/ ForEnds \/ NotExpired \/ Expired

Next == Ppi \/ DispatcherCycle \/ PeiDelayedDispatchOnEndOfPei \/ Core
        \/ FunctionDone \/ FunctionAgain \/ Tick \/ Over

Spec == Init /\ [][Next]_vars

-----------------------------------------------------------------------------
(* Properties.                                                             *)

InTable == {entries[s].request : s \in 1 .. count}

\* The assertion in PeiDelayedDispatchRegister: Count is never more than the
\* table has slots, until a function returns whose entry a nested cycle has
\* deleted or moved; then Count may wrap, or CopyMem run away.
CountInRange ==
  IF corrupt THEN ~Top.kept ELSE count <= DELAYED_DISPATCH_MAX_ENTRIES

\* The pointer the dispatcher holds over the call of a function points to the
\* entry of that function until it returns, whatever the functions called
\* meanwhile register, and whatever cycles they start, as long as these delete
\* no entry at or before it.  They may: the nested cycle finds the entry
\* expired, calls the function again and deletes it, and when the outer call
\* returns it deletes once more (README, section 5).
EntryStays ==
  ~corrupt => \A i \in 1 .. Len(stack) :
    stack[i].at = "called" /\ stack[i].kept =>
      /\ stack[i].index < count
      /\ entries[stack[i].index + 1].request = stack[i].calls

\* A cycle looks at every entry of the table, also at those that moved down
\* behind a deleted one and at those that were added while it ran, unless a
\* nested cycle deleted one it had behind it.
NobodySkipped ==
  ~corrupt => \A i \in 1 .. Len(stack) :
    stack[i].at = "for" /\ stack[i].index >= count /\ stack[i].kept =>
      InTable \subseteq stack[i].seen
=============================================================================
