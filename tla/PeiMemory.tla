----------------------------- MODULE PeiMemory -----------------------------
(***************************************************************************)
(* The memory services of the PEI core (Memory/MemoryServices.c with       *)
(* Hob/Hob.c, under MdeMoudulePkg/Core/Pei).  Pages are taken from the top *)
(* of the free memory, HOBs grow from its bottom, and every range of pages *)
(* taken is described by a memory allocation HOB; a range given back is    *)
(* either joined to the free memory again or left as a HOB of              *)
(* EfiConventionalMemory, which later requests search, split and merge.    *)
(*                                                                         *)
(* PEI begins in temporary memory.  After InstallPeiMemory, pages come     *)
(* from permanent memory while the HOBs still lie in temporary memory;     *)
(* when the core changes over, the pages taken before move too.            *)
(*                                                                         *)
(* Addresses are page numbers.  The space for HOBs is counted in HOBs.  The *)
(* two memories do not touch.                                              *)
(***************************************************************************)
EXTENDS Integers, Sequences, FiniteSets

CONSTANTS
  TempTop,         \* temporary memory is the pages 0 .. TempTop - 1
  PhysicalBegin,   \* permanent memory is the pages PhysicalBegin ..
  PhysicalEnd,     \*   PhysicalEnd - 1
  StackPages,      \* of which the lowest become the new stack
  HobsPerPage,     \* memory allocation HOBs that fit in a page
  RuntimePages,    \* RUNTIME_PAGE_ALLOCATION_GRANULARITY in pages
  Requests,        \* the requests to be seen: [type, pages]
  MaxOther,        \* bound: HOBs of other kinds
  MaxFreed         \* bound: pages given back at a time

ASSUME MemoryAssumption ==
  /\ {TempTop, HobsPerPage, RuntimePages} \subseteq Nat \ {0}
  /\ {PhysicalBegin, PhysicalEnd, StackPages, MaxOther, MaxFreed} \subseteq Nat
  /\ TempTop < PhysicalBegin /\ PhysicalBegin + StackPages < PhysicalEnd
  /\ Requests \subseteq [type : {"boot", "runtime"}, pages : Nat \ {0}]

VARIABLES
  hobs,                \* the HOB list
  freeMemoryTop,       \* EfiFreeMemoryTop
  freePhysicalTop,     \* FreePhysicalMemoryTop
  switchStackSignal,   \* SwitchStackSignal
  peiMemoryInstalled,  \* PeiMemoryInstalled
  pc,                  \* where the service in progress is
  request,             \* its local variables: the request,
  cursor,              \* Hob and
  merged,              \* Merged of a pass of merging
  held,                \* history: the ranges callers hold,
  slack,               \* pages nobody asked for: rounding, and the stack,
  lost                 \* pages no HOB tells of although one should

vars == <<hobs, freeMemoryTop, freePhysicalTop, switchStackSignal,
          peiMemoryInstalled, pc, request, cursor, merged, held, slack, lost>>
phases == <<switchStackSignal, peiMemoryInstalled>>

Page == 0 .. PhysicalEnd

Block(b, n)  == [base |-> b, pages |-> n]
Top(r)       == r.base + r.pages
PagesOf(r)   == r.base .. Top(r) - 1
PagesIn(S)   == UNION {PagesOf(r) : r \in S}
Meet(r, s)   == PagesOf(r) \cap PagesOf(s) # {}
Within(r, s) == s.base <= r.base /\ Top(r) <= Top(s)
Remains(r, s) ==
  {q \in {Block(r.base, s.base - r.base), Block(Top(s), Top(r) - Top(s))} :
     q.pages > 0}

(* A HOB is of type "conventional", of one that pages are allocated as,    *)
(* "unused", or "other": no memory allocation HOB.                         *)
Hob(b, n, t) == [base |-> b, pages |-> n, type |-> t]
UnusedHob    == Hob(0, 0, "unused")
OtherHob     == Hob(0, 0, "other")
AllocTypes   == {"conventional", "boot", "runtime"}

Allocation(hs)   == {k \in DOMAIN hs : hs[k].type \in AllocTypes}
Conventional(hs) == {k \in DOMAIN hs : hs[k].type = "conventional"}
Taken(hs)        == {k \in DOMAIN hs : hs[k].type \in {"boot", "runtime"}}
HobPages(hs, K)  == UNION {PagesOf(hs[k]) : k \in K}

First(S) == CHOOSE k \in S : \A j \in S : k <= j

Idle == "idle"
NoRequest == [type |-> "none", pages |-> 0]

Init ==
  /\ hobs = <<OtherHob>>     \* the handoff information table
  /\ freeMemoryTop = TempTop
  /\ freePhysicalTop = 0
  /\ switchStackSignal = FALSE
  /\ peiMemoryInstalled = FALSE
  /\ pc = Idle /\ request = NoRequest /\ cursor = 0 /\ merged = FALSE
  /\ held = {} /\ slack = {} /\ lost = {}

-----------------------------------------------------------------------------
(* The two variables the services work on: FreeMemoryTop, FreeMemoryBottom *)

UsesPhysical == ~ peiMemoryInstalled /\ switchStackSignal
FreeTop == IF UsesPhysical THEN freePhysicalTop ELSE freeMemoryTop
SetFreeTop(t) == IF UsesPhysical
                   THEN freePhysicalTop' = t /\ UNCHANGED freeMemoryTop
                   ELSE freeMemoryTop' = t /\ UNCHANGED freePhysicalTop

HobBase == IF peiMemoryInstalled THEN PhysicalBegin + StackPages ELSE 0

\* How many HOBs fit between the HOB list and the top at t.
HobRoom(hs, t) == (t - HobBase) * HobsPerPage - Len(hs)

\* The free memory below the top at t, counted in HOBs.
RemainingMemory(hs, t) ==
  IF UsesPhysical THEN (t - PhysicalBegin) * HobsPerPage ELSE HobRoom(hs, t)

\* EfiFreeMemoryTop, when the top services use is at t.
HobTop(t) == IF UsesPhysical THEN freeMemoryTop ELSE t

(* InternalBuildMemoryAllocationHob: reuse the first unused HOB, or let    *)
(* PeiCreateHob make a new one; if there is no room, nothing is built.     *)
BuildHob(hs, t, h) ==
  LET U == {k \in DOMAIN hs : hs[k].type = "unused"}
  IN  IF U # {} THEN [hs EXCEPT ![First(U)] = h]
      ELSE IF HobRoom(hs, t) > 0 THEN Append(hs, h)
      ELSE hs

\* Mutant: what lay behind the range gets a HOB that begins with the range.
SplitHobOverlapping(hs, k, r, ty) ==
  LET h == hs[k]
  IN  [(IF Top(r) < Top(h)
          THEN BuildHob(hs, HobTop(FreeTop),
                        Hob(r.base, Top(h) - r.base, h.type))
          ELSE hs) EXCEPT ![k] = Hob(r.base, r.pages, ty)]

(* UpdateOrSplitMemoryAllocationHob: HOB k becomes the range r of type ty, *)
(* what lay behind and before r in it gets HOBs of its own.                *)
SplitHob(hs, k, r, ty) ==
  LET h == hs[k]
      t == HobTop(FreeTop)
      behind == IF Top(r) < Top(h)
                  THEN BuildHob(hs, t, Hob(Top(r), Top(h) - Top(r), h.type))
                  ELSE hs
      before == IF r.base > h.base
                  THEN BuildHob(behind, t, Hob(h.base, r.base - h.base, h.type))
                  ELSE behind
  IN  [before EXCEPT ![k] = Hob(r.base, r.pages, ty)]

\* The pages of which hobs told and hs does not.
LostBy(hs) ==
  HobPages(hobs, Allocation(hobs)) \ HobPages(hs, Allocation(hs))

-----------------------------------------------------------------------------
(* PeiAllocatePages.                                                       *)

Granularity(q) == IF q.type = "runtime" THEN RuntimePages ELSE 1
AlignDown(p, g) == p - (p % g)
AlignUp(p, g) == AlignDown(p + g - 1, g)

\* Pages, rounded to the granularity.
Rounded(q) == AlignUp(q.pages, Granularity(q))

\* The caller gets the pages it asked for at b; it does not know of more.
Give(b, q) ==
  /\ held' = held \cup {Block(b, q.pages)}
  /\ slack' = slack \cup (b + q.pages .. b + Rounded(q) - 1)

\* The top after padding; the pages lost to it get a HOB.
PaddedTop(q) == AlignDown(FreeTop, Granularity(q))
PaddedHobs(q) ==
  LET t == PaddedTop(q)
  IN  IF t < FreeTop
        THEN BuildHob(hobs, HobTop(t), Hob(t, FreeTop - t, "conventional"))
        ELSE hobs
LostToPadding(q) == (PaddedTop(q) .. FreeTop - 1)
                      \ HobPages(PaddedHobs(q), Allocation(PaddedHobs(q)))

RoomForPadding(q) ==
  RemainingMemory(hobs, FreeTop) >= (FreeTop - PaddedTop(q)) * HobsPerPage

\* Enough pages, and enough space left for a memory allocation HOB.
FitsBelowTop(q) ==
  RemainingMemory(PaddedHobs(q), PaddedTop(q)) > Rounded(q) * HobsPerPage

AllocateBelowTop(q) ==
  LET b == PaddedTop(q) - Rounded(q)
  IN  /\ pc = Idle
      /\ RoomForPadding(q) /\ FitsBelowTop(q)
      /\ SetFreeTop(b)
      /\ \E hs \in {BuildHob(PaddedHobs(q), HobTop(b),
                             Hob(b, Rounded(q), q.type))} :
           /\ hobs' = hs
           /\ lost' = lost \cup LostToPadding(q)
                        \cup ((b .. b + Rounded(q) - 1)
                                \ HobPages(hs, Allocation(hs)))
      /\ Give(b, q)
      /\ UNCHANGED <<phases, pc, request, cursor, merged>>

\* Otherwise the HOBs are searched; the padding stays.
SearchHobs(q) ==
  /\ pc = Idle
  /\ RoomForPadding(q) /\ ~ FitsBelowTop(q)
  /\ SetFreeTop(PaddedTop(q))
  /\ hobs' = PaddedHobs(q)
  /\ lost' = lost \cup LostToPadding(q)
  /\ pc' = "find" /\ request' = q
  /\ UNCHANGED <<phases, cursor, merged, held, slack>>

PeiAllocatePages == \E q \in Requests : AllocateBelowTop(q) \/ SearchHobs(q)

(* FindFreeMemoryFromMemoryAllocationHob: the end of the first HOB that is *)
(* free and in which the request fits.                                     *)
BaseIn(h, q) == AlignDown(Top(h) - Rounded(q), Granularity(q))

Fitting(hs, q) == {k \in Conventional(hs) : /\ hs[k].pages >= Rounded(q)
                                            /\ BaseIn(hs[k], q) >= hs[k].base}

TakeFrom(k, b) ==
  \E hs \in {SplitHob(hobs, k, Block(b, Rounded(request)), request.type)} :
    /\ hobs' = hs
    /\ lost' = lost \cup LostBy(hs)
    /\ Give(b, request)

FindFreeMemory ==
  /\ pc = "find"
  /\ \E k \in Fitting(hobs, request) :
       /\ \A j \in Fitting(hobs, request) : k <= j
       /\ TakeFrom(k, BaseIn(hobs[k], request))
  /\ pc' = Idle /\ request' = NoRequest
  /\ UNCHANGED <<phases, freeMemoryTop, freePhysicalTop, cursor, merged>>

NothingFits ==
  /\ pc = "find"
  /\ Fitting(hobs, request) = {}
  /\ pc' = "merge" /\ cursor' = 1 /\ merged' = FALSE
  /\ UNCHANGED <<phases, hobs, freeMemoryTop, freePhysicalTop, request, held,
                 slack, lost>>

(* MergeFreeMemoryInMemoryAllocationHob: each free HOB is joined to the    *)
(* first one after it that is adjacent, and becomes unused.                *)
Adjacent(h, i) == Top(h) = i.base \/ Top(i) = h.base
Neighbours(k) == {j \in Conventional(hobs) :
                    /\ j > k /\ k \in Conventional(hobs)
                    /\ Adjacent(hobs[k], hobs[j])}
Joined(h, i) == Hob(IF Top(i) = h.base THEN i.base ELSE h.base,
                    h.pages + i.pages, "conventional")

MergeWith(j) ==
  /\ hobs' = [hobs EXCEPT ![j] = Joined(hobs[cursor], hobs[j]),
                          ![cursor] = UnusedHob]
  /\ merged' = TRUE

MergeStep ==
  /\ pc = "merge" /\ cursor <= Len(hobs)
  /\ cursor' = cursor + 1
  /\ \/ \E j \in Neighbours(cursor) :
          (\A i \in Neighbours(cursor) : j <= i) /\ MergeWith(j)
     \/ Neighbours(cursor) = {} /\ UNCHANGED <<hobs, merged>>
  /\ UNCHANGED <<phases, freeMemoryTop, freePhysicalTop, pc, request, held,
                 slack, lost>>

MergeEnds(again) ==
  /\ pc = "merge" /\ cursor > Len(hobs)
  /\ merged = again
  /\ cursor' = 0 /\ merged' = FALSE
  /\ UNCHANGED <<phases, hobs, freeMemoryTop, freePhysicalTop, held, slack,
                 lost>>

FindAgain == MergeEnds(TRUE) /\ pc' = "find" /\ UNCHANGED request

OutOfResources == MergeEnds(FALSE) /\ pc' = Idle /\ request' = NoRequest

-----------------------------------------------------------------------------
(* PeiFreePages.                                                           *)

(* A range r is given back by who holds it, or again by who held it once.  *)
MayGiveBack(r) ==
  \/ \E h \in held : Within(r, h)
  \/ PagesOf(r) \cap (PagesIn(held) \cup slack \cup lost) = {}

Holding(r) == {k \in Taken(hobs) : Within(r, hobs[k])}

\* FreeMemoryAllocationHob: HOB k of hs lies at the top, and joins it.
JoinTop(hs, k) ==
  /\ hobs' = [hs EXCEPT ![k] = UnusedHob]
  /\ SetFreeTop(FreeTop + hs[k].pages)

NotFound(r) == Holding(r) = {} /\ UNCHANGED vars

FreeFound(r) ==
  /\ \E k \in Holding(r) :
       /\ \A j \in Holding(r) : k <= j
       /\ \E hs \in {SplitHob(hobs, k, r, "conventional")} :
            /\ lost' = lost \cup LostBy(hs)
            /\ IF r.base = FreeTop
                 THEN JoinTop(hs, k) /\ pc' = "join"
                 ELSE hobs' = hs
                      /\ UNCHANGED <<pc, freeMemoryTop, freePhysicalTop>>
  /\ held' = {h \in held : ~ Within(r, h)}
               \cup UNION {Remains(h, r) : h \in {i \in held : Within(r, i)}}
  /\ slack' = slack \ PagesOf(r)
  /\ UNCHANGED <<phases, request, cursor, merged>>

PeiFreePages(r) ==
  /\ pc = Idle /\ MayGiveBack(r)
  /\ NotFound(r) \/ FreeFound(r)

\* ... and so does what is free at the new top, and so on.
AtTop == {k \in Conventional(hobs) : hobs[k].base = FreeTop}

JoinNext ==
  /\ pc = "join"
  /\ \E k \in AtTop : (\A j \in AtTop : k <= j) /\ JoinTop(hobs, k)
  /\ UNCHANGED <<phases, pc, request, cursor, merged, held, slack, lost>>

JoinEnds ==
  /\ pc = "join"
  /\ AtTop = {}
  /\ pc' = Idle
  /\ UNCHANGED <<phases, hobs, freeMemoryTop, freePhysicalTop, request, cursor,
                 merged, held, slack, lost>>

-----------------------------------------------------------------------------
(* PeiCreateHob for other HOBs, such as those of PeiAllocatePool.          *)

PeiAllocatePool ==
  /\ pc = Idle
  /\ HobRoom(hobs, freeMemoryTop) > 0
  /\ Cardinality({k \in DOMAIN hobs : hobs[k].type = "other"}) < MaxOther
  /\ hobs' = Append(hobs, OtherHob)
  /\ UNCHANGED <<freeMemoryTop, freePhysicalTop, phases, pc, request, cursor,
                 merged, held, slack, lost>>

-----------------------------------------------------------------------------
(* PeiInstallPeiMemory.  After the change it does nothing.  A second call  *)
(* before the change would start anew with the whole of the new memory,    *)
(* although its comment says that it is ignored; a caller that installs    *)
(* memory once is assumed.                                                 *)

PeiInstallPeiMemory ==
  /\ pc = Idle
  /\ ~ peiMemoryInstalled /\ ~ switchStackSignal
  /\ freePhysicalTop' = PhysicalEnd
  /\ switchStackSignal' = TRUE
  /\ UNCHANGED <<hobs, freeMemoryTop, peiMemoryInstalled, pc, request, cursor,
                 merged, held, slack, lost>>

(* The change: the HOB for the new stack is built, MigrateMemoryPages      *)
(* copies the pages taken from temporary memory to the top of the free     *)
(* permanent memory, the HOB list moves above the stack, its handoff table *)
(* is made to describe permanent memory, and ConvertMemoryAllocationHobs   *)
(* corrects the HOBs.  What the code asserts is that there is room.        *)
Pages == TempTop - freeMemoryTop
NewBase == freePhysicalTop - Pages

\* Mutant: the lowest range stays.
InTemporaryAbove(p) == p > freeMemoryTop /\ p < TempTop

InTemporary(p) == p >= freeMemoryTop /\ p < TempTop

Moved(p) == IF InTemporary(p) THEN p - freeMemoryTop + NewBase ELSE p

\* BuildStackHob always asks for a new HOB.
WithStack == IF HobRoom(hobs, freeMemoryTop) > 0
               THEN Append(hobs, Hob(PhysicalBegin, StackPages, "boot"))
               ELSE hobs
StackRange == PhysicalBegin .. PhysicalBegin + StackPages - 1

\* Mutant: HOBs of free memory are left as they are.
ConvertMemoryAllocationHobsTaken(hs) ==
  [k \in DOMAIN hs |-> IF k \in Taken(hs)
                         THEN [hs[k] EXCEPT !.base = Moved(@)] ELSE hs[k]]

ConvertMemoryAllocationHobs(hs) ==
  [k \in DOMAIN hs |-> IF k \in Allocation(hs)
                         THEN [hs[k] EXCEPT !.base = Moved(@)] ELSE hs[k]]

SwitchStack ==
  /\ pc = Idle /\ UsesPhysical
  /\ NewBase >= PhysicalBegin
  /\ (NewBase - PhysicalBegin - StackPages) * HobsPerPage >= Len(WithStack)
  /\ hobs' = ConvertMemoryAllocationHobs(WithStack)
  /\ freeMemoryTop' = NewBase /\ freePhysicalTop' = NewBase
  /\ peiMemoryInstalled' = TRUE
  /\ held' = {Block(Moved(r.base), r.pages) : r \in held}
  /\ slack' = {Moved(p) : p \in slack} \cup StackRange
  /\ lost' = {Moved(p) : p \in lost}
               \cup (StackRange \ HobPages(WithStack, Allocation(WithStack)))
  /\ UNCHANGED <<switchStackSignal, pc, request, cursor, merged>>

-----------------------------------------------------------------------------

\* A service, once called, goes on to its end.
Core == FindFreeMemory \/ NothingFits \/ MergeStep \/ FindAgain
        \/ OutOfResources \/ JoinNext \/ JoinEnds

Next == \/ PeiAllocatePages
        \/ \E b \in Page, n \in 1 .. MaxFreed : PeiFreePages(Block(b, n))
        \/ PeiAllocatePool
        \/ PeiInstallPeiMemory
        \/ SwitchStack
        \/ Core

Spec == Init /\ [][Next]_vars

-----------------------------------------------------------------------------
(* Properties.                                                             *)

\* The pages that are not free memory in the sense of the two tops.
AboveTop ==
  IF peiMemoryInstalled THEN (freeMemoryTop .. PhysicalEnd - 1) \cup StackRange
  ELSE (freeMemoryTop .. TempTop - 1)
       \cup (IF switchStackSignal
               THEN freePhysicalTop .. PhysicalEnd - 1 ELSE {})

(* The memory allocation HOBs never overlap.                               *)
HobsDisjoint == \A j, k \in Allocation(hobs) :
                  j # k => ~ Meet(hobs[j], hobs[k])

(* Every page above the top is accounted for, whatever was split, merged,  *)
(* freed in whatever order and moved: it lies in a HOB unless there was no *)
(* room for the HOB, and the HOBs that are not free hold just the pages    *)
(* callers hold, and those lost to rounding.                               *)
Accounted ==
  /\ AboveTop = HobPages(hobs, Allocation(hobs)) \cup lost
  /\ HobPages(hobs, Taken(hobs)) \subseteq PagesIn(held) \cup slack
  /\ PagesIn(held) \cup slack \subseteq HobPages(hobs, Taken(hobs)) \cup lost

(* What callers hold is theirs as the abstract store has it: apart from    *)
(* each other, given back piece by piece, and moved once, all that was in  *)
(* temporary memory by the same distance.                                  *)
Store == INSTANCE PageStore WITH
           Address <- Page, Sizes <- {q.pages : q \in Requests},
           held <- held, moved <- peiMemoryInstalled
ImplementsPageStore == Store!Spec
=============================================================================
