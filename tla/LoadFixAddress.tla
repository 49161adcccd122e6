--------------------------- MODULE LoadFixAddress ---------------------------
(****************************************************************************)
(* Where modules that are linked to a fixed address are loaded:             *)
(* PeiLoadFixAddressHook of Dispatcher.c, which rearranges the resource     *)
(* descriptor HOBs and reserves a range, and the bit map by which Image.c   *)
(* gives out the part of the range that is for PEI modules.                 *)
(*                                                                          *)
(* A HOB is [type, base, length, memory, tested, kind]: type is "resource", *)
(* "allocation" or "unused"; memory tells whether a resource is system      *)
(* memory, kind is all of its attribute but EFI_RESOURCE_ATTRIBUTE_TESTED.  *)
(* Addresses and lengths are pages.                                         *)
(****************************************************************************)
EXTENDS Integers, Sequences, FiniteSets, SequencesExt

CONSTANTS MinimumInitialMemory,  \* MINIMUM_INITIAL_MEMORY_SIZE, on top
          DxeCodePages,          \* boot time and runtime code pages
          PeiCodePages,          \* PcdLoadFixAddressPeiCodePageNumber
          MaxAddress             \* MAX_ADDRESS

HobEnd(h)    == h.base + h.length
HobPages(h)  == h.base .. (HobEnd(h) - 1)
IsMemory(h)  == h.type = "resource" /\ h.memory
Usable(h)    == IsMemory(h) /\ HobEnd(h) <= MaxAddress
Indices(hs)  == [k \in DOMAIN hs |-> k]
Resource(base, length, tested, kind) ==
    [type |-> "resource", base |-> base, length |-> length, memory |-> TRUE,
     tested |-> tested, kind |-> kind]

-----------------------------------------------------------------------------
(* The first loop: HOBs of the same attributes that meet become one.        *)

Meet(r, s) == r.base <= HobEnd(s) /\ s.base <= HobEnd(r)

Joined(r, s) ==
    LET base == IF r.base < s.base THEN r.base ELSE s.base
        end  == IF HobEnd(r) > HobEnd(s) THEN HobEnd(r) ELSE HobEnd(s)
    IN  [r EXCEPT !.base = base, !.length = end - base, !.tested = FALSE]

MergeInto(hs, i) ==
    LET Join(h, j) == IF j # i /\ IsMemory(h[j]) /\ h[i].kind = h[j].kind /\ Meet(h[i], h[j])
                        THEN [h EXCEPT ![i] = Joined(h[i], h[j]), ![j].type = "unused"]
                        ELSE h
    IN  IF Usable(hs[i]) THEN FoldLeft(Join, hs, Indices(hs)) ELSE hs

MergeResources(hs) == FoldLeft(MergeInto, hs, Indices(hs))

(* The second loop: the resource that holds an allocation is cut at both    *)
(* its borders.                                                             *)
Holding(hs, a) == {j \in DOMAIN hs : Usable(hs[j]) /\ hs[j].base <= a.base
                                     /\ HobEnd(a) <= HobEnd(hs[j])}

SplitAround(hs, k) ==
    IF hs[k].type # "allocation" \/ Holding(hs, hs[k]) = {} THEN hs
    ELSE LET a == hs[k]
             j == CHOOSE j \in Holding(hs, a) : \A i \in Holding(hs, a) : j <= i
             r == hs[j]
             Piece(from, to) == IF from < to THEN <<Resource(from, to - from, r.tested, r.kind)>>
                                             ELSE <<>>
         IN  [hs EXCEPT ![j].base = a.base, ![j].length = a.length]
               \o Piece(r.base, a.base) \o Piece(HobEnd(a), HobEnd(r))

SplitResources(hs) == FoldLeft(SplitAround, hs, Indices(hs))

-----------------------------------------------------------------------------
(* The choice of the range, and its reservation.                            *)

TotalReserved(peiMemory) == MinimumInitialMemory + DxeCodePages + peiMemory

\* Mutant: allocations are not looked at.
MemoryRangeAvailableAlways(hs, r) == r \in {hs[k] : k \in DOMAIN hs}

MemoryRangeAvailable(hs, r) ==
    \A k \in DOMAIN hs : hs[k].type = "allocation"
                            => ~ (hs[k].base = r.base /\ HobEnd(hs[k]) = HobEnd(r))

(* Feature enabled with an address: the resource must hold the range below  *)
(* it.  Enabled with no address: the resource of highest base is taken.     *)
FitsFixed(r, top, total) ==
    r.base + total < top /\ HobEnd(r) - MinimumInitialMemory >= top

Candidates(hs, fixed, total) ==
    {k \in DOMAIN hs : /\ Usable(hs[k])
                       /\ MemoryRangeAvailable(hs, hs[k])
                       /\ IF fixed > 0 THEN FitsFixed(hs[k], fixed, total)
                                       ELSE hs[k].length > total /\ hs[k].base > 0}

Chosen(hs, fixed, total) ==
    LET C == Candidates(hs, fixed, total)
    IN  IF fixed > 0 THEN CHOOSE k \in C : \A j \in C : k <= j
        ELSE CHOOSE k \in C : \A j \in C : hs[j].base < hs[k].base
                                           \/ (hs[j].base = hs[k].base /\ k <= j)

Reserve(hs, k, top, total) ==
    LET r == hs[k]
        Piece(from, to) == IF from < to THEN <<Resource(from, to - from, FALSE, "memory")>>
                                        ELSE <<>>
    IN  Append([hs EXCEPT ![k].type = "unused"], Resource(top - total, total, TRUE, "memory"))
          \o Piece(r.base, top - total) \o Piece(top, HobEnd(r))

Arranged(hs) == SplitResources(MergeResources(hs))

(* [hobs, top]: the new HOB list and the end of the range reserved; top is  *)
(* 0 if there is no range, where the code asserts.                          *)
PeiLoadFixAddressHook(hobs, fixed, peiMemory) ==
    LET hs    == Arranged(hobs)
        total == TotalReserved(peiMemory)
        k     == Chosen(hs, fixed, total)
        top   == IF fixed > 0 THEN fixed + MinimumInitialMemory ELSE HobEnd(hs[k])
    IN  IF Candidates(hs, fixed, total) = {}
          THEN [hobs |-> hs, top |-> 0]
          ELSE [hobs |-> Reserve(hs, k, top, total), top |-> top]

-----------------------------------------------------------------------------
(* The pages for PEI modules lie below those for DXE modules, below         *)
(* LoadModuleAtFixAddressTopAddress.                                        *)

PeiCodeBase(topAddress) == topAddress - (DxeCodePages + PeiCodePages)

\* Mutant: the bit map is not looked at.
FixPagesFreeUnmarked(topAddress, used, base, pages) ==
    /\ base + pages <= topAddress - DxeCodePages
    /\ PeiCodeBase(topAddress) <= base
    /\ used = used

(* CheckAndMarkFixLoadingMemoryUsageBitMap succeeds. *)
FixPagesFree(topAddress, used, base, pages) ==
    /\ base + pages <= topAddress - DxeCodePages
    /\ PeiCodeBase(topAddress) <= base
    /\ base .. (base + pages - 1) \cap used = {}

=============================================================================
