---------------------------- MODULE PeiMigration ----------------------------
(****************************************************************************)
(* The move of the PEI core from temporary to permanent memory:             *)
(* PeiCheckAndSwitchStack (Dispatcher.c), the second and third entry of     *)
(* PeiCore (PeiMain.c), the conversion of pointers (Ppi.c), EvacuateTempRam *)
(* (Dispatcher.c) and the loading of images (Image.c), with the migration   *)
(* service of the platform (PlatformSecPpiLib.c).                           *)
(*                                                                          *)
(* Memory is a function from addresses to cells, and a cell is known by the *)
(* address it was created at; a copy of it has the same id.  A cell may     *)
(* hold three pointers: the Guid and Ppi (or Notify) of a descriptor, and   *)
(* the FvInfo of an FvInfo PPI.  A page is one cell.  Offsets with their    *)
(* two flags (OffsetPositive) are integers.                                 *)
(****************************************************************************)
EXTENDS LoadFixAddress, TLC

CONSTANTS Machines,     \* the boards and what SEC hands over, see Init
          FvInfoGuid,   \* the id of the cell with the GUID of FvInfo PPIs
          CorePages,    \* the pages that PeiCore allocates for nothing
          MaxPpis,      \* bound: PPIs and notifications registered
          MaxLoads      \* bound: modules loaded after the move

VARIABLES
    m,          \* the machine
    pc,         \* where the core is
    memory,     \* address -> cell
    lists,      \* the three lists of PpiData: sequences of descriptor addresses
    fvs,        \* Private->Fv: [header, length, files, service]
    fvHobs,     \* the addresses that the FV HOBs hold
    core,       \* the other fields of PEI_CORE_INSTANCE, see Init
    hobs,       \* resource descriptor and memory allocation HOBs
    next,       \* FvIndex of EvacuateTempRam
    claimed,    \* history: ranges of permanent memory in use, in order
    meaning     \* history: what each entry of the lists is meant to be

vars == <<m, pc, memory, lists, fvs, fvHobs, core, hobs, next, claimed, meaning>>

Lists == {"ppi", "callback", "dispatch"}
Null  == 0
Gone  == [id |-> 0, guid |-> Null, ppi |-> Null, fv |-> Null]
Range2(base, size) == base .. (base + size - 1)
NoShift == [base |-> 0, size |-> 0, offset |-> 0]

Interface(mem, p) == LET c == mem[p] IN <<c.id, mem[c.fv].id>>
Meaning(mem, raw) ==
    LET d == mem[raw] IN <<d.id, mem[d.guid].id, Interface(mem, d.ppi)>>

VolumeMeaning(mem, fv) ==
    [header |-> mem[fv.header].id, service |-> mem[fv.service].id,
     files |-> [k \in DOMAIN fv.files |-> mem[fv.files[k]].id]]

(* A machine has: support (is there a temporary RAM support PPI); temp,     *)
(* heap, stack: [base, size] of the temporary memory and its two parts;     *)
(* heapUsed; pages: how many pages were allocated at the top of the heap;   *)
(* begin, length: the memory given to InstallPeiMemory; memory; volumes;    *)
(* pointers: name -> address, the arrays in the heap; image: the PEI core   *)
(* [base, size, file]; coreFv; ppis: descriptors that may be installed;     *)
(* migrate, shadow: PCDs; plan: FV -> when the migration HOB wants it moved *)
(* ("no", "early", "late"), raw; fixed: PcdLoadModuleAtFixAddressEnable     *)
(* (-1: enabled, no address; 0: off); hobs; assigned: the fixed page of an  *)
(* image; cached: is the flash gone as well when temporary RAM is.          *)
Init ==
    /\ m \in Machines
    /\ pc = "pei"
    /\ memory = m.memory
    /\ lists = [l \in Lists |-> IF l = "ppi" THEN <<m.service>> ELSE <<>>]
    /\ fvs = m.volumes
    /\ fvHobs = {m.volumes[k].header : k \in DOMAIN m.volumes}
    /\ core = [pointers |-> m.pointers, heap |-> 0, stack |-> 0, pages |-> NoShift,
               holes |-> <<NoShift, NoShift, NoShift>>, begin |-> m.begin,
               free |-> m.begin + m.length, physicalTop |-> m.begin + m.length,
               running |-> m.image.base, reenter |-> FALSE, fixTop |-> 0, used |-> {},
               loads |-> 0]
    /\ hobs = m.hobs
    /\ next = 1
    /\ claimed = <<>>
    /\ meaning = [l \in Lists |-> IF l = "ppi" THEN <<Meaning(m.memory, m.service)>> ELSE <<>>]

(* PEIMs install PPIs and register notifications, whose descriptors lie in  *)
(* their images, on the heap, on the stack, in pages or in SEC's memory.    *)
Install ==
    /\ pc = "pei"
    /\ Len(lists["ppi"]) + Len(lists["callback"]) + Len(lists["dispatch"]) <= MaxPpis
    /\ \E l \in Lists, d \in m.ppis :
         /\ \A k \in Lists : \A j \in DOMAIN lists[k] : lists[k][j] # d
         /\ l # "ppi" => memory[memory[d].ppi].fv = Null   \* FvInfo is a PPI's
         /\ lists' = [lists EXCEPT ![l] = Append(@, d)]
         /\ meaning' = [meaning EXCEPT ![l] = Append(@, Meaning(memory, d))]
    /\ UNCHANGED <<m, pc, memory, fvs, fvHobs, core, hobs, next, claimed>>

(* After InstallPeiMemory, before the move: pages come from permanent       *)
(* memory already.                                                          *)
AllocateEarly ==
    /\ pc = "pei"
    /\ core.free = m.begin + m.length
    /\ core' = [core EXCEPT !.free = @ - 1, !.physicalTop = @ - 1]
    /\ claimed' = Append(claimed, <<core.free - 1, 1>>)
    /\ hobs' = Append(hobs, [Resource(core.free - 1, 1, FALSE, "memory")
                               EXCEPT !.type = "allocation"])
    /\ UNCHANGED <<m, pc, memory, lists, fvs, fvHobs, next, meaning>>

-----------------------------------------------------------------------------
(* Copying and converting *)

Copied(mem, from, to, n) ==
    [a \in DOMAIN mem |-> IF a \in Range2(to, n) THEN mem[a - to + from] ELSE mem[a]]

(* ConvertPointer, for the range and offset of a shift. *)
ConvertPointer(p, shift) ==
    IF p \in Range2(shift.base, shift.size) THEN p + shift.offset ELSE p

Shift(base, size, offset) == [base |-> base, size |-> size, offset |-> offset]

\* Mutant: the heap comes first.
ShiftsHeapFirst == <<Shift(m.heap.base, m.heap.size, core.heap), core.pages,
                     Shift(m.stack.base, m.stack.size, core.stack)>> \o core.holes

(* ConvertPointerInRanges: the pages lie inside the heap and moved by an    *)
(* offset of their own, so they come first.                                 *)
Shifts == <<core.pages, Shift(m.heap.base, m.heap.size, core.heap),
            Shift(m.stack.base, m.stack.size, core.stack)>> \o core.holes

ConvertPointerInRanges(p, shifts) == FoldLeft(ConvertPointer, p, shifts)

(* ConvertSinglePpiPointer and its loops: the entry, then the fields of the *)
(* descriptor it leads to now.  s is [memory, lists].                       *)
ConvertEntry(s, l, k, shifts) ==
    LET Convert(p) == ConvertPointerInRanges(p, shifts)
        raw == Convert(s.lists[l][k])
    IN  [lists  |-> [s.lists EXCEPT ![l][k] = raw],
         memory |-> [s.memory EXCEPT ![raw].guid = Convert(@), ![raw].ppi = Convert(@)]]

ConvertList(s, l, shifts) ==
    FoldLeft(LAMBDA t, k: ConvertEntry(t, l, k, shifts), s, Indices(s.lists[l]))

ConvertPpiPointers(s) ==
    ConvertList(ConvertList(ConvertList(s, "ppi", Shifts), "callback", Shifts),
                "dispatch", Shifts)

(* ConvertPpiPointersFv, which also repairs the FvInfo of an FvInfo PPI for *)
(* this very volume.                                                        *)
RepairFvInfo(s, org, new) ==
    LET Repair(mem, raw) ==
          IF mem[mem[raw].guid].id = FvInfoGuid /\ mem[mem[raw].ppi].fv = org
            THEN [mem EXCEPT ![mem[raw].ppi].fv = new] ELSE mem
    IN  [s EXCEPT !.memory = FoldLeft(Repair, @, s.lists["ppi"])]

ConvertPpiPointersFv(s, org, new, size) ==
    LET shifts == <<Shift(org, size, new - org)>>
    IN  RepairFvInfo(ConvertList(ConvertList(ConvertList(s,
            "callback", shifts), "dispatch", shifts), "ppi", shifts), org, new)

-----------------------------------------------------------------------------
(* PeiCheckAndSwitchStack *)

FixAddress == m.fixed # 0

HookResult == PeiLoadFixAddressHook(hobs, m.fixed, m.length)

(* PeiLoadFixAddressHook moves the memory of PEI; the pages for the code of *)
(* PEI modules are taken from its top at once.                              *)
LoadFixHook ==
    /\ pc = "pei"
    /\ IF ~ FixAddress
         THEN pc' = "switch" /\ UNCHANGED <<core, hobs, claimed>>
         ELSE IF HookResult.top = 0
         THEN pc' = "assert" /\ hobs' = HookResult.hobs /\ UNCHANGED <<core, claimed>>
         ELSE LET begin == HookResult.top - TotalReserved(m.length)
                  free  == begin + m.length - PeiCodePages
              IN  /\ core' = [core EXCEPT !.begin = begin, !.physicalTop = free,
                                !.free = free, !.fixTop = HookResult.top - MinimumInitialMemory]
                  /\ hobs' = Append(HookResult.hobs,
                                    [Resource(free, PeiCodePages, FALSE, "memory")
                                       EXCEPT !.type = "allocation"])
                  /\ pc' = "switch" /\ UNCHANGED claimed
    /\ UNCHANGED <<m, memory, lists, fvs, fvHobs, next, meaning>>

NewStackSize  == IF m.maxStack < m.length \div 2 THEN m.maxStack ELSE m.length \div 2
TopOfNewStack == core.begin + NewStackSize
StackOffset   == TopOfNewStack - (m.stack.base + m.stack.size)

(* The gaps of the temporary memory: before, between and behind the heap    *)
(* and the stack.                                                           *)
HoleData ==
    LET first  == IF m.heap.base < m.stack.base THEN m.heap ELSE m.stack
        second == IF m.heap.base < m.stack.base THEN m.stack ELSE m.heap
        Gap(from, to) == [base |-> from, size |-> to - from]
    IN  <<Gap(m.temp.base, first.base), Gap(first.base + first.size, second.base),
          Gap(second.base + second.size, m.temp.base + m.temp.size)>>

HoleMemSize == m.temp.size - m.heap.size - m.stack.size

(* Where each gap is copied to: one behind the other, from the new stack.   *)
HoleShifts ==
    LET At(k) == TopOfNewStack + FoldLeft(LAMBDA n, j: n + HoleData[j].size, 0, [j \in 1 .. (k - 1) |-> j])
    IN  [k \in 1 .. 3 |-> IF HoleData[k].size = 0 THEN NoShift
                          ELSE Shift(HoleData[k].base, HoleData[k].size, At(k) - HoleData[k].base)]

(* MigrateMemoryPages: the pages at the top of the heap go to the top of    *)
(* the free permanent memory.                                               *)
PagesShift(heapOffset) ==
    LET base == (m.heap.base + m.heap.size) - m.pages
    IN  IF m.pages = 0 THEN NoShift
        ELSE Shift(base, m.pages, (core.physicalTop - m.pages) - base)

(* With a temporary RAM support PPI: TemporaryRamMigration copies both      *)
(* halves of the temporary memory, the pages from where they are then.      *)
TemporaryRamMigration(mem, permanent) ==
    LET half == m.temp.size \div 2
    IN  Copied(Copied(mem, m.temp.base, permanent + half, half),
               m.temp.base + half, permanent, half)

SwitchByPpi ==
    LET heapOffset == TopOfNewStack - m.heap.base
        moved == TemporaryRamMigration(memory, TopOfNewStack - m.stack.size)
        shift == PagesShift(heapOffset)
    IN  [memory |-> Copied(moved, shift.base + heapOffset, shift.base + shift.offset, shift.size),
         heap |-> heapOffset, pages |-> shift, holes |-> <<NoShift, NoShift, NoShift>>]

(* Without: the core copies the pages, the used part of the heap, the stack *)
(* and the gaps itself; the heap comes behind the gaps.                     *)
SwitchByCore ==
    LET heapOffset == (TopOfNewStack + HoleMemSize) - m.heap.base
        shift == PagesShift(heapOffset)
        pages == Copied(memory, shift.base, shift.base + shift.offset, shift.size)
        heap  == Copied(pages, m.heap.base, m.heap.base + heapOffset, m.heapUsed)
        stack == Copied(heap, m.stack.base, TopOfNewStack - m.stack.size, m.stack.size)
    IN  [memory |-> FoldLeft(LAMBDA mem, h: Copied(mem, h.base, h.base + h.offset, h.size),
                             stack, HoleShifts),
         heap |-> heapOffset, pages |-> shift, holes |-> HoleShifts]

Fits(r) == m.heap.base + r.heap + m.heapUsed <= core.physicalTop - r.pages.size

PeiCheckAndSwitchStack ==
    /\ pc = "switch"
    /\ \E r \in {IF m.support THEN SwitchByPpi ELSE SwitchByCore} :
         /\ memory' = r.memory
         /\ core' = [core EXCEPT !.heap = r.heap, !.stack = StackOffset, !.pages = r.pages,
                       !.holes = r.holes, !.physicalTop = @ - r.pages.size,
                       !.free = @ - r.pages.size]
         /\ pc' = IF m.support \/ Fits(r) THEN "moved" ELSE "assert"
         /\ claimed' = claimed \o <<<<core.begin, NewStackSize>>,
                         <<TopOfNewStack, m.heap.base + r.heap + m.heapUsed - TopOfNewStack>>,
                         <<core.physicalTop - r.pages.size, r.pages.size>>>>
    /\ UNCHANGED <<m, lists, fvs, fvHobs, hobs, next, meaning>>

-----------------------------------------------------------------------------
(* PeiCore, entered the second time, on the new stack                       *)

(* The pointers of PEI_CORE_INSTANCE into the heap, then the entries.       *)
PeiCoreMoved ==
    /\ pc = "moved"
    /\ core' = [core EXCEPT !.pointers =
                  [f \in DOMAIN @ |-> IF @[f] = Null THEN Null ELSE @[f] + core.heap]]
    /\ \E s \in {ConvertPpiPointers([memory |-> memory, lists |-> lists])} :
         memory' = s.memory /\ lists' = s.lists
    /\ next' = 1
    /\ pc' = IF m.migrate THEN "evacuate" ELSE "shadow"
    /\ UNCHANGED <<m, fvs, fvHobs, hobs, claimed, meaning>>

-----------------------------------------------------------------------------
(* LoadAndRelocatePeCoffImage: where an image goes                          *)

AllocatePages(pages) == core.free - pages
HeapEnd == m.heap.base + core.heap + m.heapUsed   \* EfiFreeMemoryBottom

(* GetPeCoffImageFixLoadingAssignedAddress: the page that the linker put    *)
(* into the image, relative to the top or absolute.                         *)
AssignedAddress(image) ==
    IF m.fixed > 0 THEN image.assigned ELSE core.fixTop + image.assigned

AssignedFree(image) ==
    /\ FixAddress /\ image.assigned # 0
    /\ FixPagesFree(core.fixTop, core.used, AssignedAddress(image), image.size)

(* [base, free, used]: the address, and what is left of the two supplies.   *)
(* An image whose relocations are stripped, or that nobody wants to be      *)
(* shadowed, stays where it is; so does one there is no memory for.         *)
LoadAddress(image) ==
    IF image.stripped \/ ~ (m.migrate \/ m.shadow)
      THEN [base |-> image.base, free |-> core.free, used |-> core.used]
    ELSE IF AssignedFree(image)
      THEN [base |-> AssignedAddress(image), free |-> core.free,
            used |-> core.used \cup Range2(AssignedAddress(image), image.size)]
    ELSE IF AllocatePages(image.size) < HeapEnd
      THEN [base |-> image.base, free |-> core.free, used |-> core.used]
    ELSE [base |-> AllocatePages(image.size), free |-> AllocatePages(image.size),
          used |-> core.used]

(* Relocation moves the pointers inside the image that point into it.       *)
Relocated(mem, base, size, offset) ==
    LET Move(p) == ConvertPointer(p, Shift(base, size, offset))
    IN  [a \in DOMAIN mem |->
           IF a \in Range2(base + offset, size)
             THEN [mem[a] EXCEPT !.guid = Move(@), !.ppi = Move(@), !.fv = Move(@)]
             ELSE mem[a]]

LoadedImage(mem, image, base) ==
    Relocated(Copied(mem, image.base, base, image.size), image.base, image.size,
              base - image.base)

(* ShadowPeiCore loads the core again, from the volume that holds it.       *)
ShadowPeiCore ==
    /\ pc = "shadow"
    /\ \E r \in {LoadAddress(m.image)} :
         /\ memory' = LoadedImage(memory, m.image, r.base)
         /\ core' = [core EXCEPT !.running = r.base, !.free = r.free, !.used = r.used]
         /\ claimed' = IF r.base = m.image.base THEN claimed
                        ELSE Append(claimed, <<r.base, m.image.size>>)
    /\ pc' = "restart"
    /\ UNCHANGED <<m, lists, fvs, fvHobs, hobs, next, meaning>>

(* The third entry.  PeiReinitializeFv and InitializeImageServices install  *)
(* the services of this copy of the core over those of the old one, and     *)
(* volumes that used the old service use the new one.                       *)
OldService == memory[Head(lists["ppi"])].ppi
Rebased(a) == (a - m.image.base) + core.running

PeiReinitializeFv ==
    /\ fvs' = [k \in DOMAIN fvs |-> [fvs[k] EXCEPT !.service =
                  IF @ = OldService THEN memory[Rebased(m.service)].ppi ELSE @]]
    /\ lists' = [lists EXCEPT !["ppi"][1] = Rebased(m.service)]

(* Before, PeiCore takes pages that it never uses, if there are as many.    *)
Restart ==
    /\ pc = "restart"
    /\ IF AllocatePages(CorePages) < HeapEnd
         THEN core' = [core EXCEPT !.reenter = TRUE] /\ UNCHANGED claimed
         ELSE /\ core' = [core EXCEPT !.reenter = TRUE, !.free = AllocatePages(CorePages)]
              /\ claimed' = Append(claimed, <<AllocatePages(CorePages), CorePages>>)
    /\ PeiReinitializeFv
    /\ next' = 1
    /\ pc' = IF m.migrate THEN "core" ELSE "done"
    /\ UNCHANGED <<m, memory, fvHobs, hobs, meaning>>

-----------------------------------------------------------------------------
(* EvacuateTempRam                                                          *)

(* ConvertPeiCorePpiPointers: what lies in the image of the core in its     *)
(* volume is in the running copy now.                                       *)
ConvertPeiCorePpiPointers ==
    /\ pc = "core"
    /\ \E s \in {ConvertPpiPointersFv([memory |-> memory, lists |-> lists],
                    m.image.base, core.running, m.image.size)} :
         memory' = s.memory /\ lists' = s.lists
    /\ pc' = "evacuate"
    /\ UNCHANGED <<m, fvs, fvHobs, core, hobs, next, claimed, meaning>>

InPhysicalMemory(fv) ==
    core.begin <= fv.header /\ fv.header + (fv.length - 1) < core.physicalTop

(* Is it the turn of the volume: the migration HOB may leave it out, or ask *)
(* for it to be moved before the core restarts, unless it holds the core.   *)
Wanted(k) ==
    IF core.reenter THEN m.plan[k] # "no"
    ELSE m.plan[k] = "early" /\ m.coreFv # k

(* MigratePeimsInFv: every file's image is relocated in place, and its      *)
(* handle follows if that succeeds.                                         *)
MigratePeims(mem, fv, new) ==
    LET To(f) == (f - fv.header) + new
        Fixable(f) == f \notin m.fixedFiles
    IN  [memory |-> FoldLeft(LAMBDA t, f: IF Fixable(f)
                                THEN Relocated(t, f, m.fileSize, To(f) - f) ELSE t,
                             mem, fv.files),
         files  |-> [k \in DOMAIN fv.files |->
                       IF Fixable(fv.files[k]) THEN To(fv.files[k]) ELSE fv.files[k]]]

(* One volume has moved to new: its files, the entries that lead into it,   *)
(* the FV HOBs.  s is [memory, lists, fvs, fvHobs].                         *)
MoveVolume(s, k, new) ==
    LET fv == s.fvs[k]
        p  == MigratePeims(s.memory, fv, new)
        c  == ConvertPpiPointersFv([memory |-> p.memory, lists |-> s.lists],
                                   fv.header, new, fv.length - 1)
    IN  [memory |-> c.memory, lists |-> c.lists,
         fvs    |-> [s.fvs EXCEPT ![k].header = new, ![k].files = p.files],
         fvHobs |-> {IF h = fv.header THEN new ELSE h : h \in s.fvHobs}]

(* The volumes inside the one that moves, of those found after it.          *)
IsChild(k, parent) ==
    /\ k >= next
    /\ parent.header < fvs[k].header
    /\ fvs[k].header + fvs[k].length < parent.header + parent.length

Evacuated(k, new, raw) ==
    LET fv == fvs[k]
        copy == Copied(memory, fv.header, new, fv.length)
        \* the raw data has the same contents, but no pointer may lead there
        data == IF raw = Null THEN copy
                ELSE [a \in DOMAIN copy |->
                        IF a \in Range2(raw, fv.length)
                          THEN [copy[(a - raw) + fv.header] EXCEPT !.id = -@] ELSE copy[a]]
        kids == SelectSeq([j \in DOMAIN fvs |-> j], LAMBDA j: IsChild(j, fv))
        s0 == [memory |-> data, lists |-> lists, fvs |-> fvs, fvHobs |-> fvHobs]
        s1 == FoldLeft(LAMBDA s, j: MoveVolume(s, j, (fvs[j].header - fv.header) + new), s0, kids)
    IN  MoveVolume(s1, k, new)

EvacuateFv ==
    /\ pc = "evacuate" /\ next <= Len(fvs)
    /\ next' = next + 1
    /\ IF InPhysicalMemory(fvs[next]) \/ ~ Wanted(next)
         THEN UNCHANGED <<memory, lists, fvs, fvHobs, core, claimed>>
         ELSE LET n == fvs[next].length
                  new == AllocatePages(n)
                  raw == IF m.raw THEN new - n ELSE Null
              IN  /\ \E s \in {Evacuated(next, new, raw)} :
                       /\ memory' = s.memory /\ lists' = s.lists
                       /\ fvs' = s.fvs /\ fvHobs' = s.fvHobs
                  /\ core' = [core EXCEPT !.free = IF m.raw THEN raw ELSE new]
                  /\ claimed' = Append(claimed, <<IF m.raw THEN raw ELSE new,
                                                   IF m.raw THEN 2 * n ELSE n>>)
    /\ UNCHANGED <<m, pc, hobs, meaning>>

EvacuateEnds ==
    /\ pc = "evacuate" /\ next > Len(fvs)
    /\ pc' = IF core.reenter THEN "done" ELSE "shadow"
    /\ UNCHANGED <<m, memory, lists, fvs, fvHobs, core, hobs, next, claimed, meaning>>

-----------------------------------------------------------------------------
(* TemporaryRamDone: temporary memory is switched off, with what was cached *)
(* of the flash.                                                            *)
Vanished(a) ==
    \/ a \in Range2(m.temp.base, m.temp.size)
    \/ \E k \in m.cached : a \in Range2(m.volumes[k].header, m.volumes[k].length)

TemporaryRamDone ==
    /\ pc = "done"
    /\ memory' = [a \in DOMAIN memory |-> IF Vanished(a) THEN Gone ELSE memory[a]]
    /\ pc' = "pei2"
    /\ UNCHANGED <<m, lists, fvs, fvHobs, core, hobs, next, claimed, meaning>>

(* The dispatcher goes on, and loads modules into permanent memory.         *)
PeiLoadImage ==
    /\ pc = "pei2"
    /\ core.loads < MaxLoads
    /\ \E image \in m.images : \E r \in {LoadAddress(image)} :
         /\ r.base # image.base
         /\ core' = [core EXCEPT !.free = r.free, !.used = r.used, !.loads = @ + 1]
         /\ claimed' = Append(claimed, <<r.base, image.size>>)
    /\ UNCHANGED <<m, pc, memory, lists, fvs, fvHobs, hobs, next, meaning>>

Next ==
    \/ Install \/ AllocateEarly \/ LoadFixHook \/ PeiCheckAndSwitchStack
    \/ PeiCoreMoved \/ ShadowPeiCore \/ Restart
    \/ ConvertPeiCorePpiPointers \/ EvacuateFv \/ EvacuateEnds
    \/ TemporaryRamDone \/ PeiLoadImage

Spec == Init /\ [][Next]_vars

-----------------------------------------------------------------------------
(* Properties *)

InBetween == {"moved", "assert"}

(* Every entry of the PPI database leads to the descriptor it was made for, *)
(* with the same GUID, interface or notification function, and FvInfo,      *)
(* wherever these lay: at every step of the move but the one in which the   *)
(* copy was made and the pointers have not followed, and also after         *)
(* temporary memory is gone.  LocatePpi and the notifications rely on it,   *)
(* and five copies and four conversions have to agree for it.  So do the    *)
(* volumes, their files, the service each volume is read with and the FV    *)
(* HOBs (PeiReinitializeFv).                                                *)
PointersFollow ==
    pc \notin InBetween =>
        /\ \A l \in Lists : \A k \in DOMAIN lists[l] :
             Meaning(memory, lists[l][k]) = meaning[l][k]
        /\ \A k \in DOMAIN fvs :
             VolumeMeaning(memory, fvs[k]) = VolumeMeaning(m.memory, m.volumes[k])
        /\ {memory[h].id : h \in fvHobs} = {m.memory[m.volumes[k].header].id : k \in DOMAIN m.volumes}
        /\ \A f \in DOMAIN core.pointers :
             memory[core.pointers[f]].id = m.memory[m.pointers[f]].id

(* Nothing in permanent memory is used twice: the pages given away before   *)
(* the move, the new stack, the gaps and the heap, the pages that moved,    *)
(* the volumes and every image, those at fixed addresses too.               *)
ClaimsDisjoint ==
    \A i, j \in DOMAIN claimed :
        i # j => Range2(claimed[i][1], claimed[i][2])
                   \cap Range2(claimed[j][1], claimed[j][2]) = {}

MemoryOf(hs) == UNION {HobPages(hs[k]) : k \in {j \in DOMAIN hs : IsMemory(hs[j])}}

(* The hook describes the same system memory as before, by HOBs that do not *)
(* overlap, and the range it reserves holds no allocation but its own.      *)
ResourcesPartition ==
    (core.fixTop # 0) =>
        /\ MemoryOf(hobs) = MemoryOf(m.hobs)
        /\ \A i, j \in DOMAIN hobs :
             (i # j /\ IsMemory(hobs[i]) /\ IsMemory(hobs[j]))
               => HobPages(hobs[i]) \cap HobPages(hobs[j]) = {}
        /\ \A k \in 1 .. (Len(hobs) - 1) :
             hobs[k].type = "allocation" =>
               HobPages(hobs[k]) \cap (core.begin .. (core.fixTop + MinimumInitialMemory - 1)) = {}
=============================================================================
