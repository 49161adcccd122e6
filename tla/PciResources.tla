---------------------------- MODULE PciResources ----------------------------
(***************************************************************************)
(* How PciBusDxe gives addresses to the functions of a machine:            *)
(* PciHostBridgeResourceAllocator with CreateResourceMap, DegradeResource, *)
(* CalculateResourceAperture, PciHostBridgeAdjustAllocation and            *)
(* ProgramResource, and PciBridgeResourceAllocator for what is plugged in  *)
(* later.                                                                  *)
(*                                                                         *)
(* What a function asks for are nodes in the lists of the bridge above,    *)
(* one list for each type.  The lists of a bridge become windows, which    *)
(* are nodes in the lists of the next bridge, and so on to the root        *)
(* bridge, whose lists the host bridge is asked for.  If it cannot satisfy *)
(* them, resizable BARs are made small, then functions are rejected, and   *)
(* everything is done again.                                               *)
(*                                                                         *)
(* A machine is described by                                               *)
(*   children, parent, kind  the tree: "root", "bridge", "cardbus",        *)
(*                           "device"                                      *)
(*   upwards                 its bridges and root bridges, the innermost   *)
(*                           first                                         *)
(*   hardware                of a function: see PciConfigHeader            *)
(*   attributes              what the host bridge says of a root bridge:   *)
(*                           "mem64", "combine"                            *)
(*   probe                   PcdPciBridgeIoAlignmentProbe                  *)
(*   padding                 of a bridge: the resource padding             *)
(*                           descriptors, <<type, size, align>>            *)
(*   aperture                of a root bridge: what the host bridge has,   *)
(*                           [min, max] of "io", "low" and "high"          *)
(*   spared                  functions that are never rejected: VGA, or on *)
(*                           bus 0                                         *)
(*   hotPlug, isaAliases     PcdPciBusHotplugDeviceSupport and             *)
(*                           EFI_RESERVE_ISA_IO_ALIAS                      *)
(*   later                   functions that are plugged in later           *)
(* and when the functions have been searched, by what was found: bars,     *)
(* small (the BARs when resizable ones are small), virtual, rom, decodes   *)
(* and ioAlign.                                                            *)
(* Units: 256 KB of memory, 256 bytes of I/O.                              *)
(***************************************************************************)
EXTENDS Integers, Sequences, FiniteSets, SequencesExt, FiniteSetsExt, PciConfigHeader

CONSTANTS
  Machines,     \* the machines that are considered
  BridgeAlign,  \* what the memory windows of a bridge are aligned to
  IsaAlias      \* the distance of the ISA aliases

VARIABLES
  machine,      \* the machine
  phase,        \* what PciHostBridgeResourceAllocator is doing
  root,         \* the root bridge it has come to
  present,      \* the functions in the ChildLists
  padding,      \* the ResourcePaddingDescriptors
  shrunk,       \* the functions whose BARs were made small
  needAdjust,   \* ResizableBarNeedAdjust
  status,       \* what GetProposedResources says of every root bridge and type
  granted,      \* its bases
  bars,         \* the BARs: <<function, number>> to address
  windows,      \* the windows of the bridges: <<bridge, PciBar>>
  memory,       \* what MemoryBase and MemoryLimit of the bridges say
  allocated,    \* PCI_IO_DEVICE.Allocated
  roms,         \* the functions whose option ROM is still to be read
  decoding      \* the functions with EFI_PCI_COMMAND_MEMORY_SPACE

vars == <<machine, phase, root, present, padding, shrunk, needAdjust, status,
          granted, bars, windows, memory, allocated, roms, decoding>>
requested == <<present, padding, shrunk>>
programmed == <<bars, windows, memory, allocated>>
reading    == <<roms, decoding>>

Types == <<"io", "mem32", "pmem32", "mem64", "pmem64">>
T     == Range(Types)
BarNames   == <<"bar1", "bar2", "bar3">>
VfBarNames == <<"vf1", "vf2">>
CardWindows == {"mem1", "mem2", "io1", "io2"}
Nodes == DOMAIN machine.kind
Kind(f) == machine.kind[f]
Roots   == {f \in Nodes : Kind(f) = "root"}
Bridges == {f \in Nodes : Kind(f) = "bridge"}
Holders == Roots \cup Bridges
Above[f \in Nodes] ==
  IF Kind(f) = "root" THEN {} ELSE {machine.parent[f]} \cup Above[machine.parent[f]]
Below(b) == {f \in Nodes : b \in Above[f]}

None == -1
Closed == [base |-> None, size |-> 0, type |-> "none"]
Up(a, n) == ((a + n - 1) \div n) * n

(***************************************************************************)
(* What the search finds.                                                  *)
(***************************************************************************)
DetermineRootBridgeAttributes(attributes) ==
  {"pmem32"} \cup (IF "mem64" \in attributes THEN {"mem64", "pmem64"} ELSE {})
             \cup (attributes \cap {"combine"})

Enumerated(m) ==
  LET found == [f \in DOMAIN m.hardware |-> PciSearchDevice(m.kind[f], m.hardware[f], m.probe)]
      roots == DOMAIN m.attributes
      all   == DOMAIN found \cup roots
      of(f, none, x(_)) == IF f \in roots THEN none ELSE x(found[f])
  IN  m @@ [bars    |-> [f \in all |-> of(f, <<>>, LAMBDA x : x.bars)],
            small   |-> [f \in all |-> of(f, <<>>, LAMBDA x : ParseSmall(m.hardware[f]))],
            virtual |-> [f \in all |-> of(f, <<>>, LAMBDA x : x.virtual)],
            rom     |-> [f \in all |-> of(f, 0, LAMBDA x : x.rom)],
            decodes |-> [f \in all |-> IF f \in roots THEN DetermineRootBridgeAttributes(m.attributes[f])
                                        ELSE found[f].decodes],
            ioAlign |-> [f \in all |-> of(f, IF m.probe THEN 2 ELSE 16, LAMBDA x : x.ioAlign)]]

(***************************************************************************)
(* The lists                                                               *)
(***************************************************************************)
CreateResourceNode(f, bar, t, size, align, usage) ==
  [dev |-> f, bar |-> bar, type |-> t, size |-> size, align |-> align,
   usage |-> usage, fixed |-> FALSE, offset |-> 0]
CreateBarNode(f, bar, b) ==
  [CreateResourceNode(f, bar, b.type, b.size, b.align, "typical") EXCEPT !.fixed = b.fixed]

(* The larger alignment comes first; among equals, the one that leaves no  *)
(* rest or the larger rest.                                                *)
Before(n, m) ==
  \/ n.align > m.align
  \/ /\ n.align = m.align
     /\ n.size % n.align = 0 \/ n.size % n.align >= m.size % m.align
InsertResourceNode(list, n) ==
  InsertAt(list, Min({i \in 1 .. Len(list) + 1 : i = Len(list) + 1 \/ Before(n, list[i])}), n)

Put(lists, n) == [lists EXCEPT ![n.type] = InsertResourceNode(@, n)]
PutAll(lists, nodes) == FoldLeft(Put, lists, nodes)

MergeResourceTree(lists, dst, src, typeMerge) ==
  LET insert(list, n) == InsertResourceNode(list, IF typeMerge THEN [n EXCEPT !.type = dst] ELSE n)
  IN  [lists EXCEPT ![dst] = FoldLeft(insert, @, lists[src]), ![src] = <<>>]

(***************************************************************************)
(* What a function asks for: its BARs, those of its virtual functions; a   *)
(* root bridge asks for room for the largest option ROM.                   *)
(***************************************************************************)
BarsOf(f) == IF f \in shrunk THEN machine.small[f] ELSE machine.bars[f]
AsksFor(list) == {i \in DOMAIN list : list[i].type # "none"}
GetMaxOptionRomSize(r) == Max({0} \cup {machine.rom[f] : f \in Below(r) \cap present})

GetResourceFromDevice(lists, f) ==
  LET rom  == IF f \in Roots THEN GetMaxOptionRomSize(f) ELSE 0
      own  == [i \in DOMAIN BarsOf(f) |-> CreateBarNode(f, BarNames[i], BarsOf(f)[i])]
      vf   == [i \in DOMAIN machine.virtual[f] |-> CreateBarNode(f, VfBarNames[i], machine.virtual[f][i])]
  IN  PutAll(lists, (IF rom = 0 THEN <<>> ELSE <<CreateResourceNode(f, "rom", "mem32", rom, rom, "typical")>>)
                    \o SelectSeq(own \o vf, LAMBDA n : n.type # "none"))

(* A bridge asks for a window for every list that is not empty.            *)
ResourceRequestExisted(list) == list.nodes # <<>> \/ list.size # 0
AskForWindows(lists, f, below) ==
  LET asked == SelectSeq(Types, LAMBDA t : ResourceRequestExisted(below[t]))
  IN  PutAll(lists, [i \in DOMAIN asked |->
        CreateResourceNode(f, asked[i], asked[i], below[asked[i]].size, below[asked[i]].align, "typical")])

ResourcePaddingForCardBusBridge(lists, f) ==
  PutAll(lists, << CreateResourceNode(f, "mem1", "mem32", 128, 128, "padding"),
                   CreateResourceNode(f, "mem2", "pmem32", 128, 128, "padding"),
                   CreateResourceNode(f, "io1", "io", 1, 1, "padding"),
                   CreateResourceNode(f, "io2", "io", 1, 1, "padding") >>)

ApplyResourcePadding(lists, b) ==
  PutAll(lists, [i \in DOMAIN padding[b] |->
    CreateResourceNode(b, "none", padding[b][i][1], padding[b][i][2], padding[b][i][3], "padding")])

(***************************************************************************)
(* DegradeResource: the BARs of functions with an option ROM must be       *)
(* reachable with 32 bits; a type the bridge does not decode goes to one   *)
(* that it does; a bridge has one prefetchable window only.                *)
(***************************************************************************)
ForOptionRom(lists, f) ==
  LET moves(n)      == n.dev = f /\ ~n.fixed
      stays(n)      == ~moves(n)
      move(ls, to, from) ==
        [ls EXCEPT ![to] = FoldLeft(InsertResourceNode, @, SelectSeq(ls[from], moves)),
                   ![from] = SelectSeq(@, stays)]
  IN  IF machine.rom[f] = 0 THEN lists
      ELSE move(move(lists, "mem32", "mem64"), "pmem32", "pmem64")

\* Mutant: a bridge gets two prefetchable windows.
OnePrefetchableTwo(lists, b) == lists

OnePrefetchable(lists, b) ==
  IF lists["pmem64"] # <<>> /\ b \notin Roots
  THEN MergeResourceTree(lists, "mem32", "pmem32", TRUE) ELSE lists

DegradeResource(lists, b) ==
  LET decoded(ls, decode, dst, src) ==
        IF decode \in machine.decodes[b] THEN ls ELSE MergeResourceTree(ls, dst, src, TRUE)
      shadowed == FoldLeft(ForOptionRom, lists, SelectSeq(machine.children[b], LAMBDA f : f \in present))
      wide     == decoded(decoded(shadowed, "mem64", "mem32", "mem64"), "pmem64", "pmem32", "pmem64")
      narrow   == decoded(OnePrefetchable(wide, b), "pmem32", "mem32", "pmem32")
  IN  IF "combine" \notin machine.decodes[b] THEN narrow
      ELSE MergeResourceTree(MergeResourceTree(narrow, "mem32", "pmem32", FALSE), "mem64", "pmem64", FALSE)

(***************************************************************************)
(* CalculateResourceAperture: an offset for every node, and the size and   *)
(* the alignment of the whole.  Padding lies over the rest and counts only *)
(* if it is larger.                                                        *)
(***************************************************************************)
FirstAlign(nodes, align) == Max({align} \cup {nodes[i].align : i \in DOMAIN nodes \cap {1}})

Larger(typical, pad) == Max({typical, pad})

WindowEnd(a, align) == Up(a, align)

CalculateApertureMem(nodes, align) ==
  LET place(st, n) ==
        LET at == Up(st.used[n.usage], n.align)
        IN  [used |-> [st.used EXCEPT ![n.usage] = at + n.size],
             nodes |-> Append(st.nodes, [n EXCEPT !.offset = at])]
      all == FoldLeft(place, [used |-> [typical |-> 0, padding |-> 0], nodes |-> <<>>], nodes)
  IN  [nodes |-> all.nodes, align |-> FirstAlign(nodes, align),
       size |-> Larger(WindowEnd(all.used.typical, align), WindowEnd(all.used.padding, align))]

SkipIsaAliasAperture(a, size) ==
  IF ((a % IsaAlias) + size - 1) % IsaAlias >= 1 THEN a - (a % IsaAlias) + IsaAlias ELSE a

(* Of several paddings the last counts, as in a build without assertions:  *)
(* ASSERT (PaddingAperture == 0) stops a debug build at every CardBus      *)
(* bridge whose two I/O windows are padded (PciResourceSupport.c:243).     *)
CalculateApertureIo16(nodes, align) ==
  LET place(st, n) ==
        LET up   == Up(st.used, n.align)
            skip == machine.isaAliases /\ Kind(n.dev) \notin {"bridge", "cardbus"}
            at   == IF skip THEN Up(SkipIsaAliasAperture(up, n.size), n.align) ELSE up
        IN  IF n.usage = "padding"
            THEN [st EXCEPT !.padding = n.size, !.nodes = Append(@, n)]
            ELSE [st EXCEPT !.used = at + n.size, !.nodes = Append(@, [n EXCEPT !.offset = at])]
      all == FoldLeft(place, [used |-> 0, padding |-> 0, nodes |-> <<>>], nodes)
  IN  [nodes |-> all.nodes, align |-> FirstAlign(nodes, align),
       size |-> Larger(WindowEnd(all.used, align), all.padding)]

(***************************************************************************)
(* CreateResourceMap, from the leaves up.                                  *)
(***************************************************************************)
NoRequests == [io |-> <<>>, mem32 |-> <<>>, pmem32 |-> <<>>, mem64 |-> <<>>, pmem64 |-> <<>>]
RequestsOf(b, map) ==
  LET child(lists, f) ==
        LET own == GetResourceFromDevice(lists, f)
        IN  CASE Kind(f) = "bridge"  -> AskForWindows(own, f, map[f])
              [] Kind(f) = "cardbus" -> ResourcePaddingForCardBusBridge(own, f)
              [] OTHER               -> own
      first == IF b \in Roots THEN GetResourceFromDevice(NoRequests, b) ELSE NoRequests
      below == FoldLeft(child, first, SelectSeq(machine.children[b], LAMBDA f : f \in present))
  IN  DegradeResource(ApplyResourcePadding(below, b), b)

CreateResourceMap ==
  LET apertures(lists, ioAlign) ==
        [io     |-> CalculateApertureIo16(lists.io, ioAlign),
         mem32  |-> CalculateApertureMem(lists.mem32, BridgeAlign),
         pmem32 |-> CalculateApertureMem(lists.pmem32, BridgeAlign),
         mem64  |-> CalculateApertureMem(lists.mem64, BridgeAlign),
         pmem64 |-> CalculateApertureMem(lists.pmem64, BridgeAlign)]
      extend(map, b) == (b :> apertures(RequestsOf(b, map), machine.ioAlign[b])) @@ map
  IN  FoldLeft(extend, <<>>, machine.upwards)

IsWindow(n) == n.dev \in Bridges /\ n.usage = "typical" /\ n.bar \in T

(***************************************************************************)
(* What is submitted for a root bridge: a descriptor for every list that   *)
(* is not empty, and where its base is found in the answer.                *)
(***************************************************************************)
Descriptor(t) == [space |-> IF t = "io" THEN "io" ELSE "mem",
                  granularity |-> CASE t = "io" -> 0 [] t \in {"mem32", "pmem32"} -> 32 [] OTHER -> 64,
                  prefetchable |-> t \in {"pmem32", "pmem64"}]
ConstructAcpiResourceRequestor(lists) ==
  LET asked == SelectSeq(Types, LAMBDA t : ResourceRequestExisted(lists[t]))
  IN  [i \in DOMAIN asked |-> Descriptor(asked[i]) @@ [len   |-> lists[asked[i]].size,
                                                       align |-> lists[asked[i]].align]]
Answers(config, t) == {i \in DOMAIN config : \A x \in DOMAIN Descriptor(t) : config[i][x] = Descriptor(t)[x]}
GetResourceBase(config, bases) ==
  [t \in T |-> Max({None} \cup {bases[i] : i \in Answers(config, t)})]

(***************************************************************************)
(* The host bridge, which is not part of this driver: what it does with    *)
(* the resources submitted to it.  The larger alignment is placed first.   *)
(***************************************************************************)
HostAllocation(config, r) ==
  LET range(d)   == CASE d.space = "io" -> machine.aperture[r].io
                      [] d.granularity = 32 -> machine.aperture[r].low
                      [] OTHER -> machine.aperture[r].high
      earlier(i) == {j \in DOMAIN config :
                       /\ range(config[j]) = range(config[i])
                       /\ \/ config[j].align > config[i].align
                          \/ config[j].align = config[i].align /\ j < i}
      base[i \in DOMAIN config] ==
        LET ends == {base[j] + config[j].len : j \in {k \in earlier(i) : base[k] # None}}
            at   == Up(Max({range(config[i]).min} \cup ends), config[i].align)
        IN  IF at + config[i].len > range(config[i]).max THEN None ELSE at
  IN  base

Rest    == {r \in Roots : r > root}
Resizable == {f \in Nodes \ Roots : Kind(f) = "device" /\ HasResizableBar(machine.hardware[f])}
NoBases == [r \in Roots |-> [t \in T |-> None]]

Init ==
  /\ machine \in {Enumerated(m) : m \in Machines}
  /\ phase = "submit" /\ root = Min(Roots)
  /\ present = Nodes \ machine.later
  /\ padding = machine.padding
  /\ shrunk = {}
  /\ needAdjust = (Resizable # {})
  /\ status = [r \in Roots |-> [t \in T |-> "satisfied"]]
  /\ granted = NoBases
  /\ bars = [x \in Nodes \X (Range(BarNames) \cup Range(VfBarNames) \cup {"rom"}) |-> None]
  /\ windows = [x \in Nodes \X (T \cup CardWindows) |-> Closed]
  /\ memory = [b \in Bridges |-> Closed]
  /\ allocated = {}
  /\ roms = <<>> /\ decoding = {}

(* The lists of all root bridges are submitted and the host bridge tries   *)
(* to allocate them.  A function that asks for nothing counts as           *)
(* allocated.                                                              *)
AllocateResources ==
  /\ phase = "submit"
  /\ \E map \in {CreateResourceMap} : \E short \in {"less", "notSatisfied"} :
       LET config == [r \in Roots |-> ConstructAcpiResourceRequestor(map[r])]
           bases  == [r \in Roots |-> GetResourceBase(config[r], HostAllocation(config[r], r))]
           fails(r, t) == ResourceRequestExisted(map[r][t]) /\ bases[r][t] = None
       IN  /\ status' = [r \in Roots |-> [t \in T |-> IF fails(r, t) THEN short ELSE "satisfied"]]
           /\ IF \A r \in Roots : \A t \in T : ~fails(r, t)
              THEN granted' = bases /\ phase' = "program"
              ELSE granted' = granted /\ phase' = IF machine.hotPlug THEN "adjust" ELSE "error"
  /\ allocated' = allocated \cup {f \in present \ Roots : AsksFor(BarsOf(f)) = {}}
  /\ UNCHANGED <<machine, root, requested, needAdjust, bars, windows, memory, reading>>

(* Any call of the host bridge may fail.                                   *)
HostBridgeFails ==
  /\ phase \in {"submit", "adjust"}
  /\ phase' = "error"
  /\ UNCHANGED <<machine, root, requested, needAdjust, status, granted, programmed, reading>>

(* GetResourceAllocationStatus is called for one root bridge after the     *)
(* other with the same variables: the last one that asked for a type       *)
(* decides.                                                                *)
GetResourceAllocationStatus(map, t) ==
  LET asked == {r \in Roots : ResourceRequestExisted(map[r][t])}
  IN  IF asked = {} THEN "satisfied" ELSE status[Max(asked)][t]

(***************************************************************************)
(* The largest node of a function that may be rejected, or of padding.     *)
(***************************************************************************)
IsRejectiveDevice(n) == Kind(n.dev) \in {"bridge", "root"} \/ n.dev \notin machine.spared
NoNode == [size |-> None]
GetLargerConsumerDevice(n, m) ==
  IF m = NoNode \/ (n # NoNode /\ n.size > m.size) THEN n ELSE m

GetMaxResourceConsumerDevice(map, t) ==
  LET largest[b \in Holders, u \in T] ==
        LET look(best, n) ==
              IF ~IsRejectiveDevice(n) THEN best
              ELSE IF Kind(n.dev) \in {"bridge", "root"} /\ n.usage # "padding"
              THEN IF IsWindow(n) THEN GetLargerConsumerDevice(best, largest[n.dev, n.bar]) ELSE best
              ELSE GetLargerConsumerDevice(best, n)
        IN  FoldLeft(look, NoNode, map[b][u].nodes)
      pool == SetToSortSeq(Roots, LAMBDA r, s : map[r][t].align > map[s][t].align
                                                \/ (map[r][t].align = map[s][t].align /\ r > s))
  IN  FoldLeft(LAMBDA best, r : GetLargerConsumerDevice(best, largest[r, t]), NoNode, pool)

\* Mutant: the padding of a bridge stays.
RejectPciDeviceOnly(devs) ==
  /\ present' = present \ {f \in devs : Kind(f) # "bridge"}
  /\ padding' = padding

(* A bridge loses its padding; a function is switched off and forgotten.   *)
RejectPciDevice(devs) ==
  /\ present' = present \ {f \in devs : Kind(f) # "bridge"}
  /\ padding' = [b \in Holders |-> IF b \in devs THEN <<>> ELSE padding[b]]

(* One rejection for each type there is too little of.                     *)
PciHostBridgeAdjustAllocation(map) ==
  LET st(i)   == GetResourceAllocationStatus(map, Types[i])
      ends    == Min({i \in DOMAIN Types : st(i) = "notSatisfied"} \cup {6})
      largest == {GetMaxResourceConsumerDevice(map, Types[i]) :
                    i \in {j \in DOMAIN Types : j < ends /\ st(j) = "less"}}
      devs    == {n.dev : n \in largest \ {NoNode}}
  IN  /\ RejectPciDevice(devs)
      /\ phase' = IF ends <= 5 \/ devs = {} THEN "error" ELSE "submit"

(* Only the root bridge the loop came to last is looked at.                *)
AdjustPciDeviceBarSize == Resizable \cap Below(Max(Roots)) \cap present

AdjustAllocation ==
  /\ phase = "adjust"
  /\ needAdjust' = FALSE
  /\ IF needAdjust /\ AdjustPciDeviceBarSize # {}
     THEN /\ shrunk' = shrunk \cup AdjustPciDeviceBarSize
          /\ phase' = "submit" /\ UNCHANGED <<present, padding>>
     ELSE /\ \E map \in {CreateResourceMap} : PciHostBridgeAdjustAllocation(map)
          /\ UNCHANGED shrunk
  /\ UNCHANGED <<machine, root, status, granted, programmed, reading>>

(***************************************************************************)
(* ProgramResource: every node below a list gets the base of the list plus *)
(* its offset.  A list whose base is all ones is left out.  The one        *)
(* prefetchable window of a bridge is behind two PciBars.                  *)
(***************************************************************************)
Placed(map, b, bases) ==
  LET under == Below(b) \cap Bridges \cap present
      base[c \in {b} \cup under, t \in T] ==
        IF c = b THEN bases[t]
        ELSE LET p  == machine.parent[c]
                 in == {u \in T : \E n \in Range(map[p][u].nodes) : IsWindow(n) /\ n.dev = c /\ n.bar = t}
             IN  IF in = {} \/ base[p, CHOOSE u \in in : TRUE] = None THEN None
                 ELSE LET u == CHOOSE u \in in : TRUE
                          n == CHOOSE n \in Range(map[p][u].nodes) : IsWindow(n) /\ n.dev = c /\ n.bar = t
                      IN  base[p, u] + n.offset
      placed(c, t) == IF base[c, t] = None THEN {}
                      ELSE {[node |-> n, at |-> base[c, t] + n.offset] : n \in Range(map[c][t].nodes)}
  IN  UNION {placed(c, t) : c \in {b} \cup under, t \in T}

ProgramBar(placed) ==
  bars' = [x \in DOMAIN bars |->
             LET mine == {p \in placed : <<p.node.dev, p.node.bar>> = x}
             IN  IF mine = {} THEN bars[x] ELSE (CHOOSE p \in mine : TRUE).at]

(* A bridge opens a window for a list, not for padding; a CardBus bridge   *)
(* has nothing but padding.                                                *)
ProgramPpbApperture(p) ==
  /\ Kind(p.node.dev) = "bridge" /\ p.node.usage # "padding"
  /\ p.node.size # 0 /\ p.node.bar # "mem64"
ProgramP2C(p) ==
  Kind(p.node.dev) = "cardbus" /\ p.node.bar \in CardWindows

ProgramWindow(placed) ==
  LET opened(x) == {p \in placed : /\ <<p.node.dev, p.node.bar>> = x
                                   /\ ProgramPpbApperture(p) \/ ProgramP2C(p)}
      window(p) == [base |-> p.at, size |-> p.node.size, type |-> p.node.type]
      program(x, old) == IF opened(x) = {} THEN old ELSE window(CHOOSE p \in opened(x) : TRUE)
  IN  /\ windows' = [x \in DOMAIN windows |-> program(x, windows[x])]
      /\ memory'  = [b \in Bridges |-> program(<<b, "mem32">>, memory[b])]

ProgramResource(map, b, bases) ==
  \E placed \in {Placed(map, b, bases)} :
    /\ ProgramBar(placed) /\ ProgramWindow(placed)
    /\ allocated' = allocated \cup {f \in present : AsksFor(BarsOf(f)) = {}}
                      \cup {p.node.dev : p \in {q \in placed : q.node.usage # "padding" \/ Kind(q.node.dev) = "cardbus"}}

(***************************************************************************)
(* ProcessOptionRom, when a root bridge is programmed: the option ROMs are *)
(* read one after the other, those behind a function before its own, all   *)
(* at the one address that was reserved for the largest of them.           *)
(***************************************************************************)
ProcessOptionRom(r) ==
  LET fits(f) == machine.rom[f] # 0 /\ machine.rom[f] <= GetMaxOptionRomSize(r)
      below[b \in Nodes] ==
        IF b \notin Holders THEN <<>>
        ELSE LET children == SelectSeq(machine.children[b], LAMBDA f : f \in present)
             IN  FlattenSeq([i \in DOMAIN children |->
                   below[children[i]] \o SelectSeq(<<children[i]>>, fits)])
  IN  below[r]

AfterRoms(rest) ==
  IF rest # <<>> THEN phase' = "rom" /\ UNCHANGED root
  ELSE IF Rest # {} THEN phase' = "program" /\ root' = Min(Rest)
  ELSE phase' = "done" /\ UNCHANGED root

ProgramRootBridge ==
  /\ phase = "program"
  /\ \E map \in {CreateResourceMap} : ProgramResource(map, root, granted[root])
  /\ roms' = ProcessOptionRom(root)
  /\ AfterRoms(roms')
  /\ UNCHANGED <<machine, requested, needAdjust, status, granted, decoding>>

(* RomDecode: the bridges above forget their window for memory and open    *)
(* one for the ROM.                                                        *)
Upstream(f) == Above[f] \cap Bridges
RomWindow == [base |-> bars[root, "rom"], size |-> machine.rom[Head(roms)], type |-> "mem32"]

LoadOpRomImage ==
  /\ phase = "rom" /\ decoding = {}
  /\ memory' = [b \in Bridges |-> IF b \in Upstream(Head(roms)) THEN RomWindow ELSE memory[b]]
  /\ decoding' = {Head(roms)} \cup Upstream(Head(roms))
  /\ UNCHANGED <<machine, phase, root, requested, needAdjust, status, granted, bars, windows,
                 allocated, roms>>

\* Mutant: a window that was closed stays open for the ROM.
WindowBeforeRomLeft(b) == IF windows[b, "mem32"].size = 0 THEN memory[b] ELSE windows[b, "mem32"]

(* When it has been read they get the window back that PciBar remembers.   *)
WindowBeforeRom(b) == windows[b, "mem32"]

RomRead ==
  /\ phase = "rom" /\ decoding # {}
  /\ memory' = [b \in Bridges |-> IF b \in Upstream(Head(roms)) THEN WindowBeforeRom(b) ELSE memory[b]]
  /\ decoding' = {}
  /\ roms' = Tail(roms)
  /\ AfterRoms(roms')
  /\ UNCHANGED <<machine, requested, needAdjust, status, granted, bars, windows, allocated>>

(***************************************************************************)
(* PciBridgeResourceAllocator: what was plugged in behind a bridge is put  *)
(* into the windows the bridge has.                                        *)
(***************************************************************************)
GetResourceBaseFromBridge(b) ==
  [t \in T |-> IF t # "mem64" /\ windows[b, t].size > 0 THEN windows[b, t].base ELSE None]

PciBridgeResourceAllocator(b) ==
  /\ phase = "done"
  /\ b \in Bridges \cap allocated
  /\ Below(b) # {} /\ Below(b) \subseteq machine.later
  /\ machine.parent[b] \notin machine.later
  /\ present' = present \cup Below(b)
  /\ root' = b /\ phase' = "added"
  /\ UNCHANGED <<machine, padding, shrunk, needAdjust, status, granted, programmed, reading>>

ProgramAdded ==
  /\ phase = "added"
  /\ \E map \in {CreateResourceMap} : ProgramResource(map, root, GetResourceBaseFromBridge(root))
  /\ phase' = "doneAgain"
  /\ UNCHANGED <<machine, root, requested, needAdjust, status, granted, reading>>

Driver == AllocateResources \/ AdjustAllocation \/ ProgramRootBridge \/ LoadOpRomImage
            \/ RomRead \/ ProgramAdded
Next   == Driver \/ HostBridgeFails \/ \E b \in Bridges : PciBridgeResourceAllocator(b)

Spec == Init /\ [][Next]_vars

(***************************************************************************)
(* What the hardware makes of it.  Memory windows have a grain of 1 MB and *)
(* I/O windows one of 4 KB or less, whatever the length that was written.  *)
(***************************************************************************)
IsIo(t)     == t = "io"
Grain(b, t) == IF IsIo(t) THEN machine.hardware[b].ioGrain ELSE 4
Window(b, t) == IF t = "mem32" THEN memory[b] ELSE windows[b, t]
Span(b, t) ==
  LET w == Window(b, t)
  IN  (w.base \div Grain(b, t)) * Grain(b, t) .. Up(w.base + w.size, Grain(b, t)) - 1
(* One register holds both kinds of prefetchable window, the one with 64   *)
(* bits is written last; there may be none, or one of 32 bits.             *)
Open(b) ==
  LET set == {t \in T : Window(b, t).size > 0}
      has == machine.hardware[b].prefetch
  IN  (IF "pmem64" \in set THEN set \ {"pmem32"} ELSE set)
        \ (IF has.nibbles[1] # 1 THEN {"pmem32", "pmem64"} ELSE IF has.upper THEN {} ELSE {"pmem64"})
(* The memory windows that may hold a BAR: a prefetchable one only for     *)
(* what is prefetchable.                                                   *)
Passes(w, t) ==
  \/ w = t
  \/ w = "mem32" /\ ~IsIo(t)
  \/ w \in {"pmem32", "pmem64"} /\ t \in {"pmem32", "pmem64"}

(* What a function really answers for: what its decoders decode, whatever  *)
(* the driver read in the registers, and the windows of a CardBus bridge.  *)
Working == present \ Roots
Decoded(f, d) == IF d.answers # 0 THEN d.answers
                 ELSE IF f \in shrunk THEN PciResizableBarMin(d) ELSE PciResizableBarMax(d)
Decodes(list) == {i \in DOMAIN list : list[i].type \in T}
Claimed(f) ==
  LET h == machine.hardware[f]
  IN  {[type |-> h.decoders[i].type, size |-> Decoded(f, h.decoders[i]),
        align |-> Max({Decoded(f, h.decoders[i]), h.decoders[i].needs}),
        at |-> bars[f, BarNames[i]]] : i \in Decodes(h.decoders)} \cup
      {[type |-> h.virtual[i].type, size |-> h.vfs * Decoded(f, h.virtual[i]),
        align |-> Max({Decoded(f, h.virtual[i]), h.page}),
        at |-> bars[f, VfBarNames[i]]] : i \in Decodes(h.virtual)} \cup
      {[type |-> windows[f, w].type, size |-> windows[f, w].size, align |-> 1,
        at |-> windows[f, w].base] : w \in IF Kind(f) = "cardbus" THEN CardWindows ELSE {}}
Room(c) == c.at .. c.at + c.size - 1

(* What is plugged in is promised nothing the windows have no room for.    *)
Fits(b) ==
  LET map == CreateResourceMap
  IN  \A t \in T : ResourceRequestExisted(map[b][t]) =>
        /\ windows[b, t].size >= map[b][t].size
        /\ windows[b, t].base % map[b][t].align = 0
Settled ==
  CASE phase = "done"      -> Working
    [] phase = "doneAgain" -> IF Fits(root) THEN Working ELSE Working \ Below(root)
    [] OTHER               -> {}

RootAllows(r, c) ==
  \E range \in DOMAIN machine.aperture[r] :
    /\ (range = "io") = IsIo(c.type)
    /\ range = "high" => c.type \in {"mem64", "pmem64"}
    /\ Room(c) \subseteq machine.aperture[r][range].min .. machine.aperture[r][range].max - 1
Reachable(f, c) ==
  /\ c.at # None /\ c.at % c.align = 0
  /\ \A b \in Above[f] :
       IF b \in Roots THEN RootAllows(b, c)
       ELSE \E t \in Open(b) : Passes(t, c.type) /\ Room(c) \subseteq Span(b, t)

(* The option ROM that is being read, and what else answers then: the      *)
(* memory BARs of the functions that decode, and the other windows of the  *)
(* bridges above.                                                          *)
RomClaim == [type |-> "mem32", size |-> RomWindow.size, align |-> RomWindow.size, at |-> RomWindow.base]
BesideRom ==
  {Room(c) : c \in {d \in UNION {Claimed(f) : f \in decoding} : ~IsIo(d.type) /\ d.at # None}} \cup
  UNION {{Span(b, t) : t \in Open(b) \ {"io", "mem32"}} : b \in decoding \cap Bridges}

(* Every BAR, those of virtual functions too, has an address of its        *)
(* alignment, in what the host bridge gave to the root bridge, below 4 GB  *)
(* if it has 32 bits only, and every bridge above has a window open for it *)
(* that is prefetchable only if the BAR is.  So have the windows of CardBus*)
(* bridges, and so has an option ROM while it is read; the windows it      *)
(* closed are open again afterwards.                                       *)
BarsReachable ==
  /\ \A f \in Settled : \A c \in Claimed(f) : Reachable(f, c)
  /\ decoding # {} => Reachable(Head(roms), RomClaim)

Answered(f, io) ==
  {Room(c) : c \in {d \in Claimed(f) : IsIo(d.type) = io /\ d.at # None}} \cup
  (IF Kind(f) = "bridge" THEN {Span(f, t) : t \in {u \in Open(f) : IsIo(u) = io}} ELSE {})
Neighbours(f) == {g \in Settled : machine.parent[g] = machine.parent[f] /\ Kind(g) # "cardbus" /\ g >= f}

(* Two functions on one bus never answer for the same address, be it by a  *)
(* BAR or, for a bridge, by a window with the grain the hardware gives it, *)
(* and nothing that decodes memory answers where an option ROM is read.    *)
(* CardBus bridges are left out: their windows are padding.                *)
NothingOverlaps ==
  /\ \A f \in Settled : Kind(f) # "cardbus" => \A g \in Neighbours(f) :
       \A io \in BOOLEAN : \A x \in Answered(f, io) : \A y \in Answered(g, io) :
         (f # g \/ x # y) => x \cap y = {}
  /\ decoding # {} => \A x \in BesideRom : Room(RomClaim) \cap x = {}

(* No round of the allocation asks for what the one before asked for:      *)
(* resizable BARs are made small once, and after that every round lacks    *)
(* a function or the padding of a bridge.  So allocation ends.             *)
EveryRoundAsksLess ==
  [][phase = "adjust" /\ phase' = "submit" =>
       \/ needAdjust /\ ~needAdjust' /\ shrunk' # shrunk
       \/ ~needAdjust' /\ present' \subseteq present /\ shrunk' = shrunk
          /\ \A b \in Holders : padding'[b] \in {padding[b], <<>>}
          /\ <<present', padding'>> # <<present, padding>>]_vars
=============================================================================
