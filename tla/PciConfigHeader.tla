-------------------------- MODULE PciConfigHeader --------------------------
(***************************************************************************)
(* What PciBusDxe makes of the configuration header of a function, from    *)
(* what its registers read back after all ones were written to them:       *)
(* PciSearchDevice with GatherDeviceInfo, GatherPpbInfo, GatherP2CInfo,    *)
(* UpdatePciInfo and GetOpRomInfo.                                         *)
(*                                                                         *)
(* The hardware of a function is described by                              *)
(*   decoders   what its base address registers decode, in their order     *)
(*   virtual    the same of the SR-IOV capability, for one virtual function*)
(*   vfs, page  InitialVFs, and the alignment of the system page size      *)
(*   rom        the size of its expansion ROM, 0 if there is none          *)
(*   prefetch   of a bridge: the low nibbles of prefetchable base and      *)
(*              limit, and whether the upper base register exists          *)
(*   ioGrain    of a bridge: the grain of its I/O window                   *)
(*   quirks     what the incompatible device table says of it              *)
(* A decoder has a type, the sizes it can be given (one, unless the BAR is *)
(* resizable), the number of bits in its upper register (for I/O: in the   *)
(* upper half of its register), and, if its register does not tell the     *)
(* truth, what it really answers for and the alignment it needs.           *)
(* Units: 256 KB of memory, 256 bytes of I/O.  So BARs of less than 4 KB,  *)
(* which are aligned to a page, are below the unit.                        *)
(***************************************************************************)
LOCAL INSTANCE Integers
LOCAL INSTANCE Sequences
LOCAL INSTANCE SequencesExt
LOCAL INSTANCE FiniteSetsExt

MemWord == 2 ^ 14     \* the 4 GB a 32 bit memory register counts
IoWord  == 2 ^ 24     \* the 4 GB a 32 bit I/O register counts
IoHalf  == 2 ^ 8      \* the 64 KB of its lower half

LOCAL Up(a, n) == ((a + n - 1) \div n) * n

(***************************************************************************)
(* The hardware: what the registers of a decoder read back, with the       *)
(* decoder given a size.                                                   *)
(***************************************************************************)
LOCAL NothingRead == [kind |-> "none", addr |-> 0]
RegistersOf(d, size) ==
  CASE d.type = "none" -> <<NothingRead>>
    [] d.type = "io"   -> <<[kind |-> "io", addr |-> (IF d.upper = 0 THEN IoHalf ELSE IoWord) - size]>>
    [] d.type \in {"mem64", "pmem64"} ->
         <<[kind |-> d.type, addr |-> (MemWord - size) % MemWord],
           [kind |-> "upper", addr |-> (2 ^ d.upper) - Max({1, size \div MemWord})]>>
    [] OTHER -> <<[kind |-> d.type, addr |-> MemWord - size]>>

(* PciProgramResizableBar: resizable BARs are made as large or as small as *)
(* they can be.                                                            *)
PciResizableBarMax(d) == Max(d.sizes)
PciResizableBarMin(d) == Min(d.sizes)
Registers(decoders) ==
  FlattenSeq([i \in DOMAIN decoders |-> RegistersOf(decoders[i], PciResizableBarMax(decoders[i]))])
SmallRegisters(decoders) ==
  FlattenSeq([i \in DOMAIN decoders |-> RegistersOf(decoders[i], PciResizableBarMin(decoders[i]))])

(***************************************************************************)
(* The registers as the driver reads them.  BarExisted says no if a        *)
(* register reads zero.                                                    *)
(***************************************************************************)
BarExisted(r) == r # NothingRead /\ ~(r.kind = "upper" /\ r.addr = 0)

NoBar == [type |-> "none", size |-> 0, align |-> 0, fixed |-> FALSE]
Bar(type, size, align) == [type |-> type, size |-> size, align |-> align, fixed |-> FALSE]

(* The 64 bit length: the bits above the highest one of the upper register *)
(* count as ones, all of them if it reads zero.                            *)
Length64(low, upper) ==
  LET above == IF upper = 0 THEN 1 ELSE Min({2 ^ n : n \in 0 .. upper} \ 0 .. upper)
  IN  (above - upper) * MemWord - low

ParseIo(r) == LET size == (IF r.addr >= IoHalf THEN IoWord ELSE IoHalf) - r.addr
              IN  IF r.addr = 0 THEN NoBar ELSE Bar("io", size, size)

(* One BAR and the register after it.                                      *)
PciParseBar(registers, at) ==
  LET r     == registers[at]
      upper == registers[at + 1]
  IN  CASE ~BarExisted(r)  -> [bar |-> NoBar, next |-> at + 1]
        [] r.kind = "io"   -> [bar |-> ParseIo(r), next |-> at + 1]
        [] r.kind \in {"mem64", "pmem64"} ->
             [next |-> at + 2,
              bar  |-> IF ~BarExisted(upper) /\ r.addr = 0 THEN NoBar
                       ELSE LET size == Length64(r.addr, upper.addr) IN Bar(r.kind, size, size)]
        [] r.kind \in {"mem32", "pmem32"} ->
             [next |-> at + 1, bar |-> Bar(r.kind, MemWord - r.addr, MemWord - r.addr)]
        [] OTHER -> [bar |-> NoBar, next |-> at + 1]

(* A BAR of all virtual functions: aligned to the system page, as long as  *)
(* all of them.  One whose upper register reads zero is given up, and I/O  *)
(* is not allowed.                                                         *)
PciIovParseVfBar(registers, at, h) ==
  LET r        == registers[at]
      upper    == registers[at + 1]
      vf(size) == Bar(r.kind, size * h.vfs, Max({size, h.page}))
  IN  CASE ~BarExisted(r) \/ r.kind \notin {"mem32", "pmem32", "mem64", "pmem64"} ->
             [bar |-> NoBar, next |-> at + 1]
        [] r.kind \in {"mem32", "pmem32"} ->
             [bar |-> vf(MemWord - r.addr), next |-> at + 1]
        [] OTHER ->
             [bar  |-> IF BarExisted(upper) THEN vf(Length64(r.addr, upper.addr)) ELSE NoBar,
              next |-> at + 2]

LOCAL ParseAll(registers, parse(_, _)) ==
  LET step(st, i) ==
        IF st.at > Len(registers) THEN st
        ELSE LET p == parse(registers, st.at)
             IN  [at |-> p.next, bars |-> Append(st.bars, p.bar)]
  IN  FoldLeft(step, [at |-> 1, bars |-> <<>>], registers).bars

(***************************************************************************)
(* CreatePciIoDevice: resizable BARs are made as large as they can be; the *)
(* page of the virtual functions is the one the platform wants.  Later     *)
(* they are made as small as they can be and read again.                   *)
(***************************************************************************)
HasResizableBar(h) == \E i \in DOMAIN h.decoders : Cardinality(h.decoders[i].sizes) > 1

GatherDeviceInfo(h) ==
  [own     |-> ParseAll(Registers(h.decoders), PciParseBar),
   virtual |-> ParseAll(Registers(h.virtual),
                        LAMBDA registers, at : PciIovParseVfBar(registers, at, h))]

(* A CardBus bridge has one BAR.                                           *)
GatherP2CInfo(h) == [own |-> SubSeq(GatherDeviceInfo(h).own, 1, 1), virtual |-> <<>>]

ParseSmall(h) == ParseAll(SmallRegisters(h.decoders), PciParseBar)

(***************************************************************************)
(* A bridge: the second BAR only if the first has 32 bits; a prefetchable  *)
(* window only if both nibbles say 64 bits, and 64 bits of it only if the  *)
(* upper base register exists; the grain of the I/O window if it is asked  *)
(* for.                                                                    *)
(***************************************************************************)
BarsOfPpb(h) ==
  LET registers == Registers(h.decoders)
      first     == PciParseBar(registers, 1)
  IN  IF Len(registers) = 0 THEN <<>>
      ELSE IF first.next = 2 /\ Len(registers) > 1 THEN <<first.bar, PciParseBar(registers, 2).bar>>
      ELSE <<first.bar>>

DecodesOfPpb(h) ==
  IF h.prefetch.nibbles # <<1, 1>> THEN {}
  ELSE {"pmem32"} \cup (IF h.prefetch.upper THEN {"pmem64"} ELSE {})

BridgeIoAlignment(h, probe) == IF probe THEN h.ioGrain ELSE 16

(***************************************************************************)
(* UpdatePciInfo: the table of incompatible devices may override the BARs. *)
(* A quirk has the number of a BAR (or AllBars, or RomBar for one that     *)
(* says the option ROM is to be ignored), the space, the granularity, the  *)
(* length and the alignment; the numbers of OLD_ALIGN, EVEN_ALIGN,         *)
(* SQUAD_ALIGN and DQUAD_ALIGN have a meaning of their own.                *)
(***************************************************************************)
AllBars == 0
RomBar  == 7
LOCAL OldAlign == -1
LOCAL Steps    == [a \in {-2, -3, -4} |-> CASE a = -2 -> 2 [] a = -3 -> 4 [] OTHER -> 8]

(* The lowest digit, with 16 of them, that is not zero is rounded up.      *)
SetNewAlign(align, new, unit) ==
  IF new \in {0, OldAlign} THEN align
  ELSE IF new \notin DOMAIN Steps THEN new
  ELSE LET bytes == align * unit
           shift == Max({s \in {16 ^ k : k \in 0 .. 7} : bytes % s = 0})
       IN  (Up(bytes \div shift, Steps[new]) * shift) \div unit

LOCAL IsMem(bar) == bar.type \in {"mem32", "pmem32", "mem64", "pmem64"}
CheckBarType(bar, space) == IF space = "mem" THEN IsMem(bar) ELSE bar.type = "io"

FixType(bar, granularity) ==
  CASE bar.type = "mem64"  /\ granularity = 32 -> [bar EXCEPT !.type = "mem32", !.fixed = TRUE]
    [] bar.type = "pmem64" /\ granularity = 32 -> [bar EXCEPT !.type = "pmem32", !.fixed = TRUE]
    [] bar.type \in {"mem64", "pmem64"} /\ granularity = 64 -> [bar EXCEPT !.fixed = TRUE]
    [] OTHER -> bar

UpdatePciBar(bar, q) ==
  IF ~CheckBarType(bar, q.space) THEN bar
  ELSE LET fixed == IF q.space = "mem" THEN FixType(bar, q.granularity) ELSE bar
       IN  [fixed EXCEPT !.align = SetNewAlign(@, q.align, IF q.space = "mem" THEN 2 ^ 18 ELSE 2 ^ 8),
                         !.size = IF q.length # 0 THEN q.length ELSE @]

UpdatePciInfo(bars, h) ==
  LET update(bs, q) ==
        [i \in DOMAIN bs |-> IF q.bar \in {AllBars, i} THEN UpdatePciBar(bs[i], q) ELSE bs[i]]
  IN  FoldLeft(update, bars, h.quirks)
IgnoreOptionRom(h) == \E i \in DOMAIN h.quirks : h.quirks[i].bar = RomBar

(* A ROM register that reads nothing is no ROM.                            *)
GetOpRomInfo(h) == IF IgnoreOptionRom(h) THEN 0 ELSE h.rom

(***************************************************************************)
(* PciSearchDevice: what is known of a function when it is in the list of  *)
(* its bridge.  A CardBus bridge has no option ROM.                        *)
(***************************************************************************)
PciSearchDevice(kind, h, probe) ==
  LET gathered == CASE kind = "bridge"  -> [own |-> BarsOfPpb(h), virtual |-> <<>>]
                    [] kind = "cardbus" -> GatherP2CInfo(h)
                    [] OTHER            -> GatherDeviceInfo(h)
  IN  [bars    |-> UpdatePciInfo(gathered.own, h),
       virtual |-> gathered.virtual,
       rom     |-> IF kind = "cardbus" THEN 0 ELSE GetOpRomInfo(h),
       decodes |-> DecodesOfPpb(h),
       ioAlign |-> BridgeIoAlignment(h, probe)]
=============================================================================
