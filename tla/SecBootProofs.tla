--------------------------- MODULE SecBootProofs ---------------------------
(***************************************************************************)
(* Proofs about SecBoot: for any harts, any boot hart, any device trees,   *)
(* volumes and lists of bootable harts, and any number of restarts, the    *)
(* harts keep to scratch areas that were prepared for them and do not      *)
(* overlap, and PEI is entered with everything it is promised.             *)
(***************************************************************************)
EXTENDS SecBoot, WellFoundedInduction, TLAPS

Known == GetDeviceTreeAddress = "dtb"

(* Where the boot hart is before it releases the others, and where a hart  *)
(* is that has a scratch area.                                             *)
Alone   == {"entry", "fw_init", "scratch_init", "index2id", "flag", "wfi"}
Started == {"sec_core", "launch", "spin", "xchg", "message"} \cup InSbi

(* Where only the boot hart gets, once OpenSBI has chosen it.              *)
Cold == {"cold", "early_init", "final_init", "switch", "pei", "migrate", "dxe"}

Domains ==
  /\ DOMAIN pc = Harts /\ DOMAIN reg = Harts /\ DOMAIN sbi.table = Harts
  /\ DOMAIN owner = Addresses /\ DOMAIN scratch = Addresses
  /\ \A a \in Addresses : DOMAIN scratch[a] = DOMAIN Blank
  /\ DOMAIN platform = DOMAIN StaticPlatform
  /\ DOMAIN fw = {"bootHartDone", "physical", "next", "BootHartDone", "messageLock",
                  "extension", "memory"}
  /\ DOMAIN sbi = {"lottery", "cold", "done", "regions", "table"}
  /\ DOMAIN context = DOMAIN NoContext

(* The table of harts and the number of scratch areas: every entry of the  *)
(* table has an area.                                                      *)
Layout ==
  /\ config \in Configs
  /\ platform.hart_index2id \in [1..MaxHartBits -> Nat]
  /\ fw.physical \in 0..MaxHartBits /\ platform.hart_count \in 0..MaxHartBits
  /\ pc[BootHart] \in {"entry", "fw_init"} => platform = StaticPlatform
  /\ pc[BootHart] \in {"scratch_init", "index2id"} =>
        platform.hart_count = fw.physical /\ Len(config.bootable) <= fw.physical
  /\ pc[BootHart] = "flag" \/ fw.bootHartDone =>
        /\ platform.hart_count <= fw.physical
        /\ config.bootable # <<>> => platform.hart_count = Len(config.bootable)
  /\ Known /\ pc[BootHart] \notin {"entry", "fw_init", "wfi"} =>
        PlatformHarts(platform) \subseteq Harts

(* The areas that the loop _scratch_init is through with.                  *)
Prepared(area) == area.ready /\ area.mode = "S" /\ area.warmboot = "warm"

Areas ==
  /\ fw.next \in Nat
  /\ \A i \in 0..(fw.physical - 1) :
        i < fw.next => Prepared(scratch[ScratchOf(i, fw.physical)])
  /\ pc[BootHart] \in {"index2id", "flag"} \/ fw.bootHartDone => fw.next >= fw.physical

(* Until it releases them, the boot hart is alone.                         *)
Before ==
  ~fw.bootHartDone =>
    /\ pc[BootHart] \in Alone
    /\ \A h \in Harts \ {BootHart} : pc[h] \in {"entry", "wait"}
    /\ \A h \in Harts : reg[h].scratch = NoAddress /\ sbi.table[h] = NoAddress
    /\ \A a \in Addresses : owner[a] = NoHart
    /\ ~fw.BootHartDone /\ context = NoContext /\ cores = {}

(* Once released, the harts and OpenSBI use the areas of one table.        *)
After ==
  fw.bootHartDone =>
    /\ pc[BootHart] \notin Alone
    /\ \A h \in Harts : pc[h] \notin Alone \ {"entry"}
    /\ \A h \in Harts : reg[h].scratch \in {NoAddress, ScratchTable[h]}
    /\ \A h \in Harts : pc[h] \in Started => reg[h].scratch # NoAddress
    /\ \A h \in Harts : sbi.table[h] \in {NoAddress, ScratchTable[h]}
    /\ \A h \in Harts : ScratchTable[h] # NoAddress =>
           owner[ContextOf(ScratchTable[h])] \in {h, NoHart}
    /\ \A h \in DOMAIN context.hartSpecific :
           /\ h \in Harts /\ ScratchTable[h] # NoAddress
           /\ context.hartSpecific[h] = ContextOf(ScratchTable[h])
    /\ \A core \in cores : core.data \in {core.hart, NoHart}

(* The order in which the harts go: the boot hart first, the others once   *)
(* it is past the lottery of OpenSBI.                                      *)
Order ==
  /\ \A h \in Harts : pc[h] \in Cold \cup {"launch", "domains", "pmic"} => h = BootHart
  /\ \A h \in Harts : pc[h] \in (Started \ {"sec_core", "spin"}) => h = BootHart \/ fw.BootHartDone
  /\ fw.BootHartDone => sbi.lottery
  /\ pc[BootHart] \in Cold => sbi.lottery
  /\ pc[BootHart] \notin {"spin", "xchg", "message"}
  /\ \A h \in Harts : pc[h] \in Started \ {"sec_core"} => platform.ops = "edk2"
  /\ \A h \in Harts : pc[h] \in InSbi \cup {"launch"} =>
        scratch[reg[h].scratch].arg1 # "none"

(* What PEI is promised, stage by stage.                                   *)
Promised ==
  /\ pc[BootHart] = "launch" => Known /\ scratch[reg[BootHart].scratch].arg1 = "dtb"
  /\ pc[BootHart] \in Cold \cup {"sbi_init"} =>
        /\ Known /\ context.deviceTree = "dtb" /\ context.handOff = "temporary"
        /\ context.at = (IF pc[BootHart] = "dxe" THEN "permanent" ELSE "temporary")
  /\ pc[BootHart] \in {"early_init", "final_init"} => sbi.table = ScratchTable
  /\ pc[BootHart] \in {"switch", "pei", "migrate", "dxe"} =>
        /\ scratch[reg[BootHart].scratch].arg1 = "context"
        /\ DOMAIN context.hartSpecific = PlatformHarts(platform)
  /\ pc[BootHart] \in {"pei", "migrate", "dxe"} =>
        IsFound(scratch[reg[BootHart].scratch].addr)

Inv == Domains /\ Layout /\ Areas /\ Before /\ After /\ Order /\ Promised

-----------------------------------------------------------------------------
(* The table of harts and the areas that belong to its entries.            *)

\* The least element of a nonempty set of numbers is one of its elements.
LEMMA LeastIsElement ==
  ASSUME NEW S \in SUBSET Nat, S # {}
  PROVE  Min(S) \in S
PROOF
<1> DEFINE less == {ss \in Nat \X Nat : ss[1] < ss[2]}
<1>1. IsWellFoundedOn(less, Nat)
  BY NatLessThanWellFounded DEF OpToRel
<1>2. PICK x \in S : \A y \in S : ~ (<<y, x>> \in less)
  BY <1>1, WFMin
<1>3. \A y \in Nat : y < x => <<y, x>> \in less
  OBVIOUS
<1>4. \A y \in S : ~ (y < x)
  BY <1>2, <1>3
<1>5. \A y \in S : x <= y
  BY <1>4
<1> QED
  BY <1>5 DEF Min

PlaceOf(s, v) == FirstAt(s, LAMBDA id : id = v)

\* FirstAt finds a position of the value exactly if there is one.
LEMMA FirstIndex ==
  ASSUME NEW n \in Nat, NEW s, DOMAIN s = 1..n, NEW v
  PROVE  IF v \in {s[i] : i \in 1..n}
         THEN PlaceOf(s, v) \in 1..n /\ s[PlaceOf(s, v)] = v
         ELSE PlaceOf(s, v) = 0
PROOF
<1> DEFINE hits == {i \in DOMAIN s : s[i] = v}
<1>1. PlaceOf(s, v) = IF hits = {} THEN 0 ELSE Min(hits)
  BY DEF PlaceOf, FirstAt
<1>2. CASE hits = {}
  BY <1>1, <1>2
<1>3. CASE hits # {}
  <2>1. hits \in SUBSET Nat
    OBVIOUS
  <2>2. Min(hits) \in hits
    BY <1>3, <2>1, LeastIsElement
  <2> QED
    BY <1>1, <1>3, <2>2
<1> QED
  BY <1>2, <1>3

\* IndexOf finds an entry of the first count ones, if there is one.
LEMMA IndexFound ==
  ASSUME platform.hart_index2id \in [1..MaxHartBits -> Nat],
         NEW count \in 0..MaxHartBits, NEW h
  PROVE  IF \E i \in 1..count : platform.hart_index2id[i] = h
         THEN /\ IndexOf(h, count) \in 0..(count - 1)
              /\ platform.hart_index2id[IndexOf(h, count) + 1] = h
         ELSE IndexOf(h, count) = -1
PROOF
<1> DEFINE ids   == platform.hart_index2id
           s     == SubSeq(ids, 1, count)
           k     == PlaceOf(s, h)
<1>1. MaxHartBits \in Nat
  BY MaxHartBitsAssumption
<1>2. ids \in Seq(Nat) /\ Len(ids) = MaxHartBits
  BY <1>1
<1>3. DOMAIN s = 1..count /\ \A i \in 1..count : s[i] = ids[i]
  BY <1>1, <1>2
<1>4. IndexOf(h, count) = k - 1
  BY DEF IndexOf, PlaceOf, FirstAt
<1>5. count \in Nat
  OBVIOUS
<1>6. IF h \in {s[i] : i \in 1..count} THEN k \in 1..count /\ s[k] = h ELSE k = 0
  <2> HIDE DEF s
  <2> QED
    BY <1>3, <1>5, FirstIndex
<1> HIDE DEF s, k
<1>7. h \in {s[i] : i \in 1..count} <=> \E i \in 1..count : ids[i] = h
  BY <1>3
<1> QED
  BY <1>3, <1>4, <1>5, <1>6, <1>7

(* Every hart of the table has an area of its own, which is prepared.      *)
TableHolds ==
  \A h \in Harts :
     \/ ScratchTable[h] = NoAddress /\ h \notin PlatformHarts(platform)
     \/ \E i \in 0..(fw.physical - 1) :
           /\ ScratchTable[h] = ScratchOf(i, fw.physical)
           /\ i < platform.hart_count /\ platform.hart_index2id[i + 1] = h

(* The areas are prepared, in the memory for the harts and four cells      *)
(* apart.                                                                  *)
Apart ==
  /\ DOMAIN ScratchTable = Harts
  /\ \A h \in Harts : ScratchTable[h] # NoAddress =>
        /\ ScratchTable[h] \in 3..((fw.physical * StackSize) - 1)
        /\ ScratchTable[h] \in Addresses /\ ContextOf(ScratchTable[h]) \in Addresses
        /\ Prepared(scratch[ScratchTable[h]])
  /\ \A g, h \in Harts :
        g # h /\ ScratchTable[g] # NoAddress /\ ScratchTable[h] # NoAddress =>
           \/ ScratchTable[g] + StackSize <= ScratchTable[h]
           \/ ScratchTable[h] + StackSize <= ScratchTable[g]

TableSettled == pc[BootHart] = "flag" \/ fw.bootHartDone

\* A hart of the table has the area of its entry, another has none.
LEMMA TableFound == Layout /\ TableSettled => TableHolds
PROOF
<1> SUFFICES ASSUME Layout, TableSettled, NEW h \in Harts
             PROVE  \/ ScratchTable[h] = NoAddress /\ h \notin PlatformHarts(platform)
                    \/ \E i \in 0..(fw.physical - 1) :
                          /\ ScratchTable[h] = ScratchOf(i, fw.physical)
                          /\ i < platform.hart_count /\ platform.hart_index2id[i + 1] = h
  BY DEF TableHolds
<1> DEFINE count == platform.hart_count
           k     == IndexOf(h, count)
<1>1. /\ MaxHartBits \in Nat /\ count \in 0..MaxHartBits /\ fw.physical \in 0..MaxHartBits
      /\ count <= fw.physical /\ platform.hart_index2id \in [1..MaxHartBits -> Nat]
  BY MaxHartBitsAssumption DEF Layout, TableSettled
<1>2. IF \E i \in 1..count : platform.hart_index2id[i] = h
      THEN k \in 0..(count - 1) /\ platform.hart_index2id[k + 1] = h
      ELSE k = -1
  BY <1>1, IndexFound
<1>3. ScratchTable[h] = IF k = -1 THEN NoAddress ELSE ScratchOf(k, fw.physical)
  BY DEF ScratchTable, HartidToScratch
<1>4. h \in PlatformHarts(platform) <=> \E i \in 1..count : platform.hart_index2id[i] = h
  BY DEF PlatformHarts
<1> HIDE DEF k
<1>5. CASE k = -1
  BY <1>1, <1>2, <1>3, <1>4, <1>5
<1>6. CASE k # -1
  <2>1. k \in 0..(count - 1) /\ platform.hart_index2id[k + 1] = h
    BY <1>2, <1>6
  <2>2. ScratchTable[h] = ScratchOf(k, fw.physical)
    BY <1>3, <1>6
  <2>3. k \in 0..(fw.physical - 1) /\ k < count
    BY <1>1, <2>1
  <2> QED
    BY <2>1, <2>2, <2>3
<1> QED
  BY <1>5, <1>6

\* The areas of two harts do not overlap.
LEMMA AreasApart == Layout /\ Areas /\ TableSettled => Apart
PROOF
<1> SUFFICES ASSUME Layout, Areas, TableSettled
             PROVE  Apart
  OBVIOUS
<1> DEFINE n == fw.physical
<1>1. /\ MaxHartBits \in Nat /\ n \in 0..MaxHartBits
  BY MaxHartBitsAssumption DEF Layout
<1>2. TableHolds
  BY TableFound
<1>3. \A i \in 0..(n - 1) :
         /\ ScratchOf(i, n) \in 3..((n * StackSize) - 1)
         /\ ScratchOf(i, n) = 4 * (n - i) - 1
         /\ ScratchOf(i, n) \in Addresses /\ ContextOf(ScratchOf(i, n)) \in Addresses
  BY <1>1 DEF ScratchOf, ContextOf, Addresses, StackSize, ScratchSize, ContextSize
<1>4. \A i \in 0..(n - 1) : Prepared(scratch[ScratchOf(i, n)])
  BY <1>1 DEF Areas, TableSettled
<1>5. \A i, j \in 0..(n - 1) :
         i # j => \/ ScratchOf(i, n) + StackSize <= ScratchOf(j, n)
                  \/ ScratchOf(j, n) + StackSize <= ScratchOf(i, n)
  BY <1>1, <1>3 DEF StackSize
<1>6. DOMAIN ScratchTable = Harts
  BY DEF ScratchTable
<1>7. ASSUME NEW h \in Harts, ScratchTable[h] # NoAddress
      PROVE  \E i \in 0..(n - 1) : /\ ScratchTable[h] = ScratchOf(i, n)
                                   /\ platform.hart_index2id[i + 1] = h
  BY <1>2, <1>7 DEF TableHolds
<1> HIDE DEF n
<1>8. ASSUME NEW h \in Harts, ScratchTable[h] # NoAddress
      PROVE  /\ ScratchTable[h] \in 3..((n * StackSize) - 1)
             /\ ScratchTable[h] \in Addresses /\ ContextOf(ScratchTable[h]) \in Addresses
             /\ Prepared(scratch[ScratchTable[h]])
  BY <1>3, <1>4, <1>7, <1>8
<1>9. ASSUME NEW g \in Harts, NEW h \in Harts, g # h,
             ScratchTable[g] # NoAddress, ScratchTable[h] # NoAddress
      PROVE  \/ ScratchTable[g] + StackSize <= ScratchTable[h]
             \/ ScratchTable[h] + StackSize <= ScratchTable[g]
  BY <1>5, <1>7, <1>9
<1> QED
  BY <1>6, <1>8, <1>9 DEF Apart, n

(* Once the harts are released, nothing touches the table of harts.        *)
Frozen ==
  /\ fw'.bootHartDone /\ config' = config
  /\ fw'.physical = fw.physical /\ fw'.next = fw.next
  /\ platform'.hart_count = platform.hart_count
  /\ platform'.hart_index2id = platform.hart_index2id

\* No step after the release changes the table.
LEMMA StepFrozen ==
  ASSUME Domains, After, fw.bootHartDone, [Next]_vars
  PROVE  Frozen
PROOF
<1>1. /\ DOMAIN platform = {"hart_count", "hart_index2id", "ops", "firmware_context",
                            "special", "selected", "reset"}
      /\ DOMAIN fw = {"bootHartDone", "physical", "next", "BootHartDone", "messageLock",
                      "extension", "memory"}
  BY DEF Domains, StaticPlatform
<1>2. \A h \in Harts : pc[h] \notin {"fw_init", "scratch_init", "index2id", "flag"}
  BY DEF After, Alone
<1>3. CASE UNCHANGED vars
  BY <1>3 DEF vars, Frozen
<1>4. ASSUME NEW h \in Harts, Step(h) \/ RestartHart(h) \/ SystemReset(h)
      PROVE  Frozen
  <2>1. CASE \/ FwInit(h) \/ ScratchInit(h) \/ OverwriteHartTable(h) \/ ReleaseHarts(h)
    BY <1>2, <2>1 DEF FwInit, ScratchInit, OverwriteHartTable, ReleaseHarts
  <2>2. CASE \/ Entry(h) \/ StartWarm(h) \/ SpinOnBootHart(h) \/ SbiInit(h) \/ ColdScratch(h)
             \/ SwitchMode(h) \/ WarmInit(h) \/ TemporaryRamMigration(h)
             \/ ShutdownDomains(h) \/ WritePmic(h) \/ RestartHart(h) \/ SystemReset(h)
    BY <2>2 DEF Entry, StartWarm, SpinOnBootHart, SbiInit, ColdScratch, SwitchMode, WarmInit,
                TemporaryRamMigration, ShutdownDomains, WritePmic, RestartHart, SystemReset, Frozen
  <2>3. CASE \/ TakeMessageLock(h) \/ Message(h) \/ EarlyInit(h) \/ InitializePlatform(h)
    BY <1>1, <2>3 DEF TakeMessageLock, Message, EarlyInit, InitializePlatform, Frozen
  <2>4. CASE SecCoreStartUpWithStack(h) \/ LaunchPeiCore(h) \/ FinalInit(h)
    BY <1>1, <2>4 DEF SecCoreStartUpWithStack, LaunchPeiCore, FinalInit, GenericFinalInit, Frozen
  <2> QED
    BY <1>4, <2>1, <2>2, <2>3, <2>4 DEF Step
<1> QED
  BY <1>3, <1>4 DEF Next

\* ... so that the areas stay what they are.
LEMMA FrozenTable ==
  ASSUME Frozen
  PROVE  /\ ScratchTable' = ScratchTable
         /\ PlatformHarts(platform') = PlatformHarts(platform)
         /\ Known' <=> Known
PROOF
<1>1. PlatformHarts(platform') = PlatformHarts(platform) /\ (Known' <=> Known)
  BY DEF Frozen, PlatformHarts, Known, GetDeviceTreeAddress
<1>2. ScratchTable = [h \in Harts |->
        LET index == PlaceOf(SubSeq(platform.hart_index2id, 1, platform.hart_count), h) - 1
        IN IF index = -1 THEN NoAddress ELSE ScratchOf(index, fw.physical)]
  BY DEF ScratchTable, IndexOf, HartidToScratch, PlaceOf, FirstAt
<1>3. ScratchTable' = [h \in Harts |->
        LET index == PlaceOf(SubSeq(platform'.hart_index2id, 1, platform'.hart_count), h) - 1
        IN IF index = -1 THEN NoAddress ELSE ScratchOf(index, fw'.physical)]
  BY DEF ScratchTable, IndexOf, HartidToScratch, PlaceOf, FirstAt
<1>4. ScratchTable' = ScratchTable
  BY <1>2, <1>3 DEF Frozen
<1> QED
  BY <1>1, <1>4

-----------------------------------------------------------------------------
(* Steps once the harts are released.                                      *)

Released == Inv /\ fw.bootHartDone /\ Apart

(* A step that leaves the table of harts what it is.                       *)
Steady ==
  /\ Frozen /\ ScratchTable' = ScratchTable /\ (Known' <=> Known)
  /\ PlatformHarts(platform') = PlatformHarts(platform)

Kept == Domains' /\ Areas' /\ After' /\ Order' /\ Promised'

\* A hart that has started has its area, which is no other hart's.
LEMMA OwnArea ==
  ASSUME Released, NEW h \in Harts, pc[h] \in Started
  PROVE  /\ reg[h].scratch = ScratchTable[h] /\ reg[h].scratch # NoAddress
         /\ reg[h].scratch \in Addresses /\ ContextOf(reg[h].scratch) \in Addresses
         /\ Prepared(scratch[reg[h].scratch])
         /\ \A g \in Harts \ {h} :
               reg[g].scratch # NoAddress => reg[g].scratch # reg[h].scratch
         /\ \A g \in Harts \ {h} :
               ScratchTable[g] # NoAddress => ContextOf(ScratchTable[g]) # ContextOf(reg[h].scratch)
PROOF
<1>1. reg[h].scratch = ScratchTable[h] /\ ScratchTable[h] # NoAddress
  BY DEF Released, Inv, After
<1>2. \A g \in Harts \ {h} : ScratchTable[g] # NoAddress =>
         ScratchTable[g] \in Int /\ ScratchTable[g] # ScratchTable[h]
  BY <1>1 DEF Released, Apart, StackSize
<1>3. ScratchTable[h] \in Int
  BY <1>1 DEF Released, Apart
<1>4. \A g \in Harts : reg[g].scratch \in {NoAddress, ScratchTable[g]}
  BY DEF Released, Inv, After
<1> QED
  BY <1>1, <1>2, <1>3, <1>4 DEF Released, Apart, ContextOf, ContextSize

\* The address in mscratch is the one that the table has.
LEMMA IndexAgrees ==
  ASSUME Released, NEW h \in Harts, HartIndex(h) # -1
  PROVE  /\ ScratchOf(HartIndex(h), fw.physical) = ScratchTable[h]
         /\ ScratchTable[h] # NoAddress
PROOF
<1>1. Layout /\ BootableCount = platform.hart_count
  BY DEF Released, Inv, Layout, BootableCount
<1>2. HartIndex(h) = IndexOf(h, platform.hart_count)
  BY <1>1 DEF HartIndex
<1>3. ScratchTable[h] = ScratchOf(HartIndex(h), fw.physical)
  BY <1>2 DEF ScratchTable, HartidToScratch
<1>4. HartIndex(h) \in 0..(platform.hart_count - 1)
  BY <1>1, <1>2, IndexFound DEF Layout
<1>5. fw.physical \in Nat /\ platform.hart_count \in Nat /\ platform.hart_count <= fw.physical
  BY <1>1, MaxHartBitsAssumption DEF Released, Layout
<1> QED
  BY <1>3, <1>4, <1>5 DEF ScratchOf, StackSize, ScratchSize, NoAddress

\* What was prepared stays prepared when no step takes it back.
LEMMA SteadyAreas ==
  ASSUME Released, Steady, \A a \in Addresses : Prepared(scratch[a]) => Prepared(scratch'[a])
  PROVE  Areas'
PROOF
<1>1. fw.physical \in 0..MaxHartBits /\ MaxHartBits \in Nat
  BY MaxHartBitsAssumption DEF Released, Inv, Layout
<1>2. \A i \in 0..(fw.physical - 1) : ScratchOf(i, fw.physical) \in Addresses
  BY <1>1 DEF ScratchOf, Addresses, StackSize, ScratchSize
<1> QED
  BY <1>2 DEF Areas, Released, Inv, Steady, Frozen, Prepared, ScratchOf

\* A hart of the table has an area.
LEMMA TableNonZero ==
  ASSUME Released, NEW h \in Harts, h \in PlatformHarts(platform)
  PROVE  ScratchTable[h] # NoAddress
PROOF
<1>1. fw.physical \in Nat
  BY MaxHartBitsAssumption DEF Released, Inv, Layout
<1>2. TableHolds
  BY TableFound DEF Released, Inv, TableSettled
<1>3. PICK i \in 0..(fw.physical - 1) : ScratchTable[h] = ScratchOf(i, fw.physical)
  BY <1>2 DEF TableHolds
<1> QED
  BY <1>1, <1>3 DEF ScratchOf, StackSize, ScratchSize, NoAddress

\* A hart that comes late out of reset waits.
LEMMA EntryLater ==
  ASSUME Released, Steady, NEW h \in Harts, Entry(h)
  PROVE  Kept
PROOF
<1> USE BootHartAssumption DEF Released, Steady, Inv
<1>1. Domains'
  BY DEF Entry, Goto, Domains, StaticPlatform, Blank, NoContext
<1>2. Areas'
  BY DEF Entry, Goto, Domains, After, Areas, Alone, Prepared, Blank, Frozen
<1>3. After'
  BY DEF Entry, Goto, Domains, After, Order, Started, InSbi, Alone, NoAddress, StaticPlatform
<1>4. Order'
  BY DEF Entry, Goto, Domains, After, Order, Started, InSbi, Alone, Cold, NoAddress, StaticPlatform
<1>5. Promised'
  BY DEF Entry, Goto, Domains, After, Order, Promised, Started, InSbi, Alone, Cold, NoAddress, StaticPlatform
<1> QED
  BY <1>1, <1>2, <1>3, <1>4, <1>5 DEF Kept

\* A hart sees BootHartDone.
LEMMA SpinOnBootHartLater ==
  ASSUME Released, Steady, NEW h \in Harts, SpinOnBootHart(h)
  PROVE  Kept
PROOF
<1> USE BootHartAssumption DEF Released, Steady, Inv
<1>1. Domains'
  BY DEF SpinOnBootHart, Goto, Domains, StaticPlatform, Blank, NoContext
<1>2. Areas'
  BY DEF SpinOnBootHart, Goto, Domains, After, Areas, Alone, Prepared, Blank, Frozen
<1>3. After'
  BY DEF SpinOnBootHart, Goto, Domains, After, Order, Started, InSbi, Alone, NoAddress, StaticPlatform
<1>4. Order'
  BY DEF SpinOnBootHart, Goto, Domains, After, Order, Started, InSbi, Alone, Cold, NoAddress, StaticPlatform
<1>5. Promised'
  BY DEF SpinOnBootHart, Goto, Domains, After, Order, Promised, Started, InSbi, Alone, Cold, NoAddress, StaticPlatform
<1> QED
  BY <1>1, <1>2, <1>3, <1>4, <1>5 DEF Kept

\* A hart takes the lock of the message.
LEMMA TakeMessageLockLater ==
  ASSUME Released, Steady, NEW h \in Harts, TakeMessageLock(h)
  PROVE  Kept
PROOF
<1> USE BootHartAssumption DEF Released, Steady, Inv
<1>1. Domains'
  BY DEF TakeMessageLock, Goto, Domains, StaticPlatform, Blank, NoContext
<1>2. Areas'
  BY DEF TakeMessageLock, Goto, Domains, After, Areas, Alone, Prepared, Blank, Frozen
<1>3. After'
  BY DEF TakeMessageLock, Goto, Domains, After, Order, Started, InSbi, Alone, NoAddress, StaticPlatform
<1>4. Order'
  BY DEF TakeMessageLock, Goto, Domains, After, Order, Started, InSbi, Alone, Cold, NoAddress, StaticPlatform
<1>5. Promised'
  BY DEF TakeMessageLock, Goto, Domains, After, Order, Promised, Started, InSbi, Alone, Cold, NoAddress, StaticPlatform
<1> QED
  BY <1>1, <1>2, <1>3, <1>4, <1>5 DEF Kept

\* The boot hart lets the others go on.
LEMMA EarlyInitLater ==
  ASSUME Released, Steady, NEW h \in Harts, EarlyInit(h)
  PROVE  Kept
PROOF
<1> USE BootHartAssumption DEF Released, Steady, Inv
<1>1. Domains'
  BY DEF EarlyInit, Goto, Domains, StaticPlatform, Blank, NoContext
<1>2. Areas'
  BY DEF EarlyInit, Goto, Domains, After, Areas, Alone, Prepared, Blank, Frozen
<1>3. After'
  BY DEF EarlyInit, Goto, Domains, After, Order, Started, InSbi, Alone, NoAddress, StaticPlatform
<1>4. Order'
  BY DEF EarlyInit, Goto, Domains, After, Order, Started, InSbi, Alone, Cold, NoAddress, StaticPlatform
<1>5. Promised'
  BY DEF EarlyInit, Goto, Domains, After, Order, Promised, Started, InSbi, Alone, Cold, NoAddress, StaticPlatform
<1> QED
  BY <1>1, <1>2, <1>3, <1>4, <1>5 DEF Kept

\* The boot hart enters PEI.
LEMMA SwitchModeLater ==
  ASSUME Released, Steady, NEW h \in Harts, SwitchMode(h)
  PROVE  Kept
PROOF
<1> USE BootHartAssumption DEF Released, Steady, Inv
<1>1. Domains'
  BY DEF SwitchMode, Goto, Domains, StaticPlatform, Blank, NoContext
<1>2. Areas'
  BY DEF SwitchMode, Goto, Domains, After, Areas, Alone, Prepared, Blank, Frozen
<1>3. After'
  BY DEF SwitchMode, Goto, Domains, After, Order, Started, InSbi, Alone, NoAddress, StaticPlatform
<1>4. Order'
  BY DEF SwitchMode, Goto, Domains, After, Order, Started, InSbi, Alone, Cold, NoAddress, StaticPlatform
<1>5. Promised'
  BY DEF SwitchMode, Goto, Domains, After, Order, Promised, Started, InSbi, Alone, Cold, NoAddress, StaticPlatform
<1> QED
  BY <1>1, <1>2, <1>3, <1>4, <1>5 DEF Kept

\* A hart halts.
LEMMA WarmInitLater ==
  ASSUME Released, Steady, NEW h \in Harts, WarmInit(h)
  PROVE  Kept
PROOF
<1> USE BootHartAssumption DEF Released, Steady, Inv
<1>1. Domains'
  BY DEF WarmInit, Goto, Domains, StaticPlatform, Blank, NoContext
<1>2. Areas'
  BY DEF WarmInit, Goto, Domains, After, Areas, Alone, Prepared, Blank, Frozen
<1>3. After'
  BY DEF WarmInit, Goto, Domains, After, Order, Started, InSbi, Alone, NoAddress, StaticPlatform
<1>4. Order'
  BY DEF WarmInit, Goto, Domains, After, Order, Started, InSbi, Alone, Cold, NoAddress, StaticPlatform
<1>5. Promised'
  BY DEF WarmInit, Goto, Domains, After, Order, Promised, Started, InSbi, Alone, Cold, NoAddress, StaticPlatform
<1> QED
  BY <1>1, <1>2, <1>3, <1>4, <1>5 DEF Kept

\* The firmware context moves with the stack.
LEMMA TemporaryRamMigrationLater ==
  ASSUME Released, Steady, NEW h \in Harts, TemporaryRamMigration(h)
  PROVE  Kept
PROOF
<1> USE BootHartAssumption DEF Released, Steady, Inv
<1>0. /\ pc[h] = "migrate" /\ DOMAIN pc = Harts /\ DOMAIN context = DOMAIN NoContext
      /\ UNCHANGED <<config, reg, platform, scratch, owner, fw, sbi, cores>>
  BY DEF TemporaryRamMigration, Domains
<1>1. CASE pc' = [pc EXCEPT ![h] = "dxe"] /\ context' = [context EXCEPT !.at = "permanent"]
  <2>1. Domains'
    BY <1>0, <1>1 DEF Domains, NoContext
  <2>2. Areas'
    BY <1>0, <1>1 DEF After, Areas, Alone
  <2>3. After'
    BY <1>0, <1>1 DEF After, Started, InSbi, Alone, NoContext
  <2>4. Order'
    BY <1>0, <1>1 DEF Order, Started, InSbi, Cold
  <2>5. Promised'
    BY <1>0, <1>1 DEF Order, Promised, InSbi, Cold, NoContext
  <2> QED
    BY <2>1, <2>2, <2>3, <2>4, <2>5 DEF Kept
<1>2. CASE pc' = [pc EXCEPT ![h] = "fault"] /\ context' = context
  <2>1. Domains' /\ Areas'
    BY <1>0, <1>2 DEF Domains, After, Areas, Alone
  <2>2. After'
    BY <1>0, <1>2 DEF After, Started, InSbi, Alone
  <2>3. Order' /\ Promised'
    BY <1>0, <1>2 DEF Order, Promised, Started, InSbi, Cold
  <2> QED
    BY <2>1, <2>2, <2>3 DEF Kept
<1> QED
  BY <1>1, <1>2 DEF TemporaryRamMigration, Goto

\* The running system asks for a reset.
LEMMA SystemResetLater ==
  ASSUME Released, Steady, NEW h \in Harts, SystemReset(h)
  PROVE  Kept
PROOF
<1> USE BootHartAssumption DEF Released, Steady, Inv
<1>1. Domains'
  BY DEF SystemReset, Goto, Domains, StaticPlatform, Blank, NoContext
<1>2. Areas'
  BY DEF SystemReset, Goto, Domains, After, Areas, Alone, Prepared, Blank, Frozen
<1>3. After'
  BY DEF SystemReset, Goto, Domains, After, Order, Started, InSbi, Alone, NoAddress, StaticPlatform
<1>4. Order'
  BY DEF SystemReset, Goto, Domains, After, Order, Started, InSbi, Alone, Cold, NoAddress, StaticPlatform
<1>5. Promised'
  BY DEF SystemReset, Goto, Domains, After, Order, Promised, Started, InSbi, Alone, Cold, NoAddress, StaticPlatform
<1> QED
  BY <1>1, <1>2, <1>3, <1>4, <1>5 DEF Kept

\* The power domains are switched off.
LEMMA ShutdownDomainsLater ==
  ASSUME Released, Steady, NEW h \in Harts, ShutdownDomains(h)
  PROVE  Kept
PROOF
<1> USE BootHartAssumption DEF Released, Steady, Inv
<1>1. Domains'
  BY DEF ShutdownDomains, Goto, Domains, StaticPlatform, Blank, NoContext
<1>2. Areas'
  BY DEF ShutdownDomains, Goto, Domains, After, Areas, Alone, Prepared, Blank, Frozen
<1>3. After'
  BY DEF ShutdownDomains, Goto, Domains, After, Order, Started, InSbi, Alone, NoAddress, StaticPlatform
<1>4. Order'
  BY DEF ShutdownDomains, Goto, Domains, After, Order, Started, InSbi, Alone, Cold, NoAddress, StaticPlatform
<1>5. Promised'
  BY DEF ShutdownDomains, Goto, Domains, After, Order, Promised, Started, InSbi, Alone, Cold, NoAddress, StaticPlatform
<1> QED
  BY <1>1, <1>2, <1>3, <1>4, <1>5 DEF Kept

\* The power chip cuts the power.
LEMMA WritePmicLater ==
  ASSUME Released, Steady, NEW h \in Harts, WritePmic(h)
  PROVE  Kept
PROOF
<1> USE BootHartAssumption DEF Released, Steady, Inv
<1>1. Domains'
  BY DEF WritePmic, Goto, Domains, StaticPlatform, Blank, NoContext
<1>2. Areas'
  BY DEF WritePmic, Goto, Domains, After, Areas, Alone, Prepared, Blank, Frozen
<1>3. After'
  BY DEF WritePmic, Goto, Domains, After, Order, Started, InSbi, Alone, NoAddress, StaticPlatform
<1>4. Order'
  BY DEF WritePmic, Goto, Domains, After, Order, Started, InSbi, Alone, Cold, NoAddress, StaticPlatform
<1>5. Promised'
  BY DEF WritePmic, Goto, Domains, After, Order, Promised, Started, InSbi, Alone, Cold, NoAddress, StaticPlatform
<1> QED
  BY <1>1, <1>2, <1>3, <1>4, <1>5 DEF Kept

\* _start_warm: the hart finds its place in the table.
LEMMA StartWarmLater ==
  ASSUME Released, Steady, NEW h \in Harts, StartWarm(h)
  PROVE  Kept
PROOF
<1>0. HartIndex(h) # -1 => /\ ScratchOf(HartIndex(h), fw.physical) = ScratchTable[h]
                            /\ ScratchTable[h] # NoAddress
  BY IndexAgrees
<1> USE BootHartAssumption DEF Released, Steady, Inv
<1>1. Domains'
  BY <1>0 DEF StartWarm, Goto, Domains, StaticPlatform, Blank, NoContext
<1>2. Areas'
  BY <1>0 DEF StartWarm, Goto, Domains, After, Areas, Alone, Prepared, Blank, Frozen
<1>3. After'
  BY <1>0 DEF StartWarm, Goto, Domains, After, Order, Started, InSbi, Alone, NoAddress, StaticPlatform
<1>4. Order'
  BY <1>0 DEF StartWarm, Goto, Domains, After, Order, Started, InSbi, Alone, Cold, NoAddress, StaticPlatform
<1>5. Promised'
  BY <1>0 DEF StartWarm, Goto, Domains, After, Order, Promised, Started, InSbi, Alone, Cold, NoAddress, StaticPlatform
<1> QED
  BY <1>1, <1>2, <1>3, <1>4, <1>5 DEF Kept

\* OpenSBI fills its own table of areas.
LEMMA ColdScratchLater ==
  ASSUME Released, Steady, NEW h \in Harts, ColdScratch(h)
  PROVE  Kept
PROOF
<1> USE BootHartAssumption DEF Released, Steady, Inv
<1>1. Domains'
  BY DEF ColdScratch, Goto, Apart, Domains, StaticPlatform, Blank, NoContext
<1>2. Areas'
  BY DEF ColdScratch, Goto, Domains, After, Areas, Alone, Prepared, Blank, Frozen
<1>3. After'
  BY DEF ColdScratch, Goto, Domains, After, Order, Started, InSbi, Alone, NoAddress, StaticPlatform
<1>4. Order'
  BY DEF ColdScratch, Goto, Domains, After, Order, Started, InSbi, Alone, Cold, NoAddress, StaticPlatform
<1>5. Promised'
  BY DEF ColdScratch, Goto, Domains, After, Order, Promised, Started, InSbi, Alone, Cold, NoAddress, StaticPlatform
<1> QED
  BY <1>1, <1>2, <1>3, <1>4, <1>5 DEF Kept

\* The processor HOBs are copies of the harts' own contexts.
LEMMA InitializePlatformLater ==
  ASSUME Released, Steady, NEW h \in Harts, InitializePlatform(h)
  PROVE  Kept
PROOF
<1>0. \A core \in CoreHobs : core.data \in {core.hart, NoHart}
  BY DEF CoreHobs, Released, Inv, After
<1> USE BootHartAssumption DEF Released, Steady, Inv
<1>1. Domains'
  BY <1>0 DEF InitializePlatform, Goto, Domains, StaticPlatform, Blank, NoContext
<1>2. Areas'
  BY <1>0 DEF InitializePlatform, Goto, Domains, After, Areas, Alone, Prepared, Blank, Frozen
<1>3. After'
  BY <1>0 DEF InitializePlatform, Goto, Domains, After, Order, Started, InSbi, Alone, NoAddress, StaticPlatform
<1>4. Order'
  BY <1>0 DEF InitializePlatform, Goto, Domains, After, Order, Started, InSbi, Alone, Cold, NoAddress, StaticPlatform
<1>5. Promised'
  BY <1>0 DEF InitializePlatform, Goto, Domains, After, Order, Promised, Started, InSbi, Alone, Cold, NoAddress, StaticPlatform
<1> QED
  BY <1>1, <1>2, <1>3, <1>4, <1>5 DEF Kept

\* A hart that was stopped starts at _start_warm.
LEMMA RestartHartLater ==
  ASSUME Released, Steady, NEW h \in Harts, RestartHart(h)
  PROVE  Kept
PROOF
<1>0. scratch[reg[h].scratch].warmboot = "warm"
  BY OwnArea DEF RestartHart, Prepared, Started, InSbi
<1> USE BootHartAssumption DEF Released, Steady, Inv
<1>1. Domains'
  BY <1>0 DEF RestartHart, Goto, Domains, StaticPlatform, Blank, NoContext
<1>2. Areas'
  BY <1>0 DEF RestartHart, Goto, Domains, After, Areas, Alone, Prepared, Blank, Frozen
<1>3. After'
  BY <1>0 DEF RestartHart, Goto, Domains, After, Order, Started, InSbi, Alone, NoAddress, StaticPlatform
<1>4. Order'
  BY <1>0 DEF RestartHart, Goto, Domains, After, Order, Started, InSbi, Alone, Cold, NoAddress, StaticPlatform
<1>5. Promised'
  BY <1>0 DEF RestartHart, Goto, Domains, After, Order, Promised, Started, InSbi, Alone, Cold, NoAddress, StaticPlatform
<1> QED
  BY <1>1, <1>2, <1>3, <1>4, <1>5 DEF Kept

\* Only the boot hart boots cold.
LEMMA SbiInitLater ==
  ASSUME Released, Steady, NEW h \in Harts, SbiInit(h)
  PROVE  Kept
PROOF
<1> USE BootHartAssumption DEF Released, Steady, Inv
<1>1. h = BootHart \/ sbi.lottery
  BY DEF SbiInit, Order, Started, InSbi
<1>2. /\ UNCHANGED <<config, reg, platform, scratch, owner, fw, context, cores>>
      /\ sbi'.table = sbi.table /\ DOMAIN sbi' = DOMAIN sbi
      /\ \/ h = BootHart /\ sbi'.lottery /\ pc' = [pc EXCEPT ![h] = "cold"]
         \/ sbi'.lottery = sbi.lottery /\ pc' = [pc EXCEPT ![h] = "warm_init"]
  BY <1>1 DEF SbiInit, Goto, Domains
<1>3. pc[h] = "sbi_init"
  BY DEF SbiInit
<1>4. Domains'
  BY <1>2 DEF Domains
<1>5. Areas'
  BY <1>2, <1>3 DEF Areas, Frozen, Domains
<1>6. After'
  BY <1>2, <1>3 DEF Domains, After, Order, Started, InSbi, Alone, NoAddress
<1>7. Order'
  BY <1>2, <1>3 DEF Domains, After, Order, Started, InSbi, Alone, Cold, NoAddress
<1>8. Promised'
  BY <1>2, <1>3 DEF Domains, After, Order, Promised, Started, InSbi, Alone, Cold, NoAddress
<1> QED
  BY <1>4, <1>5, <1>6, <1>7, <1>8 DEF Kept

\* The hart fills its own context and area.
LEMMA SecCoreStartUpWithStackLater ==
  ASSUME Released, Steady, NEW h \in Harts, SecCoreStartUpWithStack(h)
  PROVE  Kept
PROOF
<1>1. pc[h] \in Started
  BY DEF SecCoreStartUpWithStack, Started, InSbi
<1>2. /\ reg[h].scratch = ScratchTable[h] /\ reg[h].scratch # NoAddress
      /\ reg[h].scratch \in Addresses /\ ContextOf(reg[h].scratch) \in Addresses
      /\ Prepared(scratch[reg[h].scratch])
      /\ \A g \in Harts \ {h} : reg[g].scratch # NoAddress => reg[g].scratch # reg[h].scratch
      /\ \A g \in Harts \ {h} :
            ScratchTable[g] # NoAddress => ContextOf(ScratchTable[g]) # ContextOf(reg[h].scratch)
  BY <1>1, OwnArea
<1>3. \A g \in Harts : reg[g].scratch # NoAddress => reg[g].scratch \in Addresses
  BY DEF Released, Apart, Inv, After
<1> USE BootHartAssumption DEF Released, Steady, Inv
<1> DEFINE mine == reg[h].scratch
<1>4. /\ UNCHANGED <<config, reg, fw, sbi, context, cores>>
      /\ DOMAIN platform' = DOMAIN platform /\ platform'.ops = "edk2"
      /\ owner' = [owner EXCEPT ![ContextOf(mine)] = h]
      /\ pc[h] = "sec_core" /\ DOMAIN pc' = Harts /\ \A g \in Harts \ {h} : pc'[g] = pc[g]
      /\ \/ h # BootHart /\ pc'[h] = "spin"
         \/ h = BootHart /\ pc'[h] = "assert"
         \/ h = BootHart /\ pc'[h] = "launch" /\ Known
  <2>1. GetDeviceTreeAddress # "none" => Known
    BY DEF Known, GetDeviceTreeAddress
  <2> DEFINE label == IF h # BootHart THEN "spin"
                      ELSE IF GetDeviceTreeAddress = "none" THEN "assert" ELSE "launch"
  <2>2. pc' = [pc EXCEPT ![h] = label]
    BY DEF SecCoreStartUpWithStack, Goto
  <2>3. DOMAIN pc' = Harts /\ pc'[h] = label /\ \A g \in Harts \ {h} : pc'[g] = pc[g]
    BY <2>2 DEF Domains
  <2>4. \/ h # BootHart /\ pc'[h] = "spin"
        \/ h = BootHart /\ pc'[h] = "assert"
        \/ h = BootHart /\ pc'[h] = "launch" /\ Known
    BY <2>1, <2>3
  <2>5. /\ UNCHANGED <<config, reg, fw, sbi, context, cores>> /\ pc[h] = "sec_core"
        /\ DOMAIN platform' = DOMAIN platform /\ platform'.ops = "edk2"
        /\ owner' = [owner EXCEPT ![ContextOf(mine)] = h]
    BY DEF SecCoreStartUpWithStack, Domains, StaticPlatform
  <2> QED
    BY <2>3, <2>4, <2>5
<1>5. /\ DOMAIN scratch' = Addresses
      /\ \A a \in Addresses \ {mine} : scratch'[a] = scratch[a]
      /\ \A a \in Addresses : DOMAIN scratch'[a] = DOMAIN scratch[a]
      /\ \A a \in Addresses : Prepared(scratch[a]) => Prepared(scratch'[a])
      /\ Known => scratch'[mine].arg1 = "dtb"
  BY <1>2 DEF SecCoreStartUpWithStack, Domains, Known, Prepared, Blank
<1>6. Domains'
  BY <1>4, <1>5 DEF Domains, Frozen
<1>7. Areas'
  BY <1>4, <1>5, SteadyAreas
<1>8. After'
  BY <1>2, <1>4 DEF Domains, After, Order, Started, InSbi, Alone, NoAddress
<1>9. Order'
  BY <1>2, <1>3, <1>4, <1>5 DEF Domains, After, Order, Started, InSbi, Alone, Cold, NoAddress
<1>10. Promised'
  BY <1>2, <1>3, <1>4, <1>5 DEF Domains, After, Order, Promised, Started, InSbi, Alone, Cold, NoAddress
<1> QED
  BY <1>6, <1>7, <1>8, <1>9, <1>10 DEF Kept

\* The boot hart names the next phase.
LEMMA LaunchPeiCoreLater ==
  ASSUME Released, Steady, NEW h \in Harts, LaunchPeiCore(h)
  PROVE  Kept
PROOF
<1>1. pc[h] \in Started
  BY DEF LaunchPeiCore, Started, InSbi
<1>2. /\ reg[h].scratch = ScratchTable[h] /\ reg[h].scratch # NoAddress
      /\ reg[h].scratch \in Addresses /\ ContextOf(reg[h].scratch) \in Addresses
      /\ Prepared(scratch[reg[h].scratch])
      /\ \A g \in Harts \ {h} : reg[g].scratch # NoAddress => reg[g].scratch # reg[h].scratch
      /\ \A g \in Harts \ {h} :
            ScratchTable[g] # NoAddress => ContextOf(ScratchTable[g]) # ContextOf(reg[h].scratch)
  BY <1>1, OwnArea
<1>3. \A g \in Harts : reg[g].scratch # NoAddress => reg[g].scratch \in Addresses
  BY DEF Released, Apart, Inv, After
<1> USE BootHartAssumption DEF Released, Steady, Inv
<1> DEFINE mine == reg[h].scratch
<1>0. pc[h] = "launch" /\ h = BootHart
  BY DEF LaunchPeiCore, Order
<1>4. CASE fw.extension
  <2>1. /\ UNCHANGED <<config, reg, owner, sbi, cores, platform, scratch, fw, context>>
        /\ pc' = [pc EXCEPT ![h] = "assert"]
    BY <1>4 DEF LaunchPeiCore, Goto
  <2>2. Domains' /\ Areas' /\ After'
    BY <1>0, <2>1 DEF Domains, Areas, Frozen, After, Started, InSbi, Alone
  <2>3. Order' /\ Promised'
    BY <1>0, <2>1 DEF Domains, After, Order, Promised, Started, InSbi, Alone, Cold
  <2> QED
    BY <2>2, <2>3 DEF Kept
<1>5. CASE ~fw.extension
  <2>1. /\ UNCHANGED <<config, reg, owner, sbi, cores>>
        /\ DOMAIN platform' = DOMAIN platform /\ platform'.ops = platform.ops
        /\ DOMAIN fw' = DOMAIN fw /\ fw'.BootHartDone = fw.BootHartDone
        /\ context' = [at |-> "temporary", hartSpecific |-> [x \in {} |-> NoAddress],
                       deviceTree |-> scratch[mine].arg1, handOff |-> "temporary"]
        /\ pc' = [pc EXCEPT ![h] = "sbi_init"]
    BY <1>5 DEF LaunchPeiCore, Goto, Domains, StaticPlatform
  <2>2. /\ DOMAIN scratch' = Addresses
        /\ \A a \in Addresses \ {mine} : scratch'[a] = scratch[a]
        /\ \A a \in Addresses : DOMAIN scratch'[a] = DOMAIN scratch[a]
        /\ \A a \in Addresses : Prepared(scratch[a]) => Prepared(scratch'[a])
        /\ scratch'[mine].arg1 = scratch[mine].arg1
    BY <1>2, <1>5 DEF LaunchPeiCore, Domains, Prepared, Blank
  <2>3. Domains'
    BY <2>1, <2>2 DEF Domains, NoContext
  <2>4. Areas'
    BY <2>2, SteadyAreas
  <2>5. After'
    BY <1>0, <2>1 DEF Domains, After, Started, InSbi, Alone, NoAddress
  <2>6. Order'
    BY <1>0, <1>2, <1>3, <2>1, <2>2 DEF Domains, After, Order, Started, InSbi, Alone, Cold, NoAddress
  <2>7. Promised'
    BY <1>0, <2>1, <2>2 DEF Domains, After, Order, Promised, Started, InSbi, Alone, Cold, NoAddress
  <2> QED
    BY <2>3, <2>4, <2>5, <2>6, <2>7 DEF Kept
<1> QED
  BY <1>4, <1>5

\* A hart goes into OpenSBI with a device tree.
LEMMA MessageLater ==
  ASSUME Released, Steady, NEW h \in Harts, Message(h)
  PROVE  Kept
PROOF
<1>1. pc[h] \in Started
  BY DEF Message, Started, InSbi
<1>2. /\ reg[h].scratch = ScratchTable[h] /\ reg[h].scratch # NoAddress
      /\ reg[h].scratch \in Addresses /\ ContextOf(reg[h].scratch) \in Addresses
      /\ Prepared(scratch[reg[h].scratch])
      /\ \A g \in Harts \ {h} : reg[g].scratch # NoAddress => reg[g].scratch # reg[h].scratch
      /\ \A g \in Harts \ {h} :
            ScratchTable[g] # NoAddress => ContextOf(ScratchTable[g]) # ContextOf(reg[h].scratch)
  BY <1>1, OwnArea
<1>3. \A g \in Harts : reg[g].scratch # NoAddress => reg[g].scratch \in Addresses
  BY DEF Released, Apart, Inv, After
<1> USE BootHartAssumption DEF Released, Steady, Inv
<1> DEFINE mine == reg[h].scratch
<1>0. pc[h] = "message" /\ h # BootHart
  BY DEF Message, Order
<1>4. CASE scratch[mine].arg1 = "none"
  <2>1. /\ UNCHANGED <<config, reg, owner, sbi, cores, platform, scratch, fw, context>>
        /\ pc' = [pc EXCEPT ![h] = "assert"]
    BY <1>4 DEF Message, Goto
  <2>2. Domains' /\ Areas' /\ After'
    BY <1>0, <2>1 DEF Domains, Areas, Frozen, After, Started, InSbi, Alone
  <2>3. Order' /\ Promised'
    BY <1>0, <2>1 DEF Domains, After, Order, Promised, Started, InSbi, Alone, Cold
  <2> QED
    BY <2>2, <2>3 DEF Kept
<1>5. CASE scratch[mine].arg1 # "none"
  <2>1. /\ UNCHANGED <<config, reg, owner, sbi, cores, platform, context>>
        /\ DOMAIN fw' = DOMAIN fw /\ fw'.BootHartDone = fw.BootHartDone
        /\ pc' = [pc EXCEPT ![h] = "sbi_init"]
    BY <1>5 DEF Message, Goto, Domains
  <2>2. /\ DOMAIN scratch' = Addresses
        /\ \A a \in Addresses \ {mine} : scratch'[a] = scratch[a]
        /\ \A a \in Addresses : DOMAIN scratch'[a] = DOMAIN scratch[a]
        /\ \A a \in Addresses : Prepared(scratch[a]) => Prepared(scratch'[a])
        /\ scratch'[mine].arg1 # "none"
    BY <1>2, <1>5 DEF Message, Domains, Prepared, Blank
  <2>3. Domains'
    BY <2>1, <2>2 DEF Domains
  <2>4. Areas'
    BY <2>2, SteadyAreas
  <2>5. After'
    BY <1>0, <2>1 DEF Domains, After, Started, InSbi, Alone, NoAddress
  <2>6. Order'
    BY <1>0, <1>2, <1>3, <2>1, <2>2 DEF Domains, After, Order, Started, InSbi, Alone, Cold, NoAddress
  <2>7. Promised'
    BY <1>0, <1>2, <1>3, <2>1, <2>2
       DEF Domains, After, Order, Promised, Started, InSbi, Alone, Cold, NoAddress
  <2> QED
    BY <2>3, <2>4, <2>5, <2>6, <2>7 DEF Kept
<1> QED
  BY <1>4, <1>5

\* The contexts of all harts are published.
LEMMA FinalInitLater ==
  ASSUME Released, Steady, NEW h \in Harts, FinalInit(h)
  PROVE  Kept
PROOF
<1>1. pc[h] \in Started
  BY DEF FinalInit, Started, InSbi
<1>2. /\ reg[h].scratch = ScratchTable[h] /\ reg[h].scratch # NoAddress
      /\ reg[h].scratch \in Addresses /\ ContextOf(reg[h].scratch) \in Addresses
      /\ Prepared(scratch[reg[h].scratch])
      /\ \A g \in Harts \ {h} : reg[g].scratch # NoAddress => reg[g].scratch # reg[h].scratch
      /\ \A g \in Harts \ {h} :
            ScratchTable[g] # NoAddress => ContextOf(ScratchTable[g]) # ContextOf(reg[h].scratch)
  BY <1>1, OwnArea
<1>3. \A g \in Harts : reg[g].scratch # NoAddress => reg[g].scratch \in Addresses
  BY DEF Released, Apart, Inv, After
<1> USE BootHartAssumption DEF Released, Steady, Inv
<1> DEFINE mine == reg[h].scratch
<1>0. pc[h] = "final_init" /\ h = BootHart
  BY DEF FinalInit, Order, Cold
<1>4. CASE GenericFinalInitFails(platform, config.dtb)
  <2>1. /\ UNCHANGED <<config, reg, owner, sbi, cores, platform, scratch, fw, context>>
        /\ pc' = [pc EXCEPT ![h] = "hang"]
    BY <1>4 DEF FinalInit, Goto
  <2>2. Domains' /\ Areas' /\ After'
    BY <1>0, <2>1 DEF Domains, Areas, Frozen, After, Started, InSbi, Alone
  <2>3. Order' /\ Promised'
    BY <1>0, <2>1 DEF Domains, After, Order, Promised, Started, InSbi, Alone, Cold
  <2> QED
    BY <2>2, <2>3 DEF Kept
<1>5. CASE ~GenericFinalInitFails(platform, config.dtb)
  <2> DEFINE hs == {y \in PlatformHarts(platform) \cap Harts : sbi.table[y] # NoAddress}
  <2>0. /\ sbi.table = ScratchTable /\ Known
        /\ PlatformHarts(platform) \subseteq Harts
    BY <1>0 DEF Promised, Layout, Cold
  <2>1. hs = PlatformHarts(platform)
    BY <2>0, TableNonZero
  <2>2. /\ UNCHANGED <<config, reg, owner, sbi, cores, fw>>
        /\ DOMAIN platform' = DOMAIN platform /\ platform'.ops = platform.ops
        /\ pc' = [pc EXCEPT ![h] = "switch"]
    BY <1>5 DEF FinalInit, GenericFinalInit, Goto, Domains, StaticPlatform
  <2>3. context' = [context EXCEPT !.hartSpecific = [x \in hs |-> ContextOf(sbi.table[x])]]
    BY <1>5 DEF FinalInit, PublishContexts
  <2>4. /\ DOMAIN context' = DOMAIN context /\ context'.at = context.at
        /\ context'.deviceTree = context.deviceTree /\ context'.handOff = context.handOff
        /\ DOMAIN context'.hartSpecific = PlatformHarts(platform)
        /\ \A x \in PlatformHarts(platform) :
              /\ x \in Harts /\ ScratchTable[x] # NoAddress
              /\ context'.hartSpecific[x] = ContextOf(ScratchTable[x])
    BY <2>0, <2>1, <2>3 DEF Domains, NoContext
  <2>5. /\ DOMAIN scratch' = Addresses
        /\ \A a \in Addresses \ {mine} : scratch'[a] = scratch[a]
        /\ \A a \in Addresses : DOMAIN scratch'[a] = DOMAIN scratch[a]
        /\ \A a \in Addresses : Prepared(scratch[a]) => Prepared(scratch'[a])
        /\ scratch'[mine].arg1 = "context"
    BY <1>2, <1>5 DEF FinalInit, PublishContexts, Domains, Prepared, Blank
  <2> HIDE DEF hs
  <2>6. Domains'
    BY <2>2, <2>4, <2>5 DEF Domains
  <2>7. Areas'
    BY <2>5, SteadyAreas
  <2>8. After'
    BY <1>0, <2>2, <2>4 DEF Domains, After, Started, InSbi, Alone, NoAddress
  <2>9. Order'
    BY <1>0, <1>2, <1>3, <2>2, <2>5 DEF Domains, After, Order, Started, InSbi, Alone, Cold, NoAddress
  <2>10. Promised'
    BY <1>0, <2>2, <2>4, <2>5 DEF Domains, After, Order, Promised, Started, InSbi, Alone, Cold, NoAddress
  <2> QED
    BY <2>6, <2>7, <2>8, <2>9, <2>10 DEF Kept
<1> QED
  BY <1>4, <1>5

\* The layout goes with the table.
LEMMA LayoutLater ==
  ASSUME Released, Steady, After'
  PROVE  Layout' /\ Before'
PROOF
<1> USE DEF Released, Inv, Steady
<1>1. pc[BootHart] \notin Alone /\ pc'[BootHart] \notin Alone
  BY DEF After, Frozen
<1>2. Before'
  BY DEF Before, Frozen
<1>3. Known' => PlatformHarts(platform') \subseteq Harts
  BY <1>1 DEF Layout, Alone
<1> QED
  BY <1>1, <1>2, <1>3 DEF Layout, Frozen, Alone

\* Once the harts are released the invariant is kept.
LEMMA NextReleased ==
  ASSUME Inv, fw.bootHartDone, [Next]_vars
  PROVE  Inv'
PROOF
<1>1. Released
  BY AreasApart DEF Released, Inv, TableSettled
<1>2. Steady
  BY StepFrozen, FrozenTable DEF Inv, Steady
<1>3. Kept
  <2>1. ASSUME NEW h \in Harts, Step(h)
        PROVE  Kept
    <3>1. \A g \in Harts : pc[g] \notin {"fw_init", "scratch_init", "index2id", "flag"}
      BY DEF Inv, After, Alone
    <3>2. ~ (FwInit(h) \/ ScratchInit(h) \/ OverwriteHartTable(h) \/ ReleaseHarts(h))
      BY <3>1 DEF FwInit, ScratchInit, OverwriteHartTable, ReleaseHarts
    <3> QED
      BY <1>1, <1>2, <2>1, <3>2, EntryLater, StartWarmLater, SecCoreStartUpWithStackLater,
         LaunchPeiCoreLater, SpinOnBootHartLater, TakeMessageLockLater, MessageLater, SbiInitLater,
         ColdScratchLater, EarlyInitLater, FinalInitLater, SwitchModeLater, WarmInitLater,
         InitializePlatformLater, TemporaryRamMigrationLater, ShutdownDomainsLater, WritePmicLater
         DEF Step
  <2>2. CASE UNCHANGED vars
    BY <1>1, <1>2, <2>2
       DEF vars, Kept, Released, Steady, Inv, Domains, Areas, After, Order, Promised, Frozen
  <2> QED
    BY <1>1, <1>2, <2>1, <2>2, RestartHartLater, SystemResetLater DEF Next
<1>4. Layout' /\ Before'
  BY <1>1, <1>2, <1>3, LayoutLater DEF Kept
<1> QED
  BY <1>3, <1>4 DEF Kept, Inv

-----------------------------------------------------------------------------
(* Steps before the boot hart releases the others.                         *)

\* Nothing but the boot hart's own preparations can happen.
LEMMA StepsAlone ==
  ASSUME Inv, ~fw.bootHartDone, NEW h \in Harts, Step(h) \/ RestartHart(h) \/ SystemReset(h)
  PROVE  \/ Entry(h)
         \/ /\ h = BootHart
            /\ FwInit(h) \/ ScratchInit(h) \/ OverwriteHartTable(h) \/ ReleaseHarts(h)
PROOF
<1>1. /\ pc[BootHart] \in Alone
      /\ \A g \in Harts \ {BootHart} : pc[g] \in {"entry", "wait"}
  BY DEF Inv, Before
<1>2. pc[h] \in Alone \cup {"wait"}
  BY <1>1 DEF Alone
<1>3. ~ \/ SecCoreStartUpWithStack(h) \/ LaunchPeiCore(h) \/ SpinOnBootHart(h)
        \/ TakeMessageLock(h) \/ Message(h) \/ SbiInit(h) \/ ColdScratch(h) \/ EarlyInit(h)
        \/ FinalInit(h) \/ SwitchMode(h) \/ WarmInit(h) \/ InitializePlatform(h)
        \/ TemporaryRamMigration(h) \/ ShutdownDomains(h) \/ WritePmic(h)
        \/ StartWarm(h) \/ RestartHart(h) \/ SystemReset(h)
  BY <1>2 DEF SecCoreStartUpWithStack, LaunchPeiCore, SpinOnBootHart, TakeMessageLock, Message,
     SbiInit, ColdScratch, EarlyInit, FinalInit, SwitchMode, WarmInit, InitializePlatform,
     TemporaryRamMigration, ShutdownDomains, WritePmic, StartWarm, RestartHart, SystemReset, Alone
<1>4. FwInit(h) \/ ScratchInit(h) \/ OverwriteHartTable(h) \/ ReleaseHarts(h) => h = BootHart
  BY <1>1 DEF FwInit, ScratchInit, OverwriteHartTable, ReleaseHarts
<1> QED
  BY <1>3, <1>4 DEF Step

(* What holds while the boot hart is alone, whatever the table and the     *)
(* areas are.                                                              *)
Quiet ==
  /\ UNCHANGED <<config, reg, owner, sbi, context, cores>>
  /\ DOMAIN pc' = Harts /\ \A g \in Harts \ {BootHart} : pc'[g] \in {"entry", "wait"}
  /\ pc'[BootHart] \in Alone /\ ~fw'.bootHartDone /\ fw'.BootHartDone = fw.BootHartDone

\* The parts of the invariant that speak of later stages are kept.
LEMMA QuietKeeps ==
  ASSUME Inv, ~fw.bootHartDone, Quiet
  PROVE  Before' /\ After' /\ Order' /\ Promised'
PROOF
<1>1. /\ ~fw.BootHartDone /\ context = NoContext /\ cores = {}
      /\ \A h \in Harts : reg[h].scratch = NoAddress /\ sbi.table[h] = NoAddress
      /\ \A a \in Addresses : owner[a] = NoHart
  BY DEF Inv, Before
<1>2. \A h \in Harts : pc'[h] \in Alone \cup {"wait"}
  BY DEF Quiet, Alone
<1>3. \A h \in Harts : pc'[h] \notin Started \cup Cold \cup {"launch", "domains", "pmic"}
  BY <1>2 DEF Alone, Started, InSbi, Cold
<1>4. Before'
  BY <1>1 DEF Before, Quiet
<1>5. After'
  BY DEF After, Quiet
<1>6. Order'
  BY <1>1, <1>2, <1>3, BootHartAssumption DEF Order, Quiet, Started, InSbi, Cold
<1>7. Promised'
  BY <1>3, BootHartAssumption DEF Promised, Started, InSbi, Cold
<1> QED
  BY <1>4, <1>5, <1>6, <1>7

\* Entry: the boot hart goes on, the others wait.
LEMMA EntryAlone ==
  ASSUME Inv, ~fw.bootHartDone, NEW h \in Harts, Entry(h)
  PROVE  Inv'
PROOF
<1> USE BootHartAssumption
<1>1. /\ pc[h] = "entry" /\ pc' = [pc EXCEPT ![h] = IF h = BootHart THEN "fw_init" ELSE "wait"]
      /\ UNCHANGED <<config, reg, platform, scratch, owner, fw, sbi, context, cores>>
  BY DEF Entry, Goto
<1>2. Quiet
  BY <1>1 DEF Quiet, Inv, Domains, Before, Alone
<1>3. Domains'
  BY <1>1 DEF Inv, Domains
<1>4. Layout'
  BY <1>1 DEF Inv, Domains, Layout, Known, GetDeviceTreeAddress
<1>5. Areas'
  BY <1>1 DEF Inv, Domains, Areas, ScratchOf, Prepared
<1> QED
  BY <1>2, <1>3, <1>4, <1>5, QuietKeeps DEF Inv

\* Overwrite puts the numbers of the prefix in front.
LEMMA Overwritten ==
  ASSUME NEW n \in Nat, NEW S \in SUBSET Nat, NEW array \in [1..n -> Nat],
         NEW ids \in Seq(S), Len(ids) <= n
  PROVE  /\ Overwrite(array, ids) \in [1..n -> Nat]
         /\ \A i \in 1..Len(ids) : Overwrite(array, ids)[i] \in S
PROOF
<1>1. /\ DOMAIN array = 1..n /\ DOMAIN ids = 1..Len(ids) /\ Len(ids) \in Nat
      /\ \A i \in 1..Len(ids) : ids[i] \in S
  OBVIOUS
<1>2. Overwrite(array, ids) = [i \in 1..n |-> IF i \in 1..Len(ids) THEN ids[i] ELSE array[i]]
  BY <1>1 DEF Overwrite
<1>3. \A i \in 1..n : (IF i \in 1..Len(ids) THEN ids[i] ELSE array[i]) \in Nat
  BY <1>1
<1> QED
  BY <1>1, <1>2, <1>3

\* FwPlatformInit: the table gets the harts of the device tree.
LEMMA FwInitAlone ==
  ASSUME Inv, ~fw.bootHartDone, FwInit(BootHart)
  PROVE  Inv'
PROOF
<1> USE BootHartAssumption
<1> DEFINE ids == HartIds(config.dtb)
<1>1. /\ MaxHartBits \in Nat /\ Harts \subseteq Nat /\ config \in Configs
      /\ ids \in Seq(Harts) /\ Len(ids) \in 0..MaxHartBits
      /\ Len(config.bootable) \in 0..Len(ids)
  BY MaxHartBitsAssumption, HartsAssumption, ConfigsAssumption DEF Inv, Layout
<1>2. /\ pc[BootHart] = "fw_init" /\ platform = StaticPlatform
      /\ UNCHANGED <<config, reg, scratch, owner, sbi, context, cores>>
  BY DEF FwInit, Inv, Layout
<1>3. Known <=> GetDeviceTreeAddress # "none"
  BY DEF Known, GetDeviceTreeAddress
<1>4. Known' <=> Known
  BY <1>2 DEF Known, GetDeviceTreeAddress
<1> HIDE DEF ids
<1>5. CASE Known /\ InitFails(config.dtb)
  <2>1. pc' = [pc EXCEPT ![BootHart] = "wfi"] /\ UNCHANGED <<platform, fw>>
    BY <1>3, <1>5 DEF FwInit, Goto
  <2>2. Quiet
    BY <1>2, <2>1 DEF Quiet, Inv, Domains, Before, Alone
  <2>3. Domains' /\ Areas'
    BY <1>2, <2>1 DEF Inv, Domains, Areas, ScratchOf, Prepared
  <2>4. Layout'
    BY <1>2, <2>1 DEF Inv, Domains, Layout
  <2> QED
    BY <2>2, <2>3, <2>4, QuietKeeps DEF Inv
<1>6. CASE ~ (Known /\ InitFails(config.dtb))
  <2>1. /\ platform' = IF Known THEN FwPlatformInit(platform, config.dtb) ELSE platform
        /\ fw' = [fw EXCEPT !.physical = platform'.hart_count, !.next = 0]
        /\ pc' = [pc EXCEPT ![BootHart] = "scratch_init"]
    BY <1>3, <1>6 DEF FwInit, Goto
  <2>2. /\ DOMAIN platform' = DOMAIN platform
        /\ platform'.hart_index2id \in [1..MaxHartBits -> Nat]
        /\ platform'.hart_count \in 0..MaxHartBits
        /\ Len(config.bootable) <= platform'.hart_count
        /\ Known => PlatformHarts(platform') \subseteq Harts
    <3>1. CASE ~Known
      BY <1>1, <1>2, <2>1, <3>1 DEF StaticPlatform
    <3>2. CASE Known
      <4>1. platform' = [LookupSpecial(platform, config.dtb) EXCEPT
                           !.hart_index2id = Overwrite(@, ids), !.hart_count = Len(ids)]
        BY <2>1, <3>2 DEF FwPlatformInit, ids
      <4>2. /\ DOMAIN LookupSpecial(platform, config.dtb) = DOMAIN platform
            /\ LookupSpecial(platform, config.dtb).hart_index2id = [i \in 1..MaxHartBits |-> 0]
        BY <1>2 DEF LookupSpecial, StaticPlatform
      <4>3. /\ platform'.hart_index2id = Overwrite([i \in 1..MaxHartBits |-> 0], ids)
            /\ platform'.hart_count = Len(ids) /\ DOMAIN platform' = DOMAIN platform
        BY <1>2, <4>1, <4>2 DEF StaticPlatform
      <4>4. /\ platform'.hart_index2id \in [1..MaxHartBits -> Nat]
            /\ \A i \in 1..Len(ids) : platform'.hart_index2id[i] \in Harts
        BY <1>1, <4>3, Overwritten
      <4> QED
        BY <1>1, <4>3, <4>4 DEF PlatformHarts
    <3> QED
      BY <3>1, <3>2
  <2>3. /\ DOMAIN fw' = DOMAIN fw /\ fw'.physical = platform'.hart_count /\ fw'.next = 0
        /\ fw'.bootHartDone = fw.bootHartDone /\ fw'.BootHartDone = fw.BootHartDone
    BY <2>1 DEF Inv, Domains
  <2>4. Quiet
    BY <1>2, <2>1, <2>3 DEF Quiet, Inv, Domains, Before, Alone
  <2>5. Domains'
    BY <1>2, <2>1, <2>2, <2>3 DEF Inv, Domains
  <2>6. pc'[BootHart] = "scratch_init" /\ ~fw'.bootHartDone
    BY <2>1, <2>3 DEF Inv, Domains
  <2>7. Layout'
    BY <1>1, <1>2, <1>4, <2>2, <2>3, <2>6 DEF Layout
  <2>8. Areas'
    BY <2>2, <2>3, <2>6 DEF Areas
  <2> QED
    BY <2>4, <2>5, <2>7, <2>8, QuietKeeps DEF Inv
<1> QED
  BY <1>5, <1>6

\* One turn of _scratch_init: one more area is prepared.
LEMMA ScratchInitAlone ==
  ASSUME Inv, ~fw.bootHartDone, ScratchInit(BootHart)
  PROVE  Inv'
PROOF
<1> USE BootHartAssumption
<1>1. /\ pc[BootHart] = "scratch_init" /\ pc'[BootHart] \in {"scratch_init", "index2id"}
      /\ pc'[BootHart] = "index2id" => ~ (fw.next + 1 < fw.physical)
      /\ DOMAIN pc' = Harts /\ \A g \in Harts \ {BootHart} : pc'[g] = pc[g]
      /\ UNCHANGED <<config, reg, platform, owner, sbi, context, cores>>
  BY DEF ScratchInit, Goto, Inv, Domains
<1>2. /\ DOMAIN fw' = DOMAIN fw /\ fw'.physical = fw.physical /\ fw'.next = fw.next + 1
      /\ fw'.bootHartDone = fw.bootHartDone /\ fw'.BootHartDone = fw.BootHartDone
  BY DEF ScratchInit, Inv, Domains
<1>3. /\ DOMAIN scratch' = Addresses
      /\ \A a \in Addresses \ {ScratchOf(fw.next, fw.physical)} : scratch'[a] = scratch[a]
      /\ \A a \in Addresses : DOMAIN scratch'[a] = DOMAIN Blank
      /\ ScratchOf(fw.next, fw.physical) \in Addresses =>
            Prepared(scratch'[ScratchOf(fw.next, fw.physical)])
  BY DEF ScratchInit, Inv, Domains, Blank, Prepared
<1>4. Quiet
  BY <1>1, <1>2 DEF Quiet, Inv, Before, Alone
<1>5. Domains'
  BY <1>1, <1>2, <1>3 DEF Inv, Domains
<1>6. Layout'
  BY <1>1, <1>2 DEF Inv, Layout, Known, GetDeviceTreeAddress
<1>7. Areas'
  <2>1. fw.next \in Nat /\ fw.physical \in 0..MaxHartBits /\ MaxHartBits \in Nat
    BY MaxHartBitsAssumption DEF Inv, Areas, Layout
  <2>2. \A i \in 0..(fw.physical - 1) : ScratchOf(i, fw.physical) \in Addresses
    BY <2>1 DEF ScratchOf, Addresses, StackSize, ScratchSize
  <2>3. \A i \in 0..(fw.physical - 1) :
           i < fw.next + 1 => Prepared(scratch'[ScratchOf(i, fw.physical)])
    <3> SUFFICES ASSUME NEW i \in 0..(fw.physical - 1), i < fw.next + 1
                 PROVE  Prepared(scratch'[ScratchOf(i, fw.physical)])
      OBVIOUS
    <3>1. CASE ScratchOf(i, fw.physical) = ScratchOf(fw.next, fw.physical)
      BY <1>3, <2>2, <3>1
    <3>2. CASE ScratchOf(i, fw.physical) # ScratchOf(fw.next, fw.physical)
      <4>1. i < fw.next
        BY <2>1, <3>2
      <4>2. Prepared(scratch[ScratchOf(i, fw.physical)])
        BY <4>1 DEF Inv, Areas
      <4> QED
        BY <1>3, <2>2, <3>2, <4>2
    <3> QED
      BY <3>1, <3>2
  <2>4. fw'.next >= fw'.physical \/ pc'[BootHart] = "scratch_init"
    BY <1>1, <1>2, <2>1
  <2>5. \A i : ScratchOf(i, fw'.physical) = ScratchOf(i, fw.physical)
    BY <1>2
  <2> QED
    BY <1>2, <2>1, <2>3, <2>4, <2>5 DEF Areas, ScratchOf, Prepared
<1> QED
  BY <1>4, <1>5, <1>6, <1>7, QuietKeeps DEF Inv

\* Edk2PlatformHartIndex2Id: the table gets the board's own harts.
LEMMA OverwriteAlone ==
  ASSUME Inv, ~fw.bootHartDone, OverwriteHartTable(BootHart)
  PROVE  Inv'
PROOF
<1> USE BootHartAssumption
<1> DEFINE ids == config.bootable
<1>1. /\ MaxHartBits \in Nat /\ Harts \subseteq Nat /\ config \in Configs
      /\ ids \in Seq(Harts) /\ Len(ids) \in 0..MaxHartBits /\ Len(ids) <= fw.physical
      /\ platform.hart_count = fw.physical /\ fw.physical \in 0..MaxHartBits
      /\ platform.hart_index2id \in [1..MaxHartBits -> Nat]
      /\ Known => PlatformHarts(platform) \subseteq Harts
  BY MaxHartBitsAssumption, HartsAssumption, ConfigsAssumption DEF OverwriteHartTable, Inv, Layout
<1>2. /\ pc[BootHart] = "index2id" /\ pc' = [pc EXCEPT ![BootHart] = "flag"]
      /\ UNCHANGED <<config, reg, scratch, owner, fw, sbi, context, cores>>
  BY DEF OverwriteHartTable, Goto
<1>3. /\ DOMAIN platform' = DOMAIN platform
      /\ platform'.hart_index2id \in [1..MaxHartBits -> Nat]
      /\ platform'.hart_count \in 0..MaxHartBits /\ platform'.hart_count <= fw.physical
      /\ ids # <<>> => platform'.hart_count = Len(ids)
      /\ Known => PlatformHarts(platform') \subseteq Harts
  <2>1. CASE ids = <<>>
    BY <1>1, <2>1 DEF OverwriteHartTable, Edk2PlatformHartIndex2Id
  <2>2. CASE ids # <<>>
    <3>1. /\ platform'.hart_index2id = Overwrite(platform.hart_index2id, ids)
          /\ platform'.hart_count = Len(ids) /\ DOMAIN platform' = DOMAIN platform
      BY <2>2 DEF OverwriteHartTable, Edk2PlatformHartIndex2Id, Inv, Domains, StaticPlatform
    <3> HIDE DEF ids
    <3>2. /\ platform'.hart_index2id \in [1..MaxHartBits -> Nat]
          /\ \A i \in 1..Len(ids) : platform'.hart_index2id[i] \in Harts
      <4> DEFINE old == platform.hart_index2id
      <4>1. /\ MaxHartBits \in Nat /\ Harts \in SUBSET Nat /\ ids \in Seq(Harts)
            /\ Len(ids) <= MaxHartBits /\ old \in [1..MaxHartBits -> Nat]
        BY <1>1
      <4> HIDE DEF old
      <4>2. /\ Overwrite(old, ids) \in [1..MaxHartBits -> Nat]
            /\ \A i \in 1..Len(ids) : Overwrite(old, ids)[i] \in Harts
        BY <4>1, Overwritten
      <4> QED
        BY <3>1, <4>2 DEF old
    <3> QED
      BY <1>1, <3>1, <3>2 DEF PlatformHarts
  <2> QED
    BY <2>1, <2>2
<1>4. Quiet
  BY <1>2 DEF Quiet, Inv, Domains, Before, Alone
<1>5. Domains'
  BY <1>2, <1>3 DEF Inv, Domains
<1>6. pc'[BootHart] = "flag"
  BY <1>2 DEF Inv, Domains
<1>7. Layout'
  BY <1>1, <1>2, <1>3, <1>6 DEF Layout, Known, GetDeviceTreeAddress
<1>8. Areas'
  BY <1>2, <1>6 DEF Inv, Areas, ScratchOf, Prepared
<1> QED
  BY <1>4, <1>5, <1>7, <1>8, QuietKeeps DEF Inv

\* The boot hart sets _boot_hart_done.
LEMMA ReleaseAlone ==
  ASSUME Inv, ~fw.bootHartDone, ReleaseHarts(BootHart)
  PROVE  Inv'
PROOF
<1> USE BootHartAssumption
<1>1. /\ pc[BootHart] = "flag" /\ pc' = [pc EXCEPT ![BootHart] = "wait"]
      /\ fw' = [fw EXCEPT !.bootHartDone = TRUE]
      /\ UNCHANGED <<config, reg, platform, scratch, owner, sbi, context, cores>>
  BY DEF ReleaseHarts, Goto
<1>2. /\ Frozen /\ DOMAIN fw' = DOMAIN fw /\ fw'.BootHartDone = fw.BootHartDone
      /\ DOMAIN pc' = Harts /\ pc'[BootHart] = "wait"
      /\ \A g \in Harts \ {BootHart} : pc'[g] \in {"entry", "wait"}
  BY <1>1 DEF Frozen, Inv, Domains, Before
<1>3. /\ ScratchTable' = ScratchTable /\ (Known' <=> Known)
      /\ PlatformHarts(platform') = PlatformHarts(platform)
  BY <1>2, FrozenTable
<1>4. Apart
  BY <1>1, AreasApart DEF Inv, TableSettled
<1>5. /\ ~fw.BootHartDone /\ context = NoContext /\ cores = {}
      /\ \A h \in Harts : reg[h].scratch = NoAddress /\ sbi.table[h] = NoAddress
      /\ \A a \in Addresses : owner[a] = NoHart
  BY DEF Inv, Before
<1>6. \A h \in Harts : pc'[h] \in {"entry", "wait"}
  BY <1>2
<1>7. Domains' /\ Before'
  BY <1>1, <1>2 DEF Inv, Domains, Before, Frozen
<1>8. Layout'
  BY <1>1, <1>2, <1>3 DEF Inv, Layout, Frozen
<1>9. Areas'
  BY <1>1, <1>2 DEF Inv, Areas, Frozen, ScratchOf, Prepared
<1>10. After'
  BY <1>1, <1>2, <1>3, <1>4, <1>5, <1>6 DEF After, Apart, Started, InSbi, Alone, NoContext
<1>11. Order' /\ Promised'
  BY <1>1, <1>2, <1>5, <1>6 DEF Order, Promised, Started, InSbi, Cold
<1> QED
  BY <1>7, <1>8, <1>9, <1>10, <1>11 DEF Inv

\* The invariant holds at the start.
LEMMA InitInv == Init => Inv
PROOF
<1> SUFFICES ASSUME Init PROVE Inv
  OBVIOUS
<1> USE BootHartAssumption
<1>1. Domains
  BY DEF Init, Domains
<1>2. Layout
  BY MaxHartBitsAssumption DEF Init, Layout, StaticPlatform
<1>3. Areas
  BY DEF Init, Areas
<1>4. Before /\ After
  BY DEF Init, Before, After, Alone
<1>5. Order /\ Promised
  BY DEF Init, Order, Promised, Started, InSbi, Cold
<1> QED
  BY <1>1, <1>2, <1>3, <1>4, <1>5 DEF Inv

\* Every step keeps the invariant.
LEMMA NextInv == Inv /\ [Next]_vars => Inv'
PROOF
<1> SUFFICES ASSUME Inv, [Next]_vars PROVE Inv'
  OBVIOUS
<1>1. CASE fw.bootHartDone
  BY <1>1, NextReleased
<1>2. CASE ~fw.bootHartDone
  <2>1. CASE UNCHANGED vars
    <3>1. Quiet
      BY <1>2, <2>1 DEF vars, Quiet, Inv, Domains, Before
    <3>2. Domains' /\ Areas' /\ Layout'
      BY <2>1 DEF vars, Inv, Domains, Areas, Layout, ScratchOf, Prepared, Known, GetDeviceTreeAddress
    <3> QED
      BY <1>2, <3>1, <3>2, QuietKeeps DEF Inv
  <2>2. ASSUME NEW h \in Harts, Step(h) \/ RestartHart(h) \/ SystemReset(h)
        PROVE  Inv'
    BY <1>2, <2>2, StepsAlone, EntryAlone, FwInitAlone, ScratchInitAlone, OverwriteAlone,
       ReleaseAlone
  <2> QED
    BY <2>1, <2>2 DEF Next
<1> QED
  BY <1>1, <1>2

-----------------------------------------------------------------------------
(* The theorems.                                                           *)

\* The invariant: one table gives every hart an area of its own that the loop
\* _scratch_init has prepared, the boot hart goes first, and what PEI is
\* promised is there from the stage on that provides it.
THEOREM BootInvariant == Spec => []Inv
PROOF
<1> QED
  BY InitInv, NextInv, PTL DEF Spec

\* _start_warm, _hartid_to_scratch and SecPostOpenSbiPlatformFinalInit: for any
\* number of harts and any tables, the four places that compute a hart's
\* address agree, and no two harts share memory.
THEOREM ScratchAlwaysAgrees == Spec => []ScratchAgrees
PROOF
<1>1. Inv => ScratchAgrees
  <2> SUFFICES ASSUME Inv PROVE ScratchAgrees
    OBVIOUS
  <2>1. CASE fw.bootHartDone
    <3>1. Apart
      BY <2>1, AreasApart DEF Inv, TableSettled
    <3>2. \A h \in SetUp : h \in Harts /\ reg[h].scratch = ScratchTable[h] /\ reg[h].scratch # NoAddress
      BY <2>1 DEF Inv, After, SetUp
    <3>3. fw.physical \in Nat
      BY MaxHartBitsAssumption DEF Inv, Layout
    <3>4. \A h \in SetUp : reg[h].scratch \in 3..((fw.physical * StackSize) - 1)
      BY <3>1, <3>2 DEF Apart
    <3>5. \A g, h \in SetUp : g # h => Area(g) \cap Area(h) = {}
      BY <3>1, <3>2, <3>3, <3>4 DEF Apart, Area, StackSize, ScratchSize
    <3>6. \A h \in SetUp : Area(h) \subseteq 0..((fw.physical * StackSize) - 1)
      BY <3>3, <3>4 DEF Area, StackSize, ScratchSize
    <3>7. \A h \in SetUp : sbi.table[h] \in {NoAddress, reg[h].scratch}
      BY <2>1, <3>2 DEF Inv, After
    <3>8. \A h \in SetUp \cap DOMAIN context.hartSpecific :
             context.hartSpecific[h] = ContextOf(reg[h].scratch)
      BY <2>1, <3>2 DEF Inv, After
    <3>9. \A core \in cores : core.data \in {core.hart, NoHart}
      BY <2>1 DEF Inv, After
    <3> QED
      BY <3>5, <3>6, <3>7, <3>8, <3>9 DEF ScratchAgrees
  <2>2. CASE ~fw.bootHartDone
    BY <2>2 DEF Inv, Before, ScratchAgrees, SetUp
  <2> QED
    BY <2>1, <2>2
<1> QED
  BY <1>1, BootInvariant, PTL

\* _scratch_init and SecCoreStartUpWithStack: for any number of harts, whoever
\* runs C code has an area that was prepared, and enters OpenSBI through the
\* wrapper's hooks.
THEOREM AlwaysPreparedBeforeUse == Spec => []PreparedBeforeUse
PROOF
<1>1. Inv => PreparedBeforeUse
  <2> SUFFICES ASSUME Inv PROVE PreparedBeforeUse
    OBVIOUS
  <2>1. CASE fw.bootHartDone
    <3>1. Apart
      BY <2>1, AreasApart DEF Inv, TableSettled
    <3>2. \A h \in Harts : reg[h].scratch # NoAddress => Prepared(scratch[reg[h].scratch])
      BY <2>1, <3>1 DEF Inv, After, Apart
    <3>3. \A h \in Harts : pc[h] \in InSbi => reg[h].scratch # NoAddress
      BY <2>1 DEF Inv, After, Started
    <3>4. \A h \in Harts : pc[h] \in InSbi =>
             platform.ops = "edk2" /\ scratch[reg[h].scratch].arg1 # "none"
      BY DEF Inv, Order, Started, InSbi
    <3> QED
      BY <3>2, <3>3, <3>4 DEF PreparedBeforeUse, SetUp, Prepared
  <2>2. CASE ~fw.bootHartDone
    <3>1. \A h \in Harts : pc[h] \in Alone \cup {"wait"}
      BY <2>2 DEF Inv, Before, Alone
    <3> QED
      BY <2>2, <3>1 DEF Inv, Before, PreparedBeforeUse, SetUp, Alone, InSbi
  <2> QED
    BY <2>1, <2>2
<1> QED
  BY <1>1, BootInvariant, PTL

\* SecPostOpenSbiPlatformFinalInit: for any harts and device trees, PEI is
\* entered with the firmware context as its argument and a context for every
\* hart of the table, and keeps them over the migration.
THEOREM HandOffAlwaysComplete == Spec => []HandOffComplete
PROOF
<1>1. Inv => HandOffComplete
  BY DEF Inv, Promised, HandOffComplete, Cold
<1> QED
  BY <1>1, BootInvariant, PTL
=============================================================================
