------------------------------- MODULE SecBoot -------------------------------
(****************************************************************************)
(* The SEC phase of all harts, from the reset vector to PEI on the boot     *)
(* hart and to the halt on the others: SecEntry.S, SecMain.c, the OpenSBI   *)
(* hooks of Edk2OpensbiPlatformWrapperLib.c, and the first PEI module       *)
(* (PlatformPei) with the migration of the firmware context                 *)
(* (PlatformSecPpiLib.c).  Each action is what one hart does between two    *)
(* accesses of memory that the harts share.                                 *)
(*                                                                          *)
(* OpenSBI is not part of the repository: sbi_init and what follows it are  *)
(* modelled by what the hooks and the scratch fields show of them.          *)
(****************************************************************************)
EXTENDS OpensbiPlatform, SecVolumes, Integers, FiniteSets

CONSTANTS Harts,      \* the harts that come out of reset
          BootHart,   \* PcdBootHartId
          Configs,    \* what may differ from board to board, see Init
          MaxStops    \* how often the system may stop a hart (model bound)

ASSUME BootHartAssumption == BootHart \in Harts
ASSUME HartsAssumption == Harts \subseteq 0..(MaxHartBits - 1) /\ NoHart \notin Harts

\* The device tree and the board's list name harts of the machine; the device
\* tree names one at least (the loops of SecEntry.S look at the count after their
\* first turn), and the list is no longer than the table it gives.
ASSUME ConfigsAssumption ==
    \A c \in Configs :
        /\ HartIds(c.dtb) \in Seq(Harts) /\ c.bootable \in Seq(Harts)
        /\ Len(HartIds(c.dtb)) \in 1..MaxHartBits
        /\ Len(c.bootable) <= Len(HartIds(c.dtb))

VARIABLES
    config,    \* [dtb, dtbFv, peiFv, bootable, eeprom, regions]: device tree, volumes,
               \* PCDs, the board's EEPROM, whether OpenSBI takes the memory regions
    pc,        \* hart -> where it is
    reg,       \* hart -> [index, scratch]: s6 and mscratch
    platform,  \* struct sbi_platform platform
    scratch,   \* address -> struct sbi_scratch, as far as it is used
    owner,     \* address -> the hart whose context is stored there
    fw,        \* the other shared cells of the firmware
    sbi,       \* OpenSBI's own state
    context,   \* EFI_RISCV_OPENSBI_FIRMWARE_CONTEXT of the boot hart
    cores,     \* the processor HOBs that PlatformPei built
    power,     \* [clock, domains, cut]: the power chip and its bus
    stops      \* how often a hart was stopped

vars == <<config, pc, reg, platform, scratch, owner, fw, sbi, context, cores, power, stops>>

-------------------------------------------------------------------------------
(* Layout of the scratch memory, relative to PcdScratchRamBase.  Every hart *)
(* owns PcdOpenSbiStackSize: sbi_scratch on top, below it the hart's        *)
(* firmware context, below that the stack.                                  *)
ScratchSize == 1
ContextSize == 1
StackSize   == 4

NoAddress == -1

Junk == "junk"     \* an uninitialised byte of the stack

ScratchOf(index, count) == (count * StackSize) - (StackSize * index) - ScratchSize
ContextOf(address) == address - ContextSize

Addresses == 0..((MaxHartBits * StackSize) - 1)

Blank == [ready |-> FALSE, arg1 |-> "none", addr |-> NoEntry, mode |-> "none",
          warmboot |-> "none"]

NoContext == [at |-> "none", hartSpecific |-> [h \in {} |-> NoAddress],
              deviceTree |-> "none", handOff |-> "none"]

Init ==
    /\ config \in Configs
    /\ pc = [h \in Harts |-> "entry"]
    /\ reg = [h \in Harts |-> [index |-> -1, scratch |-> NoAddress]]
    /\ platform = StaticPlatform
    /\ scratch = [a \in Addresses |-> Blank]
    /\ owner = [a \in Addresses |-> NoHart]
    /\ fw = [bootHartDone |-> FALSE,     \* _boot_hart_done of SecEntry.S
             physical |-> 0,             \* _physical_hart_count
             next |-> 0,                 \* t1 of the loop _scratch_init
             BootHartDone |-> FALSE,     \* SecMain.c
             messageLock |-> FALSE,      \* NonBootHartMessageLock
             extension |-> FALSE,        \* FirmwareEcall is registered
             memory |-> [base |-> Junk, size |-> Junk]]   \* what PlatformPei published
    /\ sbi = [lottery |-> FALSE, cold |-> NoHart, done |-> FALSE, regions |-> FALSE,
              table |-> [h \in Harts |-> NoAddress]]
    /\ context = NoContext
    /\ cores = {}
    /\ power = [clock |-> FALSE, domains |-> "on", cut |-> FALSE]
    /\ stops = 0

Goto(h, label) == pc' = [pc EXCEPT ![h] = label]

(* GetDeviceTreeAddress: "none" is NULL.                                    *)
GetDeviceTreeAddress ==
    IF IsFound(FindFfsFileAndSection(config.dtbFv, "FREEFORM", "RAW"))
    THEN "dtb" ELSE "none"

-------------------------------------------------------------------------------
(* SecEntry.S *)

Entry(h) ==
    /\ pc[h] = "entry"
    /\ Goto(h, IF h = BootHart THEN "fw_init" ELSE "wait")
    /\ UNCHANGED <<config, reg, platform, scratch, owner, fw, sbi, context, cores, power, stops>>

(* The boot hart calls fw_platform_init if there is a device tree, and      *)
(* keeps the number of harts it found.                                      *)
FwInit(h) ==
    /\ pc[h] = "fw_init"
    /\ LET known == GetDeviceTreeAddress # "none"
           p     == IF known THEN FwPlatformInit(platform, config.dtb) ELSE platform
       IN IF known /\ InitFails(config.dtb)
          THEN Goto(h, "wfi") /\ UNCHANGED <<platform, fw>>
          ELSE /\ platform' = p
               /\ fw' = [fw EXCEPT !.physical = p.hart_count, !.next = 0]
               /\ Goto(h, "scratch_init")
    /\ UNCHANGED <<config, reg, scratch, owner, sbi, context, cores, power, stops>>

\* Mutant: the loop leaves out the last hart.
ScratchInitOneShort(h) ==
    /\ pc[h] = "scratch_init"
    /\ scratch' = [scratch EXCEPT ![ScratchOf(fw.next, fw.physical)] =
                      [ready |-> TRUE, arg1 |-> @.arg1, addr |-> <<"sec_core">>,
                       mode |-> "S", warmboot |-> "warm"]]
    /\ fw' = [fw EXCEPT !.next = @ + 1]
    /\ Goto(h, IF fw.next + 2 < fw.physical THEN "scratch_init" ELSE "index2id")
    /\ UNCHANGED <<config, reg, platform, owner, sbi, context, cores, power, stops>>

(* One turn of _scratch_init.                                               *)
ScratchInit(h) ==
    /\ pc[h] = "scratch_init"
    /\ scratch' = [scratch EXCEPT ![ScratchOf(fw.next, fw.physical)] =
                      [ready |-> TRUE, arg1 |-> @.arg1, addr |-> <<"sec_core">>,
                       mode |-> "S", warmboot |-> "warm"]]
    /\ fw' = [fw EXCEPT !.next = @ + 1]
    /\ Goto(h, IF fw.next + 1 < fw.physical THEN "scratch_init" ELSE "index2id")
    /\ UNCHANGED <<config, reg, platform, owner, sbi, context, cores, power, stops>>

(* The temporary memory is cleared, the table of harts is replaced by the   *)
(* board's.                                                                 *)
OverwriteHartTable(h) ==
    /\ pc[h] = "index2id"
    /\ platform' = Edk2PlatformHartIndex2Id(platform, config.bootable)
    /\ Goto(h, "flag")
    /\ UNCHANGED <<config, reg, scratch, owner, fw, sbi, context, cores, power, stops>>

ReleaseHarts(h) ==
    /\ pc[h] = "flag"
    /\ fw' = [fw EXCEPT !.bootHartDone = TRUE]
    /\ Goto(h, "wait")
    /\ UNCHANGED <<config, reg, platform, scratch, owner, sbi, context, cores, power, stops>>

(* _wait_for_boot_hart and _start_warm: the index of the hart is its place  *)
(* in the table; a hart that is not there gets the largest unsigned number  *)
(* and waits for ever.                                                      *)
BootableCount == IF config.bootable # <<>> THEN Len(config.bootable)
                 ELSE platform.hart_count

IndexOf(h, count) ==
    FirstAt(SubSeq(platform.hart_index2id, 1, count), LAMBDA id : id = h) - 1

HartIndex(h) == IndexOf(h, BootableCount)

StartWarm(h) ==
    /\ pc[h] = "warm" \/ (pc[h] = "wait" /\ fw.bootHartDone)
    /\ LET index == HartIndex(h) IN
       IF index = -1
       THEN Goto(h, "uninitialized") /\ UNCHANGED reg
       ELSE /\ reg' = [reg EXCEPT ![h] =
                          [index |-> index, scratch |-> ScratchOf(index, fw.physical)]]
            /\ Goto(h, "sec_core")
    /\ UNCHANGED <<config, platform, scratch, owner, fw, sbi, context, cores, power, stops>>

\* Mutant: the areas are counted by the table of bootable harts.
HartidToScratchBootable(index) == ScratchOf(index, platform.hart_count)

(* _hartid_to_scratch: what OpenSBI is told about the hart with an index.   *)
HartidToScratch(index) == ScratchOf(index, fw.physical)

-------------------------------------------------------------------------------
(* SecCoreStartUpWithStack *)

(* The hart's firmware context is filled, the hooks of the wrapper replace  *)
(* the generic ones, the device tree is the argument of the next phase.     *)
(* Without one the boot hart asserts.                                       *)
SecCoreStartUpWithStack(h) ==
    /\ pc[h] = "sec_core"
    /\ owner' = [owner EXCEPT ![ContextOf(reg[h].scratch)] = h]
    /\ platform' = [platform EXCEPT !.ops = "edk2"]
    /\ \E tree \in {GetDeviceTreeAddress} :
           /\ scratch' = [scratch EXCEPT ![reg[h].scratch].arg1 = tree]
           /\ Goto(h, IF h # BootHart THEN "spin"
                      ELSE IF tree = "none" THEN "assert" ELSE "launch")
    /\ UNCHANGED <<config, reg, fw, sbi, context, cores, power, stops>>

(* LaunchPeiCore: RegisterFirmwareSbiExtension, then PeiCore.               *)
LaunchPeiCore(h) ==
    /\ pc[h] = "launch"
    /\ IF fw.extension
       THEN Goto(h, "assert") /\ UNCHANGED <<platform, scratch, fw, context>>
       ELSE /\ fw' = [fw EXCEPT !.extension = TRUE]
            /\ platform' = [platform EXCEPT !.firmware_context = TRUE]
            /\ context' = [at |-> "temporary", hartSpecific |-> [x \in {} |-> NoAddress],
                           deviceTree |-> scratch[reg[h].scratch].arg1,
                           handOff |-> "temporary"]
            /\ scratch' = [scratch EXCEPT
                              ![reg[h].scratch].addr = FindAndReportEntryPoints(config.peiFv),
                              ![reg[h].scratch].mode = "S"]
            /\ Goto(h, "sbi_init")
    /\ UNCHANGED <<config, reg, owner, sbi, cores, power, stops>>

SpinOnBootHart(h) ==
    /\ pc[h] = "spin"
    /\ fw.BootHartDone
    /\ Goto(h, "xchg")
    /\ UNCHANGED <<config, reg, platform, scratch, owner, fw, sbi, context, cores, power, stops>>

TakeMessageLock(h) ==
    /\ pc[h] = "xchg"
    /\ ~fw.messageLock
    /\ fw' = [fw EXCEPT !.messageLock = TRUE]
    /\ Goto(h, "message")
    /\ UNCHANGED <<config, reg, platform, scratch, owner, sbi, context, cores, power, stops>>

\* Mutant: the lock is not released.
MessageKeepsLock(h) ==
    /\ pc[h] = "message"
    /\ IF scratch[reg[h].scratch].arg1 = "none"
       THEN Goto(h, "assert") /\ UNCHANGED <<fw, scratch>>
       ELSE /\ scratch' = [scratch EXCEPT ![reg[h].scratch].mode = "S"]
            /\ Goto(h, "sbi_init")
            /\ UNCHANGED fw
    /\ UNCHANGED <<config, reg, platform, owner, sbi, context, cores, power, stops>>

(* The message, the assertion on the device tree, the release, and the mode *)
(* of the next phase.                                                       *)
Message(h) ==
    /\ pc[h] = "message"
    /\ IF scratch[reg[h].scratch].arg1 = "none"
       THEN Goto(h, "assert") /\ UNCHANGED <<fw, scratch>>
       ELSE /\ fw' = [fw EXCEPT !.messageLock = FALSE]
            /\ scratch' = [scratch EXCEPT ![reg[h].scratch].mode = "S"]
            /\ Goto(h, "sbi_init")
    /\ UNCHANGED <<config, reg, platform, owner, sbi, context, cores, power, stops>>

-------------------------------------------------------------------------------
(* OpenSBI: the first hart that is allowed to boots cold, and calls the     *)
(* hooks; the others wait until it is done.                                 *)

SbiInit(h) ==
    /\ pc[h] = "sbi_init"
    /\ IF ColdBootAllowed(platform, h) /\ ~sbi.lottery
       THEN sbi' = [sbi EXCEPT !.lottery = TRUE, !.cold = h] /\ Goto(h, "cold")
       ELSE Goto(h, "warm_init") /\ UNCHANGED sbi
    /\ UNCHANGED <<config, reg, platform, scratch, owner, fw, context, cores, power, stops>>

(* OpenSBI asks _hartid_to_scratch for every hart of the platform table.    *)
ScratchTable ==
    [h \in Harts |-> LET index == IndexOf(h, platform.hart_count)
                     IN IF index = -1 THEN NoAddress ELSE HartidToScratch(index)]

ColdScratch(h) ==
    /\ pc[h] = "cold"
    /\ sbi' = [sbi EXCEPT !.table = ScratchTable]
    /\ Goto(h, "early_init")
    /\ UNCHANGED <<config, reg, platform, scratch, owner, fw, context, cores, power, stops>>

(* Edk2OpensbiPlatformEarlyInit: no override has an early_init, the memory  *)
(* regions are added and the other harts may go on.  The last region that   *)
(* OpenSBI refuses is an assertion.                                         *)
EarlyInit(h) ==
    /\ pc[h] = "early_init"
    /\ IF config.regions
       THEN /\ sbi' = [sbi EXCEPT !.regions = TRUE]
            /\ fw' = [fw EXCEPT !.BootHartDone = TRUE]
            /\ Goto(h, "final_init")
       ELSE Goto(h, "assert") /\ UNCHANGED <<sbi, fw>>
    /\ UNCHANGED <<config, reg, platform, scratch, owner, context, cores, power, stops>>

\* Mutant: the argument of PEI is left at the device tree.
PublishContextsOnly(h) ==
    /\ context' = [context EXCEPT !.hartSpecific =
                      [x \in {y \in PlatformHarts(platform) \cap Harts : sbi.table[y] # NoAddress}
                          |-> ContextOf(sbi.table[x])]]
    /\ UNCHANGED scratch

(* SecPostOpenSbiPlatformFinalInit publishes the contexts of all harts of   *)
(* the table and makes the firmware context the argument of PEI.            *)
PublishContexts(h) ==
    /\ context' = [context EXCEPT !.hartSpecific =
                      [x \in {y \in PlatformHarts(platform) \cap Harts : sbi.table[y] # NoAddress}
                          |-> ContextOf(sbi.table[x])]]
    /\ scratch' = [scratch EXCEPT ![reg[h].scratch].arg1 = "context"]

(* Edk2OpensbiPlatformFinalInit; OpenSBI hangs the hart on an error.        *)
FinalInit(h) ==
    /\ pc[h] = "final_init"
    /\ IF GenericFinalInitFails(platform, config.dtb)
       THEN Goto(h, "hang") /\ UNCHANGED <<platform, scratch, context>>
       ELSE /\ platform' = GenericFinalInit(platform, config.dtb)
            /\ PublishContexts(h)
            /\ Goto(h, "switch")
    /\ UNCHANGED <<config, reg, owner, fw, sbi, cores, power, stops>>

(* The harts that wait are woken and the next phase is entered.             *)
SwitchMode(h) ==
    /\ pc[h] = "switch"
    /\ sbi' = [sbi EXCEPT !.done = TRUE]
    /\ Goto(h, IF IsFound(scratch[reg[h].scratch].addr) THEN "pei" ELSE "lost")
    /\ UNCHANGED <<config, reg, platform, scratch, owner, fw, context, cores, power, stops>>

WarmInit(h) ==
    /\ pc[h] = "warm_init"
    /\ sbi.done
    /\ Goto(h, "halted")
    /\ UNCHANGED <<config, reg, platform, scratch, owner, fw, sbi, context, cores, power, stops>>

(* The running system starts a halted hart and stops it again: OpenSBI      *)
(* sends it to the warm boot address of its scratch.                        *)
RestartHart(h) ==
    /\ pc[h] = "halted"
    /\ pc[BootHart] = "dxe"
    /\ stops < MaxStops
    /\ stops' = stops + 1
    /\ Goto(h, scratch[reg[h].scratch].warmboot)
    /\ UNCHANGED <<config, reg, platform, scratch, owner, fw, sbi, context, cores, power>>

-------------------------------------------------------------------------------
(* The I2C library that PEI reads the board's EEPROM with (DwI2cLib.c), as  *)
(* the set of results that a read can have.  The EEPROM is external: it     *)
(* answers from where its own address pointer stands, and any wait may end  *)
(* in a timeout.                                                            *)
(*                                                                          *)
(*   eeprom == [cells : Seq, pointer : Nat]                                 *)
(*   result == [status, bytes : Seq]      what arrived before the read left *)

(* The byte that the EEPROM sends as the k-th of a transfer; it starts over *)
(* behind its last cell.                                                    *)
EepromByte(eeprom, k) ==
    eeprom.cells[((eeprom.pointer + k - 1) % Len(eeprom.cells)) + 1]

EepromBytes(eeprom, n) == [k \in 1..n |-> EepromByte(eeprom, k)]

(* I2cProbe: a controller without a base is refused, otherwise I2cInit      *)
(* always succeeds: the timeouts of I2cEnable are not reported.             *)
I2cProbe(base) == IF base THEN "success" ELSE "invalid_parameter"

(* I2c_Wait_For_BB: the bus becomes idle, or 32 ms pass.                    *)
WaitForBusBusy == {"success", "timeout"}

(* The loop of I2cRead: one command per byte, each answered in time or not; *)
(* the bytes before a timeout have arrived.                                 *)
BytesRead(eeprom, length) ==
    {[status |-> "success", bytes |-> EepromBytes(eeprom, length)]} \cup
    {[status |-> "timeout", bytes |-> EepromBytes(eeprom, n)] : n \in 0..(length - 1)}

(* I2cRead: idle bus, bytes, stop condition (its timeout only leaves the    *)
(* wait), idle bus.  BufCmd and CmdLength are not used: no address is sent. *)
I2cRead(eeprom, length) ==
    {[status |-> "timeout", bytes |-> <<>>] : s \in WaitForBusBusy \ {"success"}} \cup
    {r \in BytesRead(eeprom, length) : r.status # "success"} \cup
    {[status |-> s, bytes |-> r.bytes] :
        s \in WaitForBusBusy, r \in {x \in BytesRead(eeprom, length) : x.status = "success"}}

-------------------------------------------------------------------------------
(* PEI on the boot hart. *)

(* The byte of ReadTemp that holds the memory size, and the size of a read. *)
DdrInfoOffset == 2
EepromLength  == 3

(* GetBaseAddress: the controller comes from the alias i2c5, and without it *)
(* the function is left before it looks for the memory; the base of that    *)
(* comes from the first memory node.                                        *)
GetBaseAddress == [i2c |-> config.dtb.i2c,
                   memory |-> IF config.dtb.i2c /\ config.dtb.memory THEN "dram" ELSE Junk]

(* I2cRead through a controller without a base: the registers are those     *)
(* that lie at address 0, where an access may fault or give anything.       *)
ReadsAtZero ==
    {[status |-> "fault", bytes |-> <<>>]} \cup
    {[status |-> s, bytes |-> [k \in 1..n |-> Junk]] :
        s \in {"success", "timeout"}, n \in 0..EepromLength}

(* DetectMem: neither the status of the probe nor that of the read is       *)
(* looked at.                                                               *)
ReadTemps ==
    IF I2cProbe(GetBaseAddress.i2c) = "success" THEN I2cRead(config.eeprom, EepromLength)
    ELSE ReadsAtZero

DetectMem(read) ==
    [base |-> GetBaseAddress.memory,
     size |-> IF DdrInfoOffset \in DOMAIN read.bytes THEN read.bytes[DdrInfoOffset] ELSE Junk]

(* What PublishPeiMemory should find: the memory node, and the size in the  *)
(* EEPROM's own cell.                                                       *)
RealMemory == [base |-> "dram", size |-> config.eeprom.cells[DdrInfoOffset]]

(* CreateU5MCCoreplexProcessorSpecificDataHob: one HOB for every core whose *)
(* context was published, a copy of what is in the context now.             *)
CoreHobs == {[hart |-> x, data |-> owner[context.hartSpecific[x]]] :
                 x \in Harts \cap DOMAIN context.hartSpecific}

(* InitializePlatform: the memory is published and described, the DXE       *)
(* volume and the processor HOBs follow.                                    *)
InitializePlatform(h) ==
    /\ pc[h] = "pei"
    /\ \E read \in ReadTemps :
           IF read.status = "fault"
           THEN Goto(h, "fault") /\ UNCHANGED <<fw, cores>>
           ELSE /\ fw' = [fw EXCEPT !.memory = DetectMem(read)]
                /\ cores' = CoreHobs
                /\ Goto(h, "migrate")
    /\ UNCHANGED <<config, reg, platform, scratch, owner, sbi, context, power, stops>>

(* TemporaryRamMigration: heap and stack are copied, the pointer to the     *)
(* firmware context and its service table move with the stack; the hand-off *)
(* data is not repaired.  What was published may not be memory: the copy    *)
(* may then fault.                                                          *)
TemporaryRamMigration(h) ==
    /\ pc[h] = "migrate"
    /\ \/ Goto(h, "dxe") /\ context' = [context EXCEPT !.at = "permanent"]
       \/ fw.memory # RealMemory /\ Goto(h, "fault") /\ UNCHANGED context
    /\ UNCHANGED <<config, reg, platform, scratch, owner, fw, sbi, cores, stops, power>>

-------------------------------------------------------------------------------
(* pm_system_reset of StarFiveJH7110.c, called by the running system. *)

SystemReset(h) ==
    /\ h = BootHart
    /\ pc[h] = "dxe"
    /\ power' = [power EXCEPT !.clock = platform.reset]
    /\ Goto(h, IF platform.reset THEN "domains" ELSE "hang")
    /\ UNCHANGED <<config, reg, platform, scratch, owner, fw, sbi, context, cores, stops>>

(* shutdown_device_power_domain: the devices are switched off, unless they  *)
(* are; a domain that does not follow in time ends the reset.               *)
ShutdownDomains(h) ==
    /\ pc[h] = "domains"
    /\ \E off \in {power.domains = "off", TRUE} :
           /\ power' = [power EXCEPT !.domains = IF off THEN "off" ELSE @]
           /\ Goto(h, IF off THEN "pmic" ELSE "hang")
    /\ UNCHANGED <<config, reg, platform, scratch, owner, fw, sbi, context, cores, stops>>

(* pmic_ops: the power register is read and written, if it can be read.     *)
WritePmic(h) ==
    /\ pc[h] = "pmic"
    /\ \E read \in BOOLEAN : power' = [power EXCEPT !.cut = read]
    /\ Goto(h, "hang")
    /\ UNCHANGED <<config, reg, platform, scratch, owner, fw, sbi, context, cores, stops>>

-------------------------------------------------------------------------------
Step(h) ==
    \/ Entry(h) \/ FwInit(h) \/ ScratchInit(h) \/ OverwriteHartTable(h)
    \/ ReleaseHarts(h) \/ StartWarm(h)
    \/ SecCoreStartUpWithStack(h) \/ LaunchPeiCore(h)
    \/ SpinOnBootHart(h) \/ TakeMessageLock(h) \/ Message(h)
    \/ SbiInit(h) \/ ColdScratch(h) \/ EarlyInit(h) \/ FinalInit(h)
    \/ SwitchMode(h) \/ WarmInit(h)
    \/ InitializePlatform(h) \/ TemporaryRamMigration(h)
    \/ ShutdownDomains(h) \/ WritePmic(h)

Next == \E h \in Harts : Step(h) \/ RestartHart(h) \/ SystemReset(h)

(* Every hart is a processor of its own; what the running system asks for   *)
(* need not happen.                                                         *)
Spec == Init /\ [][Next]_vars /\ \A h \in Harts : WF_vars(Step(h))

-------------------------------------------------------------------------------
(* Properties *)

SetUp == {h \in Harts : reg[h].scratch # NoAddress}

Area(h) == (reg[h].scratch + ScratchSize - StackSize)..(reg[h].scratch + ScratchSize - 1)

(* The harts keep out of each other's memory: the areas of the harts that   *)
(* have set up their registers are disjoint and inside the memory reserved  *)
(* for the harts of the machine; OpenSBI's own table of scratch areas and   *)
(* the contexts published to PEI are those that the harts themselves use,   *)
(* and a processor HOB never describes another hart.  The address is        *)
(* computed at four places, from two hart counts and two tables.            *)
ScratchAgrees ==
    /\ \A g, h \in SetUp : g # h => Area(g) \cap Area(h) = {}
    /\ \A h \in SetUp : Area(h) \subseteq 0..((fw.physical * StackSize) - 1)
    /\ \A h \in SetUp : sbi.table[h] \in {NoAddress, reg[h].scratch}
    /\ \A h \in SetUp \cap DOMAIN context.hartSpecific :
           context.hartSpecific[h] = ContextOf(reg[h].scratch)
    /\ \A core \in cores : core.data \in {core.hart, NoHart}

InSbi == {"sbi_init", "warm_init", "halted", "cold", "early_init", "final_init",
          "switch", "pei", "migrate", "dxe"}

(* A hart that runs C code has a scratch area that was prepared, OpenSBI is *)
(* only entered through the wrapper's hooks and with a mode for the next    *)
(* phase.                                                                   *)
PreparedBeforeUse ==
    /\ \A h \in SetUp : scratch[reg[h].scratch].ready
    /\ \A h \in Harts : pc[h] \in InSbi =>
           /\ platform.ops = "edk2"
           /\ scratch[reg[h].scratch].mode = "S"
           /\ scratch[reg[h].scratch].arg1 # "none"

(* PEI is entered at the entry of a PEI core with the firmware context as   *)
(* its argument, which knows the device tree, the hand-off data and a       *)
(* context for every hart that the platform boots; it keeps them over the   *)
(* migration to permanent memory.                                           *)
HandOffComplete ==
    pc[BootHart] \in {"pei", "migrate", "dxe"} =>
        /\ scratch[reg[BootHart].scratch].arg1 = "context"
        /\ IsFound(scratch[reg[BootHart].scratch].addr)
        /\ context.deviceTree = "dtb"
        /\ context.handOff # "none"
        /\ DOMAIN context.hartSpecific = PlatformHarts(platform)
        /\ context.at = (IF pc[BootHart] = "dxe" THEN "permanent" ELSE "temporary")

(* The board can boot: its device tree and its volumes are complete, and    *)
(* the EEPROM stands at its first cell.                                     *)
Bootable ==
    /\ GetDeviceTreeAddress = "dtb" /\ ~InitFails(config.dtb)
    /\ IsFound(FindPeiCoreImageBaseInFv(config.peiFv))
    /\ config.dtb.bootHart \in {NoHart, BootHart} /\ config.regions
    /\ ~GenericFinalInitFails(LookupSpecial(platform, config.dtb), config.dtb)
    /\ config.dtb.i2c /\ config.dtb.memory /\ config.eeprom.pointer = 0

(* A board that can boot does: the boot hart knows the memory and reaches   *)
(* DXE, the other harts of the table halt where the system can start them,  *)
(* and the rest waits for ever.  A read of the EEPROM that times out before *)
(* the byte of the size has come leaves the size to chance (DetectMem does  *)
(* not look at the status); then nothing is said of the boot hart.          *)
BootsUp ==
    Bootable ~> /\ \/ fw.memory = RealMemory /\ pc[BootHart] \in {"dxe", "domains", "pmic", "hang"}
                   \/ fw.memory = [RealMemory EXCEPT !.size = Junk]
                /\ \A h \in Harts \ {BootHart} :
                       pc[h] = IF h \in PlatformHarts(platform) THEN "halted"
                               ELSE "uninitialized"

===============================================================================
