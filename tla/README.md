# A verification project for SelfPlatformsPkg

SelfPlatformsPkg is firmware for RISC-V boards (StarFive JH7110) in the EDK II
style: it carries its own copy of the PEI core and of the PCI bus driver, the
RISC-V processor, SEC and platform modules, and the drivers of the board (SPI
flash, eMMC, I2C, PCIe). This directory holds TLA+ models of the parts of it
that decide something, TLC configurations that check them, and proofs.

All paths below are relative to `src/`. `Pei/` abbreviates
`MdeMoudulePkg/Core/Pei/` (the directory is spelled that way).

## 1. Inventory

| Component | State it keeps | Operations | What makes it correct |
|---|---|---|---|
| PPI database `Pei/Ppi/Ppi.c` | arrays of PPI, callback and dispatch descriptors, their counts and last dispatched counts | install, reinstall, notify, locate, dispatch of notifications | everybody who asked is told of everything, once, whatever notifications do inside |
| Dispatcher `Pei/Dispatcher/Dispatcher.c`, `Pei/PeiMain/PeiMain.c` | `PeimState[]` of each volume, cursors, Apriori count, the flags of a pass, the reentry flag | passes over the volumes, loading and entering PEIMs, opening images, stack switch, shadowing | nobody is left behind who could run, nobody runs twice, memory found is used, it ends |
| Delayed dispatch `Pei/Dispatcher/Dispatcher.c:107-379` | a table of functions with their times | register, wait for a group, a cycle, end of PEI | the table loses and doubles no entry, a wait lasts as long as its group, PEI ends |
| Firmware volumes `Pei/FwVol` | `Fv[]`, `UnknownFvInfo[]` | volume information notifications, images, volumes of foreign formats, reading of files | every volume is known once and processed when its format can be |
| Dependency expressions `Pei/Dependency` | a stack | evaluation | postfix evaluation, bounded stack |
| Images and security `Pei/Image`, `Pei/Security` | the security PPI | load, verify | nothing unverified is entered |
| Memory services and HOBs `Pei/Memory`, `Pei/Hob` | HOB list, the free memory between it and the top, memory allocation HOBs | allocate and free pages and pool, migration | allocations never overlap and tile their memory |
| PCI bus driver `MdeMoudulePkg/Bus/Pci/PciBusDxe` | tree of bridges and devices, resource nodes, attributes | bus numbers, apertures, start and stop, option ROMs, hot plug | bus ranges nest, resources do not overlap and lie in their bridge |
| MMC bus driver and eMMC host `EmbeddedPkg/Universal/MmcDxe`, `Silicon/Synopsys/DesignWare/Drivers/DwEmmcDxe` | card state, host state, media | identification, block transfers, commands | commands in the states the card is in; every transfer ends |
| SPI flash, FVB drivers `Silicon/StarFive/JH7110/Driver/Spi`, `.../RamFvbServicesRuntimeDxe` | flash contents, RAM copy | read, erase, write blocks | what is written is read back, and survives a crash or not at all |
| I2C, PCI host bridge and segment libraries | controller registers | transfers, link training, configuration access | polling ends, the bus is left free |
| Timers, CPU drivers | period, notify function, interrupt state | set the period, register handlers, tick | nobody is told after unregistering; ticks are not lost |
| SEC and platform PEI `Platform/RISC-V/PlatformPkg` | hart states, handoff data | start of the harts, handoff | one boot hart; the others wait until they are started |
| Default services, board libraries, libfdt | none of their own, or vendored | forwarding, tables | not modelled |

How they interact: the dispatcher calls PEIMs; PEIMs call the services, which
are the other parts of the core; services call notifications, which call
services. All of the PEI core runs on one hart and nothing preempts it, but
none of its operations is atomic: each may be entered again from below itself.
Those reentries, the tables that change under the loops that walk them, and
the restart of the core on a new stack in the middle of a pass are what is
hard here. In DXE the drivers add timers, events and devices that answer late
or not at all; a bus driver writes registers that decide who answers while it is
reading them; a flash keeps what a crash left. In SEC several harts run at once.

`PROJECT.json` lists the hazards with their lines and the properties that
would catch them, those no property covers with the reason.

## 2. The modules

| Module | Models | Run |
|---|---|---|
| `PpiDatabase` | `Pei/Ppi/Ppi.c`: install, reinstall, notify, the two kinds of notification | `ppi_database` |
| `PpiPromise` | the abstract specification `PpiDatabase` implements | (a property of `ppi_database`) |
| `PpiDatabaseProofs` | proofs | |
| `PeiDispatcher` | `PeiDispatcher()` and the code it relies on | `dispatcher` |
| `PeiDispatcherProofs` | proofs | |
| `DelayedDispatch` | the delayed dispatch table | `delayed_dispatch` |
| `CpuTimer` | the timer of the DXE phase and the trap handler its interrupt comes through | `delayed_dispatch` |
| `FirmwareClock` | the delayed functions of PEI, then the timer of DXE, on the same counter | `delayed_dispatch` |
| `FirmwareClockProofs` | proofs, also of `DelayedDispatch` | |
| `PeiMemory` | page allocation, memory allocation HOBs, the move to permanent memory | `memory` |
| `PageStore` | the abstract specification `PeiMemory` implements | (a property of `memory`) |
| `PeiMemoryProofs` | proofs | |
| `PeiMigration` | the restart of the core in permanent memory: its copies and the conversion of every pointer | `pei_migration` |
| `LoadFixAddress` | the hook for fixed loading addresses (extended by `PeiMigration`) | `pei_migration` |
| `FirmwareVolumes` | how volumes become known: images, foreign formats, the dispatcher's walks | `volumes` |
| `FfsFiles` | the search for files and sections with its cache (extended by `FirmwareVolumes`) | `volumes` |
| `Depex` | dependency expressions (extended by `FirmwareVolumes`) | `volumes` |
| `PciBusNumbers` | the scan that numbers the buses, hot plug controllers, hot plug | `pci_bus_numbers` |
| `PciConfigHeader` | what the registers of a function say, and what the driver makes of it | `pci_resources` |
| `PciResources` | the allocation of resources, its rounds, programming, hot plug | `pci_resources` |
| `PciAttributes` | `EFI_PCI_IO_PROTOCOL.Attributes` behind bridges | `pci_devices` |
| `PciDevices` | registration, start, stop, removal (extends `PciAttributes`) | `pci_devices` |
| `PciDevicesProofs` | proofs | |
| `MmcCard` | the card, external: what the driver relies on | `mmc` |
| `MmcDxe` | the MMC bus driver on the DesignWare eMMC host | `mmc` |
| `MmcDxeProofs` | proofs | |
| `SpiMaster` | the flash chip (external), the SPI controller, calibration and flash commands | `nv_storage` |
| `FvbDxe` | the volume in the flash and its copy in RAM | `nv_storage` |
| `RamFvb` | the volume in RAM | `nv_storage` |
| `NvStorage` | both drivers together | `nv_storage` |
| `NvStorageProofs` | proofs | |
| `SecBoot` | the harts from reset to the DXE phase, with the read of the board's EEPROM | `sec_boot` |
| `SecBootProofs` | proofs | |
| `OpensbiPlatform` | the hooks OpenSBI calls (extended by `SecBoot`) | `sec_boot` |
| `SecVolumes` | the search for the PEI core's entry | `sec_boot` |
| `MC...` | small instances for TLC, one for each run whose constants are not plain values | |

### PpiDatabase

`ppiPtrs`, `ppiCount`, `ppiLast` are `PpiList`; `notifyPtrs`, `notifyCount` the
two notify lists, `notifyLast` the last dispatched count of the dispatch list.
`stack` holds the calls of `ProcessNotify` in progress with their local
variables: a notification runs inside the service that triggered it and may
use every service, to any depth. `control` says where the code under the stack
is: in a PEIM, in one of the two inner loops of `ProcessDispatchNotifyList`, or
back in the dispatcher. A list with a bad descriptor is rolled back the way
the code does it, by resetting counts after slots were written.

The bounds are `MaxPpis`, `MaxNotifies` (slots), and `MaxReinstalls`. Three PPI
slots and two slots at each notify level let a notification install and
register inside a notification and still leave a pair to be missed or doubled.

### PeiDispatcher

The variables carry the names of the fields of `PEI_CORE_INSTANCE`. `pc` is the
place in `PeiDispatcher()`; one action stands for each branch between two
calls. PEIMs, shadow entries, notifications and delayed functions are the
environment: while one of them runs (`pc = "code"`) it may use the services
that `Does` allows it, any number of times and in any order. What a file needs
to be loaded (`NeedsToLoad`), to be verified (`NeedsToVerify`) and to be
dispatched (`Depex`) is a condition on the PPI database. A volume image adds
its volume to `Fv[]` with the images inside it (`opening`: the loop of
`FirmwareVolumeInfoPpiNotifyCallback`). The stack switch is the one action
`SwitchStack`: the core comes back to `PeiDispatcher` with
`PeimDispatcherReenter` set and the Memory Discovered PPI installed. Callback
notifications count as part of the code that installed the PPI; those of
`PpiDatabase` at the dispatch level are called by `DispatchNotify`.

`MCPeiDispatcher` is a platform made so that the hard cases meet: three volumes
(one inside an image in two volumes, one reported by a notification), eight
files of which some are named in the Apriori file, compressed, signed, or wait
for a PPI or for memory, memory that may be found by a PEIM, by a notification
or not at all, and a delayed function that installs a PPI. A registration with
delay 0 calls the function at once, and those whose time has come, inside the
code that made it (`Early`); the table has one place, so that a registration may
be refused (`TableFull`). What becomes of the table then is `DelayedDispatch`'s.
On it the run shows what its properties say. Three environments the code does not
exclude are left out of that platform, because in them it does not do what its
comments say (section 5): no PEIM waits for what the delayed function installs,
no file of the Apriori list is signed, and the delayed function does not find
the memory.

### DelayedDispatch

`entries` and `count` are the table, with the slots behind `Count` as they were
left; `stack` holds the calls of `DelayedDispatchDispatcher` in progress with
`Index1`, `DelayedGroupIdPresent` and `MaxDispatchTime`. `Entry` is an address
in C, so it is the slot in the model: after a function returned, the slot is
used, whatever is in it then. A delayed function may itself register another
with delay 0 or wait for a group: then the dispatcher runs again inside the
call, finds the entry of the function expired, calls it again and deletes it,
and the pointer of the outer call points to something else (section 5). `kept`
in the frame of a call is history: no cycle nested in it has deleted the entry
it stands at, or one before. `EntryStays` and `NobodySkipped` speak of the calls
for which that is so, whatever else is registered, called and deleted inside
them. If `Count` wraps or `CopyMem` is given a length below zero, what follows
is undefined (`corrupt`) and the model stops there.

The bounds: two slots and three requests (so that the table can be full),
delays up to 2, calls three deep (`MaxDepth`), `MaxTime` 4, nobody asks for a
delay after `LastRequest` 2 so that every time asked for is reached. Time may
pass between any two steps. The
time of the code wraps after 71 minutes because `GET_TIME_IN_US` is cut to 32
bits; the model's does not, see the hazard at `PeiMain.h:231`.

### CpuTimer, FirmwareClock

`mtime` is the counter, `timer` the three variables of `Timer.c`, `hart` the
registers that decide whether an interrupt is taken and where it returns to
(`sstatus.SIE`, the timer's bit of `sie`, the time it compares with, `sepc`),
and `running` the calls of `SetTimerPeriod` and the traps in progress, each with
what `SupervisorModeTrap` saved on the stack. `heard` is a history: what the
DXE core was told since it registered, kept until the period is set to 0. The
DXE core is external and does what its services are documented to: it registers
its handler, masks interrupts at the highest TPL, turns them on and runs events
when the TPL is restored inside the handler (so that traps nest), and sets the
period to 0 at the end of boot services.

The counter runs at 4 MHz and the period is 1.5 us, which the driver cuts to 1,
so that both divisions of the code round. `LastTick` 14 is a little over three
periods, `TrapDepth` 3 lets a nested trap be interrupted itself. A trap that is
taken between the return of `sepc` and `sret` has overwritten it (`Astray`), and
the hart stops there. `FirmwareClock` starts the timer when PEI has ended, whose
table goes with its memory. Only `UefiCpuPkg/CpuTimerDxeRiscV64` is modelled, the
driver of both boards. No fairness: `TimeAddsUp` is safety. Not modelled: the
registration of exception handlers, and the services of `CpuDxe` that change no
state.

### PeiMemory

`hobs` is the HOB list, `freeMemoryTop` and `freePhysicalTop` the two tops that
`PeiAllocatePages` works on, `UsesPhysical` the time between `InstallPeiMemory`
and the stack switch, when pages come from permanent memory while the HOB list
still lies in temporary memory. A request that fits below the top, and the
first part of `PeiFreePages`, are one action each; the search through the HOBs,
the passes that merge free HOBs and the repeated `FreeMemoryAllocationHob` are
steps (`pc`), because the code calls itself there. `SwitchStack` is the whole
change: the stack's HOB, `MigrateMemoryPages`, the new handoff table and
`ConvertMemoryAllocationHobs`; it is taken when what the code asserts of the
room for it holds. Addresses are pages and the room for HOBs is counted in
HOBs. If there is no room for a HOB the code goes on without it; `lost` keeps
those pages. `held` and `slack` (rounding, and the stack) are history
variables too. A PEIM is taken to install the memory once.

Callers ask for 1 or 2 pages, or for 1 of a runtime type, which is rounded and
aligned to 2 (on RISC-V the two granularities are equal; the code is written
for both); they give back any part of what they hold, or pages they held once.
Temporary memory has 3 pages and permanent memory 4, enough for pages held in
both, for holes between them, splits on both sides, merges of merges, and for
the room for HOBs (4 to a page, with one HOB of another kind) to run out.

`PageStore` is what callers rely on: ranges held stay apart, are given back
piece by piece, and move once. It says nothing of where pages come from.

### PeiMigration and LoadFixAddress

Memory is a function from addresses to cells; a cell is a page of the machine,
known by the `id` that its copies keep, so that "the pointer leads to what it
led to" can be said. `m` is the machine, `lists` the PPI database with the
addresses of descriptors, `fvs` the volumes, `core` the other pointers in
`PEI_CORE_INSTANCE`, `claimed` what has been given out in permanent memory.
Offsets are signed, as the code keeps a sign beside them. The actions follow
`PeiCheckAndSwitchStack` and the second entry into `PeiCore`: the choice of the
new stack and heap, the copy (by the board's TemporaryRamMigration service or
by the core itself, which also copies the holes), the conversion of the HOB
list, the PPI database and the volumes, the shadow of the core, the migration
of volumes (`EvacuateTempRam`) and the end of temporary memory (`Vanished`).
The hook for fixed loading addresses is a function of the HOB list in
`LoadFixAddress`.

Eleven machines: the service or the core's copy; heap above or below the stack;
permanent memory above or below the temporary one; migration of volumes on and
off, with the plan's HOB there early, late or not at all, with and without the
raw copy; stripped relocations; fixed addresses at -1 and at a place of the
board's, with several lists of resource HOBs; and one too small, where the
code's assertion stops it. Heap and stack have one half each, as
`SecMain.c:437-442` sets them. `MaxPpis` 2 and `MaxLoads` 2 bound what is
registered before the move and loaded after it; `CorePages` 1 is what `PeiCore`
allocates on its way and never uses (`PeiMain.c:419`). The move ends, so deadlock is
not checked. Not modelled: the conversion of status code callbacks
(`PeiMain.c` 1421-1466 of the dispatcher), `XipLoadFile`'s reinstall, and volume
services of foreign formats.

### FirmwareVolumes, FfsFiles, Depex

A volume whose format has no PPI waits in `UnknownFvInfo[]`, and the descriptor
of the notification that is to fetch it lies in the same element: the PPI
database holds its address. `buffers` are all the arrays there have been (the
array is moved when it grows), an address is a buffer and a place in it, so
that what the code reads through an old address is what was left or copied
there. Files are records with sections; a section may be a leaf, an image, or
an encapsulation that needs a PPI to be extracted. `FfsFiles` translates
`FindFileEx`, `ProcessSection` and the cache of extracted sections, `Depex`
the evaluator of dependency expressions. The walk of the dispatcher over
images and PEIMs is in `FirmwareVolumes`, and the callbacks that open images
inside others nest (`calls`).

Where an element is copied over one of another format, the descriptor that is
registered there answers to the PPI of the other format from then on: volumes
are then handed to a service that refuses them, or nobody is called for them
(`FwVol.c:2335`, section 5). `displaced` is the history of the volumes this
happened to, at the removal that mixed them up; `ProcessedLater` is about all
others, those in the same array before, between and after included.

The instance has nine volumes: nested, encapsulated by compression and by
GUIDed sections, of two foreign formats, and one corrupt; PEIMs install six PPIs
and report two volumes, one of each foreign format, in any order. The cache has
two places (the code: 16), the evaluation stack three (64), and the array grows
by two (8), so that it moves and is closed up while callbacks run, over elements
of both formats, and the cache evicts. The services of the foreign formats are
taken to search files like the core's own, and to refuse volumes of another
format. `VerifyFv` succeeds, and
there is no security PPI. The dispatcher finishes: deadlock is not checked.

### PciBusNumbers

`second` and `last` are the registers in the bridges, which keep what an earlier
boot left; `frames` are the walks over buses in progress, the innermost last.
One action stands for what the scan does between two accesses by which another
function could answer. `Answering` (external) says which buses answer a
configuration cycle. Machines are all the small trees in `MCPciBusNumbers`:
bridges in bridges, a CardBus bridge anywhere, hot plug controllers at bridges of
both kinds that power their slots in the first pass, early, late, with an error
or never; ARI and SR-IOV functions that reserve numbers; root bridges with too
few numbers, with a hole between two ranges, with few and with all; one failing
search; functions added and removed later. An earlier boot left any numbers in
the bridges of both kinds. `MaxBus` 9 stands for 255: sums are taken modulo 10,
and a machine with two ranges that end at 9, and the padding of 8 in one that has
all numbers, make them wrap. A bus 0 below a bridge makes `PciScanBus` walk the
root bus again without an end, until the stack is full (`MaxDepth` 5,
`StackOverflows`). `PciAssignBusNumber` reads the ranges of a bridge through a
null pointer (section 5): what is there decides whether it faults, refuses, or
goes on with the next number, and all three are choices of `AssignBridge`.

Two histories limit what the properties say. `reached` are the CardBus bridges
the numbering has come to: the others keep the number of an earlier boot or
pass, because `ResetAllPpbBusNumber` passes them over, and
`RoutingUnambiguous` counts them only from then on. `beyond` says that a number
was taken behind the last there is, by the eight bits that wrap or by a hot plug
request that does not look at the subordinate number of its bridge; after that
nothing more is said of the numbers. Weak fairness of the driver
(`Driver`), whose wait counts down whether or not a controller answers. An idle host bridge with no request
left stops, and so does one that faults: deadlock is not checked. The slot of
a CardBus bridge is not looked into, as in the code. The numbering of one root bridge by
`PciRootBridgeP2CProcess` is not modelled.

### PciConfigHeader, PciResources

Every function of a machine has registers (external: `RegistersOf`): its
decoders with type, sizes, the upper bits that exist, what the register reads
back and the alignment it needs; bridges have their windows with the bits the
hardware implements. `PciConfigHeader` translates how the driver reads them:
`PciParseBar`, `PciIovParseVfBar`, `GatherPpbInfo`, the incompatible device
table, option ROMs and resizable BARs. `PciResources` is
`PciHostBridgeResourceAllocator`: the resource nodes with their order, the
apertures, degradation from 64 to 32 bit and from prefetchable memory, what is
submitted, the host bridge's answer (external), the adjustment after a
failure (`phase`), the bases and the programming, and the hot plug of
functions into the room that padding kept.

The properties speak of what the hardware decodes (`Claimed`, `Open`), not of
what the driver believes: a BAR that was parsed wrongly is a BAR that overlaps.
Units are 256 KB of memory and 256 bytes of I/O, so that a bridge's window is
4 units and I/O alignment to 4 KB, 1 KB and ISA aliases can be told apart;
widths of 14 and 24 bits stand for 32 and 64. `MCPciResources` has families of
machines: mixed BARs, odd ones (gaps, few upper bits, 4 to 8 GB, lying
registers in the incompatible device table), slots with padding, bridges in
bridges with I/O grains from 2 to 16, resizable BARs, and special ones
(CardBus with its two windows of each kind, SR-IOV, ISA aliases), and machines
with option ROMs behind bridges (`OptionRoms`). Each round takes something away, therefore
`EveryRoundAsksLess` is an action property and the runs need no fairness.
When a root bridge is programmed the option ROMs below it are read, one after
the other: each takes the room the root bridge set aside for the largest, the
bridges above open their window there and nowhere else (`RomWindow`), and get
their own window back afterwards (`WindowBeforeRom`). Both safety properties
hold in between. What an image holds, and its copy to memory, are left out. BARs
smaller than a unit, ARI, MR-IOV, device authentication and power
management are not modelled, nor is light enumeration.

### PciAttributes, PciDevices

`supports` and `attributes` are fields of each function, `registers` the bits
that are set in it; `PciIoAttributes` goes up through the bridges one call per level.
`PciDevices` adds the lists, the handles and protocols of registered functions,
and the drivers that hold them: `Start` and `Stop` of the bus driver, hot
removal, and services that fail one step into a registration. Drivers are
clients that enable, disable and set what the function supports, in any order.
The driver of a bridge may turn off what the functions behind it need, which the
code does not ask about (`PciIo.c:1765`); `quitters` are the bridges of a machine
whose drivers do, `shut` is the history of the bridges where VGA was turned off
so, and `VgaReachable` leaves those bridges out. Drivers of bridges are not taken
to enable or set anything.
Machines bound the slots, the drivers that refuse to stop and the failures.
After a stop has freed a node something still points to (`dangling`) nothing
more is said. No fairness: all three properties are safety.

### MmcCard, MmcDxe

`card` is a card by the MMC and SD standards as the driver relies on them:
states, addresses in bytes or sectors, open ended transfers that a CMD12 ends,
programming that takes a while. `MmcDxe` is the driver and its host:
identification of the five kinds (`emmc`, `mmc`, `sd1`, `sdhc`, `sdio`), the
loops that wait for a card, `MmcIoBlocks` with its cutting of a call into
commands, the pending command of the host (`host`), and the timer. A fault is
a lost command, a lost response, a failing transfer of data or the death of
the card; at most two in a run.

Blocks have 2 bytes and the card 3 blocks, a command moves 2 blocks at most
(the code: 65535), the loops try twice (1000, 20 and 10000 times): enough for a
call of two commands with one of them short, for every loop to end by itself
and by its count, and for faults in both. `CountsAssumption` asks for two polls at
least before a command (`ReadyTries`): `MmcBlockIo.c:328` takes a count that reaches
zero for a card that is not ready, so with one poll a ready card would be
called busy. Weak fairness is on the driver, which
nothing holds up, and on the card that finishes programming. `Stop` of the driver
frees a host twice (`Mmc.c:336`) and the model ends there, so deadlock is not
checked.

### SpiMaster, FvbDxe, RamFvb, NvStorage

`chip` is a NOR flash: cells that only an erase sets, a write enable latch,
operations that go on in the chip after the command and may be torn by a loss
of power. `SpiMaster` has the chip, the transfer, its set-up, the calibration of the read
delay at start, and the erase, write and read loops; `FvbDxe` the volume: its
header, the copy in RAM (`shadow`), formatting, block calls, and the protocols
and addresses it announces; `RamFvb` the volume in RAM, which starts first.
One call may be cut by a loss of power at any step, one transfer or service may
fail, and two calls follow the boot. `SpiSetupSlave` frees the slave when it
fails, and the slave is the first field of `mFvbDevice`, which the driver goes on
with and frees again (section 5): `freed` says so, all is as before while nobody
else gets that memory, and when somebody does (`Overwritten`) the model stops
there. `PublishedIsValid` is about what is published until then.

Pages and sectors have 2 cells, blocks 4, the flash 12 with the volume in the
middle, so that a call can hit what is around it; a header has 3 cells. Cells
are bits. Callers of a write stay inside a block, as the protocol's users do; a
write across blocks is not refused by the code (section 5). Lists of blocks to
erase may leave the volume: the code refuses only what leaves the device, though
documented to refuse both (section 5). `CleanCallIsExact` is about lists that stay
in the volume, `OthersUntouched` counts the blocks of the list as asked for. A chip busy for as long
as a poll lasts (`PollTries`) counts as a fault; the code allows 0xFFFFF
polls for one erase, more than a block has sectors, which the proofs need
(`GeometryAssumption`). No fairness; the bounded calls
run out, so deadlock is not checked. The platform's PCDs are those of the
board (no memory mapped flash, no DAC mode). A read is answered from the copy
in RAM; `stale` is a history variable that says where the copy need not agree
with the flash, because an erase or a write changed the one and not the other,
or failed. `Reads` are the parts of a block that callers read: a whole one, and
one that would end behind its block, which is refused. Not modelled: the conversion
of addresses for the runtime.

### SecBoot, OpensbiPlatform, SecVolumes

Each hart has a place (`pc`) and the registers it carries (`reg`); an action is
what one hart does between two accesses to shared memory: `_start`, the lottery
and the wait for `_boot_hart_done`, its scratch area, `SecCoreStartUpWithStack`
and the wait for `BootHartDone`, OpenSBI's cold and warm boot with the hooks it
calls, the debug messages with their lock, the hand-off to PEI with the
contexts of all harts, PEI's processor HOBs and move to permanent memory, DXE.
The system may stop and start a hart and reset. OpenSBI itself is external.
`SecVolumes` finds the PEI core in the volumes, `OpensbiPlatform` reads the
device tree's harts. `I2cRead` in `SecBoot` is the read of the EEPROM from which PEI
takes the size of the memory. Without the alias `i2c5` the base of the memory is
never set and the read goes to the registers at address 0, which may fault or
give anything; a read that times out leaves the size to chance, and nobody looks
at the status. What is published then is not memory (`RealMemory`), and the move
of the stack may fault.

Four harts (0 is the monitor core, which the board leaves out), scratch areas of
4 cells, a limit of 6 harts for 128, one stop, and twelve boards: complete ones,
with bootable harts in another order and fewer than the tree has, with a broken
`cpu` node, another boot hart in the tree, no reserved memory, no I2C controller,
no power chip, no `cpus`, no device tree at all, a volume cut off, an EEPROM that
does not stand at its first cell, and an OpenSBI that refuses the memory regions.
`BootsUp` takes a board for complete if it has the I2C controller, the memory
node, an EEPROM at its first cell and an OpenSBI that takes the regions, and
says nothing of a boot hart whose read of the size timed out. Weak fairness for every hart:
harts run independently and none is stopped by another except as modelled; none
for what the system may ask for. A board that halts, hangs or has booted stops.
Not modelled: trap entry, the firmware's ecall, heap offsets.

## 3. What the runs show

All runs hold.

| Run | Properties | What they say |
|---|---|---|
| `ppi_database` | `CallbacksUpToDate`, `SignalledOnce`, `DispatchComplete`, `ImplementsPromise` | however services nest, everybody is told of every PPI once and in time; the database implements `PpiPromise` |
| `dispatcher` | `NobodyLeftBehind`, `AprioriDispatched`, `Terminates` | a PEIM that could run when the dispatcher returns has run; what the Apriori file names runs without its expression; the loops end |
| `delayed_dispatch` | `EntryStays`, `NobodySkipped`, `TimeAddsUp` | the pointer held over a call stays with its entry, and one cycle looks at every entry, unless a nested cycle deletes at or before it; the time the DXE core is told adds up, however late interrupts come and however they nest |
| `memory` | `HobsDisjoint`, `Accounted`, `ImplementsPageStore` | HOBs never overlap, every page is free, held, described or given up for want of room for a HOB; no range is given twice or lost: it implements `PageStore` |
| `pei_migration` | `PointersFollow`, `ClaimsDisjoint`, `ResourcesPartition` | after the move every pointer leads to what it led to; no permanent memory is used twice; the HOBs describe the same memory |
| `volumes` | `ProcessedLater`, `SearchIsExact`, `ImagesOpened`, `ReadinessIsExact` | no volume is forgotten unless its descriptor was copied over by one of another format, searches through the cache find what a plain definition finds, images are opened once, expressions are evaluated as written |
| `pci_bus_numbers` | `RoutingUnambiguous`, `NumbersNest`, `EverythingFound`, `EnumerationEnds` | never two bridges for one bus, not even during the scan, but for CardBus bridges not reached yet; numbers nest; every function is found; the enumeration ends whatever controllers do; all as long as numbers do not wrap |
| `pci_resources` | `BarsReachable`, `NothingOverlaps`, `EveryRoundAsksLess` | what the hardware decodes is reachable through every bridge above and overlaps nothing on its bus; the rounds end |
| `pci_devices` | `RegisteredMeansInstalled`, `OneVgaActive`, `VgaReachable` | registration agrees with handles and lists even after half a failure; one function answers for VGA, and is reached unless a bridge's own driver turned it off |
| `mmc` | `CleanCallMovesAll`, `StreamsAreStopped`, `CallsReturn` | a call without faults moves every block once and in order; a failed one leaves no open transfer; every call returns |
| `nv_storage` | `CleanCallIsExact`, `OthersUntouched`, `PublishedIsValid` | exact calls, and reads that give what the flash holds wherever the copy was kept; nothing else in the flash changes whatever fails, and what is published has all its headers or is what the boot found with a header the driver takes |
| `sec_boot` | `ScratchAgrees`, `PreparedBeforeUse`, `HandOffComplete`, `BootsUp` | four computations of scratch addresses agree, nobody uses what is not prepared, PEI gets complete contexts, complete boards boot |

Every property has a mutant in `PROJECT.json`: a definition changed the way a
bug in that code would change it, defined beside the original
(`\* Mutant: ...`), under which TLC finds the property violated.

### Fairness

The PEI core is never preempted, so weak fairness of its own steps is justified
(`Dispatcher`, `Core`, the steps of `ProcessNotify`). Code that it calls is
taken to return; that is the assumption under which a firmware that calls it
can work at all. In `PeiDispatcher` time passes, so a delayed function's time
comes, and no delayed function asks to be called again for ever: strong
fairness of what ends it, because another step may come between. No fairness is
assumed of the services a PEIM may use. The fairness of the other liveness
properties (`EnumerationEnds`, `CallsReturn`, `BootsUp`) is given with their
modules above.

## 4. What is proved

`PpiDatabaseProofs`, for any descriptors, lists and bounds:

- `TypeCorrect`: `Spec => []TypeOK`.
- `InductiveInvariant`: `Spec => []IInv`. `SignalledOnce` and its companions are
  not inductive: what a pair of a notify and a PPI is told depends on the calls
  of `ProcessNotify` that are still in progress. `IInv` gives each call its
  window of pairs and the part of it that it still owes, and says that a
  callback pair not up to date is owed by some call (`CallbacksOwed`), that a
  pair is owed by one call at most and was then not signalled (`OwedOnce`), that
  the dispatch pairs behind both cursors have been told (`DispatchedTold`), and
  what may be on the stack when (`StackOK`, `CursorsOK`).
- `SignalledAtMostOnce`, `CallbacksAlwaysUpToDate`, `DispatchAlwaysComplete`
  follow from it.
- `DatabaseKeepsPromise`: `Spec => ImplementsPromise`. The refinement reads the
  sequence of PPIs published off the slots, in order (`FilledSlots`,
  `PublishedIsList`), and the notifications asked for off the two lists. A step
  that signals is a step of the promise because a pair was not told before
  (`ToldBySignal`, `OwedOnce`); a rollback is a stutter because the slots it
  leaves lie behind the count.

`FirmwareClockProofs`, for any requests, groups, delays, table size and depth of
nested calls:

- `TypeCorrect`, `CountAsserted`, `PointerStays`: types; the assertion on `Count`,
  up to the return of a function whose entry a nested cycle deleted or moved; and
  that the pointer held over a call points to the entry of the function as long
  as no nested cycle has deleted an entry at or before it. The invariant behind
  them (`IInv`) says of every call in progress, not only of the innermost, that
  the function it called has its entry where the loop stands while `kept` holds,
  and that the slots below `Count` hold entries: deleting one that is `kept` then
  never takes `Count` below zero, and a nested deletion behind the pointer moves
  nothing that it points to.
- `NobodyIsSkipped`: `NobodySkipped`. It adds `SInv`: whatever lies below the
  loop's index has been looked at. A deletion moves the entries above down by
  one and takes the index back, so that the one moved into the hole is looked at
  next.

The same module, for any frequency of the counter, any period, bound of time
and depth of nested traps:

- `TimeAlwaysAddsUp`: `ClockSpec => []TimeAddsUp`. The invariant `CInv` adds types
  and that from the registration of the handler on no call of `SetTimerPeriod` is
  left that begins a new count (`OnlyStops`): a count begun after it would drop
  the time since. The bound of 100 ns a tick is `UnitsOfSum`: rounding two spans
  down loses at most one unit against rounding their sum.
- `TableHolds`: `EntryStays` and `NobodySkipped` from reset to the end of DXE.

`PeiMemoryProofs`, for memories of any size, any requests, granularity, room for
HOBs and stack:

- `MemoryInvariant`: `Spec => []Inv`. `HobsDisjoint` is not inductive alone: a
  page given from below the top would overlap a HOB that lay there. `Inv` says
  that the tops stay in the memory the services work on and above the HOB list
  (`TopsOK`), that each page above the top is in one HOB or lost (`PagesOnce`),
  and that the HOBs that are not free are just what callers hold and the slack
  (`HeldIsTaken`, `HeldApart`), up to the pages lost. Lemmas say for each operator on the HOB list what
  it does to the pages: adding (`AddsPages`), replacing (`ReplacePages`), splitting
  on one or both sides with or without room for the pieces, merging, and the
  conversion at the stack switch, where everything moves by one distance.
- `HobsAlwaysDisjoint`, `AlwaysAccounted` follow from it.
- `StoreImplemented`: `Spec => ImplementsPageStore`, step by step: what the search
  or the top gives is held by nobody, a piece given back was part of what is
  freed, the move is `PageStore`'s, everything else leaves the ranges alone.

`PeiDispatcherProofs`, for any volumes, files, expressions, PPIs, and any code
that may be called:

- `TypeCorrect`: types, and that the position of the main loop lies in the
  volumes and files it knows (`PositionOK`). `Where` and `Base` give the place
  and position of the main loop while notifications, shadow entries or the code
  they call run.
- `AprioriAlwaysDispatched`: `Spec => []AprioriDispatched` under `AprioriReady`:
  what files named in an Apriori file need to be read and verified is there from
  SEC. Without it the property is false, by the `AprioriCount` of section 5. The
  invariant `AprioriOK` says that a volume that is scanned either has its
  Apriori files dispatched, or is the one at the position, with those up to
  there dispatched and the count not lost, also over the stack switch. That the
  Apriori files come first in the order, each of them once, is an argument about
  ranks (`RankTaken`).
- `ServedAreNotLeftBehind`: whatever the code called does, when the dispatcher
  gives up, none of the files in `Served(Q)` could be dispatched. `Q` are PPIs set
  aside (`Aside`): SEC's, those delayed functions install, and what follows from
  their notifications, none of which discovers memory or registers for shadow. A
  file is served if it does not wait for a PPI of `Q` (beyond SEC's) and if what
  is needed to read it is there when its expression holds (or from the start if
  it is an Apriori file). `NobodyIsLeftBehind` is the case in which all files are
  served. Both restrictions are what the code needs: a PPI that a delayed
  function installs sets neither flag of the pass (`Dispatcher.c:2114`), and
  neither does a PEIM that cannot be loaded (`Dispatcher.c:1973`). On the
  platform of the run `AprioriReady` holds, `Q = {"z"}` is set aside, and all
  files are served but `"s"`, which is there so that loading fails.
  The invariant (`BInv`) is about the pass in progress: a file looked at and left
  undispatched made another pass needed, and it is as blocked as it was then
  unless somebody has been dispatched on this pass (`PassRecorded`); until
  somebody is, only PPIs of `Q` are installed (`SettledOK`); and the record of
  the pass and the position come back from the stack switch (`SwitchOK`).

`PciDevicesProofs`, for any tree of bridges and devices, whatever of it is
implemented, allocated, rejected, plugged in later or kept in use, and any
number of failures:

- `PciInvariant`: `Spec => []Inv`. What is above a function is defined as the least
  set that holds its parent and is closed under parents (`Ancestors`); the lemmas
  `AboveParent`, `AboveTransitive` and `AboveInLine` give from that all the proofs
  need of a tree. `ListsHold`: with a function its bridges are in the lists. A
  scan finds such lists (`FoundLists`), hot plug adds to them only where there
  was nothing (`NothingBelow`) and removes what is below a bridge as a whole
  (`RemovedLists`). `SupportsHold`: beyond I/O, memory and bus mastering a
  function supports only what all bridges above it do; `VgaReachable` needs
  it, because enabling stops at the first bridge that refuses.
- `RegisteredAlwaysInstalled`, `OneVgaAlwaysActive` and `VgaAlwaysReachable`
  follow. `MachineAssumption` says that machines are trees, that only bridges have
  a bridge control register, and that a bridge that decodes 16 bits of VGA
  addresses can forward them.

`SecBootProofs`, for any number of harts, any boot hart, device trees, volumes,
lists of bootable harts and restarts:

- `BootInvariant`: `Spec => []Inv`. A hart's address is computed by `_start_warm`,
  by OpenSBI through `_hartid_to_scratch`, for the contexts published to PEI and for
  the processor HOBs; what makes them agree is that after the release nothing
  touches the table of harts or their number (`Frozen`), that the index found in
  the table is one of an area (`Layout`, `TableFound`), and that areas of different
  indices lie four cells apart (`AreasApart`). `Before` says that until the release
  the boot hart is alone and nothing has been handed out, `Areas` what
  `_scratch_init` is through with, `After` that registers, OpenSBI's table, the
  contexts and their owners all follow the one table, `Order` that others reach
  OpenSBI only after the boot hart has won its lottery, `Promised` what each
  stage leaves for PEI.
- `ScratchAlwaysAgrees`, `AlwaysPreparedBeforeUse` and `HandOffAlwaysComplete` follow.
  `ConfigsAssumption` says that the device tree and the board's list name harts of
  the machine, that the device tree names one at least (the loops of `SecEntry.S`
  look at the count after their first turn) and no more than the table holds
  (`fw_platform_init` does not look, `OpensbiPlatform.c:147`), and that the board's
  list is not longer than the device tree's: an area is prepared for each hart of
  the device tree, and a longer list would give some hart an area that is not.

`MmcDxeProofs`, for any set of kinds of cards, sizes of cards and blocks, limits of
one command, counts of polls and faults:

- `MmcInvariant`: `Spec => []IInv`. That a call moves its blocks is only inductive
  with what identification leaves behind. `Identified` goes along its steps:
  from which of them on the driver knows how the card counts (bytes or sectors),
  which address it has, and on how many lines it and the host talk while the one
  has been told of a new width and the other not yet. `Fits` is what holds from
  then on while the card is alive: an initialisation that ended with success
  leaves driver, host and card agreed on all three, however many commands or
  answers were lost. `GoesWell` is a call in which nothing has gone wrong, step by
  step: the card is where the command sent needs it, the host has the argument of
  the block that comes next, and the blocks moved are those before it. `Closed`
  says that a transfer is open only in the steps before its CMD12, or when that
  one was lost. The lemmas `AfterKeeps`, `AnswersKeep`, `FaultsKeep` and `FatesKeep` say
  what any command, answered or not, does to any card.
- `CleanCallsMoveAll` and `StreamsAlwaysStopped` follow.

`NvStorageProofs`, for any sizes of pages, sectors, blocks and volumes, any contents
of the flash, calls, capture delays that work, and any number of faults and losses
of power:

- `NvInvariant`: `NvSpec => []IInv`. None of the three properties is inductive: they
  speak of calls that have ended, and an erase or a write is many transfers with a
  poll after each. `WorkOK` says what the driver has in hand, `EraseOK` that sectors
  are whole and, of the cells of the call, those that are not `Remaining` are to be
  ones, `WriteOK` that what is still to be written is the end of what was asked for
  and what has been sent is in the chip, up to `Reached`. The last parts of both hold
  while the work is `Steady`: a call that met no fault, or a format or header that
  has not given up. Then the chip is neither busy nor locked when a command comes
  (`SteadyOK`): that is what the write enable and the poll are for, and a poll that
  gives up has met a fault because the polls, counted over a whole erase, are more
  than the sectors of a block (`TriesEnough`). `CopyOK` says where the copy in RAM and the
  flash agree; an idle driver has a chip that has finished, unless a call failed
  (`IdleOK`). `BootOK` is what a boot has found out at each step; it needs that the
  calibration leaves a delay that works (`Captures`), or what the driver checks would
  not be what the chip holds. Of the chip the lemmas say what each command leaves
  alone (`Spares`) and what a page program clears (`Zeroes`); of the driver that its
  chunks never reach over a page (`InPage`) and its sectors never over the end of the
  range (`MultipleBelow`).
- `CleanCallsAreExact`, `OthersStayUntouched`, `PublishedStaysValid` follow.
  `GeometryAssumption` says that a block is whole sectors (`SpiFlashErase` refuses
  anything else) and that the headers fit into the volume.

The proofs assume what the named `ASSUME`s of the modules say of the constants
and what is named above; TLC evaluates the `ASSUME`s on every run.

Only model-checked: `PciBusNumbers`, `PciResources` and `PeiMigration`, whose
invariants have no proof (section 6), `FirmwareVolumes` (its modules are recursive,
which the prover does not take), and all liveness and `EveryRoundAsksLess`.
Liveness is out of the prover's reach, as are recursive definitions and
induction over data (the evaluator of expressions, the search through nested
sections, the folds over resource nodes).

## 5. Where the code and its comments disagree

Met while modelling. The models have the behaviour the code has, or leave out
the environment that leads to it; no property covers these, and where one would
be false by them its formula leaves the case out, with a comment that says so.

- PPIs that a delayed function installs in a pass that dispatches nobody do not
  make the dispatcher look again (`Dispatcher.c:2114`), though the comment above
  says nothing has changed then; and `SwitchStackSignal` is not looked at after
  delayed functions (2082). A PEIM whose expression holds but which cannot be
  loaded does not make another pass needed either (1973).
- `AprioriCount` is not kept for later passes (`Dispatcher.c:2095`): an Apriori
  file that could not be verified at first is held to its expression later,
  against the comment at 2181.
- A delayed function that registers another with no delay, or waits for a group,
  leads back into the dispatcher, which finds the entry of the function still in
  the table and expired, calls it again and deletes it (`Dispatcher.c:253`).
  `EntryStays` unqualified is then false: the outer call deletes what has come
  into the slot instead, or takes `Count` below zero, against the assertion at
  137. When dispatching takes
  too long, the table is emptied and the wait reports success (225).
- Reinstalling a PPI does not notify at the dispatch level (`Ppi.c:632`), though
  `NotifyPpi` is documented to. `InstallPeiMemory` called a second time is not
  ignored (`MemoryServices.c:89`), though its comment says so.
- With two foreign formats, an element of `UnknownFvInfo[]` is copied over
  another whose descriptor is registered (`FwVol.c:2335`). `NotifyDescriptor->Guid`
  is read anew in every turn of the callback, so that the next volume may go to
  the wrong service and be lost; or the descriptor that was copied over was the
  only one for its volume, which is then never fetched. The documentation at 2237
  says that it will be processed later. `ProcessedLater` without `displaced` is
  false on the run's instance in both ways. Images of a file whose encapsulation
  could not be read at first are not tried again (1605); a second image file of
  the same name is never opened (1433).
- BARs behind any but the last root bridge are never made smaller
  (`PciLib.c:794`, comment at 787), and when BARs are, all overrides are
  forgotten (438). The padding of a CardBus bridge fails
  `ASSERT (PaddingAperture == 0)` in a debug build (`PciResourceSupport.c:243`): two
  nodes of it are padding, and the second finds the first. The models take the
  build without assertions. A 64-bit BAR of virtual functions whose upper
  register reads 0 is dropped (1715) where an ordinary one is kept (1931). An
  option ROM of 2 KB reads as no ROM (`PciOptionRomSupport.c:301`).
- `ResetAllPpbBusNumber`, documented to reset all bus numbers
  (`PciEnumeratorSupport.c:2837`), passes CardBus bridges over (2880): until the scan
  comes to them they answer for the bus of an earlier boot. Bus numbers are
  added in eight bits and only the sum is compared with the ranges
  (`PciLib.c:1046`): a request that passes 255 gets a small number that is in use,
  and with bus 0 behind a bridge `PciScanBus` walks the root bus again, and again.
  In hot plug, `PciAssignBusNumber` (`PciEnumerator.c:377`) compares no number with
  the subordinate number of the bridge it numbers below, and `BusNumberRanges` of
  the bridge it asks is null there.
- Disabling decoding in a bridge does not ask who is behind it (`PciIo.c:1765`).
- An attribute is refused by the root bridge after the function and its bridges
  were already changed (`PciIo.c:1755`); disabling never goes upstream (1670).
  Registration that fails at `OpenProtocol` leaves the protocols installed
  (`PciDeviceSupport.c:376`).
- `MmcIoBlocks` prints the status of a failed transfer and returns success
  (`MmcBlockIo.c:356`, documentation at `Mmc.h:400`); its wait for the card ends
  one below zero and tests for zero (328). `Stop` never goes to the next host
  (`Mmc.c:336`). With a host that cannot move several blocks and a call of more
  than one the loop never ends.
- Erased blocks still read as before (`FvbDxe.c:877`); `FvbWrite` refuses neither
  a disabled volume nor a write across blocks, though documented to (641);
  `FvbEraseBlocks` is documented to refuse a list that leaves the volume before
  anything is erased (747, 783), but `LastBlock` comes from the size of the device
  (1055): a list may erase blocks behind the volume and return success. The
  comment at 1157 takes the headers of the variable store for being in place,
  but `FvbValidateFvHeader` looks at neither `State` nor `Format`, so that a volume
  torn there is published as it is. `SpiSetupSlave` frees the slave when its mode is
  refused (`SpiDxe.c:356`), which is the first field of `mFvbDevice` (`FvbDxe.h:42`):
  the driver goes on with freed memory (`FvbDxe.c:1032`) and, when it fails, frees
  it again (1227). `SpiTransfer` returns success when its set-up
  failed (`SpiDxe.c:263`), and `TimeoutMs` is never counted down
  (`SpiApbDxe.c:145`). A write that timed out leaves the chip busy, and it
  ignores the commands of the next call, which reports success.
- `BootHartDone` is set in early initialisation, though `SecMain.c:30` says that
  OpenSBI's is done. If the device tree's boot hart is not the one of the PCD,
  every hart waits for ever (`StarFiveJH7110.c:304`). A boot hart stopped and
  started again launches PEI again, into an assertion (`SecMain.c:709`).
  `I2cRead` ignores the address it is to read (`DwI2cLib.c:380`), so that the
  size of memory comes from wherever the EEPROM stands. Without the alias `i2c5`
  `GetBaseAddress` returns before it sets the base of the memory
  (`MemDetect.c:104`), its caller goes on, and the read takes 0 for the registers
  of the controller (`DwI2cLib.c:395`). A read that fails is not noticed: the size
  published is what was in the variable (`MemDetect.c:209`, 239). That OpenSBI
  takes the memory regions is only asserted
  (`Edk2OpensbiPlatformWrapperLib.c:86`).
- The SPI driver's `FvbSetAttributes` reports success and keeps nothing
  (`FvbDxe.c:448`).
- `SetTimerPeriod` of 0 is documented to disable the timer interrupt
  (`Timer.c:191`). If one is taken between the assignment and the disable
  (223-224), the trap handler disables it and then writes back the `sie` that it
  saved (`SupervisorTrapHandler.S:104`); `sepc` is restored just before it (102)
  and interrupts are on by then, so the interrupt still pending takes the hart's way
  back. A period below 1 us becomes 0 with the interrupt enabled (`Timer.c:228`).
  `GetTimerPeriod` returns microseconds where 100 ns are documented (268), and
  `RegisterHandler` never returns the errors documented for it (179).
- The functions and contexts of delayed entries are not converted when the core
  moves (`PeiMain.c:286`); `UINT8 Index` runs against a `UINTN` count in
  `Ppi.c:166`; the time of the delayed dispatch is cut to 32 bits
  (`PeiMain.h:231`). `DeferExecution` may be read uninitialised
  (`Security.c:120`).

## 6. Not modelled, and the plan

In the order of the plan:

1. Proofs about the other PCI models: the scan keeps numbers nested for any tree
   (`NumbersNest`), and an aperture holds its nodes apart for any sizes.
2. Proofs about `PeiMigration`: `ClaimsDisjoint` for any volumes and sizes.
3. Light enumeration of the PCI bus driver.
4. The links of the PCI host bridge library.

Left out for good: PE/COFF loading and the checksums of volumes (conversion of
data), the default services (they forward a call and keep nothing), PciIo's
accesses to registers, board tables and serial output, device trees, and the
vendored libfdt.
