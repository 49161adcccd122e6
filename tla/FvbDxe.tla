------------------------------- MODULE FvbDxe -------------------------------
(***************************************************************************)
(* The firmware volume block driver on the SPI flash (FvbDxe), with the    *)
(* flash driver below it (SpiFlashDxe).  A step is one transfer of the SPI *)
(* master with what the drivers do until the next one.  The volume is      *)
(* copied to RAM at the start ("shadow", PcdSpiMemoryMapped is FALSE);     *)
(* reads are answered from the copy.                                       *)
(*                                                                         *)
(* The driver runs at every boot, after the RAM firmware volume block      *)
(* driver, and then serves calls; the power may be lost at any time.       *)
(***************************************************************************)
EXTENDS SpiMaster

CONSTANTS
  BlockSize,    \* SectorSize of the part
  FvbOffset,    \* PcdSpiVariableOffset
  FvbSize,      \* variables, FTW working and FTW spare areas together
  Size,         \* of the flash instance: SIZE_256KB in the code
  PollTries,    \* 0xFFFFF in the code: polls of the status register
  Windows,      \* the sets of capture delays that may work on a board
  Contents,     \* what the volume may hold at first
  Outside,      \* what the rest of the flash holds
  Data,         \* what callers write
  Lists,        \* the lists of block ranges they erase
  Reads,        \* what they read of a block: <<offset, number of bytes>>
  MaxCalls, MaxFaults, MaxCrashes   \* bounds
ASSUME FvbAssumption ==
  /\ {BlockSize, FvbSize, Size, PollTries} \subseteq Nat \ {0}
  /\ {FvbOffset, MaxCalls, MaxFaults, MaxCrashes} \subseteq Nat
  /\ FvbOffset % BlockSize = 0 /\ FvbSize % BlockSize = 0 /\ Size % BlockSize = 0
  /\ FvbSize <= Size

VARIABLES
  chip,     \* the flash
  ctl,      \* the SPI controller
  window,   \* the delays that work on this board
  pc,       \* the next step
  work,     \* the erase or write of the flash driver that is under way
  shadow,   \* the copy of the volume in RAM; <<>> when there is none
  stale,    \* history: where the copy need not agree with the flash
  base,     \* the volume that PcdFlashNvStorageVariableBase64 names
  call,     \* the last call, or the boot
  clean,    \* history: no fault since the call began
  bounds,   \* calls, faults and crashes left
  freed     \* whether mFvbDevice is memory that has been freed

fvb  == <<ctl, pc, work, shadow, stale, base, call, clean, bounds, freed>>
vars == <<chip, window, fvb>>

Cells     == 0..(FvbOffset + Size - 1)
Volume    == FvbOffset..(FvbOffset + FvbSize - 1)
LastBlock == Size \div BlockSize - 1

(* The headers that FvbInitFvAndVariableStoreHeaders writes, three cells:  *)
(* the second is the attributes (EFI_FVB2_WRITE_STATUS); the third, State  *)
(* and Format of the variable store, is not looked at by                   *)
(* FvbValidateFvHeader.                                                    *)
Header == <<0, 1, 0>>
FvbValidateFvHeader(copy) == copy[1] = Header[1] /\ copy[2] = Header[2]
WriteStatus(copy) == copy[2] = 1

\* SpiFlashErase refuses what is not whole sectors; the volume has room for the
\* headers; the polls, counted over a whole erase, are more than its sectors.
ASSUME GeometryAssumption ==
  /\ BlockSize % EraseSize = 0 /\ BlockSize \div EraseSize < PollTries
  /\ Len(Header) <= FvbSize
ASSUME DataAssumption ==
  /\ Contents \subseteq [1..FvbSize -> {0, 1}]
  /\ Outside \in [1..(FvbOffset + Size) -> {0, 1}]
  /\ Data \subseteq Seq({0, 1})
  /\ Lists \subseteq Seq(Nat \X Nat) \ {<<>>}
  /\ Reads \subseteq Nat \X Nat

NoWork == [op |-> "none", for |-> "none", at |-> 0, end |-> 0, data |-> <<>>, tries |-> 0,
           list |-> <<>>, result |-> "none"]
(* before and coming are history: the flash at the start of the call, and  *)
(* what was to become of it.                                               *)
NoCall == [op |-> "none", at |-> 0, data |-> <<>>, range |-> {}, before |-> <<>>,
           coming |-> <<>>, result |-> "none"]

Init ==
  /\ \E volume \in Contents :
       chip = NewChip([i \in Cells |-> IF i \in Volume THEN volume[i - FvbOffset + 1] ELSE Outside[i + 1]])
  /\ window \in Windows
  /\ ctl = NewController /\ pc = "off" /\ work = NoWork /\ shadow = <<>> /\ stale = {}
  /\ base = "none" /\ call = NoCall /\ clean = TRUE /\ freed = FALSE
  /\ bounds = [calls |-> MaxCalls, faults |-> MaxFaults, crashes |-> MaxCrashes]

-----------------------------------------------------------------------------
(* Transfers                                                               *)

Transfers(op) == SpiTransfer(ctl, chip, op, window)
(* SpiMasterProtocol->Transfer with one of its outcomes.                   *)
Transfer(o) ==
  /\ o.fault => bounds.faults > 0
  /\ ctl' = o.ctl /\ chip' = o.chip
  /\ bounds' = [bounds EXCEPT !.faults = IF o.fault THEN @ - 1 ELSE @]
  /\ clean' = (clean /\ ~o.fault)

(* What has been under way in the chip is done.                            *)
ChipCompletes ==
  /\ chip.wip
  /\ chip' = Completed(chip)
  /\ UNCHANGED <<window, fvb>>

-----------------------------------------------------------------------------
(* SpiFlashDxe: Erase and Write                                            *)

(* SpiFlashErase from "at" up to "end" for a caller in this driver; "list" *)
(* is what FvbEraseBlocks has to erase after it.                           *)
Erasing(for, at, end, list) ==
  [NoWork EXCEPT !.op = "erase", !.for = for, !.at = at, !.end = end, !.list = list,
                 !.tries = PollTries]
(* SpiFlashWrite.                                                          *)
Writing(for, at, data) ==
  [NoWork EXCEPT !.op = "write", !.for = for, !.at = at, !.end = at + Len(data),
                 !.data = data, !.tries = PollTries]

(* The bytes up to the end of the page.                                    *)
(* Mutant: the chunk is as long as a page.                                 *)
ChunkWholePage(w) == SubSeq(w.data, 1, IF PageSize < Len(w.data) THEN PageSize ELSE Len(w.data))
Chunk(w) ==
  LET room == PageSize - (w.at % PageSize)
  IN  SubSeq(w.data, 1, IF room < Len(w.data) THEN room ELSE Len(w.data))

(* The flash driver returns to its caller.                                 *)
Return(w, result) == pc' = "returned" /\ work' = [w EXCEPT !.result = result]

(* SpiFlashWriteEnableCmd                                                  *)
SpiFlashWriteEnable ==
  /\ pc = "enable"
  /\ \E o \in Transfers(Op("WREN")) :
       /\ Transfer(o)
       /\ IF o.ok THEN pc' = "command" /\ UNCHANGED work ELSE Return(work, "error")
  /\ UNCHANGED <<window, freed, shadow, stale, base, call>>

(* The sector erase, or the program of the next chunk.                     *)
SpiFlashCommand ==
  LET op == IF work.op = "erase" THEN OpAt("ERASE", work.at)
            ELSE OpOutAt("PROGRAM", work.at, Chunk(work))
  IN  /\ pc = "command"
      /\ \E o \in Transfers(op) :
           /\ Transfer(o)
           /\ IF o.ok THEN pc' = (IF work.op = "erase" THEN "poll" ELSE "status") /\ UNCHANGED work
              ELSE Return(work, "error")
      /\ UNCHANGED <<window, freed, shadow, stale, base, call>>

(* SpiFlashWriteCommon reads the status once before it polls.              *)
SpiFlashFirstStatus ==
  /\ pc = "status"
  /\ \E o \in Transfers(OpIn("RDSR", 1)) :
       /\ Transfer(o)
       /\ IF o.ok THEN pc' = "poll" /\ UNCHANGED work ELSE Return(work, "error")
  /\ UNCHANGED <<window, freed, shadow, stale, base, call>>

(* What is left after this sector or chunk.                                *)
Rest(w) ==
  IF w.op = "erase" THEN [w EXCEPT !.at = @ + EraseSize]
  ELSE [w EXCEPT !.at = @ + Len(Chunk(w)), !.tries = PollTries,
                 !.data = SubSeq(w.data, Len(Chunk(w)) + 1, Len(w.data))]

(* The sectors the counter of an erase still has to do for.                *)
Sectors == IF work.op = "erase" THEN (work.end - work.at) \div EraseSize ELSE 1

(* A poll; a busy chip that uses up the counter counts as a fault.  The    *)
(* counter is not set again for the next sector, and a chip that is ready  *)
(* at the last poll comes too late.                                        *)
SpiFlashPoll(o, w) ==
  /\ pc = "poll"
  /\ o.fault => bounds.faults > 0
  /\ ctl' = o.ctl /\ chip' = o.chip
  /\ LET busy == o.ok /\ o.in # <<0>>
         slow == busy /\ work.tries = Sectors + 1
     IN  /\ slow => bounds.faults > 0
         /\ bounds' = [bounds EXCEPT !.faults = IF o.fault \/ slow THEN @ - 1 ELSE @]
         /\ clean' = (clean /\ ~o.fault /\ ~slow)
         /\ CASE ~o.ok -> Return(work, "error")
              [] o.ok /\ work.tries = 1 -> Return(work, "timeout")
              [] busy /\ work.tries > 1 ->
                   pc' = "poll" /\ work' = [work EXCEPT !.tries = @ - 1]
              [] o.ok /\ o.in = <<0>> /\ work.tries > 1 ->
                   IF w.at # w.end \/ w.op = "erase"
                   THEN /\ work' = [w EXCEPT !.tries = IF w.op = "erase" THEN @ - 1 ELSE @]
                        /\ pc' = IF w.at # w.end THEN "enable" ELSE "disable"
                   ELSE Return(w, "ok")
SpiFlashPolls ==
  /\ \E o \in Transfers(OpIn("RDSR", 1)) : SpiFlashPoll(o, Rest(work))
  /\ UNCHANGED <<window, freed, shadow, stale, base, call>>

(* SpiFlashWriteDisableCmd at the end of an erase.                         *)
SpiFlashWriteDisable ==
  /\ pc = "disable"
  /\ \E o \in Transfers(Op("WRDI")) :
       /\ Transfer(o)
       /\ Return(work, IF o.ok THEN "ok" ELSE "error")
  /\ UNCHANGED <<window, freed, shadow, stale, base, call>>

-----------------------------------------------------------------------------
(* The driver's start                                                      *)

(* Something else fails: memory, a protocol that cannot be installed.      *)
Fault ==
  /\ bounds.faults > 0
  /\ bounds' = [bounds EXCEPT !.faults = @ - 1] /\ clean' = FALSE

(* SetupDevice.  Its result is not looked at; the slave that it frees when *)
(* it fails is the first field of mFvbDevice.                              *)
FvbSetup ==
  /\ pc = "entry"
  /\ \E r \in SpiSetupSlave(ctl, window) :
       /\ r.fault => bounds.faults > 0
       /\ bounds' = [bounds EXCEPT !.faults = IF r.fault THEN @ - 1 ELSE @]
       /\ ctl' = r.ctl /\ clean' = ~r.fault /\ freed' = r.freed
  /\ call' = [NoCall EXCEPT !.op = "boot", !.range = Volume,
                            !.before = chip.cells, !.coming = chip.next]
  /\ pc' = "probe"
  /\ UNCHANGED <<chip, window, work, shadow, stale, base>>

(* The driver goes on with the memory it has given back, and frees it once *)
(* more when its start fails: all is as before until that memory is given  *)
(* to somebody else, and what comes then is not followed.                  *)
Overwritten ==
  /\ freed /\ pc \notin {"off", "stray"} /\ pc' = "stray"
  /\ UNCHANGED <<chip, window, freed, ctl, work, shadow, stale, base, call, clean, bounds>>

(* FvbFlashProbe: SpiFlashReadId and SpiFlashInit.  The wait at the end is *)
(* long enough for the register write.                                     *)
Probe ==
  [probe |-> OpIn("RDID", 1), init |-> Op("WREN"), initStatus |-> [Op("WRSR") EXCEPT !.out = <<0>>]]
AfterProbe == [probe |-> "init", init |-> "initStatus", initStatus |-> "stall"]
FvbFlashProbe ==
  /\ pc \in DOMAIN Probe
  /\ \E o \in Transfers(Probe[pc]) :
       /\ Transfer(o)
       /\ pc' = IF o.ok /\ (pc = "probe" => o.in = <<1>>) THEN AfterProbe[pc] ELSE "failed"
  /\ UNCHANGED <<window, freed, work, shadow, stale, base, call>>
Stall ==
  /\ pc = "stall" /\ pc' = "load"
  /\ chip' = IF chip.wip THEN Completed(chip) ELSE chip
  /\ UNCHANGED <<window, freed, ctl, work, shadow, stale, base, call, clean, bounds>>

(* FvbConfigureFlashInstance: memory for the copy, whose address is        *)
(* published before the volume is read.                                    *)
Allocate ==
  /\ pc = "load"
  /\ \/ /\ pc' = "read" /\ base' = "shadow" /\ UNCHANGED <<bounds, clean>>
     \/ /\ Fault /\ pc' = "failed" /\ UNCHANGED base
  /\ UNCHANGED <<chip, window, freed, ctl, work, shadow, stale, call>>
ReadVolume ==
  /\ pc = "read"
  /\ \E o \in Transfers(OpInAt("READ", FvbOffset, FvbSize)) :
       /\ Transfer(o)
       /\ IF o.ok THEN pc' = "install" /\ shadow' = o.in
          ELSE pc' = "failed" /\ UNCHANGED shadow
  /\ UNCHANGED <<window, freed, work, stale, base, call>>
Install ==
  /\ pc = "install"
  /\ \/ /\ pc' = "prepare" /\ UNCHANGED <<bounds, clean, shadow>>
     \/ /\ Fault /\ pc' = "failed" /\ shadow' = <<>>
  /\ UNCHANGED <<chip, window, freed, ctl, work, stale, base, call>>

(* FvbPrepareFvHeader, in any boot mode: the volume is erased, and then    *)
(* gets its headers, when they are not valid.                              *)
(* Mutant: the headers are written over what is there.                     *)
FormatNoErase == Writing("headers", FvbOffset, Header)
Format == Erasing("format", FvbOffset, FvbOffset + FvbSize, <<>>)
FvbPrepareFvHeader ==
  /\ pc = "prepare"
  /\ \E defaults \in BOOLEAN :
       IF ~defaults /\ FvbValidateFvHeader(shadow)
       THEN pc' = "publish" /\ UNCHANGED work
       ELSE pc' = "enable" /\ work' = Format
  /\ UNCHANGED <<chip, window, freed, ctl, shadow, stale, base, call, clean, bounds>>

(* FvbEntryPoint after it: the formatted GUID and the address change event *)
(* (the copy stays when they fail).                                        *)
Publish ==
  /\ pc = "publish"
  /\ \/ pc' = "idle" /\ UNCHANGED <<bounds, clean>>
     \/ pc' = "failed" /\ Fault
  /\ UNCHANGED <<chip, window, freed, ctl, work, shadow, stale, base, call>>

-----------------------------------------------------------------------------
(* Calls                                                                   *)

(* The copy with data at a place of the volume.                            *)
Patched(copy, at, data) ==
  [i \in 1..Len(copy) |->
     IF i - 1 \in at..(at + Len(data) - 1) THEN data[i - at] ELSE copy[i]]

Called(op, at, data, range) ==
  /\ pc = "idle" /\ bounds.calls > 0
  /\ bounds' = [bounds EXCEPT !.calls = @ - 1]
  /\ call' = [NoCall EXCEPT !.op = op, !.at = at, !.data = data, !.range = range,
                            !.before = chip.cells, !.coming = chip.next]
  /\ clean' = ~chip.wip
  /\ UNCHANGED <<chip, window, freed, ctl, shadow, stale, base>>

(* FvbWrite.  Neither the block's end nor EFI_FVB2_WRITE_STATUS is looked  *)
(* at; callers stay inside a block.                                        *)
FvbWrite(lba, offset, data) ==
  LET at == FvbOffset + lba * BlockSize + offset
  IN  /\ offset + Len(data) <= BlockSize
      /\ Called("write", at - FvbOffset, data, at..(at + Len(data) - 1))
      /\ pc' = "enable" /\ work' = Writing("call", at, data)

(* FvbEraseBlocks for a list of ranges <<first block, number>>: the blocks *)
(* that it names, and what is left of it after its first block.            *)
Blocks(list) == UNION {list[j][1]..(list[j][1] + list[j][2] - 1) : j \in DOMAIN list}
AfterBlock(list) ==
  IF Head(list)[2] = 1 THEN Tail(list) ELSE [list EXCEPT ![1] = <<@[1] + 1, @[2] - 1>>]
Block(lba) == (FvbOffset + lba * BlockSize)..(FvbOffset + (lba + 1) * BlockSize - 1)
EraseBlock(list) ==
  LET lba == Head(list)[1]
  IN  Erasing("call", FvbOffset + lba * BlockSize, FvbOffset + (lba + 1) * BlockSize, AfterBlock(list))
ListValid(list) ==
  \A j \in 1..Len(list) : list[j][2] > 0 /\ list[j][1] + list[j][2] - 1 <= LastBlock
FvbEraseBlocks(list) ==
  LET refused == ~WriteStatus(shadow) \/ ~ListValid(list)
  IN  /\ Called("erase", 0, <<>>, IF refused THEN {} ELSE UNION {Block(lba) : lba \in Blocks(list)})
      /\ IF refused THEN UNCHANGED <<pc, work>>
         ELSE pc' = "enable" /\ work' = EraseBlock(list)

(* FvbRead: answered from the copy at once.                                *)
FvbRead(lba, offset, n) ==
  LET fits == offset < BlockSize /\ n <= BlockSize /\ offset + n <= BlockSize
      at   == lba * BlockSize + offset
  IN  /\ pc = "idle"
      /\ call' = [NoCall EXCEPT !.op = "read", !.at = at, !.before = chip.cells, !.coming = chip.next,
                               !.data = IF fits THEN SubSeq(shadow, at + 1, at + n) ELSE <<>>,
                               !.result = IF fits THEN "ok" ELSE "bad size"]
      /\ UNCHANGED <<chip, window, freed, ctl, pc, work, shadow, stale, base, clean, bounds>>

(* The copy agrees with the flash after a write over erased cells.  It is  *)
(* not told of an erase, nor of a write that fails.                        *)
Diverged(old, ok) ==
  IF ok /\ clean /\ call.op = "write" /\ \A i \in call.range : call.before[i] = 1 /\ call.coming[i] = 1
  THEN old \ call.range ELSE old \cup call.range

(* What the caller of the flash driver does when it returns.               *)
(* Mutant: the copy in RAM is left alone.                                  *)
NotShadowed(copy, at, data) == copy
Shadowed(copy, at, data) == Patched(copy, at, data)
FlashReturns ==
  LET ok == work.result = "ok"
  IN  /\ pc = "returned"
      /\ CASE work.for = "format" /\ ok ->
                pc' = "enable" /\ work' = Writing("headers", FvbOffset, Header)
                /\ stale' = Volume /\ UNCHANGED <<shadow, call>>
           [] work.for = "headers" /\ ok ->
                pc' = "publish" /\ work' = NoWork /\ shadow' = Shadowed(shadow, 0, Header)
                /\ stale' = stale \ (FvbOffset..(FvbOffset + Len(Header) - 1)) /\ UNCHANGED call
           [] work.for # "call" /\ ~ok ->
                pc' = "failed" /\ work' = NoWork /\ shadow' = <<>> /\ UNCHANGED <<stale, call>>
           [] work.for = "call" /\ ok /\ work.list # <<>> ->
                pc' = "enable" /\ work' = EraseBlock(work.list) /\ UNCHANGED <<shadow, stale, call>>
           [] work.for = "call" /\ (~ok \/ work.list = <<>>) ->
                /\ pc' = "idle" /\ work' = NoWork
                /\ call' = [call EXCEPT !.result = work.result]
                /\ shadow' = IF ok /\ call.op = "write" THEN Shadowed(shadow, call.at, call.data)
                             ELSE shadow
                /\ stale' = Diverged(stale, ok)
      /\ UNCHANGED <<chip, window, freed, ctl, base, clean, bounds>>

(* The power is lost, and comes back.                                      *)
PowerLoss ==
  /\ pc # "off" /\ bounds.crashes > 0
  /\ bounds' = [bounds EXCEPT !.crashes = @ - 1]
  /\ chip' \in PowerLost(chip)
  /\ pc' = "off" /\ ctl' = NewController /\ work' = NoWork /\ shadow' = <<>> /\ base' = "none"
  /\ stale' = {} /\ freed' = FALSE
  /\ UNCHANGED <<window, call, clean>>

FvbNext ==
  \/ ChipCompletes \/ SpiFlashWriteEnable \/ SpiFlashCommand \/ SpiFlashFirstStatus
  \/ SpiFlashPolls \/ SpiFlashWriteDisable
  \/ FvbSetup \/ Overwritten \/ FvbFlashProbe \/ Stall \/ Allocate \/ ReadVolume \/ Install
  \/ FvbPrepareFvHeader \/ Publish \/ FlashReturns
  \/ \E lba \in 0..(FvbSize \div BlockSize - 1), offset \in 0..(BlockSize - 1), data \in Data :
       FvbWrite(lba, offset, data)
  \/ \E list \in Lists : FvbEraseBlocks(list)
  \/ \E lba \in 0..(FvbSize \div BlockSize - 1), at \in Reads : FvbRead(lba, at[1], at[2])
=============================================================================
