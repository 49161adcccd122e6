------------------------------- MODULE RamFvb -------------------------------
(***************************************************************************)
(* RamFvbServicesRuntimeDxe: a firmware volume block driver whose blocks   *)
(* are memory, loaded with the image of the firmware at every boot.        *)
(***************************************************************************)
EXTENDS Integers, Sequences, FiniteSets

CONSTANTS
  FdBlockSize,  \* PcdVariableFdBlockSize
  FdBlocks,     \* PcdVariableFdSize in blocks
  Images        \* what may be loaded
ASSUME FdAssumption == {FdBlockSize, FdBlocks} \subseteq Nat \ {0}

VARIABLE ramVol   \* the memory, and the attributes in mFvbModuleGlobal

NoVolume == [cells |-> <<>>, status |-> {}]

(* RamFlashPtr                                                             *)
RamFlashPtr(lba, offset) == lba * FdBlockSize + offset

(* RamFlashWrite: only the block is checked.                               *)
RamFlashWrite(cells, lba, offset, data) ==
  LET at == RamFlashPtr(lba, offset)
  IN  IF lba >= FdBlocks THEN cells
      ELSE [i \in 1..Len(cells) |->
              IF i - 1 \in at..(at + Len(data) - 1) THEN data[i - at] ELSE cells[i]]

(* RamFlashEraseBlock does nothing.                                        *)
RamFlashEraseBlock(cells, lba) == cells

(* The header of GetFvbInfo: what tells a volume of the right length, and  *)
(* the attributes.  The variable store header is not part of it.           *)
GoodFwVolHeader == <<0, 1>>
ValidateFvHeader(cells) == SubSeq(cells, 1, 2) = GoodFwVolHeader

\* What is loaded has room for the header.
ASSUME ImagesAssumption ==
  \A image \in Images : image \in Seq({0, 1}) /\ Len(GoodFwVolHeader) <= Len(image)

InitializeVariableFvHeader(cells) ==
  IF ValidateFvHeader(cells) THEN cells
  ELSE RamFlashWrite(RamFlashEraseBlock(cells, 0), 0, 0, GoodFwVolHeader)

(* The attributes of that header: reading and writing are enabled, could   *)
(* be enabled, and nothing else.                                           *)
Capabilities == {"readEnabled", "writeEnabled"}

(* FvbSetVolumeAttributes for a new status.                                *)
StatusAllowed(old, new) ==
  /\ "lock" \in old => new = old
  /\ "readDisabled" \in Capabilities \/ "read" \in new
  /\ "readEnabled" \in Capabilities \/ "read" \notin new
  /\ "writeDisabled" \in Capabilities \/ "write" \in new
  /\ "writeEnabled" \in Capabilities \/ "write" \notin new
  /\ "lock" \in Capabilities \/ "lock" \notin new

-----------------------------------------------------------------------------
(* FvbInitialize                                                           *)
FvbInitialize ==
  \E image \in Images :
    ramVol' = [cells |-> InitializeVariableFvHeader(image), status |-> {"read", "write"}]

FvbProtocolWrite(lba, offset, data) ==
  ramVol' = [ramVol EXCEPT !.cells = RamFlashWrite(@, lba, offset, data)]

(* FvbProtocolEraseBlocks for one range, checked first.                    *)
FvbProtocolEraseBlocks(lba, n) ==
  /\ n > 0 /\ lba + n <= FdBlocks
  /\ ramVol' = [ramVol EXCEPT !.cells = RamFlashEraseBlock(@, lba)]

FvbProtocolSetAttributes(new) ==
  ramVol' = [ramVol EXCEPT !.status = IF StatusAllowed(@, new) THEN new ELSE @]
=============================================================================
