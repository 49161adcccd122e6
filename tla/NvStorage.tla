----------------------------- MODULE NvStorage -----------------------------
(***************************************************************************)
(* The two firmware volume block drivers of the board together.  The       *)
(* a priori list runs RamFvbServicesRuntimeDxe first, which publishes its  *)
(* base address, and FvbDxe after it, which publishes its own once it has  *)
(* found the SPI flash.  Callers take the volume that is published.        *)
(***************************************************************************)
EXTENDS FvbDxe, RamFvb

nvVars == <<vars, ramVol>>

NvInit == Init /\ ramVol = NoVolume

RamFvbStarts ==
  /\ pc = "off" /\ FvbInitialize
  /\ pc' = "entry" /\ base' = "ram"
  /\ UNCHANGED <<chip, window, freed, ctl, work, shadow, stale, call, clean, bounds>>

(* Calls of the RAM driver, when the SPI driver has failed before it       *)
(* published anything.                                                     *)
RamFvbCalled ==
  /\ pc = "failed" /\ base = "ram" /\ bounds.calls > 0
  /\ bounds' = [bounds EXCEPT !.calls = @ - 1]
  /\ call' = NoCall
  /\ UNCHANGED <<chip, window, freed, ctl, pc, work, shadow, stale, base, clean>>
RamFvbWrites ==
  /\ RamFvbCalled
  /\ \E lba \in 0..(FdBlocks - 1), offset \in 0..(FdBlockSize - 1), data \in Data :
       offset + Len(data) <= FdBlockSize /\ FvbProtocolWrite(lba, offset, data)
RamFvbErases ==
  /\ RamFvbCalled
  /\ \E lba \in 0..(FdBlocks - 1), n \in 0..FdBlocks : FvbProtocolEraseBlocks(lba, n)
RamFvbSetsAttributes ==
  /\ RamFvbCalled
  /\ \E new \in SUBSET {"read", "write", "lock"} : FvbProtocolSetAttributes(new)

(* FvbSetAttributes of the SPI driver: the same conditions for a header    *)
(* with the same capabilities, but what is accepted is kept nowhere.       *)
FvbSetAttributes ==
  /\ pc = "idle"
  /\ \E new \in SUBSET {"read", "write", "lock"} :
       LET old == {"read"} \cup IF WriteStatus(shadow) THEN {"write"} ELSE {}
       IN  call' = [NoCall EXCEPT !.op = "attributes", !.before = chip.cells, !.coming = chip.next,
                                  !.result = IF StatusAllowed(old, new) THEN "ok" ELSE "refused"]
  /\ UNCHANGED <<chip, window, freed, ctl, pc, work, shadow, stale, base, clean, bounds, ramVol>>

NvNext ==
  \/ RamFvbStarts \/ RamFvbWrites \/ RamFvbErases \/ RamFvbSetsAttributes \/ FvbSetAttributes
  \/ (FvbNext \/ PowerLoss) /\ UNCHANGED ramVol

NvSpec == NvInit /\ [][NvNext]_nvVars

-----------------------------------------------------------------------------
(* Properties                                                              *)

InFlash(i) == FvbOffset + i - 1    \* the cell of place i of the volume
Idle == pc = "idle" /\ call.op # "boot"

(* A call that began with the chip idle and met no fault returns success;  *)
(* a write over erased cells has then left exactly its data in the flash,  *)
(* and an erase nothing but ones (SpiFlashWrite's pages, SpiFlashErase's   *)
(* sectors).  A read, answered from the copy, gives what the flash holds,  *)
(* but for what this boot has formatted, erased, torn or written over.     *)
(* Left out are the lists of FvbEraseBlocks that leave the volume: the     *)
(* code refuses only what leaves the device.                               *)
CleanCallIsExact ==
  /\ Idle /\ clean /\ call.range # {} /\ call.range \subseteq Volume =>
       /\ call.result = "ok"
       /\ call.op = "write" /\ (\A i \in call.range : call.before[i] = 1) =>
            \A j \in 1..Len(call.data) : chip.cells[FvbOffset + call.at + j - 1] = call.data[j]
       /\ call.op = "erase" => \A i \in call.range : chip.cells[i] = 1
  /\ Idle /\ call.op = "read" =>
       \A j \in 1..Len(call.data) :
         LET i == FvbOffset + call.at + j - 1
         IN  i \notin stale => call.data[j] = chip.cells[i]

(* Whatever goes wrong, power included, a call changes no cell it was not  *)
(* asked to change, now or when the chip completes (an earlier one may     *)
(* still be under way in the chip); a refused one changes none             *)
(* (FvbEraseBlocks verifies the whole list first).                         *)
OthersUntouched ==
  call.op # "none" =>
    \A i \in Cells \ call.range :
      {chip.cells[i], chip.next[i]} \subseteq {call.before[i], call.coming[i]}

(* However the last boot ended, with the volume torn at any point, the     *)
(* volume published at the end of this one either has all of its headers,  *)
(* in the flash as well as in memory, or is the volume that the boot found *)
(* with a header that FvbValidateFvHeader takes, untouched.  The variable  *)
(* store's State and Format may be torn in such a volume: that function    *)
(* does not look at them.  A start that gives up before it published       *)
(* anything leaves the RAM volume (FvbConfigureFlashInstance).             *)
HeadersPlaced ==
  \A i \in 1..Len(Header) : shadow[i] = Header[i] /\ chip.cells[InFlash(i)] = Header[i]
VolumeFound ==
  \A i \in 1..FvbSize :
    shadow[i] = call.before[InFlash(i)] /\ chip.cells[InFlash(i)] = call.before[InFlash(i)]
PublishedIsValid ==
  /\ pc = "idle" /\ call.op = "boot" =>
       base = "shadow" /\ FvbValidateFvHeader(shadow) /\ (HeadersPlaced \/ VolumeFound)
  /\ pc = "failed" /\ base = "ram" /\ call.op = "boot" => ValidateFvHeader(ramVol.cells)
=============================================================================
