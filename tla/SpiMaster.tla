----------------------------- MODULE SpiMaster -----------------------------
(***************************************************************************)
(* SpiDxe and its controller code SpiApbDxe: the SPI master protocol, and  *)
(* the flash behind it.                                                    *)
(*                                                                         *)
(* The controller is a record of the registers that decide what reaches    *)
(* the flash.  An operation leads to a set of outcomes: the registers and  *)
(* the chip after it, what was read, and the status returned.  The board's *)
(* PCDs rule out double transfer rate and the direct access mode           *)
(* (PcdSpiFlashAhbSize is below SZ_8M).                                    *)
(***************************************************************************)
EXTENDS Integers, Sequences, SequencesExt

-----------------------------------------------------------------------------
(* The SPI NOR flash, as the drivers in src/ use it (the part itself is    *)
(* not in the repository).  A cell is a bit: erasing makes it 1, a program *)
(* can only make it 0 and stays inside one page.  An accepted program,     *)
(* erase or register write takes a while: "next" is what the cells will    *)
(* be, and while "wip" holds only the status register is answered.         *)

CONSTANTS PageSize, EraseSize
ASSUME PagesAssumption == {PageSize, EraseSize} \subseteq Nat \ {0}

NewChip(cells) == [cells |-> cells, next |-> cells, wel |-> FALSE, wip |-> FALSE]

(* Page program of data at "at": it wraps around at the end of the page.   *)
Programmed(cells, at, data) ==
  LET base == PageSize * (at \div PageSize)
      hit  == [j \in 1..Len(data) |-> base + ((at - base + j - 1) % PageSize)]
  IN  [i \in DOMAIN cells |->
         IF \E j \in 1..Len(data) : hit[j] = i /\ data[j] = 0 THEN 0 ELSE cells[i]]

Erased(cells, at) ==
  [i \in DOMAIN cells |-> IF i \div EraseSize = at \div EraseSize THEN 1 ELSE cells[i]]

(* The chip after a command; a busy chip, or one without the write enable  *)
(* latch, ignores what would change it.                                    *)
Commanded(chip, code, at, data) ==
  IF chip.wip THEN chip ELSE
  CASE code = "WREN"  -> [chip EXCEPT !.wel = TRUE]
    [] code = "WRDI"  -> [chip EXCEPT !.wel = FALSE]
    [] code \in {"PROGRAM", "ERASE", "WRSR"} /\ chip.wel ->
         [chip EXCEPT !.wip = TRUE,
                      !.next = CASE code = "PROGRAM" -> Programmed(chip.cells, at, data)
                                 [] code = "ERASE"   -> Erased(chip.cells, at)
                                 [] OTHER            -> chip.cells]
    [] OTHER          -> chip

(* What the chip answers: n cells, the status, or (1) the identification   *)
(* the driver knows.  A busy chip leaves the line as it is.                *)
Answers(chip, code, at, n) ==
  CASE code = "RDSR" -> {<<IF chip.wip THEN 1 ELSE 0>>}
    [] code = "RDID" -> {<<IF chip.wip THEN 0 ELSE 1>>}
    [] code = "READ" /\ ~chip.wip -> {[j \in 1..n |-> chip.cells[at + j - 1]]}
    [] OTHER -> {[j \in 1..n |-> 0], [j \in 1..n |-> 1]}

Completed(chip) == NewChip(chip.next)

(* Power lost: what was under way is done for some of the cells.           *)
PowerLost(chip) ==
  {NewChip([i \in DOMAIN chip.cells |-> IF i \in done THEN chip.next[i] ELSE chip.cells[i]]) :
     done \in SUBSET {i \in DOMAIN chip.cells : chip.cells[i] # chip.next[i]}}

-----------------------------------------------------------------------------
(* The controller                                                          *)

CONSTANT MaxDelay   \* SPI_READ_CAPTURE_MAX_DELAY - 1, 15 in the code
ASSUME DelayAssumption == MaxDelay \in Nat \ {0}

(* An SPI_MEM_OPS: "in" is the number of bytes to read.                    *)
Op(code)            == [code |-> code, hasAddr |-> FALSE, addr |-> 0, in |-> 0, out |-> <<>>]
OpIn(code, n)       == [Op(code) EXCEPT !.in = n]
OpAt(code, addr)    == [Op(code) EXCEPT !.hasAddr = TRUE, !.addr = addr]
OpInAt(code, a, n)  == [OpAt(code, a) EXCEPT !.in = n]
OpOutAt(code, a, d) == [OpAt(code, a) EXCEPT !.out = d]

NewController ==
  [on |-> FALSE, fast |-> FALSE, delay |-> 0, rdCode |-> "none", rdAt |-> 0,
   wrCode |-> "none", wrAt |-> 0]

-----------------------------------------------------------------------------
(* Registers                                                               *)

ControllerEnable(c)  == [c EXCEPT !.on = TRUE]
ControllerDisable(c) == [c EXCEPT !.on = FALSE]

(* Divisor and delays of the clock; the controller is enabled at the end.  *)
WriteSpeed(c, fast) == ControllerEnable([ControllerDisable(c) EXCEPT !.fast = fast])
ReadDataCapture(c, delay) == ControllerEnable([ControllerDisable(c) EXCEPT !.delay = delay])
SetClkMode(c) == ControllerEnable(ControllerDisable(c))
ChipSelect(c) == ControllerEnable(ControllerDisable(c))

(* What the four ways of a transfer set up.  The widths of the operations  *)
(* used are all single, so a setup never fails.                            *)
CommandSetup(c) == [c EXCEPT !.rdCode = "none"]
ReadSetup(c, op) == [c EXCEPT !.rdAt = op.addr, !.rdCode = op.code]
WriteSetup(c, op) == [c EXCEPT !.wrCode = op.code, !.rdCode = "none", !.wrAt = op.addr]

-----------------------------------------------------------------------------
(* Execution                                                               *)

Outcome(c, chip, in, ok, fault) ==
  [ctl |-> c, chip |-> chip, in |-> in, ok |-> ok, fault |-> fault]

(* SpiApbExecFlashCmd: a command seen done at the last poll is reported as *)
(* a timeout; one that outlasts the polls is waited for.                   *)
ExecFlashCmd(c, chip, in) ==
  IF c.on THEN {Outcome(c, chip, in, TRUE, FALSE), Outcome(c, chip, <<>>, FALSE, TRUE)}
  ELSE {Outcome(c, chip, <<>>, FALSE, FALSE)}

(* Data are captured right at the slow speed, or with a delay that works.  *)
Captured(c, in, window) ==
  IF ~c.fast \/ c.delay \in window THEN in ELSE [j \in DOMAIN in |-> 1 - in[j]]

CommandRead(c, chip, op, window) ==
  UNION {ExecFlashCmd(c, Commanded(chip, op.code, 0, <<>>), Captured(c, in, window)) :
           in \in Answers(chip, op.code, 0, op.in)}

(* The address, when there are no data, goes out as data.                  *)
CommandWrite(c, chip, op) == ExecFlashCmd(c, Commanded(chip, op.code, op.addr, op.out), <<>>)

(* The FIFO may stay empty, or the end may not be seen.                    *)
IndirectReadExecute(c, chip, n, window) ==
  {Outcome(c, chip, Captured(c, in, window), TRUE, FALSE) :
     in \in Answers(chip, c.rdCode, c.rdAt, n)} \cup
  {Outcome(c, chip, <<>>, FALSE, TRUE)}

(* The FIFO may not drain, and then only part of the data has gone out.    *)
IndirectWriteExecute(c, chip, data) ==
  {Outcome(c, Commanded(chip, c.wrCode, c.wrAt, data), <<>>, TRUE, FALSE)} \cup
  {Outcome(c, Commanded(chip, c.wrCode, c.wrAt, SubSeq(data, 1, k)), <<>>, FALSE, TRUE) :
     k \in 0..Len(data)}

(* SpiTransfer                                                             *)
SpiTransfer(ctl, chip, op, window) ==
  LET c == ChipSelect(ctl)
  IN  IF op.in > 0
      THEN IF op.hasAddr THEN IndirectReadExecute(ReadSetup(c, op), chip, op.in, window)
           ELSE CommandRead(CommandSetup(c), chip, op, window)
      ELSE IF op.hasAddr /\ op.out # <<>>
           THEN IndirectWriteExecute(WriteSetup(c, op), chip, op.out)
           ELSE CommandWrite(CommandSetup(c), chip, op)

-----------------------------------------------------------------------------
(* Setup of the device                                                     *)

Delays == [i \in 1..(MaxDelay + 1) |-> i - 1]

(* The scan of SpiCalibration for the range of delays that work.           *)
Scan(window) ==
  FoldLeft(LAMBDA r, i :
             CASE r.found -> r
               [] ~r.found /\ r.low = -1 /\ i \in window -> [r EXCEPT !.low = i]
               [] ~r.found /\ r.low # -1 /\ i \notin window ->
                    [r EXCEPT !.high = i - 1, !.found = TRUE]
               [] OTHER -> [r EXCEPT !.high = i],
           [low |-> -1, high |-> -1, found |-> FALSE], Delays)

(* SpiCalibration: the outcomes for the controller, with the status; the   *)
(* chip answers every identification.                                      *)
SpiCalibration(c, window) ==
  LET slow   == ReadDataCapture(WriteSpeed(c, FALSE), 0)
      fast   == WriteSpeed(slow, TRUE)
      range  == Scan(window)
      chosen == (range.high + range.low) \div 2
      last   == ReadDataCapture(fast, MaxDelay)
  IN  {IF range.low = -1 THEN [ctl |-> last, ok |-> FALSE, fault |-> FALSE]
       ELSE [ctl |-> ReadDataCapture(fast, chosen), ok |-> TRUE, fault |-> FALSE]} \cup
      {[ctl |-> x, ok |-> FALSE, fault |-> TRUE] :
         x \in {slow} \cup {ReadDataCapture(fast, d) : d \in 0..MaxDelay}}

(* SpiSetupSlave: speed with calibration (PcdSpiFlashReadDelay is 0xFFFF), *)
(* then the clock mode; when it fails, Slave is freed.                     *)
SpiSetupSlave(ctl, window) ==
  {[ctl |-> IF r.ok THEN SetClkMode(r.ctl) ELSE r.ctl, freed |-> ~r.ok, fault |-> r.fault] :
     r \in SpiCalibration(ControllerDisable(ctl), window)}
=============================================================================
