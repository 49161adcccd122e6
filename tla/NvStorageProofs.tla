--------------------------- MODULE NvStorageProofs ---------------------------
(***************************************************************************)
(* Proofs about NvStorage, for a flash of any geometry, any volume, calls, *)
(* capture delays and polls, and any number of faults and power failures.  *)
(***************************************************************************)
EXTENDS NvStorage, TLAPS

Bit == {0, 1}

ChipOK(c) ==
  /\ c \in [cells : [Cells -> Bit], next : [Cells -> Bit], wel : BOOLEAN, wip : BOOLEAN]
  /\ ~c.wip => c.next = c.cells
CtlOK(c) == DOMAIN c = DOMAIN NewController /\ c.fast \in BOOLEAN

(* What is read at this speed is right.                                    *)
Captures(c) == c.fast => c.delay \in window

-----------------------------------------------------------------------------
(* The places of the driver                                                *)

Flash  == {"enable", "command", "status", "poll", "disable", "returned"}
Early  == {"probe", "init", "initStatus", "stall", "load", "read"}
Boots  == Early \cup {"install", "prepare", "publish"}
Loaded == {"install", "prepare", "publish", "idle"} \cup Flash
Before == {"off", "entry"} \cup (Boots \ {"publish"})   \* the volume is as it was

TypeOK ==
  /\ ChipOK(chip) /\ CtlOK(ctl)
  /\ pc \in {"off", "entry", "failed", "stray"} \cup Boots \cup Loaded
  /\ clean \in BOOLEAN
  /\ DOMAIN work = DOMAIN NoWork /\ DOMAIN call = DOMAIN NoCall
  /\ pc \in Loaded => shadow \in [1..FvbSize -> Bit]

(* The flash is what the start of the driver found.                        *)
Found == \A i \in Cells : chip.cells[i] = call.before[i] /\ chip.next[i] = call.before[i]

BootOK ==
  /\ pc \in Boots => call.op = "boot"
  /\ call.op = "boot" => call.range = Volume
  /\ pc \in ({"off", "entry"} \cup Boots) \ {"stall"} => ~chip.wip
  /\ pc \in (Boots \cup Loaded) \ {"probe"} => Captures(ctl)
  /\ pc \in {"read"} \cup Loaded => base = "shadow"
  /\ base = "ram" /\ (pc = "entry" \/ call.op = "boot") => ValidateFvHeader(ramVol.cells)
  /\ pc \in Before => stale = {}
  /\ pc \in Boots \ {"publish"} => Found
  /\ pc = "publish" => FvbValidateFvHeader(shadow) /\ (HeadersPlaced \/ VolumeFound)

(* The copy is what the flash holds and will hold.                         *)
Same(i) == shadow[i - FvbOffset + 1] = chip.cells[i] /\ chip.next[i] = chip.cells[i]
CopyOK ==
  /\ pc \in {"install", "prepare", "publish", "idle"} => \A i \in Volume \ stale : Same(i)
  /\ pc \in Flash /\ work.for = "call" => \A i \in Volume \ (stale \cup call.range) : Same(i)
  /\ pc = "idle" /\ call.op = "read" =>
       /\ call.at \in Nat
       /\ \A j \in 1..Len(call.data) :
            call.at + j \in 1..FvbSize /\ call.data[j] = shadow[call.at + j]

-----------------------------------------------------------------------------
(* The erase or write that is under way                                    *)

(* Nothing has come between the driver and the chip since it began: a      *)
(* format or its headers give up at the first error.                       *)
Steady == IF work.for = "call" THEN clean ELSE pc = "returned" => work.result = "ok"

Positive(list) == \A j \in 1..Len(list) : list[j][2] > 0
WorkOK ==
  pc \in Flash =>
    /\ \/ work.op = "erase" /\ work.for \in {"format", "call"}
       \/ work.op = "write" /\ work.for \in {"headers", "call"}
    /\ work.for # "call" => call.op = "boot"
    /\ work.for = "call" => call.op = work.op
    /\ {work.at, work.end} \subseteq Nat /\ work.at <= work.end /\ work.tries \in Nat \ {0}
    /\ work.list \in Seq(Nat \X Nat) /\ Positive(work.list)
    /\ work.op = "write" => work.list = <<>>
    /\ work.for = "headers" => stale = Volume
    /\ pc = "status" => work.op = "write"
    /\ pc = "disable" => work.op = "erase"
    /\ pc = "returned" => work.result \in {"ok", "error", "timeout"}
    /\ pc = "disable" \/ (pc = "returned" /\ work.result = "ok") => work.at = work.end

SteadyOK ==
  pc \in Flash /\ Steady =>
    /\ pc \in {"enable", "command", "disable"} \/ (pc = "returned" /\ work.result = "ok") =>
         ~chip.wip
    /\ pc = "command" => chip.wel
    /\ work.for = "call" /\ pc = "returned" => work.result = "ok"
    /\ work.for = "call" /\ pc \in {"enable", "command", "status", "poll"} =>
         work.tries > Sectors

CellsOf(list) == UNION {Block(lba) : lba \in Blocks(list)}
(* What an erase has still to do.                                          *)
Remaining ==
  (IF pc = "poll" THEN work.at + EraseSize ELSE work.at)..(work.end - 1) \cup CellsOf(work.list)
EraseOK ==
  pc \in Flash /\ work.op = "erase" =>
    /\ work.at % EraseSize = 0 /\ work.end % EraseSize = 0
    /\ pc \in {"enable", "command", "poll"} => work.at < work.end
    /\ call.range \subseteq Cells
    /\ work.at..(work.end - 1) \cup CellsOf(work.list) \subseteq call.range
    /\ work.for = "format" => work.list = <<>>
    /\ Steady => \A i \in call.range \ Remaining : chip.next[i] = 1

(* What a write is to leave, from where on, and how far it has come.       *)
Asked   == IF work.for = "headers" THEN Header ELSE call.data
Start   == IF work.for = "headers" THEN FvbOffset ELSE FvbOffset + call.at
Reached == IF pc \in {"status", "poll"} THEN work.at + Len(Chunk(work)) ELSE work.at
WasBlank == work.for = "headers" \/ \A i \in call.range : call.before[i] = 1
WriteOK ==
  pc \in Flash /\ work.op = "write" =>
    /\ Asked \in Seq(Bit) /\ Start \in Nat
    /\ work.end = Start + Len(Asked) /\ Start <= work.at
    /\ Start..(work.end - 1) \subseteq Volume
    /\ work.for = "call" => call.at \in Nat /\ call.range = Start..(work.end - 1)
    /\ work.data = SubSeq(Asked, work.at - Start + 1, Len(Asked))
    /\ Steady /\ WasBlank =>
         \A j \in 1..Len(Asked) :
           chip.next[Start + j - 1] = IF Start + j - 1 < Reached THEN Asked[j] ELSE 1

IdleOK ==
  /\ pc = "idle" /\ (clean \/ call.op = "boot") => ~chip.wip
  /\ pc = "idle" /\ call.op \in {"read", "attributes"} => call.range = {}

IInv ==
  /\ TypeOK /\ BootOK /\ CopyOK /\ WorkOK /\ SteadyOK /\ EraseOK /\ WriteOK /\ IdleOK
  /\ CleanCallIsExact /\ OthersUntouched /\ PublishedIsValid

-----------------------------------------------------------------------------
(* Transfers                                                               *)

(* An outcome leaves the speed as it was, and an error is a fault.         *)
Plain(o) ==
  /\ CtlOK(o.ctl) /\ o.ctl.fast = ctl.fast /\ o.ctl.delay = ctl.delay
  /\ o.ok \in BOOLEAN /\ o.fault \in BOOLEAN /\ (o.fault <=> ~o.ok)

LEMMA SelectedOK ==
  ASSUME CtlOK(ctl), NEW c, NEW op,
         \/ c = CommandSetup(ChipSelect(ctl))
         \/ c = ReadSetup(ChipSelect(ctl), op)
         \/ c = WriteSetup(ChipSelect(ctl), op)
  PROVE  CtlOK(c) /\ c.on = TRUE /\ c.fast = ctl.fast /\ c.delay = ctl.delay
BY DEF CtlOK, ChipSelect, CommandSetup, ReadSetup, WriteSetup, ControllerEnable,
       ControllerDisable, NewController

LEMMA ReadSelects ==
  ASSUME CtlOK(ctl), NEW op
  PROVE  /\ ReadSetup(ChipSelect(ctl), op).rdCode = op.code
         /\ ReadSetup(ChipSelect(ctl), op).rdAt = op.addr
         /\ WriteSetup(ChipSelect(ctl), op).wrCode = op.code
         /\ WriteSetup(ChipSelect(ctl), op).wrAt = op.addr
BY DEF CtlOK, ChipSelect, ReadSetup, WriteSetup, ControllerEnable, ControllerDisable, NewController

Executed(o, c, d, in) ==
  /\ o.ctl = c /\ o.chip = d /\ o.ok \in BOOLEAN /\ o.fault \in BOOLEAN /\ (o.fault <=> ~o.ok)
  /\ o.ok => o.in = in
LEMMA ExecOutcomes ==
  ASSUME NEW c, c.on = TRUE, NEW d, NEW in, NEW o \in ExecFlashCmd(c, d, in)
  PROVE  Executed(o, c, d, in)
PROOF
<1>1. \/ o = [ctl |-> c, chip |-> d, in |-> in, ok |-> TRUE, fault |-> FALSE]
      \/ o = [ctl |-> c, chip |-> d, in |-> <<>>, ok |-> FALSE, fault |-> TRUE]
  BY DEF ExecFlashCmd, Outcome
<1>2. /\ o.ctl = c /\ o.chip = d
      /\ (o.ok = TRUE /\ o.fault = FALSE /\ o.in = in) \/ (o.ok = FALSE /\ o.fault = TRUE)
  BY <1>1
<1> QED
  BY <1>2 DEF Executed

(* What has nothing to read, and no data after an address.                 *)
LEMMA CommandTransfers ==
  ASSUME CtlOK(ctl), NEW op, op.in = 0, ~(op.hasAddr /\ op.out # <<>>), NEW o \in Transfers(op)
  PROVE  Plain(o) /\ o.chip = Commanded(chip, op.code, op.addr, op.out)
PROOF
<1> DEFINE c == CommandSetup(ChipSelect(ctl))
<1>1. o \in CommandWrite(c, chip, op)
  BY DEF Transfers, SpiTransfer
<1>2. o \in ExecFlashCmd(c, Commanded(chip, op.code, op.addr, op.out), <<>>)
  BY <1>1 DEF CommandWrite
<1>3. CtlOK(c) /\ c.on = TRUE /\ c.fast = ctl.fast /\ c.delay = ctl.delay
  BY SelectedOK
<1> HIDE DEF c
<1>4. Executed(o, c, Commanded(chip, op.code, op.addr, op.out), <<>>)
  BY <1>2, <1>3, ExecOutcomes
<1> QED
  BY <1>3, <1>4 DEF Executed, Plain

LEMMA StatusTransfers ==
  ASSUME CtlOK(ctl), NEW o \in Transfers(OpIn("RDSR", 1))
  PROVE  /\ Plain(o) /\ o.chip = chip
         /\ o.ok /\ Captures(ctl) => o.in = IF chip.wip THEN <<1>> ELSE <<0>>
PROOF
<1> DEFINE c == CommandSetup(ChipSelect(ctl))
           op == OpIn("RDSR", 1)
           line == IF chip.wip THEN <<1>> ELSE <<0>>
<1>1. op.in = 1 /\ ~op.hasAddr /\ op.code = "RDSR"
  BY DEF OpIn, Op
<1>2. o \in CommandRead(c, chip, op, window)
  BY <1>1 DEF Transfers, SpiTransfer
<1>3. Commanded(chip, "RDSR", 0, <<>>) = chip
  BY DEF Commanded
<1>4. Answers(chip, "RDSR", 0, 1) = {line}
  BY DEF Answers
<1>5. o \in ExecFlashCmd(c, chip, Captured(c, line, window))
  BY <1>1, <1>2, <1>3, <1>4 DEF CommandRead
<1>6. CtlOK(c) /\ c.on = TRUE /\ c.fast = ctl.fast /\ c.delay = ctl.delay
  BY SelectedOK
<1> HIDE DEF c, line
<1>7. Captures(ctl) => Captured(c, line, window) = line
  BY <1>6 DEF Captures, Captured, CtlOK
<1>8. Executed(o, c, chip, Captured(c, line, window))
  BY <1>5, <1>6, ExecOutcomes
<1>9. Plain(o) /\ o.chip = chip /\ (o.ok => o.in = Captured(c, line, window))
  BY <1>6, <1>8 DEF Executed, Plain
<1> QED
  BY <1>7, <1>9 DEF line

LEMMA IdTransfers ==
  ASSUME CtlOK(ctl), ~chip.wip, NEW o \in Transfers(OpIn("RDID", 1))
  PROVE  /\ Plain(o) /\ o.chip = chip
         /\ o.ok /\ o.in = <<1>> => Captures(ctl)
PROOF
<1> DEFINE c == CommandSetup(ChipSelect(ctl))
           op == OpIn("RDID", 1)
<1>1. op.in = 1 /\ ~op.hasAddr /\ op.code = "RDID"
  BY DEF OpIn, Op
<1>2. o \in CommandRead(c, chip, op, window)
  BY <1>1 DEF Transfers, SpiTransfer
<1>3. Commanded(chip, "RDID", 0, <<>>) = chip
  BY DEF Commanded
<1>4. Answers(chip, "RDID", 0, 1) = {<<1>>}
  BY DEF Answers
<1>5. o \in ExecFlashCmd(c, chip, Captured(c, <<1>>, window))
  BY <1>1, <1>2, <1>3, <1>4 DEF CommandRead
<1>6. CtlOK(c) /\ c.on = TRUE /\ c.fast = ctl.fast /\ c.delay = ctl.delay
  BY SelectedOK
<1> HIDE DEF c
<1>7. ~Captures(ctl) => Captured(c, <<1>>, window)[1] = 0
  BY <1>6 DEF Captures, Captured, CtlOK
<1>8. Executed(o, c, chip, Captured(c, <<1>>, window))
  BY <1>5, <1>6, ExecOutcomes
<1>9. Plain(o) /\ o.chip = chip /\ (o.ok => o.in = Captured(c, <<1>>, window))
  BY <1>6, <1>8 DEF Executed, Plain
<1> QED
  BY <1>7, <1>9

LEMMA PlainCommands ==
  ASSUME CtlOK(ctl), NEW code, NEW o \in Transfers(Op(code))
  PROVE  Plain(o) /\ o.chip = Commanded(chip, code, 0, <<>>)
PROOF
<1> DEFINE op == Op(code)
<1>1. op.code = code /\ op.in = 0 /\ ~op.hasAddr /\ op.addr = 0 /\ op.out = <<>>
  BY DEF Op
<1> HIDE DEF op
<1> QED
  BY <1>1, CommandTransfers DEF op

LEMMA EraseTransfers ==
  ASSUME CtlOK(ctl), NEW at, NEW o \in Transfers(OpAt("ERASE", at))
  PROVE  Plain(o) /\ o.chip = Commanded(chip, "ERASE", at, <<>>)
PROOF
<1> DEFINE op == OpAt("ERASE", at)
<1>1. op.code = "ERASE" /\ op.in = 0 /\ op.hasAddr /\ op.addr = at /\ op.out = <<>>
  BY DEF Op, OpAt
<1> HIDE DEF op
<1> QED
  BY <1>1, CommandTransfers DEF op

LEMMA StatusWrites ==
  ASSUME CtlOK(ctl), NEW d, NEW o \in Transfers([Op("WRSR") EXCEPT !.out = d])
  PROVE  Plain(o) /\ o.chip = Commanded(chip, "WRSR", 0, d)
PROOF
<1> DEFINE op == [Op("WRSR") EXCEPT !.out = d]
<1>1. op.code = "WRSR" /\ op.in = 0 /\ ~op.hasAddr /\ op.addr = 0 /\ op.out = d
  BY DEF Op
<1> HIDE DEF op
<1> QED
  BY <1>1, CommandTransfers DEF op

(* All of the data reach the chip when the transfer succeeds, else the     *)
(* first of them.                                                          *)
LEMMA ProgramTransfers ==
  ASSUME CtlOK(ctl), NEW at, NEW d \in Seq(Bit), NEW o \in Transfers(OpOutAt("PROGRAM", at, d))
  PROVE  /\ Plain(o)
         /\ \E k \in 0..Len(d) : /\ o.chip = Commanded(chip, "PROGRAM", at, SubSeq(d, 1, k))
                                 /\ o.ok => k = Len(d)
PROOF
<1> DEFINE op == OpOutAt("PROGRAM", at, d)
           c  == WriteSetup(ChipSelect(ctl), op)
<1>1. op.code = "PROGRAM" /\ op.in = 0 /\ op.hasAddr /\ op.addr = at /\ op.out = d
  BY DEF Op, OpAt, OpOutAt
<1>2. SubSeq(d, 1, Len(d)) = d /\ Len(d) \in 0..Len(d)
  OBVIOUS
<1>3. CASE d = <<>>
  <2>1. Plain(o) /\ o.chip = Commanded(chip, "PROGRAM", at, d)
    BY <1>1, <1>3, CommandTransfers
  <2> QED
    BY <1>2, <2>1
<1>4. CASE d # <<>>
  <2>1. o \in IndirectWriteExecute(c, chip, d)
    BY <1>1, <1>4 DEF Transfers, SpiTransfer
  <2>2. /\ CtlOK(c) /\ c.on = TRUE /\ c.fast = ctl.fast /\ c.delay = ctl.delay
        /\ c.wrCode = "PROGRAM" /\ c.wrAt = at
    BY <1>1, SelectedOK, ReadSelects
  <2> HIDE DEF c
  <2>3. \/ o = [ctl |-> c, chip |-> Commanded(chip, "PROGRAM", at, d), in |-> <<>>,
                ok |-> TRUE, fault |-> FALSE]
        \/ \E k \in 0..Len(d) :
             o = [ctl |-> c, chip |-> Commanded(chip, "PROGRAM", at, SubSeq(d, 1, k)), in |-> <<>>,
                  ok |-> FALSE, fault |-> TRUE]
    BY <2>1, <2>2 DEF IndirectWriteExecute, Outcome
  <2>4. CASE o = [ctl |-> c, chip |-> Commanded(chip, "PROGRAM", at, d), in |-> <<>>,
                  ok |-> TRUE, fault |-> FALSE]
    <3>1. o.ctl = c /\ o.chip = Commanded(chip, "PROGRAM", at, d) /\ o.ok = TRUE /\ o.fault = FALSE
      BY <2>4
    <3> QED
      BY <1>2, <2>2, <3>1 DEF Plain
  <2>5. ASSUME NEW k \in 0..Len(d),
               o = [ctl |-> c, chip |-> Commanded(chip, "PROGRAM", at, SubSeq(d, 1, k)), in |-> <<>>,
                    ok |-> FALSE, fault |-> TRUE]
        PROVE  /\ Plain(o) /\ o.chip = Commanded(chip, "PROGRAM", at, SubSeq(d, 1, k)) /\ ~o.ok
    <3>1. /\ o.ctl = c /\ o.chip = Commanded(chip, "PROGRAM", at, SubSeq(d, 1, k))
          /\ o.ok = FALSE /\ o.fault = TRUE
      BY <2>5
    <3> QED
      BY <2>2, <3>1 DEF Plain
  <2> QED
    BY <2>3, <2>4, <2>5
<1> QED
  BY <1>3, <1>4

LEMMA VolumeReads ==
  ASSUME CtlOK(ctl), ~chip.wip, NEW at, NEW n \in Nat \ {0}, NEW o \in Transfers(OpInAt("READ", at, n))
  PROVE  /\ Plain(o) /\ o.chip = chip
         /\ o.ok /\ Captures(ctl) => o.in = [j \in 1..n |-> chip.cells[at + j - 1]]
PROOF
<1> DEFINE op == OpInAt("READ", at, n)
           c  == ReadSetup(ChipSelect(ctl), op)
           line == [j \in 1..n |-> chip.cells[at + j - 1]]
<1>1. op.code = "READ" /\ op.in = n /\ op.hasAddr /\ op.addr = at
  BY DEF Op, OpAt, OpInAt
<1>2. o \in IndirectReadExecute(c, chip, n, window)
  BY <1>1 DEF Transfers, SpiTransfer
<1>3. /\ CtlOK(c) /\ c.on = TRUE /\ c.fast = ctl.fast /\ c.delay = ctl.delay
      /\ c.rdCode = "READ" /\ c.rdAt = at
  BY <1>1, SelectedOK, ReadSelects
<1> HIDE DEF c
<1>4. Answers(chip, c.rdCode, c.rdAt, n) = {line}
  BY <1>3 DEF Answers
<1> HIDE DEF line
<1>5. \/ o = [ctl |-> c, chip |-> chip, in |-> Captured(c, line, window), ok |-> TRUE, fault |-> FALSE]
      \/ o = [ctl |-> c, chip |-> chip, in |-> <<>>, ok |-> FALSE, fault |-> TRUE]
  BY <1>2, <1>4 DEF IndirectReadExecute, Outcome
<1>6. /\ o.ctl = c /\ o.chip = chip
      /\ \/ o.ok = TRUE /\ o.fault = FALSE /\ o.in = Captured(c, line, window)
         \/ o.ok = FALSE /\ o.fault = TRUE
  BY <1>5
<1>7. Captures(ctl) => Captured(c, line, window) = line
  BY <1>3 DEF Captures, Captured, CtlOK
<1> QED
  BY <1>3, <1>6, <1>7 DEF Plain, line

(* The setup leaves a speed with a capture delay, whatever the scan found. *)
LEMMA SetupOK ==
  ASSUME CtlOK(ctl), NEW r \in SpiSetupSlave(ctl, window)
  PROVE  CtlOK(r.ctl)
PROOF
<1>1. \A c : CtlOK(c) => CtlOK(ControllerDisable(c)) /\ CtlOK(ControllerEnable(c)) /\ CtlOK(SetClkMode(c))
  BY DEF CtlOK, ControllerEnable, ControllerDisable, SetClkMode, NewController
<1>2. \A c, d : CtlOK(c) => CtlOK(ReadDataCapture(c, d))
  BY DEF CtlOK, ReadDataCapture, ControllerEnable, ControllerDisable, NewController
<1>3. \A c : CtlOK(c) => CtlOK(WriteSpeed(c, TRUE)) /\ CtlOK(WriteSpeed(c, FALSE))
  BY DEF CtlOK, WriteSpeed, ControllerEnable, ControllerDisable, NewController
<1> DEFINE slow == ReadDataCapture(WriteSpeed(ControllerDisable(ctl), FALSE), 0)
           fast == WriteSpeed(slow, TRUE)
<1>4. CtlOK(slow) /\ CtlOK(fast)
  BY <1>1, <1>2, <1>3
<1>5. ASSUME NEW q \in SpiCalibration(ControllerDisable(ctl), window)
      PROVE  CtlOK(q.ctl)
  <2> HIDE DEF fast, slow
  <2>1. \/ \E d : q = [ctl |-> ReadDataCapture(fast, d), ok |-> FALSE, fault |-> FALSE]
        \/ \E d : q = [ctl |-> ReadDataCapture(fast, d), ok |-> TRUE, fault |-> FALSE]
        \/ \E x \in {slow} \cup {ReadDataCapture(fast, d) : d \in 0..MaxDelay} :
              q = [ctl |-> x, ok |-> FALSE, fault |-> TRUE]
    BY <1>5, Zenon DEF SpiCalibration, slow, fast
  <2>2. \/ q.ctl = slow \/ \E d : q.ctl = ReadDataCapture(fast, d)
    BY <2>1
  <2> QED
    BY <1>2, <1>4, <2>2
<1>6. PICK q \in SpiCalibration(ControllerDisable(ctl), window) :
        r.ctl = IF q.ok THEN SetClkMode(q.ctl) ELSE q.ctl
  BY DEF SpiSetupSlave
<1> QED
  BY <1>1, <1>5, <1>6

-----------------------------------------------------------------------------
(* Numbers                                                                 *)

LEMMA Division ==
  ASSUME NEW n \in Nat, NEW m \in Nat \ {0}
  PROVE  n = m * (n \div m) + (n % m) /\ (n % m) \in 0..(m - 1) /\ n \div m \in Nat
OBVIOUS

LEMMA Multiple ==
  ASSUME NEW n \in Nat, NEW m \in Nat \ {0}, NEW q \in Nat, n = m * q
  PROVE  n % m = 0 /\ n \div m = q
OBVIOUS

LEMMA Multiples ==
  ASSUME NEW n \in Nat, NEW m \in Nat \ {0}, n % m = 0
  PROVE  \E a \in Nat : n = a * m
OBVIOUS

LEMMA MultipleSum ==
  ASSUME NEW m \in Nat \ {0}, NEW n \in Nat, NEW k \in Nat, n % m = 0, k % m = 0
  PROVE  (n + k) % m = 0
PROOF
<1>1. PICK a \in Nat : n = m * a
  OBVIOUS
<1>2. PICK b \in Nat : k = m * b
  OBVIOUS
<1>3. n + k = m * (a + b) /\ n + k \in Nat /\ a + b \in Nat
  BY <1>1, <1>2
<1> DEFINE q == a + b
<1> HIDE DEF q
<1>4. n + k = m * q /\ q \in Nat
  BY <1>3 DEF q
<1> QED
  BY <1>3, <1>4, Multiple

LEMMA MultipleProduct ==
  ASSUME NEW m \in Nat \ {0}, NEW n \in Nat, NEW k \in Nat, n % m = 0
  PROVE  (k * n) % m = 0 /\ k * n \in Nat
PROOF
<1>1. PICK a \in Nat : n = m * a
  OBVIOUS
<1>2. k * n = m * (k * a) /\ k * a \in Nat /\ k * n \in Nat
  BY <1>1
<1> QED
  BY <1>2, Multiple

(* Products keep their order.                                              *)
LEMMA ProductOrder ==
  ASSUME NEW m \in Nat, NEW a \in Nat, NEW b \in Nat, a <= b
  PROVE  m * a <= m * b
PROOF
<1>1. PICK e \in Nat : b = a + e
  OBVIOUS
<1>2. m * b = m * a + m * e /\ m * e \in Nat /\ m * a \in Nat
  BY <1>1
<1> QED
  BY <1>2

LEMMA MultipleBelow ==
  ASSUME NEW m \in Nat \ {0}, NEW n \in Nat, NEW k \in Nat, n % m = 0, k % m = 0, n < k
  PROVE  n + m <= k /\ (k - n) \div m = ((k - (n + m)) \div m) + 1
PROOF
<1>1. PICK a \in Nat : n = m * a
  OBVIOUS
<1>2. PICK b \in Nat : k = m * b
  OBVIOUS
<1>3. a + 1 <= b
  BY <1>1, <1>2
<1>4. m * (a + 1) <= m * b
  BY <1>3, ProductOrder
<1>5. k - n = m * (b - a) /\ k - (n + m) = m * (b - a - 1)
  BY <1>1, <1>2
<1>6. b - a \in Nat /\ b - a - 1 \in Nat
  BY <1>3
<1>7. k - n \in Nat /\ k - (n + m) \in Nat
  BY <1>1, <1>2, <1>4
<1>8. (k - n) \div m = b - a
  BY <1>5, <1>6, <1>7, Multiple
<1>9. (k - (n + m)) \div m = b - a - 1
  BY <1>5, <1>6, <1>7, Multiple
<1> QED
  BY <1>1, <1>2, <1>4, <1>8, <1>9

LEMMA SectorIs ==
  ASSUME NEW m \in Nat \ {0}, NEW at \in Nat, NEW i \in Nat, at % m = 0
  PROVE  (i \div m = at \div m) <=> i \in at..(at + m - 1)
PROOF
<1>1. PICK a \in Nat : at = m * a
  OBVIOUS
<1>2. at \div m = a
  BY <1>1
<1>3. ASSUME i \div m = a
      PROVE  i \in at..(at + m - 1)
  BY <1>1, <1>3, Division
<1>4. ASSUME i \in at..(at + m - 1)
      PROVE  i \div m = a
  <2>1. PICK r \in 0..(m - 1) : i = m * a + r
    BY <1>1, <1>4
  <2> QED
    BY <2>1
<1> QED
  BY <1>2, <1>3, <1>4

-----------------------------------------------------------------------------
(* The chip                                                                *)

(* Only the cells of R have a value now, or will have one, that they had   *)
(* not and were not to have.                                               *)
Spares(c, d, R) == \A i \in Cells \ R : {d.cells[i], d.next[i]} \subseteq {c.cells[i], c.next[i]}

LEMMA CommandedOK ==
  ASSUME NEW c, ChipOK(c), NEW code, NEW at, NEW data
  PROVE  /\ ChipOK(Commanded(c, code, at, data))
         /\ code \notin {"PROGRAM", "ERASE"} => Spares(c, Commanded(c, code, at, data), {})
         /\ Commanded(c, code, at, data).cells = c.cells
PROOF
<1>1. Programmed(c.cells, at, data) \in [Cells -> Bit]
  BY DEF ChipOK, Programmed, Bit
<1>2. Erased(c.cells, at) \in [Cells -> Bit]
  BY DEF ChipOK, Erased, Bit
<1> DEFINE d == Commanded(c, code, at, data)
<1>3. \/ d = c
      \/ code = "WREN" /\ d = [c EXCEPT !.wel = TRUE]
      \/ code = "WRDI" /\ d = [c EXCEPT !.wel = FALSE]
      \/ code = "PROGRAM" /\ ~c.wip /\ d = [c EXCEPT !.wip = TRUE, !.next = Programmed(c.cells, at, data)]
      \/ code = "ERASE" /\ ~c.wip /\ d = [c EXCEPT !.wip = TRUE, !.next = Erased(c.cells, at)]
      \/ code = "WRSR" /\ ~c.wip /\ d = [c EXCEPT !.wip = TRUE, !.next = c.cells]
  BY DEF Commanded
<1> HIDE DEF d
<1>4. ChipOK(d) /\ d.cells = c.cells
  BY <1>1, <1>2, <1>3 DEF ChipOK
<1>5. code \notin {"PROGRAM", "ERASE"} => d.next \in {c.next, c.cells}
  BY <1>3 DEF ChipOK
<1> QED
  BY <1>4, <1>5 DEF d, Spares

LEMMA CompletedOK ==
  ASSUME ChipOK(chip)
  PROVE  /\ ChipOK(Completed(chip)) /\ ~Completed(chip).wip
         /\ Completed(chip).cells = chip.next /\ Completed(chip).next = chip.next
         /\ Spares(chip, Completed(chip), {})
BY DEF ChipOK, Completed, NewChip, Spares

LEMMA PowerLostOK ==
  ASSUME ChipOK(chip), NEW d \in PowerLost(chip)
  PROVE  ChipOK(d) /\ ~d.wip /\ Spares(chip, d, {})
PROOF
<1>1. PICK done \in SUBSET Cells :
        d = NewChip([i \in Cells |-> IF i \in done THEN chip.next[i] ELSE chip.cells[i]])
  BY DEF PowerLost, ChipOK
<1> DEFINE f == [i \in Cells |-> IF i \in done THEN chip.next[i] ELSE chip.cells[i]]
<1>2. f \in [Cells -> Bit] /\ \A i \in Cells : f[i] \in {chip.cells[i], chip.next[i]}
  BY DEF ChipOK
<1> HIDE DEF f
<1>3. d.cells = f /\ d.next = f /\ d.wip = FALSE /\ d.wel = FALSE
  BY <1>1 DEF NewChip, f
<1>4. ChipOK(d)
  BY <1>1, <1>2 DEF NewChip, f, ChipOK
<1> QED
  BY <1>2, <1>3, <1>4 DEF Spares

(* An erase of the sector at "at".                                         *)
LEMMA ErasesSector ==
  ASSUME NEW c, ChipOK(c), NEW at \in Nat, at % EraseSize = 0
  PROVE  LET d      == Commanded(c, "ERASE", at, <<>>)
             sector == at..(at + EraseSize - 1)
         IN  /\ Spares(c, d, sector)
             /\ c.wel /\ ~c.wip =>
                  \A i \in Cells : d.next[i] = IF i \in sector THEN 1 ELSE c.next[i]
PROOF
<1> DEFINE d      == Commanded(c, "ERASE", at, <<>>)
           sector == at..(at + EraseSize - 1)
<1>1. \A i \in Cells : (i \div EraseSize = at \div EraseSize) <=> i \in sector
  BY PagesAssumption, SectorIs DEF Cells
<1>2. \A i \in Cells : Erased(c.cells, at)[i] = IF i \in sector THEN 1 ELSE c.cells[i]
  <2> HIDE DEF sector
  <2> QED
    BY <1>1 DEF Erased, ChipOK
<1>3. \/ d = c /\ ~(c.wel /\ ~c.wip)
      \/ ~c.wip /\ d = [c EXCEPT !.wip = TRUE, !.next = Erased(c.cells, at)]
  BY DEF Commanded
<1> HIDE DEF d, sector
<1>4. \/ d = c /\ ~(c.wel /\ ~c.wip)
      \/ ~c.wip /\ d.cells = c.cells /\ d.next = Erased(c.cells, at) /\ c.next = c.cells
  BY <1>3 DEF ChipOK
<1>5. Spares(c, d, sector)
  BY <1>2, <1>4 DEF Spares
<1>6. ASSUME c.wel, ~c.wip, NEW i \in Cells
      PROVE  d.next[i] = IF i \in sector THEN 1 ELSE c.next[i]
  BY <1>2, <1>4, <1>6
<1> QED
  BY <1>5, <1>6 DEF d, sector

(* So many cells stay inside the page.                                     *)
InPage(at, n) == (at % PageSize) + n <= PageSize

(* The cells that a program of data makes 0 are those of d.                *)
Zeroes(c, d, at, data) ==
  \A i \in Cells :
    d.next[i] = IF i \in at..(at + Len(data) - 1) /\ data[i - at + 1] = 0 THEN 0 ELSE c.next[i]

(* A program of data that stay inside a page.                              *)
LEMMA ProgramsChunk ==
  ASSUME NEW c, ChipOK(c), NEW at \in Nat, NEW data \in Seq(Bit), InPage(at, Len(data))
  PROVE  /\ Spares(c, Commanded(c, "PROGRAM", at, data), at..(at + Len(data) - 1))
         /\ c.wel /\ ~c.wip => Zeroes(c, Commanded(c, "PROGRAM", at, data), at, data)
PROOF
<1> DEFINE d   == Commanded(c, "PROGRAM", at, data)
           hit == at..(at + Len(data) - 1)
           page == PageSize * (at \div PageSize)
<1>0. (at % PageSize) + Len(data) <= PageSize
  BY DEF InPage
<1>1. page \in Nat /\ at = page + (at % PageSize) /\ (at % PageSize) \in Nat /\ PageSize \in Nat \ {0}
  <2>1. PageSize \in Nat \ {0}
    BY PagesAssumption
  <2>2. at \div PageSize \in Nat /\ (at % PageSize) \in Nat /\ at = page + (at % PageSize)
    BY <2>1
  <2> QED
    BY <2>1, <2>2
<1> HIDE DEF page
<1>2. \A j \in 1..Len(data) : page + ((at - page + j - 1) % PageSize) = at + j - 1
  <2> TAKE j \in 1..Len(data)
  <2> DEFINE r == at % PageSize
  <2>1. at - page + j - 1 = r + j - 1 /\ r + j - 1 \in 0..(PageSize - 1)
    BY <1>0, <1>1
  <2> HIDE DEF r
  <2>3. (r + j - 1) % PageSize = r + j - 1
    BY <1>1, <2>1
  <2> QED
    <3>1. (at - page + j - 1) % PageSize = r + j - 1
      BY <2>1, <2>3
    <3> QED
      BY <1>1, <2>1, <3>1
<1> DEFINE hits == [j \in 1..Len(data) |-> page + ((at - page + j - 1) % PageSize)]
<1>3. hits = [j \in 1..Len(data) |-> at + j - 1]
  BY <1>2
<1>4. Programmed(c.cells, at, data) =
        [i \in DOMAIN c.cells |->
           IF \E j \in 1..Len(data) : hits[j] = i /\ data[j] = 0 THEN 0 ELSE c.cells[i]]
  BY DEF Programmed, page
<1> HIDE DEF hits
<1>5. \A i \in Cells :
        (\E j \in 1..Len(data) : hits[j] = i /\ data[j] = 0) <=> i \in hit /\ data[i - at + 1] = 0
  <2> TAKE i \in Cells
  <2>1. ASSUME NEW j \in 1..Len(data), hits[j] = i, data[j] = 0
        PROVE  i \in hit /\ data[i - at + 1] = 0
    <3>1. i = at + j - 1 /\ j = i - at + 1
      BY <1>3, <2>1
    <3> QED
      BY <2>1, <3>1
  <2>2. ASSUME i \in hit, data[i - at + 1] = 0
        PROVE  \E j \in 1..Len(data) : hits[j] = i /\ data[j] = 0
    <3>1. i - at + 1 \in 1..Len(data) /\ at + (i - at + 1) - 1 = i
      BY <2>2
    <3>2. hits[i - at + 1] = i
      BY <1>3, <3>1
    <3> QED
      BY <2>2, <3>1, <3>2
  <2> QED
    BY <2>1, <2>2
<1>6. \A i \in Cells : Programmed(c.cells, at, data)[i] =
                         IF i \in hit /\ data[i - at + 1] = 0 THEN 0 ELSE c.cells[i]
  <2> HIDE DEF hit
  <2> QED
    BY <1>4, <1>5 DEF ChipOK
<1>7. \/ d = c /\ ~(c.wel /\ ~c.wip)
      \/ ~c.wip /\ d = [c EXCEPT !.wip = TRUE, !.next = Programmed(c.cells, at, data)]
  BY DEF Commanded
<1> HIDE DEF d, hit
<1>8. \/ d = c /\ ~(c.wel /\ ~c.wip)
      \/ ~c.wip /\ d.cells = c.cells /\ d.next = Programmed(c.cells, at, data) /\ c.next = c.cells
  BY <1>7 DEF ChipOK
<1>9. Spares(c, d, hit)
  BY <1>6, <1>8 DEF Spares
<1>10. ASSUME c.wel, ~c.wip, NEW i \in Cells
       PROVE  d.next[i] = IF i \in hit /\ data[i - at + 1] = 0 THEN 0 ELSE c.next[i]
  BY <1>6, <1>8, <1>10
<1> QED
  BY <1>9, <1>10 DEF d, hit, Zeroes

(* A chunk is what is left of the data, up to the end of the page.         *)
LEMMA ChunkFits ==
  ASSUME NEW w, w.at \in Nat, w.data \in Seq(Bit)
  PROVE  /\ Chunk(w) \in Seq(Bit) /\ Len(Chunk(w)) <= Len(w.data)
         /\ InPage(w.at, Len(Chunk(w)))
         /\ \A j \in 1..Len(Chunk(w)) : Chunk(w)[j] = w.data[j]
         /\ w.data # <<>> => Len(Chunk(w)) > 0
PROOF
<1> DEFINE at   == w.at
           data == w.data
           room == PageSize - (at % PageSize)
           n    == IF room < Len(data) THEN room ELSE Len(data)
<1>1. room \in 1..PageSize /\ at % PageSize \in Nat /\ PageSize \in Nat
  BY PagesAssumption
<1>2. Len(data) \in Nat /\ (data # <<>> => Len(data) > 0)
  OBVIOUS
<1>3. n \in 0..Len(data) /\ n <= room /\ (data # <<>> => n > 0)
  <2> HIDE DEF room
  <2> QED
    BY <1>1, <1>2
<1>4. Chunk(w) = SubSeq(data, 1, n)
  BY DEF Chunk
<1> HIDE DEF n
<1>5. SubSeq(data, 1, n) \in Seq(Bit) /\ Len(SubSeq(data, 1, n)) = n
      /\ \A j \in 1..n : SubSeq(data, 1, n)[j] = data[j]
  BY <1>3
<1> QED
  BY <1>1, <1>2, <1>3, <1>4, <1>5 DEF InPage

-----------------------------------------------------------------------------
(* Blocks                                                                  *)

(* Blocks are whole sectors, and the volume is whole blocks.               *)
LEMMA BlockOK ==
  ASSUME NEW lba \in Nat
  PROVE  LET at  == FvbOffset + lba * BlockSize
             end == FvbOffset + (lba + 1) * BlockSize
         IN  /\ at \in Nat /\ end = at + BlockSize /\ at < end
             /\ at % EraseSize = 0 /\ end % EraseSize = 0
             /\ Block(lba) = at..(end - 1)
             /\ (end - at) \div EraseSize = BlockSize \div EraseSize
PROOF
<1> DEFINE at  == FvbOffset + lba * BlockSize
           end == FvbOffset + (lba + 1) * BlockSize
<1>1. BlockSize \in Nat \ {0} /\ EraseSize \in Nat \ {0} /\ FvbOffset \in Nat
  BY FvbAssumption, PagesAssumption
<1>2. BlockSize % EraseSize = 0
  BY GeometryAssumption
<1>3. FvbOffset % EraseSize = 0
  <2>1. FvbOffset % BlockSize = 0
    BY FvbAssumption
  <2>2. PICK a \in Nat : FvbOffset = a * BlockSize
    BY <1>1, <2>1, Multiples
  <2> QED
    BY <1>1, <1>2, <2>2, MultipleProduct
<1>4. \A k \in Nat : k * BlockSize \in Nat /\ (k * BlockSize) % EraseSize = 0
  BY <1>1, <1>2, MultipleProduct
<1>5. \A k \in Nat : (FvbOffset + k * BlockSize) % EraseSize = 0
  BY <1>1, <1>3, <1>4, MultipleSum
<1>6. at \in Nat /\ end = at + BlockSize /\ at < end /\ end - at = BlockSize
  <2>1. (lba + 1) * BlockSize = lba * BlockSize + BlockSize
    BY <1>1
  <2> QED
    BY <1>1, <1>4, <2>1
<1>7. at % EraseSize = 0 /\ end % EraseSize = 0
  BY <1>5
<1>8. Block(lba) = at..(end - 1)
  <2>1. \A e \in Nat : FvbOffset + (e - 1) = (FvbOffset + e) - 1
    BY <1>1
  <2>2. FvbOffset + ((lba + 1) * BlockSize - 1) = end - 1
    BY <1>4, <2>1
  <2> QED
    BY <2>2, Zenon DEF Block
<1> HIDE DEF at, end
<1> QED
  BY <1>6, <1>7, <1>8 DEF at, end

(* The polls last for a block.                                             *)
LEMMA TriesEnough == PollTries \in Nat /\ PollTries > 1 /\ BlockSize \div EraseSize < PollTries
PROOF
<1>1. BlockSize \in Nat \ {0} /\ EraseSize \in Nat \ {0} /\ PollTries \in Nat
  BY FvbAssumption, PagesAssumption
<1>2. BlockSize % EraseSize = 0 /\ BlockSize \div EraseSize < PollTries
  BY GeometryAssumption
<1>3. BlockSize \div EraseSize > 0
  <2>1. PICK a \in Nat : BlockSize = a * EraseSize
    BY <1>1, <1>2, Multiples
  <2>2. a # 0
    BY <1>1, <2>1
  <2> QED
    BY <1>1, <2>1, <2>2, Multiple
<1>4. BlockSize \div EraseSize \in Nat
  BY <1>1
<1> QED
  BY <1>1, <1>2, <1>3, <1>4

LEMMA VolumeOK ==
  /\ FvbOffset % EraseSize = 0 /\ (FvbOffset + FvbSize) % EraseSize = 0
  /\ FvbOffset < FvbOffset + FvbSize /\ FvbOffset \in Nat /\ FvbSize \in Nat \ {0}
  /\ Volume \subseteq Cells
PROOF
<1>1. /\ BlockSize \in Nat \ {0} /\ EraseSize \in Nat \ {0} /\ FvbOffset \in Nat
      /\ FvbSize \in Nat \ {0} /\ Size \in Nat /\ FvbSize <= Size
  BY FvbAssumption, PagesAssumption
<1>2. \A n \in Nat : n % BlockSize = 0 => n % EraseSize = 0
  <2> SUFFICES ASSUME NEW n \in Nat, n % BlockSize = 0
               PROVE  n % EraseSize = 0
    OBVIOUS
  <2>1. PICK a \in Nat : n = a * BlockSize
    BY <1>1, Multiples
  <2>2. BlockSize % EraseSize = 0
    BY GeometryAssumption
  <2> QED
    BY <1>1, <2>1, <2>2, MultipleProduct
<1>3. FvbOffset % EraseSize = 0 /\ FvbSize % EraseSize = 0
  BY <1>1, <1>2, FvbAssumption
<1>4. (FvbOffset + FvbSize) % EraseSize = 0
  BY <1>1, <1>3, MultipleSum
<1> QED
  BY <1>1, <1>3, <1>4 DEF Volume, Cells

(* The first block of a list, and the rest.                                *)
LEMMA ListStep ==
  ASSUME NEW list \in Seq(Nat \X Nat), list # <<>>, Positive(list)
  PROVE  /\ Head(list)[1] \in Nat /\ AfterBlock(list) \in Seq(Nat \X Nat)
         /\ Positive(AfterBlock(list))
         /\ Blocks(list) = {Head(list)[1]} \cup Blocks(AfterBlock(list))
         /\ Blocks(AfterBlock(list)) \subseteq Nat
PROOF
<1> DEFINE first == list[1][1]
           many  == list[1][2]
           In(l, b) == \E j \in 1..Len(l) : l[j][1] <= b /\ b <= l[j][1] + l[j][2] - 1
<1>1. /\ Len(list) \in Nat \ {0} /\ Head(list) = list[1] /\ first \in Nat /\ many \in Nat /\ many > 0
      /\ \A j \in 1..Len(list) : list[j][1] \in Nat /\ list[j][2] \in Nat
  BY DEF Positive
<1>2. ASSUME NEW l \in Seq(Nat \X Nat)
      PROVE  Blocks(l) \subseteq Nat /\ \A b \in Nat : b \in Blocks(l) <=> In(l, b)
  <2>1. DOMAIN l = 1..Len(l) /\ \A j \in 1..Len(l) : l[j][1] \in Nat /\ l[j][2] \in Nat
    OBVIOUS
  <2>2. Blocks(l) \subseteq Nat
    BY <2>1 DEF Blocks
  <2>3. ASSUME NEW b \in Nat
        PROVE  b \in Blocks(l) <=> In(l, b)
    BY <2>1 DEF Blocks
  <2> QED
    BY <2>2, <2>3
<1>3. ASSUME many = 1
      PROVE  /\ AfterBlock(list) \in Seq(Nat \X Nat) /\ Positive(AfterBlock(list))
             /\ \A b \in Nat : In(list, b) <=> b = first \/ In(AfterBlock(list), b)
  <2>1. AfterBlock(list) = Tail(list)
    BY <1>1, <1>3 DEF AfterBlock
  <2>2. /\ Tail(list) \in Seq(Nat \X Nat) /\ Len(Tail(list)) = Len(list) - 1
        /\ \A j \in 1..(Len(list) - 1) : Tail(list)[j] = list[j + 1]
    BY <1>1
  <2>3. Positive(Tail(list))
    BY <1>1, <2>2 DEF Positive
  <2>4. ASSUME NEW b \in Nat
        PROVE  In(list, b) <=> b = first \/ In(Tail(list), b)
    <3>1. ASSUME NEW j \in 1..Len(list), list[j][1] <= b, b <= list[j][1] + list[j][2] - 1
          PROVE  b = first \/ In(Tail(list), b)
      <4>1. CASE j = 1
        BY <1>1, <1>3, <3>1, <4>1
      <4>2. CASE j # 1
        <5>1. j - 1 \in 1..(Len(list) - 1) /\ (j - 1) + 1 = j
          BY <1>1, <4>2
        <5>2. Tail(list)[j - 1] = list[j]
          BY <2>2, <5>1
        <5> QED
          BY <2>2, <3>1, <5>1, <5>2
      <4> QED
        BY <4>1, <4>2
    <3>2. ASSUME b = first
          PROVE  In(list, b)
      BY <1>1, <1>3, <3>2
    <3>3. ASSUME NEW j \in 1..Len(Tail(list)),
                 Tail(list)[j][1] <= b, b <= Tail(list)[j][1] + Tail(list)[j][2] - 1
          PROVE  In(list, b)
      <4>1. j + 1 \in 1..Len(list) /\ Tail(list)[j] = list[j + 1]
        BY <1>1, <2>2
      <4> QED
        BY <3>3, <4>1
    <3> QED
      BY <3>1, <3>2, <3>3
  <2> QED
    BY <2>1, <2>2, <2>3, <2>4
<1>4. ASSUME many # 1
      PROVE  /\ AfterBlock(list) \in Seq(Nat \X Nat) /\ Positive(AfterBlock(list))
             /\ \A b \in Nat : In(list, b) <=> b = first \/ In(AfterBlock(list), b)
  <2> DEFINE l == AfterBlock(list)
  <2>1. l = [list EXCEPT ![1] = <<first + 1, many - 1>>]
    BY <1>1, <1>4 DEF AfterBlock
  <2>2. /\ l \in Seq(Nat \X Nat) /\ Len(l) = Len(list) /\ l[1] = <<first + 1, many - 1>>
        /\ \A j \in 2..Len(list) : l[j] = list[j]
    <3>1. <<first + 1, many - 1>> \in Nat \X Nat
      BY <1>1, <1>4
    <3> QED
      BY <1>1, <2>1, <3>1
  <2> HIDE DEF l
  <2>3. l[1][1] = first + 1 /\ l[1][2] = many - 1 /\ many - 1 > 0
    BY <1>1, <1>4, <2>2
  <2>6. \A j \in 1..Len(list) : j # 1 => j \in 2..Len(list)
    BY <1>1
  <2>4. Positive(l)
    <3>1. \A j \in 1..Len(list) : j # 1 => l[j][2] > 0
      BY <2>2, <2>6 DEF Positive
    <3> QED
      BY <2>2, <2>3, <3>1 DEF Positive
  <2>5. ASSUME NEW b \in Nat
        PROVE  In(list, b) <=> b = first \/ In(l, b)
    <3>1. ASSUME NEW j \in 1..Len(list), list[j][1] <= b, b <= list[j][1] + list[j][2] - 1
          PROVE  b = first \/ In(l, b)
      <4>1. CASE j = 1
        <5>1. first <= b /\ b <= first + many - 1 /\ first \in Nat /\ many \in Nat
          BY <1>1, <3>1, <4>1
        <5>2. b = first \/ (first + 1 <= b /\ b <= first + 1 + (many - 1) - 1)
          BY <5>1
        <5>3. b = first \/ (l[1][1] <= b /\ b <= l[1][1] + l[1][2] - 1)
          BY <2>3, <5>2
        <5>4. 1 \in 1..Len(l)
          BY <1>1, <2>2
        <5> QED
          BY <5>3, <5>4
      <4>2. CASE j # 1
        BY <2>2, <2>6, <3>1, <4>2
      <4> QED
        BY <4>1, <4>2
    <3>2. ASSUME b = first
          PROVE  In(list, b)
      BY <1>1, <3>2
    <3>3. ASSUME NEW j \in 1..Len(l), l[j][1] <= b, b <= l[j][1] + l[j][2] - 1
          PROVE  In(list, b)
      <4>1. CASE j = 1
        <5>1. list[1][1] <= b /\ b <= list[1][1] + list[1][2] - 1
          BY <1>1, <2>3, <3>3, <4>1
        <5> QED
          BY <1>1, <5>1
      <4>2. CASE j # 1
        BY <2>2, <2>6, <3>3, <4>2
      <4> QED
        BY <4>1, <4>2
    <3> QED
      BY <3>1, <3>2, <3>3
  <2> QED
    BY <2>2, <2>4, <2>5 DEF l
<1>5. /\ AfterBlock(list) \in Seq(Nat \X Nat) /\ Positive(AfterBlock(list))
      /\ \A b \in Nat : In(list, b) <=> b = first \/ In(AfterBlock(list), b)
  BY <1>3, <1>4
<1>6. /\ Blocks(list) \subseteq Nat /\ Blocks(AfterBlock(list)) \subseteq Nat
      /\ \A b \in Nat : b \in Blocks(list) <=> b = first \/ b \in Blocks(AfterBlock(list))
  <2>1. /\ Blocks(list) \subseteq Nat
        /\ \A b \in Nat : b \in Blocks(list) <=> In(list, b)
    BY <1>2
  <2>2. /\ Blocks(AfterBlock(list)) \subseteq Nat
        /\ \A b \in Nat : b \in Blocks(AfterBlock(list)) <=> In(AfterBlock(list), b)
    BY <1>2, <1>5
  <2> HIDE DEF In
  <2> QED
    BY <1>5, <2>1, <2>2
<1> QED
  BY <1>1, <1>5, <1>6

(* The sectors a list erases, and what it erases after the first block.    *)
LEMMA CellsStep ==
  ASSUME NEW list \in Seq(Nat \X Nat), list # <<>>, Positive(list)
  PROVE  CellsOf(list) = Block(Head(list)[1]) \cup CellsOf(AfterBlock(list))
BY ListStep DEF CellsOf

LEMMA NoCells == CellsOf(<<>>) = {}
BY DEF CellsOf, Blocks

LEMMA ValidCells ==
  ASSUME NEW list \in Seq(Nat \X Nat), ListValid(list)
  PROVE  CellsOf(list) \subseteq Cells
PROOF
<1>1. /\ BlockSize \in Nat \ {0} /\ FvbOffset \in Nat /\ Size \in Nat /\ Size % BlockSize = 0
  BY FvbAssumption
<1>2. PICK q \in Nat : Size = q * BlockSize
  BY <1>1, Multiples
<1>7. LastBlock = q - 1
  BY <1>1, <1>2, Multiple DEF LastBlock
<1>3. SUFFICES ASSUME NEW lba \in Blocks(list)
               PROVE  Block(lba) \subseteq Cells
  BY DEF CellsOf
<1>4. lba \in Nat /\ lba + 1 <= q
  <2>1. PICK j \in 1..Len(list) : lba \in list[j][1]..(list[j][1] + list[j][2] - 1)
    <3>1. DOMAIN list = 1..Len(list)
      OBVIOUS
    <3> QED
      BY <3>1 DEF Blocks
  <2>2. list[j][1] \in Nat /\ list[j][2] \in Nat /\ list[j][1] + list[j][2] - 1 <= LastBlock
    BY DEF ListValid
  <2> QED
    BY <1>7, <2>1, <2>2
<1>5. BlockSize * (lba + 1) <= BlockSize * q
  BY <1>1, <1>4, ProductOrder
<1>6. FvbOffset + (lba + 1) * BlockSize <= FvbOffset + Size
  BY <1>1, <1>2, <1>4, <1>5
<1> DEFINE at  == FvbOffset + lba * BlockSize
           end == FvbOffset + (lba + 1) * BlockSize
<1>8. at \in Nat /\ end \in Nat /\ Block(lba) = at..(end - 1)
  BY <1>4, BlockOK
<1> HIDE DEF at
<1>9. end <= FvbOffset + Size
  BY <1>6
<1> HIDE DEF end
<1> QED
  BY <1>1, <1>8, <1>9 DEF Cells

-----------------------------------------------------------------------------
(* Steps of the flash driver                                               *)

LEMMA PlainKeeps ==
  ASSUME NEW o, Plain(o), Captures(ctl), ctl' = o.ctl, UNCHANGED window
  PROVE  CtlOK(ctl') /\ Captures(ctl)'
BY DEF Plain, Captures

LEMMA SparesMore ==
  ASSUME NEW c, NEW d, NEW R, NEW Q, Spares(c, d, R), R \subseteq Q
  PROVE  Spares(c, d, Q)
BY DEF Spares

LEMMA SparesSelf == ASSUME NEW c, NEW R PROVE Spares(c, c, R)
BY DEF Spares

(* A call leaves the other cells alone as long as each step spares them.   *)
LEMMA SparedStay ==
  ASSUME OthersUntouched, Spares(chip, chip', call.range),
         call'.op = call.op, call'.range = call.range,
         call'.before = call.before, call'.coming = call.coming
  PROVE  OthersUntouched'
BY DEF OthersUntouched, Spares, Cells

LEMMA FoundStays ==
  ASSUME Found, Spares(chip, chip', {}), call' = call
  PROVE  Found'
BY DEF Found, Spares, Cells

(* Cells that agree with the copy and are spared go on doing so.           *)
LEMMA SameStays ==
  ASSUME NEW R, Spares(chip, chip', R), shadow' = shadow, NEW i \in Volume \ R, Same(i)
  PROVE  Same(i)'
BY VolumeOK DEF Spares, Same

(* What a step inside the flash driver has to show.                        *)
FlashFrame ==
  /\ pc \in Flash /\ pc' \in Flash
  /\ UNCHANGED <<window, shadow, stale, base, call, ramVol>>
  /\ CtlOK(ctl') /\ Captures(ctl)' /\ ChipOK(chip') /\ clean' \in BOOLEAN
  /\ DOMAIN work' = DOMAIN NoWork /\ work'.for = work.for
  /\ Spares(chip, chip', call.range)

LEMMA FlashStep ==
  ASSUME IInv, FlashFrame, WorkOK', SteadyOK', EraseOK', WriteOK'
  PROVE  IInv'
PROOF
<1> USE DEF FlashFrame
<1>1. TypeOK'
  BY DEF IInv, TypeOK, Loaded
<1>2. BootOK'
  BY DEF IInv, BootOK, Loaded, Flash, Boots, Early, Before
<1>3. CopyOK'
  <2>1. pc' \notin {"install", "prepare", "publish", "idle"}
    BY DEF Flash
  <2>2. ASSUME work'.for = "call", NEW i \in Volume \ (stale \cup call.range)
        PROVE  Same(i)'
    <3>1. Same(i)
      BY <2>2 DEF IInv, CopyOK
    <3> QED
      BY <3>1, SameStays
  <2> QED
    BY <2>1, <2>2 DEF CopyOK, Volume
<1>4. IdleOK' /\ CleanCallIsExact' /\ PublishedIsValid'
  BY DEF Flash, IdleOK, CleanCallIsExact, PublishedIsValid, Idle
<1>5. OthersUntouched'
  BY SparedStay DEF IInv
<1> QED
  BY <1>1, <1>2, <1>3, <1>4, <1>5 DEF IInv

(* An error, or a timeout, ends what was under way: for a call a fault has *)
(* been seen, and the start gives up.                                      *)
LEMMA ErrorReturns ==
  ASSUME IInv, FlashFrame, NEW result \in {"error", "timeout"}, Return(work, result),
         work.for = "call" => ~clean'
  PROVE  IInv'
PROOF
<1>1. /\ pc' = "returned" /\ work'.result = result
      /\ \A f \in {"op", "for", "at", "end", "data", "tries", "list"} : work'[f] = work[f]
  BY DEF Return, IInv, TypeOK, NoWork
<1>2. ~Steady'
  BY <1>1 DEF Steady, FlashFrame
<1>3. WorkOK'
  BY <1>1 DEF IInv, WorkOK, FlashFrame, Flash, Positive
<1>4. SteadyOK'
  BY <1>2 DEF SteadyOK
<1>5. EraseOK'
  BY <1>1, <1>2 DEF IInv, EraseOK, FlashFrame, CellsOf, Blocks, Block, Cells
<1>6. WriteOK'
  <2>1. Asked' = Asked /\ Start' = Start
    BY <1>1 DEF Asked, Start, FlashFrame
  <2> QED
    BY <1>1, <1>2, <2>1 DEF IInv, WriteOK, FlashFrame, Volume
<1> QED
  BY <1>3, <1>4, <1>5, <1>6, FlashStep

(* A step that leaves the work as it is, but for the place and the chip.   *)
LEMMA SameWork ==
  ASSUME IInv, FlashFrame, UNCHANGED work
  PROVE  /\ Asked' = Asked /\ Start' = Start /\ WasBlank' = WasBlank /\ Sectors' = Sectors
         /\ CellsOf(work.list)' = CellsOf(work.list) /\ Chunk(work)' = Chunk(work)
         /\ work.for # "call" /\ pc # "returned" => Steady
         /\ work.for = "call" => (Steady <=> clean)
BY DEF FlashFrame, Asked, Start, WasBlank, Sectors, Steady

LEMMA EnableStep ==
  ASSUME IInv, SpiFlashWriteEnable, UNCHANGED ramVol
  PROVE  IInv'
PROOF
<1>1. PICK o \in Transfers(Op("WREN")) :
        /\ Transfer(o)
        /\ IF o.ok THEN pc' = "command" /\ UNCHANGED work ELSE Return(work, "error")
  BY DEF SpiFlashWriteEnable
<1>2. CtlOK(ctl) /\ ChipOK(chip) /\ Captures(ctl) /\ clean \in BOOLEAN /\ pc = "enable"
  BY DEF IInv, TypeOK, BootOK, SpiFlashWriteEnable, Loaded, Flash
<1> DEFINE d == Commanded(chip, "WREN", 0, <<>>)
<1>3. Plain(o) /\ chip' = d
  BY <1>1, <1>2, PlainCommands DEF Transfer
<1>4. ChipOK(d) /\ Spares(chip, d, {}) /\ d.cells = chip.cells
  BY <1>2, CommandedOK
<1>5. d.next = chip.next /\ (~chip.wip => ~d.wip /\ d.wel)
  BY <1>2 DEF Commanded, ChipOK
<1> HIDE DEF d
<1>6. FlashFrame
  <2>1. CtlOK(ctl') /\ Captures(ctl)'
    BY <1>1, <1>2, <1>3, PlainKeeps DEF Transfer, SpiFlashWriteEnable
  <2>2. Spares(chip, chip', call.range)
    BY <1>3, <1>4, SparesMore
  <2>3. pc' \in {"command", "returned"} /\ work'.for = work.for /\ DOMAIN work' = DOMAIN NoWork
    BY <1>1 DEF Return, IInv, TypeOK, NoWork
  <2> QED
    BY <1>1, <1>2, <1>3, <1>4, <2>1, <2>2, <2>3
       DEF FlashFrame, SpiFlashWriteEnable, Flash, Transfer
<1>7. CASE ~o.ok
  <2>1. Return(work, "error") /\ ~clean'
    BY <1>1, <1>3, <1>7 DEF Transfer, Plain
  <2> QED
    BY <1>6, <2>1, ErrorReturns
<1>8. CASE o.ok
  <2>1. pc' = "command" /\ UNCHANGED work /\ (clean' => clean)
    BY <1>1, <1>8 DEF Transfer
  <2>2. Steady' => Steady
    BY <1>2, <2>1 DEF Steady
  <2>3. WorkOK'
    BY <1>2, <2>1, <1>6 DEF IInv, WorkOK, FlashFrame, Flash
  <2>4. SteadyOK'
    BY <1>2, <1>3, <1>5, <2>1, <2>2, <1>6, SameWork DEF IInv, SteadyOK, Flash
  <2>5. EraseOK'
    BY <1>2, <1>3, <1>5, <2>1, <2>2, <1>6, SameWork DEF IInv, EraseOK, Flash, Remaining, FlashFrame, Cells
  <2>6. WriteOK'
    BY <1>2, <1>3, <1>5, <2>1, <2>2, <1>6, SameWork DEF IInv, WriteOK, Flash, Reached, FlashFrame, Volume
  <2> QED
    BY <1>6, <2>3, <2>4, <2>5, <2>6, FlashStep
<1> QED
  BY <1>7, <1>8

LEMMA DisableStep ==
  ASSUME IInv, SpiFlashWriteDisable, UNCHANGED ramVol
  PROVE  IInv'
PROOF
<1>1. PICK o \in Transfers(Op("WRDI")) :
        Transfer(o) /\ Return(work, IF o.ok THEN "ok" ELSE "error")
  BY DEF SpiFlashWriteDisable
<1>2. CtlOK(ctl) /\ ChipOK(chip) /\ Captures(ctl) /\ clean \in BOOLEAN /\ pc = "disable"
  BY DEF IInv, TypeOK, BootOK, SpiFlashWriteDisable, Loaded, Flash
<1> DEFINE d == Commanded(chip, "WRDI", 0, <<>>)
<1>3. Plain(o) /\ chip' = d
  BY <1>1, <1>2, PlainCommands DEF Transfer
<1>4. ChipOK(d) /\ Spares(chip, d, {}) /\ d.cells = chip.cells
  BY <1>2, CommandedOK
<1>5. d.next = chip.next /\ (~chip.wip => ~d.wip)
  BY <1>2 DEF Commanded, ChipOK
<1> HIDE DEF d
<1>6. FlashFrame
  <2>1. CtlOK(ctl') /\ Captures(ctl)'
    BY <1>1, <1>2, <1>3, PlainKeeps DEF Transfer, SpiFlashWriteDisable
  <2>2. Spares(chip, chip', call.range)
    BY <1>3, <1>4, SparesMore
  <2>3. pc' = "returned" /\ work'.for = work.for /\ DOMAIN work' = DOMAIN NoWork
    BY <1>1 DEF Return, IInv, TypeOK, NoWork
  <2> QED
    BY <1>1, <1>2, <1>3, <1>4, <2>1, <2>2, <2>3
       DEF FlashFrame, SpiFlashWriteDisable, Flash, Transfer
<1>7. CASE ~o.ok
  <2>1. Return(work, "error") /\ ~clean'
    BY <1>1, <1>3, <1>7 DEF Transfer, Plain
  <2> QED
    BY <1>6, <2>1, ErrorReturns
<1>8. CASE o.ok
  <2>1. /\ pc' = "returned" /\ work'.result = "ok" /\ (clean' => clean)
        /\ \A f \in {"op", "for", "at", "end", "data", "tries", "list"} : work'[f] = work[f]
    BY <1>1, <1>8 DEF Transfer, Return, IInv, TypeOK, NoWork
  <2>2. work.op = "erase" /\ work.at = work.end
    BY <1>2 DEF IInv, WorkOK, Flash
  <2>3. Steady' => Steady
    BY <1>2, <2>1 DEF Steady
  <2>4. WorkOK'
    BY <1>2, <2>1, <2>2, <1>6 DEF IInv, WorkOK, FlashFrame, Flash, Positive
  <2>5. SteadyOK'
    BY <1>2, <1>3, <1>5, <2>1, <2>3 DEF IInv, SteadyOK, Flash
  <2>6. EraseOK'
    <3>1. Remaining' = Remaining
      BY <1>2, <2>1 DEF Remaining, CellsOf, Blocks, Block
    <3>2. CellsOf(work.list)' = CellsOf(work.list)
      BY <2>1 DEF CellsOf, Blocks, Block
    <3> QED
      BY <1>2, <1>3, <1>5, <1>6, <2>1, <2>3, <3>1, <3>2 DEF IInv, EraseOK, Flash, FlashFrame, Cells
  <2>7. WriteOK'
    BY <2>1, <2>2 DEF WriteOK
  <2> QED
    BY <1>6, <2>4, <2>5, <2>6, <2>7, FlashStep
<1> QED
  BY <1>7, <1>8

LEMMA FirstStatusStep ==
  ASSUME IInv, SpiFlashFirstStatus, UNCHANGED ramVol
  PROVE  IInv'
PROOF
<1>1. PICK o \in Transfers(OpIn("RDSR", 1)) :
        /\ Transfer(o)
        /\ IF o.ok THEN pc' = "poll" /\ UNCHANGED work ELSE Return(work, "error")
  BY DEF SpiFlashFirstStatus
<1>2. CtlOK(ctl) /\ ChipOK(chip) /\ Captures(ctl) /\ clean \in BOOLEAN /\ pc = "status"
  BY DEF IInv, TypeOK, BootOK, SpiFlashFirstStatus, Loaded, Flash
<1>3. Plain(o) /\ chip' = chip
  BY <1>1, <1>2, StatusTransfers DEF Transfer
<1>4. FlashFrame
  <2>1. CtlOK(ctl') /\ Captures(ctl)'
    BY <1>1, <1>2, <1>3, PlainKeeps DEF Transfer, SpiFlashFirstStatus
  <2>2. Spares(chip, chip', call.range)
    BY <1>3, SparesSelf
  <2>3. pc' \in {"poll", "returned"} /\ work'.for = work.for /\ DOMAIN work' = DOMAIN NoWork
    BY <1>1 DEF Return, IInv, TypeOK, NoWork
  <2> QED
    BY <1>1, <1>2, <1>3, <2>1, <2>2, <2>3 DEF FlashFrame, SpiFlashFirstStatus, Flash, Transfer
<1>5. CASE ~o.ok
  <2>1. Return(work, "error") /\ ~clean'
    BY <1>1, <1>3, <1>5 DEF Transfer, Plain
  <2> QED
    BY <1>4, <2>1, ErrorReturns
<1>6. CASE o.ok
  <2>1. pc' = "poll" /\ UNCHANGED <<work, chip>> /\ (clean' => clean) /\ work.op = "write"
    BY <1>1, <1>2, <1>3, <1>6 DEF Transfer, IInv, WorkOK, Flash
  <2>2. Steady' => Steady
    BY <1>2, <2>1 DEF Steady
  <2>3. WorkOK'
    BY <1>2, <2>1, <1>4 DEF IInv, WorkOK, FlashFrame, Flash
  <2>4. SteadyOK'
    BY <1>2, <2>1, <2>2, <1>4, SameWork DEF IInv, SteadyOK, Flash
  <2>5. EraseOK'
    BY <2>1 DEF EraseOK
  <2>6. WriteOK'
    BY <1>2, <2>1, <2>2, <1>4, SameWork DEF IInv, WriteOK, Flash, Reached, FlashFrame, Volume
  <2> QED
    BY <1>4, <2>3, <2>4, <2>5, <2>6, FlashStep
<1> QED
  BY <1>5, <1>6

(* The erase of a sector: only cells of the call's range are hit, and the  *)
(* sector is what the erase no longer has to do.                           *)
LEMMA EraseCommandStep ==
  ASSUME IInv, SpiFlashCommand, work.op = "erase", UNCHANGED ramVol
  PROVE  IInv'
PROOF
<1>1. PICK o \in Transfers(OpAt("ERASE", work.at)) :
        /\ Transfer(o)
        /\ IF o.ok THEN pc' = "poll" /\ UNCHANGED work ELSE Return(work, "error")
  BY DEF SpiFlashCommand
<1>2. CtlOK(ctl) /\ ChipOK(chip) /\ Captures(ctl) /\ clean \in BOOLEAN /\ pc = "command"
  BY DEF IInv, TypeOK, BootOK, SpiFlashCommand, Loaded, Flash
<1> DEFINE d      == Commanded(chip, "ERASE", work.at, <<>>)
           sector == work.at..(work.at + EraseSize - 1)
<1>3. Plain(o) /\ chip' = d
  BY <1>1, <1>2, EraseTransfers DEF Transfer
<1>4. /\ work.at \in Nat /\ work.end \in Nat /\ work.at % EraseSize = 0 /\ work.end % EraseSize = 0
      /\ work.at < work.end /\ call.range \subseteq Cells
      /\ work.at..(work.end - 1) \cup CellsOf(work.list) \subseteq call.range
  BY <1>2 DEF IInv, WorkOK, EraseOK, Flash
<1>5. EraseSize \in Nat \ {0} /\ work.at + EraseSize <= work.end
  BY <1>4, PagesAssumption, MultipleBelow
<1>6. sector \subseteq call.range
  BY <1>4, <1>5
<1>7. /\ ChipOK(d) /\ Spares(chip, d, sector)
      /\ chip.wel /\ ~chip.wip =>
           \A i \in Cells : d.next[i] = IF i \in sector THEN 1 ELSE chip.next[i]
  BY <1>2, <1>4, CommandedOK, ErasesSector
<1> HIDE DEF d
<1>8. FlashFrame
  <2>1. CtlOK(ctl') /\ Captures(ctl)'
    BY <1>1, <1>2, <1>3, PlainKeeps DEF Transfer, SpiFlashCommand
  <2>2. Spares(chip, chip', call.range)
    BY <1>3, <1>6, <1>7, SparesMore
  <2>3. pc' \in {"poll", "returned"} /\ work'.for = work.for /\ DOMAIN work' = DOMAIN NoWork
    BY <1>1 DEF Return, IInv, TypeOK, NoWork
  <2> QED
    BY <1>1, <1>2, <1>3, <1>7, <2>1, <2>2, <2>3 DEF FlashFrame, SpiFlashCommand, Flash, Transfer
<1>9. CASE ~o.ok
  <2>1. Return(work, "error") /\ ~clean'
    BY <1>1, <1>3, <1>9 DEF Transfer, Plain
  <2> QED
    BY <1>8, <2>1, ErrorReturns
<1>10. CASE o.ok
  <2>1. pc' = "poll" /\ UNCHANGED work /\ (clean' => clean)
    BY <1>1, <1>10 DEF Transfer
  <2>2. Steady' => Steady
    BY <1>2, <2>1 DEF Steady
  <2>3. WorkOK'
    BY <1>2, <2>1, <1>8 DEF IInv, WorkOK, FlashFrame, Flash
  <2>4. SteadyOK'
    BY <1>2, <2>1, <2>2, <1>8, SameWork DEF IInv, SteadyOK, Flash
  <2>5. EraseOK'
    <3>1. Remaining = work.at..(work.end - 1) \cup CellsOf(work.list)
      BY <1>2 DEF Remaining
    <3>2. Remaining' = (work.at + EraseSize)..(work.end - 1) \cup CellsOf(work.list)
      BY <2>1, <1>8, SameWork DEF Remaining
    <3>3. ASSUME Steady', NEW i \in call.range \ Remaining'
          PROVE  d.next[i] = 1
      <4>1. chip.wel /\ ~chip.wip /\ \A j \in call.range \ Remaining : chip.next[j] = 1
        BY <1>2, <2>2, <3>3 DEF IInv, SteadyOK, EraseOK, Flash
      <4>2. i \in Cells /\ i \in Nat
        BY <1>4, FvbAssumption DEF Cells
      <4>3. i \in sector \/ i \notin Remaining
        BY <1>4, <1>5, <3>1, <3>2, <4>2
      <4> HIDE DEF sector
      <4> QED
        BY <1>7, <3>3, <4>1, <4>2, <4>3, <1>8 DEF FlashFrame
    <3> QED
      BY <1>2, <1>3, <1>4, <1>8, <2>1, <3>3, SameWork DEF IInv, EraseOK, Flash, FlashFrame, Cells
  <2>6. WriteOK'
    BY <2>1 DEF WriteOK
  <2> QED
    BY <1>8, <2>3, <2>4, <2>5, <2>6, FlashStep
<1> QED
  BY <1>9, <1>10

(* The program of a chunk: it stays inside the page, and inside what was   *)
(* asked for; over ones it leaves the data.                                *)
LEMMA WriteCommandStep ==
  ASSUME IInv, SpiFlashCommand, work.op = "write", UNCHANGED ramVol
  PROVE  IInv'
PROOF
<1> DEFINE chunk == Chunk(work)
           n     == Len(chunk)
<1>1. PICK o \in Transfers(OpOutAt("PROGRAM", work.at, chunk)) :
        /\ Transfer(o)
        /\ IF o.ok THEN pc' = "status" /\ UNCHANGED work ELSE Return(work, "error")
  BY DEF SpiFlashCommand
<1>2. CtlOK(ctl) /\ ChipOK(chip) /\ Captures(ctl) /\ clean \in BOOLEAN /\ pc = "command"
  BY DEF IInv, TypeOK, BootOK, SpiFlashCommand, Loaded, Flash
<1>3. /\ work.at \in Nat /\ work.end \in Nat /\ work.at <= work.end
      /\ Asked \in Seq(Bit) /\ Start \in Nat /\ work.end = Start + Len(Asked) /\ Start <= work.at
      /\ Start..(work.end - 1) \subseteq Volume
      /\ work.for = "call" => call.at \in Nat /\ call.range = Start..(work.end - 1)
      /\ work.data = SubSeq(Asked, work.at - Start + 1, Len(Asked))
  BY <1>2 DEF IInv, WorkOK, WriteOK, Flash
<1>4. /\ work.data \in Seq(Bit) /\ Len(work.data) = work.end - work.at
      /\ \A j \in 1..Len(work.data) : work.data[j] = Asked[work.at - Start + j]
  <2> DEFINE k == work.at - Start
  <2>1. k \in Nat /\ k <= Len(Asked) /\ work.end - work.at = Len(Asked) - k
    BY <1>3
  <2> HIDE DEF k
  <2>2. /\ SubSeq(Asked, k + 1, Len(Asked)) \in Seq(Bit)
        /\ Len(SubSeq(Asked, k + 1, Len(Asked))) = Len(Asked) - k
        /\ \A j \in 1..(Len(Asked) - k) : SubSeq(Asked, k + 1, Len(Asked))[j] = Asked[k + j]
    BY <1>3, <2>1
  <2> QED
    BY <1>3, <2>1, <2>2 DEF k
<1>5. /\ chunk \in Seq(Bit) /\ n \in Nat /\ n <= work.end - work.at
      /\ InPage(work.at, n)
      /\ \A j \in 1..n : chunk[j] = Asked[work.at - Start + j]
  <2>1. /\ chunk \in Seq(Bit) /\ Len(chunk) <= Len(work.data)
        /\ InPage(work.at, Len(chunk))
        /\ \A j \in 1..Len(chunk) : chunk[j] = work.data[j]
    BY <1>3, <1>4, ChunkFits
  <2> HIDE DEF chunk
  <2>2. n \in Nat /\ Len(work.data) \in Nat
    BY <1>4, <2>1
  <2>3. \A j \in 1..n : j \in 1..Len(work.data)
    BY <2>1, <2>2
  <2> QED
    BY <1>4, <2>1, <2>2, <2>3
<1> HIDE DEF chunk
<1>6. PICK k \in 0..n :
        /\ Plain(o) /\ chip' = Commanded(chip, "PROGRAM", work.at, SubSeq(chunk, 1, k))
        /\ o.ok => k = n
  BY <1>1, <1>2, <1>5, ProgramTransfers DEF Transfer
<1> DEFINE part == SubSeq(chunk, 1, k)
           d    == Commanded(chip, "PROGRAM", work.at, part)
           hit  == work.at..(work.at + k - 1)
<1>7. part \in Seq(Bit) /\ Len(part) = k /\ \A j \in 1..k : part[j] = chunk[j]
  BY <1>5
<1>8. InPage(work.at, k)
  <2>1. PageSize \in Nat \ {0}
    BY PagesAssumption
  <2>2. (work.at % PageSize) \in Nat
    BY <1>3, <2>1
  <2> QED
    BY <1>5, <1>6, <2>1, <2>2 DEF InPage
<1> HIDE DEF part
<1>9. /\ ChipOK(d) /\ Spares(chip, d, hit)
      /\ chip.wel /\ ~chip.wip => Zeroes(chip, d, work.at, part)
  BY <1>2, <1>3, <1>7, <1>8, CommandedOK, ProgramsChunk
<1>10. hit \subseteq call.range /\ hit \subseteq Start..(work.end - 1)
  <2>1. hit \subseteq Start..(work.end - 1)
    BY <1>3, <1>5
  <2>2. work.for = "headers" => call.range = Volume
    BY <1>2 DEF IInv, WorkOK, BootOK, Flash
  <2>3. work.for \in {"headers", "call"}
    BY <1>2 DEF IInv, WorkOK, Flash
  <2> QED
    BY <1>3, <2>1, <2>2, <2>3
<1>11. chip' = d
  BY <1>6 DEF part
<1> HIDE DEF d
<1>12. FlashFrame
  <2>1. CtlOK(ctl') /\ Captures(ctl)'
    BY <1>1, <1>2, <1>6, PlainKeeps DEF Transfer, SpiFlashCommand
  <2>2. Spares(chip, chip', call.range)
    BY <1>9, <1>10, <1>11, SparesMore
  <2>3. pc' \in {"status", "returned"} /\ work'.for = work.for /\ DOMAIN work' = DOMAIN NoWork
    BY <1>1 DEF Return, IInv, TypeOK, NoWork
  <2> QED
    BY <1>1, <1>2, <1>9, <1>11, <2>1, <2>2, <2>3 DEF FlashFrame, SpiFlashCommand, Flash, Transfer
<1>13. CASE ~o.ok
  <2>1. Return(work, "error") /\ ~clean'
    BY <1>1, <1>6, <1>13 DEF Transfer, Plain
  <2> QED
    BY <1>12, <2>1, ErrorReturns
<1>14. CASE o.ok
  <2>1. pc' = "status" /\ UNCHANGED work /\ (clean' => clean) /\ k = n
    BY <1>1, <1>6, <1>14 DEF Transfer
  <2>2. Steady' => Steady
    BY <1>2, <2>1 DEF Steady
  <2>3. WorkOK'
    BY <1>2, <2>1, <1>12 DEF IInv, WorkOK, FlashFrame, Flash
  <2>4. SteadyOK'
    BY <1>2, <2>1, <2>2, <1>12, SameWork DEF IInv, SteadyOK, Flash
  <2>5. EraseOK'
    BY <2>1 DEF EraseOK
  <2>6. WriteOK'
    <3>1. Reached = work.at /\ Reached' = work.at + n
      BY <1>2, <2>1 DEF Reached, chunk
    <3>2. ASSUME Steady', WasBlank, NEW j \in 1..Len(Asked)
          PROVE  d.next[Start + j - 1] = IF Start + j - 1 < work.at + n THEN Asked[j] ELSE 1
      <4> DEFINE i == Start + j - 1
      <4>0. i = Start + j - 1 /\ i \in Nat /\ i \in Start..(work.end - 1) /\ j \in Nat
        BY <1>3
      <4>10. /\ Start \in Nat /\ work.at \in Nat /\ work.end \in Nat /\ n \in Nat
             /\ Start <= work.at /\ Start..(work.end - 1) \subseteq Volume
        BY <1>3, <1>5
      <4>1. chip.wel /\ ~chip.wip
        BY <1>2, <2>2, <3>2 DEF IInv, SteadyOK, Flash
      <4>2. chip.next[i] = IF i < work.at THEN Asked[j] ELSE 1
        BY <1>2, <2>2, <3>1, <3>2 DEF IInv, WriteOK, Flash
      <4> HIDE DEF i
      <4>3. i \in Cells /\ i <= work.end - 1
        BY <4>0, <4>10, VolumeOK
      <4>4. d.next[i] = IF i \in hit /\ part[i - work.at + 1] = 0 THEN 0 ELSE chip.next[i]
        BY <1>7, <1>9, <4>1, <4>3 DEF Zeroes
      <4>5. i \in hit <=> work.at <= i /\ i < work.at + n
        <5>1. k = n
          BY <2>1
        <5>2. i \in work.at..(work.at + n - 1) <=> work.at <= i /\ i < work.at + n
          BY <4>0, <4>10
        <5> QED
          BY <5>1, <5>2
      <4>6. ASSUME i \in hit
            PROVE  part[i - work.at + 1] = Asked[j]
        <5> DEFINE m == i - work.at + 1
        <5>11. work.at <= i /\ i < work.at + n
          BY <4>5, <4>6
        <5>14. i \in Nat /\ Start \in Nat /\ work.at \in Nat /\ n \in Nat
          BY <4>0, <4>10
        <5>12. /\ i - work.at + 1 \in 1..n
               /\ work.at - Start + (i - work.at + 1) = i - Start + 1
          BY <5>11, <5>14
        <5>13. i - Start + 1 = j
          BY <4>0, <4>10
        <5>1. m \in 1..n /\ work.at - Start + m = j
          BY <5>12, <5>13
        <5> HIDE DEF m
        <5>2. part[m] = Asked[j]
          BY <1>5, <1>7, <2>1, <5>1
        <5> QED
          BY <5>2 DEF m
      <4>7. Asked[j] \in {0, 1}
        BY <1>3 DEF Bit
      <4> HIDE DEF hit
      <4>8. d.next[i] = IF i < work.at + n THEN Asked[j] ELSE 1
        BY <1>3, <1>5, <4>0, <4>2, <4>4, <4>5, <4>6, <4>7
      <4> QED
        BY <4>8 DEF i
    <3> QED
      BY <1>3, <1>11, <2>1, <1>12, <3>1, <3>2, SameWork DEF WriteOK, FlashFrame, Volume
  <2> QED
    BY <1>12, <2>3, <2>4, <2>5, <2>6, FlashStep
<1> QED
  BY <1>13, <1>14

(* A poll that finds the chip busy, while the counter lasts.               *)
BusyPoll(o) ==
  /\ o.ok /\ o.in # <<0>> /\ work.tries > 1 /\ pc' = "poll" /\ clean' \in BOOLEAN
  /\ work' = [work EXCEPT !.tries = work.tries - 1]
  /\ clean' => clean /\ work.tries # Sectors + 1
(* One that finds it ready.                                                *)
ReadyPoll(o) ==
  /\ o.ok /\ o.in = <<0>> /\ work.tries > 1 /\ clean' \in BOOLEAN /\ (clean' => clean)
  /\ LET w == Rest(work)
     IN  \/ /\ w.op = "erase" /\ work' = [w EXCEPT !.tries = w.tries - 1]
            /\ pc' = IF w.at # w.end THEN "enable" ELSE "disable"
         \/ w.op # "erase" /\ w.at # w.end /\ pc' = "enable" /\ work' = [w EXCEPT !.tries = w.tries]
         \/ w.op # "erase" /\ w.at = w.end /\ Return(w, "ok")
(* One that ends the erase or write: the transfer fails, or the counter is *)
(* used up.                                                                *)
LostPoll(o) ==
  \/ ~o.ok /\ Return(work, "error") /\ (clean' => clean /\ ~o.fault)
  \/ o.ok /\ work.tries = 1 /\ Return(work, "timeout") /\ (clean' => clean)

LEMMA PollCases ==
  ASSUME IInv, NEW o, SpiFlashPoll(o, Rest(work))
  PROVE  /\ chip' = o.chip /\ ctl' = o.ctl /\ clean' \in BOOLEAN
         /\ BusyPoll(o) \/ ReadyPoll(o) \/ LostPoll(o)
PROOF
<1> DEFINE w     == Rest(work)
           slow  == o.ok /\ o.in # <<0>> /\ work.tries = Sectors + 1
           Lost  == Return(work, "error")
           Late  == Return(work, "timeout")
           Busy  == pc' = "poll" /\ work' = [work EXCEPT !.tries = @ - 1]
           Next_ == IF w.at # w.end \/ w.op = "erase"
                    THEN /\ work' = [w EXCEPT !.tries = IF w.op = "erase" THEN @ - 1 ELSE @]
                         /\ pc' = IF w.at # w.end THEN "enable" ELSE "disable"
                    ELSE Return(w, "ok")
<1>1. /\ chip' = o.chip /\ ctl' = o.ctl /\ clean' = (clean /\ ~o.fault /\ ~slow)
      /\ CASE ~o.ok -> Lost
           [] o.ok /\ work.tries = 1 -> Late
           [] (o.ok /\ o.in # <<0>>) /\ work.tries > 1 -> Busy
           [] o.ok /\ o.in = <<0>> /\ work.tries > 1 -> Next_
  BY DEF SpiFlashPoll
<1>2. work.tries \in Nat /\ work.tries > 0
  BY DEF SpiFlashPoll, IInv, WorkOK, Flash
<1>3. /\ clean' \in BOOLEAN /\ (clean' => clean)
      /\ clean' /\ o.ok /\ o.in # <<0>> => work.tries # Sectors + 1
      /\ clean' => ~o.fault
  BY <1>1
<1> HIDE DEF w, Lost, Late, Busy, Next_
<1>4. \/ ~o.ok /\ Lost
      \/ o.ok /\ work.tries = 1 /\ Late
      \/ o.ok /\ o.in # <<0>> /\ work.tries > 1 /\ Busy
      \/ o.ok /\ o.in = <<0>> /\ work.tries > 1 /\ Next_
  <2>1. work.tries = 1 \/ work.tries > 1
    BY <1>2
  <2>2. ~(work.tries = 1 /\ work.tries > 1)
    BY <1>2
  <2> QED
    BY <1>1, <2>1, <2>2
<1>5. CASE ~o.ok /\ Lost
  BY <1>1, <1>3, <1>5 DEF LostPoll, Lost
<1>6. CASE o.ok /\ work.tries = 1 /\ Late
  BY <1>1, <1>3, <1>6 DEF LostPoll, Late
<1>7. CASE o.ok /\ o.in # <<0>> /\ work.tries > 1 /\ Busy
  <2>1. pc' = "poll" /\ work' = [work EXCEPT !.tries = work.tries - 1]
    BY <1>7 DEF Busy
  <2> QED
    BY <1>1, <1>3, <1>7, <2>1 DEF BusyPoll
<1>8. CASE o.ok /\ o.in = <<0>> /\ work.tries > 1 /\ Next_
  <2>1. \/ /\ w.op = "erase" /\ work' = [w EXCEPT !.tries = w.tries - 1]
           /\ pc' = IF w.at # w.end THEN "enable" ELSE "disable"
        \/ w.op # "erase" /\ w.at # w.end /\ pc' = "enable" /\ work' = [w EXCEPT !.tries = w.tries]
        \/ w.op # "erase" /\ w.at = w.end /\ Return(w, "ok")
    BY <1>8 DEF Next_
  <2>2. ReadyPoll(o)
    BY <1>3, <1>8, <2>1 DEF ReadyPoll, w
  <2> QED
    BY <1>1, <1>3, <2>2
<1> QED
  BY <1>4, <1>5, <1>6, <1>7, <1>8

LEMMA PollFrame ==
  ASSUME IInv, pc = "poll", NEW o \in Transfers(OpIn("RDSR", 1)), chip' = o.chip, ctl' = o.ctl,
         clean' \in BOOLEAN, pc' \in Flash, UNCHANGED <<window, shadow, stale, base, call, ramVol>>,
         work'.for = work.for, DOMAIN work' = DOMAIN NoWork
  PROVE  /\ FlashFrame /\ Plain(o) /\ chip' = chip
         /\ o.ok => o.in = IF chip.wip THEN <<1>> ELSE <<0>>
PROOF
<1>1. CtlOK(ctl) /\ ChipOK(chip) /\ Captures(ctl)
  BY DEF IInv, TypeOK, BootOK, Loaded, Flash
<1>2. /\ Plain(o) /\ o.chip = chip
      /\ o.ok => o.in = IF chip.wip THEN <<1>> ELSE <<0>>
  BY <1>1, StatusTransfers
<1>3. CtlOK(ctl') /\ Captures(ctl)'
  BY <1>1, <1>2, PlainKeeps
<1>4. Spares(chip, chip', call.range)
  BY <1>2, SparesSelf
<1> QED
  BY <1>1, <1>2, <1>3, <1>4 DEF FlashFrame, Flash

LEMMA LostStep ==
  ASSUME IInv, pc = "poll", NEW o \in Transfers(OpIn("RDSR", 1)), chip' = o.chip, ctl' = o.ctl,
         clean' \in BOOLEAN, UNCHANGED <<window, shadow, stale, base, call, ramVol>>, LostPoll(o)
  PROVE  IInv'
PROOF
<1>1. PICK result \in {"error", "timeout"} : Return(work, result)
  BY DEF LostPoll
<1>2. pc' = "returned" /\ work'.for = work.for /\ DOMAIN work' = DOMAIN NoWork
  BY <1>1 DEF Return, IInv, TypeOK, NoWork
<1>3. FlashFrame /\ Plain(o)
  BY <1>2, PollFrame DEF Flash
<1>4. ASSUME work.for = "call", clean'
      PROVE  FALSE
  <2>1. clean /\ o.ok /\ work.tries = 1
    BY <1>3, <1>4 DEF LostPoll, Plain
  <2>2. work.tries > Sectors
    BY <1>4, <2>1 DEF IInv, SteadyOK, Steady, Flash
  <2>3. CASE work.op = "erase"
    <3>1. /\ work.at \in Nat /\ work.end \in Nat /\ work.at % EraseSize = 0
          /\ work.end % EraseSize = 0 /\ work.at < work.end
      BY <2>3 DEF IInv, WorkOK, EraseOK, Flash
    <3>2. EraseSize \in Nat \ {0}
      BY PagesAssumption
    <3>3. /\ work.at + EraseSize <= work.end
          /\ Sectors = ((work.end - (work.at + EraseSize)) \div EraseSize) + 1
      BY <2>3, <3>1, <3>2, MultipleBelow DEF Sectors
    <3>4. (work.end - (work.at + EraseSize)) \div EraseSize \in Nat
      BY <3>1, <3>2, <3>3
    <3> QED
      BY <2>1, <2>2, <3>3, <3>4
  <2>4. CASE work.op # "erase"
    BY <2>1, <2>2, <2>4 DEF Sectors
  <2> QED
    BY <2>3, <2>4
<1> QED
  BY <1>1, <1>3, <1>4, ErrorReturns

LEMMA BusyStep ==
  ASSUME IInv, pc = "poll", NEW o \in Transfers(OpIn("RDSR", 1)), chip' = o.chip, ctl' = o.ctl,
         UNCHANGED <<window, shadow, stale, base, call, ramVol>>, BusyPoll(o)
  PROVE  IInv'
PROOF
<1>1. /\ pc' = "poll" /\ (clean' => clean /\ work.tries # Sectors + 1) /\ clean' \in BOOLEAN
      /\ work.tries > 1 /\ work'.tries = work.tries - 1 /\ DOMAIN work' = DOMAIN NoWork
      /\ \A f \in {"op", "for", "at", "end", "data", "list", "result"} : work'[f] = work[f]
  BY DEF BusyPoll, IInv, TypeOK, NoWork
<1>2. FlashFrame /\ chip' = chip
  BY <1>1, PollFrame DEF Flash
<1>3. WorkOK'
  <2>1. work'.tries \in Nat \ {0}
    BY <1>1 DEF IInv, WorkOK, Flash
  <2>2. {work'.at, work'.end} \subseteq Nat /\ work'.at <= work'.end /\ work'.list = work.list
    BY <1>1 DEF IInv, WorkOK, Flash
  <2> QED
    BY <1>1, <1>2, <2>1, <2>2 DEF IInv, WorkOK, FlashFrame, Flash, Positive
<1>4. Steady' => Steady
  BY <1>1 DEF Steady
<1>5. Sectors' = Sectors
  BY <1>1 DEF Sectors
<1>6. SteadyOK'
  <2>1. ASSUME Steady', work.for = "call"
        PROVE  work.tries - 1 > Sectors
    <3>1. work.tries > Sectors /\ work.tries # Sectors + 1 /\ work.tries \in Nat
      BY <1>1, <1>4, <2>1 DEF IInv, SteadyOK, WorkOK, Flash, Steady
    <3>2. Sectors \in Int
      <4>1. work.end \in Nat /\ work.at \in Nat /\ EraseSize \in Nat \ {0}
        BY PagesAssumption DEF IInv, WorkOK, Flash
      <4>2. (work.end - work.at) \div EraseSize \in Int
        BY <4>1
      <4> QED
        BY <4>2 DEF Sectors
    <3> QED
      BY <3>1, <3>2
  <2> QED
    BY <1>1, <1>5, <2>1 DEF SteadyOK
<1>7. EraseOK'
  <2>1. Remaining' = Remaining /\ CellsOf(work.list)' = CellsOf(work.list)
    BY <1>1 DEF Remaining, CellsOf, Blocks, Block
  <2> QED
    BY <1>1, <1>2, <1>4, <2>1 DEF IInv, EraseOK, Flash, FlashFrame, Cells
<1>8. WriteOK'
  <2>1. Asked' = Asked /\ Start' = Start /\ WasBlank' = WasBlank /\ Reached' = Reached
    BY <1>1, <1>2 DEF Asked, Start, WasBlank, Reached, FlashFrame, Chunk
  <2> QED
    BY <1>1, <1>2, <1>4, <2>1 DEF IInv, WriteOK, Flash, FlashFrame, Volume
<1> QED
  BY <1>2, <1>3, <1>6, <1>7, <1>8, FlashStep

(* The next sector.                                                        *)
LEMMA EraseReadyStep ==
  ASSUME IInv, pc = "poll", NEW o \in Transfers(OpIn("RDSR", 1)), chip' = o.chip, ctl' = o.ctl,
         UNCHANGED <<window, shadow, stale, base, call, ramVol>>, ReadyPoll(o), work.op = "erase"
  PROVE  IInv'
PROOF
<1>1. /\ Rest(work).op = "erase" /\ Rest(work).at = work.at + EraseSize
      /\ Rest(work).tries = work.tries /\ DOMAIN Rest(work) = DOMAIN NoWork
      /\ \A f \in {"op", "for", "end", "data", "list", "result"} : Rest(work)[f] = work[f]
  BY DEF Rest, IInv, TypeOK, NoWork
<1>2. /\ o.ok /\ o.in = <<0>> /\ work.tries > 1 /\ clean' \in BOOLEAN /\ (clean' => clean)
      /\ pc' = IF work.at + EraseSize # work.end THEN "enable" ELSE "disable"
      /\ work'.at = work.at + EraseSize /\ work'.tries = work.tries - 1
      /\ DOMAIN work' = DOMAIN NoWork
      /\ \A f \in {"op", "for", "end", "data", "list", "result"} : work'[f] = work[f]
  BY <1>1 DEF ReadyPoll, NoWork
<1>3. FlashFrame /\ chip' = chip /\ ~chip.wip
  BY <1>2, PollFrame DEF Flash
<1>4. /\ work.at \in Nat /\ work.end \in Nat /\ work.at % EraseSize = 0
      /\ work.end % EraseSize = 0 /\ work.at < work.end /\ EraseSize \in Nat \ {0}
  BY PagesAssumption DEF IInv, WorkOK, EraseOK, Flash
<1>5. /\ work.at + EraseSize <= work.end
      /\ (work.end - work.at) \div EraseSize = ((work.end - (work.at + EraseSize)) \div EraseSize) + 1
      /\ (work.end - (work.at + EraseSize)) \div EraseSize \in Nat
  <2>1. /\ work.at + EraseSize <= work.end
        /\ (work.end - work.at) \div EraseSize = ((work.end - (work.at + EraseSize)) \div EraseSize) + 1
    BY <1>4, MultipleBelow
  <2>2. work.end - (work.at + EraseSize) \in Nat
    BY <1>4, <2>1
  <2> QED
    BY <1>4, <2>1, <2>2
<1>6. (work.at + EraseSize) % EraseSize = 0
  <2>1. EraseSize % EraseSize = 0
    BY <1>4
  <2> QED
    BY <1>4, <2>1, MultipleSum
<1>7. Steady' => Steady
  BY <1>2 DEF Steady
<1>8. WorkOK'
  <2>1. {work'.at, work'.end} \subseteq Nat /\ work'.at <= work'.end
    <3>1. work'.at = work.at + EraseSize /\ work'.end = work.end
      BY <1>2
    <3>2. work.at + EraseSize \in Nat /\ work.at + EraseSize <= work.end /\ work.end \in Nat
      BY <1>4, <1>5
    <3> QED
      BY <3>1, <3>2
  <2>2. work'.tries \in Nat \ {0}
    BY <1>2 DEF IInv, WorkOK, Flash
  <2>3. pc' \in {"enable", "disable"} /\ (pc' = "disable" => work'.at = work'.end)
    BY <1>2
  <2> QED
    BY <1>2, <1>3, <2>1, <2>2, <2>3 DEF IInv, WorkOK, FlashFrame, Flash, Positive
<1>9. SteadyOK'
  <2>1. Sectors = Sectors' + 1 /\ Sectors' \in Nat
    BY <1>2, <1>5 DEF Sectors
  <2>2. ASSUME Steady', work.for = "call"
        PROVE  work.tries - 1 > Sectors'
    <3>1. work.tries > Sectors /\ work.tries \in Nat
      BY <1>7, <2>2 DEF IInv, SteadyOK, WorkOK, Flash
    <3> QED
      BY <2>1, <3>1
  <2> QED
    BY <1>2, <1>3, <2>2 DEF SteadyOK
<1>10. EraseOK'
  <2>1. Remaining' = Remaining /\ CellsOf(work.list)' = CellsOf(work.list)
    BY <1>2 DEF Remaining, CellsOf, Blocks, Block
  <2>2. work'.at..(work'.end - 1) \subseteq work.at..(work.end - 1)
    BY <1>2, <1>4
  <2>3. pc' = "enable" => work'.at < work'.end
    BY <1>2, <1>4, <1>5
  <2> QED
    BY <1>2, <1>3, <1>4, <1>6, <1>7, <2>1, <2>2, <2>3 DEF IInv, EraseOK, Flash, FlashFrame, Cells
<1>11. WriteOK'
  BY <1>2 DEF WriteOK
<1> QED
  BY <1>3, <1>8, <1>9, <1>10, <1>11, FlashStep

(* The next chunk, or the end.                                             *)
LEMMA WriteReadyStep ==
  ASSUME IInv, pc = "poll", NEW o \in Transfers(OpIn("RDSR", 1)), chip' = o.chip, ctl' = o.ctl,
         UNCHANGED <<window, shadow, stale, base, call, ramVol>>, ReadyPoll(o), work.op # "erase"
  PROVE  IInv'
PROOF
<1> DEFINE n == Len(Chunk(work))
<1>1. /\ Rest(work).op = work.op /\ Rest(work).at = work.at + n
      /\ Rest(work).data = SubSeq(work.data, n + 1, Len(work.data))
      /\ Rest(work).tries = PollTries /\ DOMAIN Rest(work) = DOMAIN NoWork
      /\ \A f \in {"op", "for", "end", "list", "result"} : Rest(work)[f] = work[f]
  BY DEF Rest, IInv, TypeOK, NoWork
<1>2. /\ o.ok /\ o.in = <<0>> /\ clean' \in BOOLEAN /\ (clean' => clean)
      /\ \/ pc' = "enable" /\ work.at + n # work.end
         \/ pc' = "returned" /\ work.at + n = work.end /\ work'.result = "ok"
      /\ work'.at = work.at + n /\ work'.tries = PollTries
      /\ work'.data = SubSeq(work.data, n + 1, Len(work.data))
      /\ DOMAIN work' = DOMAIN NoWork
      /\ \A f \in {"op", "for", "end", "list"} : work'[f] = work[f]
  <2> HIDE DEF n
  <2> QED
    BY <1>1 DEF ReadyPoll, NoWork, Return
<1>3. FlashFrame /\ chip' = chip /\ ~chip.wip
  BY <1>2, PollFrame DEF Flash
<1>4. /\ work.op = "write" /\ work.at \in Nat /\ work.end \in Nat /\ work.at <= work.end
      /\ Asked \in Seq(Bit) /\ Start \in Nat /\ work.end = Start + Len(Asked) /\ Start <= work.at
      /\ work.data = SubSeq(Asked, work.at - Start + 1, Len(Asked))
  BY DEF IInv, WorkOK, WriteOK, Flash
<1> HIDE DEF n
<1> DEFINE k == work.at - Start
<1>5. /\ k \in Nat /\ k <= Len(Asked) /\ work.end - work.at = Len(Asked) - k /\ work.at = Start + k
      /\ Len(Asked) \in Nat
  <2>1. Len(Asked) \in Nat
    BY <1>4
  <2> HIDE DEF Bit
  <2> QED
    BY <1>4, <2>1
<1>6. work.data = SubSeq(Asked, k + 1, Len(Asked))
  BY <1>4
<1> HIDE DEF k
<1>7. work.data \in Seq(Bit) /\ Len(work.data) = Len(Asked) - k
  <2>1. /\ SubSeq(Asked, k + 1, Len(Asked)) \in Seq(Bit)
        /\ Len(SubSeq(Asked, k + 1, Len(Asked))) = Len(Asked) - k
    <3> DEFINE s == Asked
    <3>1. s \in Seq(Bit) /\ k \in Nat /\ k <= Len(s) /\ Len(s) \in Nat
      BY <1>4, <1>5
    <3> HIDE DEF s
    <3>2. SubSeq(s, k + 1, Len(s)) \in Seq(Bit) /\ Len(SubSeq(s, k + 1, Len(s))) = Len(s) - k
      BY <3>1
    <3> QED
      BY <3>2 DEF s
  <2> QED
    BY <1>6, <2>1
<1>8. n \in Nat /\ n <= Len(Asked) - k
  <2>1. Chunk(work) \in Seq(Bit) /\ Len(Chunk(work)) <= Len(work.data)
    BY <1>4, <1>7, ChunkFits
  <2> QED
    BY <1>7, <2>1 DEF n
<1>9. work'.data = SubSeq(Asked, k + n + 1, Len(Asked))
  <2>1. SubSeq(SubSeq(Asked, k + 1, Len(Asked)), n + 1, Len(Asked) - k) = SubSeq(Asked, k + n + 1, Len(Asked))
    BY <1>4, <1>5, <1>8
  <2> QED
    BY <1>2, <1>6, <1>7, <2>1
<1>10. work'.at - Start = k + n /\ work'.at \in Nat /\ work'.at <= work'.end
  <2>1. (work.at + n) - Start = k + n /\ work.at + n \in Nat /\ work.at + n <= work.end
    BY <1>4, <1>5, <1>8
  <2>2. work'.at = work.at + n /\ work'.end = work.end
    BY <1>2
  <2> QED
    BY <2>1, <2>2
<1>11. PollTries \in Nat /\ PollTries > 1
  BY TriesEnough
<1>12. Steady' => Steady
  BY <1>2 DEF Steady
<1>13. WorkOK'
  <2>1. /\ {work'.at, work'.end} \subseteq Nat /\ work'.at <= work'.end
        /\ work'.tries \in Nat \ {0}
    BY <1>2, <1>4, <1>10, <1>11
  <2>2. pc' = "returned" => work'.result = "ok" /\ work'.at = work'.end
    BY <1>2
  <2> HIDE DEF n, k
  <2> QED
    BY <1>2, <1>3, <2>1, <2>2 DEF IInv, WorkOK, FlashFrame, Flash, Positive
<1>14. SteadyOK'
  BY <1>2, <1>3, <1>4, <1>11 DEF SteadyOK, Sectors
<1>15. EraseOK'
  BY <1>2, <1>4 DEF EraseOK
<1>16. WriteOK'
  <2>1. Asked' = Asked /\ Start' = Start /\ WasBlank' = WasBlank
    BY <1>2, <1>3 DEF Asked, Start, WasBlank, FlashFrame
  <2>2. Reached = work.at + n /\ Reached' = work.at + n
    BY <1>2 DEF Reached, n
  <2>3. Start <= work'.at /\ work'.data = SubSeq(Asked, work'.at - Start + 1, Len(Asked))
    <3>1. Start <= work'.at
      BY <1>2, <1>4, <1>5, <1>8
    <3> QED
      BY <1>9, <1>10, <3>1
  <2>4. /\ Start..(work.end - 1) \subseteq Volume
        /\ work.for = "call" => call.at \in Nat /\ call.range = Start..(work.end - 1)
        /\ Steady /\ WasBlank =>
             \A j \in 1..Len(Asked) :
               chip.next[Start + j - 1] = IF Start + j - 1 < Reached THEN Asked[j] ELSE 1
    BY <1>4 DEF IInv, WriteOK, Flash
  <2> QED
    BY <1>2, <1>3, <1>4, <1>12, <2>1, <2>2, <2>3, <2>4 DEF WriteOK, FlashFrame, Volume
<1> QED
  BY <1>3, <1>13, <1>14, <1>15, <1>16, FlashStep

LEMMA PollStep ==
  ASSUME IInv, SpiFlashPolls, UNCHANGED ramVol
  PROVE  IInv'
PROOF
<1>1. PICK o \in Transfers(OpIn("RDSR", 1)) : SpiFlashPoll(o, Rest(work))
  BY DEF SpiFlashPolls
<1>2. pc = "poll"
  BY <1>1 DEF SpiFlashPoll
<1>3. UNCHANGED <<window, shadow, stale, base, call, ramVol>>
  BY DEF SpiFlashPolls
<1>4. /\ chip' = o.chip /\ ctl' = o.ctl /\ clean' \in BOOLEAN
      /\ BusyPoll(o) \/ ReadyPoll(o) \/ LostPoll(o)
  BY <1>1, PollCases
<1> QED
  BY <1>2, <1>3, <1>4, LostStep, BusyStep, EraseReadyStep, WriteReadyStep

-----------------------------------------------------------------------------
(* The start of the driver                                                 *)

(* Where no erase or write is under way and no call is answered, less has  *)
(* to be shown.                                                            *)
LEMMA StartStep ==
  ASSUME pc' \notin Flash \cup {"idle"}, TypeOK', BootOK', CopyOK', OthersUntouched', PublishedIsValid'
  PROVE  IInv'
<1>1. WorkOK' /\ SteadyOK' /\ EraseOK' /\ WriteOK'
  BY DEF WorkOK, SteadyOK, EraseOK, WriteOK, Flash
<1>2. IdleOK' /\ CleanCallIsExact'
  BY DEF IdleOK, CleanCallIsExact, Idle
<1> QED
  BY <1>1, <1>2 DEF IInv

LEMMA SetupStep ==
  ASSUME IInv, FvbSetup, UNCHANGED ramVol
  PROVE  IInv'
PROOF
<1>1. PICK r \in SpiSetupSlave(ctl, window) : ctl' = r.ctl /\ clean' = ~r.fault
  BY DEF FvbSetup
<1>2. CtlOK(ctl) /\ ChipOK(chip) /\ pc = "entry" /\ pc' = "probe"
  BY DEF IInv, TypeOK, FvbSetup
<1>3. CtlOK(ctl')
  BY <1>1, <1>2, SetupOK
<1>4. /\ call'.op = "boot" /\ call'.range = Volume /\ DOMAIN call' = DOMAIN NoCall
      /\ call'.before = chip.cells /\ call'.coming = chip.next
  BY DEF FvbSetup, NoCall
<1>5. UNCHANGED <<chip, window, work, shadow, stale, base, ramVol>>
  BY DEF FvbSetup
<1>6. TypeOK'
  BY <1>1, <1>2, <1>3, <1>4, <1>5 DEF IInv, TypeOK, Loaded, Flash, Boots, Early
<1>7. BootOK'
  <2>1. Found'
    <3>1. ~chip.wip
      BY <1>2 DEF IInv, BootOK
    <3> QED
      BY <1>2, <1>4, <1>5, <3>1 DEF Found, ChipOK, Cells
  <2> QED
    BY <1>2, <1>4, <1>5, <2>1 DEF IInv, BootOK, Loaded, Flash, Boots, Early, Before, Volume
<1>8. CopyOK'
  BY <1>2 DEF CopyOK, Flash
<1>9. OthersUntouched'
  BY <1>4, <1>5 DEF OthersUntouched
<1>10. PublishedIsValid'
  BY <1>2 DEF PublishedIsValid
<1> QED
  BY <1>2, <1>6, <1>7, <1>8, <1>9, <1>10, StartStep DEF Flash

LEMMA OverwrittenStep ==
  ASSUME IInv, Overwritten, UNCHANGED ramVol
  PROVE  IInv'
PROOF
<1>1. pc' = "stray" /\ UNCHANGED <<chip, window, ctl, work, shadow, stale, base, call, clean, ramVol>>
  BY DEF Overwritten
<1>2. TypeOK'
  BY <1>1 DEF IInv, TypeOK, Loaded, Flash, Boots, Early
<1>3. BootOK'
  BY <1>1 DEF IInv, BootOK, Loaded, Flash, Boots, Early, Before, Volume
<1>4. OthersUntouched'
  BY <1>1, SparesSelf, SparedStay DEF IInv
<1>5. CopyOK' /\ PublishedIsValid'
  BY <1>1 DEF CopyOK, Flash, PublishedIsValid
<1> QED
  BY <1>1, <1>2, <1>3, <1>4, <1>5, StartStep DEF Flash

(* A probe that answers shows that what is read is right.                  *)
LEMMA ProbeStep ==
  ASSUME IInv, FvbFlashProbe, UNCHANGED ramVol
  PROVE  IInv'
PROOF
<1>1. PICK o \in Transfers(Probe[pc]) :
        /\ Transfer(o)
        /\ pc' = IF o.ok /\ (pc = "probe" => o.in = <<1>>) THEN AfterProbe[pc] ELSE "failed"
  BY DEF FvbFlashProbe
<1>2. pc \in {"probe", "init", "initStatus"}
  BY DEF FvbFlashProbe, Probe
<1>3. /\ CtlOK(ctl) /\ ChipOK(chip) /\ ~chip.wip /\ clean \in BOOLEAN
      /\ pc # "probe" => Captures(ctl)
  BY <1>2 DEF IInv, TypeOK, BootOK, Boots, Early
<1>4. UNCHANGED <<window, work, shadow, stale, base, call, ramVol>>
  BY DEF FvbFlashProbe
<1>5. /\ Plain(o) /\ ChipOK(chip') /\ Spares(chip, chip', {})
      /\ pc' \in {"init", "initStatus", "stall", "failed"}
      /\ pc' # "failed" => Captures(ctl)
      /\ pc' \in {"init", "initStatus"} => ~chip'.wip
  <2>1. CASE pc = "probe"
    <3>1. o \in Transfers(OpIn("RDID", 1))
      BY <1>1, <2>1 DEF Probe
    <3>2. Plain(o) /\ o.chip = chip /\ (o.ok /\ o.in = <<1>> => Captures(ctl))
      BY <1>3, <3>1, IdTransfers
    <3>3. pc' = IF o.ok /\ o.in = <<1>> THEN "init" ELSE "failed"
      BY <1>1, <2>1 DEF AfterProbe
    <3>4. chip' = chip
      BY <1>1, <3>2 DEF Transfer
    <3> QED
      BY <1>3, <3>2, <3>3, <3>4, SparesSelf
  <2>2. CASE pc = "init"
    <3>1. o \in Transfers(Op("WREN"))
      BY <1>1, <2>2 DEF Probe
    <3>2. Plain(o) /\ o.chip = Commanded(chip, "WREN", 0, <<>>)
      BY <1>3, <3>1, PlainCommands
    <3>3. pc' = IF o.ok THEN "initStatus" ELSE "failed"
      BY <1>1, <2>2 DEF AfterProbe
    <3>4. chip' = Commanded(chip, "WREN", 0, <<>>)
      BY <1>1, <3>2 DEF Transfer
    <3>5. ~chip'.wip
      BY <1>3, <3>4 DEF Commanded, ChipOK
    <3> QED
      BY <1>3, <2>2, <3>2, <3>3, <3>4, <3>5, CommandedOK
  <2>3. CASE pc = "initStatus"
    <3>1. o \in Transfers([Op("WRSR") EXCEPT !.out = <<0>>])
      BY <1>1, <2>3 DEF Probe
    <3>2. Plain(o) /\ o.chip = Commanded(chip, "WRSR", 0, <<0>>)
      BY <1>3, <3>1, StatusWrites
    <3>3. pc' = IF o.ok THEN "stall" ELSE "failed"
      BY <1>1, <2>3 DEF AfterProbe
    <3>4. chip' = Commanded(chip, "WRSR", 0, <<0>>)
      BY <1>1, <3>2 DEF Transfer
    <3> QED
      BY <1>3, <2>3, <3>2, <3>3, <3>4, CommandedOK
  <2> QED
    BY <1>2, <2>1, <2>2, <2>3
<1>6. CtlOK(ctl') /\ (pc' # "failed" => Captures(ctl)') /\ clean' \in BOOLEAN
  <2>1. ctl' = o.ctl /\ clean' \in BOOLEAN
    BY <1>1 DEF Transfer
  <2>2. CtlOK(ctl')
    BY <1>5, <2>1 DEF Plain
  <2> QED
    BY <1>4, <1>5, <2>1, <2>2, PlainKeeps
<1>7. TypeOK'
  BY <1>4, <1>5, <1>6 DEF IInv, TypeOK, Loaded, Flash, Boots, Early
<1>8. BootOK'
  <2>1. Found'
    BY <1>2, <1>4, <1>5, FoundStays DEF IInv, BootOK, Boots, Early
  <2> QED
    BY <1>2, <1>4, <1>5, <1>6, <2>1 DEF IInv, BootOK, Loaded, Flash, Boots, Early, Before, Volume
<1>9. CopyOK'
  BY <1>5 DEF CopyOK, Flash
<1>10. OthersUntouched'
  <2>1. Spares(chip, chip', call.range)
    BY <1>5, SparesMore
  <2> QED
    BY <1>4, <2>1, SparedStay DEF IInv
<1>11. PublishedIsValid'
  BY <1>4, <1>5 DEF IInv, BootOK, PublishedIsValid
<1> QED
  BY <1>5, <1>7, <1>8, <1>9, <1>10, <1>11, StartStep DEF Flash

LEMMA StallStep ==
  ASSUME IInv, Stall, UNCHANGED ramVol
  PROVE  IInv'
PROOF
<1>1. /\ pc = "stall" /\ pc' = "load" /\ UNCHANGED <<window, ctl, work, shadow, stale, base, call, clean, ramVol>>
      /\ chip' = IF chip.wip THEN Completed(chip) ELSE chip
  BY DEF Stall
<1>2. ChipOK(chip)
  BY DEF IInv, TypeOK
<1>3. ChipOK(chip') /\ ~chip'.wip /\ Spares(chip, chip', {})
  BY <1>1, <1>2, CompletedOK, SparesSelf
<1>4. TypeOK'
  BY <1>1, <1>3 DEF IInv, TypeOK, Loaded, Flash, Boots, Early
<1>5. BootOK'
  <2>1. Found'
    BY <1>1, <1>3, FoundStays DEF IInv, BootOK, Boots, Early
  <2> QED
    BY <1>1, <1>3, <2>1 DEF IInv, BootOK, Loaded, Flash, Boots, Early, Before, Volume, Captures
<1>6. OthersUntouched'
  <2>1. Spares(chip, chip', call.range)
    BY <1>3, SparesMore
  <2> QED
    BY <1>1, <2>1, SparedStay DEF IInv
<1>7. CopyOK' /\ PublishedIsValid'
  BY <1>1 DEF CopyOK, Flash, PublishedIsValid
<1> QED
  BY <1>1, <1>4, <1>5, <1>6, <1>7, StartStep DEF Flash

LEMMA AllocateStep ==
  ASSUME IInv, Allocate, UNCHANGED ramVol
  PROVE  IInv'
PROOF
<1>1. /\ pc = "load" /\ UNCHANGED <<chip, window, ctl, work, shadow, stale, call, ramVol>>
      /\ \/ pc' = "read" /\ base' = "shadow" /\ clean' = clean
         \/ pc' = "failed" /\ base' = base /\ clean' = FALSE
  BY DEF Allocate, Fault
<1>2. TypeOK'
  BY <1>1 DEF IInv, TypeOK, Loaded, Flash, Boots, Early
<1>3. BootOK'
  <2>1. Found'
    BY <1>1, SparesSelf, FoundStays DEF IInv, BootOK, Boots, Early
  <2> QED
    BY <1>1, <2>1 DEF IInv, BootOK, Loaded, Flash, Boots, Early, Before, Volume, Captures
<1>4. OthersUntouched'
  BY <1>1, SparesSelf, SparedStay DEF IInv
<1>5. CopyOK' /\ PublishedIsValid'
  BY <1>1 DEF IInv, BootOK, CopyOK, Flash, PublishedIsValid, Boots, Early
<1> QED
  BY <1>1, <1>2, <1>3, <1>4, <1>5, StartStep DEF Flash

(* The copy is what the flash holds.                                       *)
LEMMA ReadVolumeStep ==
  ASSUME IInv, ReadVolume, UNCHANGED ramVol
  PROVE  IInv'
PROOF
<1>1. PICK o \in Transfers(OpInAt("READ", FvbOffset, FvbSize)) :
        /\ Transfer(o)
        /\ IF o.ok THEN pc' = "install" /\ shadow' = o.in ELSE pc' = "failed" /\ UNCHANGED shadow
  BY DEF ReadVolume
<1>2. /\ pc = "read" /\ UNCHANGED <<window, work, stale, base, call, ramVol>>
      /\ CtlOK(ctl) /\ ChipOK(chip) /\ ~chip.wip /\ Captures(ctl) /\ stale = {} /\ base = "shadow"
  BY DEF ReadVolume, IInv, TypeOK, BootOK, Boots, Early, Before
<1>3. FvbSize \in Nat \ {0} /\ FvbOffset \in Nat
  BY FvbAssumption
<1>4. /\ Plain(o) /\ o.chip = chip
      /\ o.ok => o.in = [j \in 1..FvbSize |-> chip.cells[FvbOffset + j - 1]]
  BY <1>2, <1>3, VolumeReads
<1>5. chip' = chip /\ ctl' = o.ctl /\ clean' \in BOOLEAN
  BY <1>1, <1>4 DEF Transfer
<1>6. CtlOK(ctl') /\ Captures(ctl)'
  BY <1>2, <1>4, <1>5, PlainKeeps
<1>7. \/ pc' = "install" /\ shadow' = [j \in 1..FvbSize |-> chip.cells[FvbOffset + j - 1]]
      \/ pc' = "failed" /\ shadow' = shadow
  BY <1>1, <1>4
<1>8. ASSUME pc' = "install"
      PROVE  shadow' \in [1..FvbSize -> Bit] /\ \A i \in Volume : Same(i)'
  <2>1. shadow' = [j \in 1..FvbSize |-> chip.cells[FvbOffset + j - 1]]
    BY <1>7, <1>8
  <2>2. \A j \in 1..FvbSize : FvbOffset + j - 1 \in Cells
    BY <1>3, VolumeOK DEF Volume
  <2>3. shadow' \in [1..FvbSize -> Bit]
    BY <1>2, <2>1, <2>2 DEF ChipOK
  <2>4. ASSUME NEW i \in Volume
        PROVE  Same(i)'
    <3>1. i - FvbOffset + 1 \in 1..FvbSize /\ FvbOffset + (i - FvbOffset + 1) - 1 = i /\ i \in Int
      BY <1>3 DEF Volume
    <3>2. shadow'[i - FvbOffset + 1] = chip.cells[i]
      BY <2>1, <3>1
    <3> QED
      BY <1>2, <1>5, <3>2 DEF Same, ChipOK
  <2> QED
    BY <2>3, <2>4
<1>9. TypeOK'
  BY <1>2, <1>5, <1>6, <1>7, <1>8 DEF IInv, TypeOK, Loaded, Flash, Boots, Early
<1>10. BootOK'
  <2>1. Found'
    BY <1>2, <1>5, SparesSelf, FoundStays DEF IInv, BootOK, Boots, Early
  <2> QED
    BY <1>2, <1>5, <1>6, <1>7, <2>1 DEF IInv, BootOK, Loaded, Flash, Boots, Early, Before, Volume
<1>11. OthersUntouched'
  BY <1>2, <1>5, SparesSelf, SparedStay DEF IInv
<1>12. CopyOK'
  BY <1>7, <1>8 DEF CopyOK, Flash, Volume
<1>13. PublishedIsValid'
  BY <1>2, <1>7 DEF PublishedIsValid
<1> QED
  BY <1>7, <1>9, <1>10, <1>11, <1>12, <1>13, StartStep DEF Flash

LEMMA InstallStep ==
  ASSUME IInv, Install, UNCHANGED ramVol
  PROVE  IInv'
PROOF
<1>1. /\ pc = "install" /\ UNCHANGED <<chip, window, ctl, work, stale, base, call, ramVol>>
      /\ \/ pc' = "prepare" /\ shadow' = shadow /\ clean' = clean
         \/ pc' = "failed" /\ shadow' = <<>> /\ clean' = FALSE
  BY DEF Install, Fault
<1>2. TypeOK'
  BY <1>1 DEF IInv, TypeOK, Loaded, Flash, Boots, Early
<1>3. BootOK'
  <2>1. Found'
    BY <1>1, SparesSelf, FoundStays DEF IInv, BootOK, Boots, Early
  <2> QED
    BY <1>1, <2>1 DEF IInv, BootOK, Loaded, Flash, Boots, Early, Before, Volume, Captures
<1>4. OthersUntouched'
  BY <1>1, SparesSelf, SparedStay DEF IInv
<1>5. CopyOK'
  BY <1>1 DEF IInv, CopyOK, Flash, Same, Volume
<1>6. PublishedIsValid'
  BY <1>1 DEF IInv, BootOK, PublishedIsValid, Loaded
<1> QED
  BY <1>1, <1>2, <1>3, <1>4, <1>5, <1>6, StartStep DEF Flash

(* A valid volume is as it was in the flash; another is erased first.      *)
LEMMA PrepareStep ==
  ASSUME IInv, FvbPrepareFvHeader, UNCHANGED ramVol
  PROVE  IInv'
PROOF
<1>1. /\ pc = "prepare" /\ UNCHANGED <<chip, window, ctl, shadow, stale, base, call, clean, ramVol>>
      /\ \/ FvbValidateFvHeader(shadow) /\ pc' = "publish" /\ work' = work
         \/ pc' = "enable" /\ work' = Format
  BY DEF FvbPrepareFvHeader
<1>2. /\ CtlOK(ctl) /\ ChipOK(chip) /\ ~chip.wip /\ Captures(ctl) /\ stale = {} /\ base = "shadow"
      /\ call.op = "boot" /\ call.range = Volume /\ clean \in BOOLEAN
      /\ \A i \in Volume : Same(i)
      /\ shadow \in [1..FvbSize -> Bit]
  BY <1>1 DEF IInv, TypeOK, BootOK, CopyOK, Boots, Early, Before, Loaded
<1>3. OthersUntouched'
  BY <1>1, SparesSelf, SparedStay DEF IInv
<1>4. CASE FvbValidateFvHeader(shadow) /\ pc' = "publish" /\ work' = work
  <2>1. TypeOK'
    BY <1>1, <1>2, <1>4 DEF IInv, TypeOK, Loaded, Flash, Boots, Early
  <2>2. VolumeFound
    <3>1. Len(Header) = 3 /\ FvbSize \in Nat /\ FvbOffset \in Nat
      BY FvbAssumption DEF Header
    <3>2. \A i \in 1..FvbSize : InFlash(i) \in Volume /\ InFlash(i) - FvbOffset + 1 = i
      BY <3>1 DEF InFlash, Volume
    <3>3. \A i \in 1..FvbSize : shadow[i] = chip.cells[InFlash(i)]
      BY <1>2, <3>2 DEF Same
    <3>4. Found
      BY <1>1 DEF IInv, BootOK, Boots, Early
    <3>5. \A i \in 1..FvbSize : chip.cells[InFlash(i)] = call.before[InFlash(i)]
      BY <3>2, <3>4, VolumeOK DEF Found
    <3> QED
      BY <3>3, <3>5 DEF VolumeFound
  <2>6. VolumeFound' /\ FvbValidateFvHeader(shadow)'
    BY <1>1, <1>4, <2>2 DEF VolumeFound, InFlash, FvbValidateFvHeader
  <2>3. BootOK'
    BY <1>1, <1>2, <1>4, <2>6 DEF IInv, BootOK, Loaded, Flash, Boots, Early, Before, Volume, Captures
  <2>4. CopyOK'
    BY <1>1, <1>2, <1>4 DEF CopyOK, Flash, Same, Volume
  <2>5. PublishedIsValid'
    BY <1>4 DEF PublishedIsValid
  <2> QED
    BY <1>3, <1>4, <2>1, <2>3, <2>4, <2>5, StartStep DEF Flash
<1>5. CASE pc' = "enable" /\ work' = Format
  <2>1. /\ work'.op = "erase" /\ work'.for = "format" /\ work'.at = FvbOffset
        /\ work'.end = FvbOffset + FvbSize /\ work'.tries = PollTries /\ work'.list = <<>>
        /\ DOMAIN work' = DOMAIN NoWork
    BY <1>5 DEF Format, Erasing, NoWork
  <2>2. TypeOK'
    BY <1>1, <1>2, <1>5, <2>1 DEF IInv, TypeOK, Loaded, Flash, Boots, Early
  <2>3. BootOK'
    BY <1>1, <1>2, <1>5 DEF IInv, BootOK, Loaded, Flash, Boots, Early, Before, Volume, Captures
  <2>4. CopyOK'
    BY <1>5, <2>1 DEF CopyOK, Flash
  <2>5. WorkOK'
    <3>1. FvbOffset \in Nat /\ FvbOffset + FvbSize \in Nat /\ PollTries \in Nat \ {0}
          /\ FvbOffset <= FvbOffset + FvbSize
      BY FvbAssumption
    <3> QED
      BY <1>1, <1>2, <1>5, <2>1, <3>1 DEF WorkOK, Positive
  <2>6. SteadyOK'
    BY <1>1, <1>2, <1>5, <2>1 DEF SteadyOK
  <2>7. EraseOK'
    <3>1. Volume = FvbOffset..(FvbOffset + FvbSize - 1)
      BY DEF Volume
    <3>2. CellsOf(work.list)' = {}
      BY <2>1, NoCells DEF CellsOf, Blocks, Block
    <3>3. Remaining' = Volume
      <4>1. FvbOffset + (FvbSize - 1) = (FvbOffset + FvbSize) - 1
        BY FvbAssumption
      <4>2. Remaining' = FvbOffset..((FvbOffset + FvbSize) - 1) \cup {}
        BY <1>5, <2>1, <3>2 DEF Remaining
      <4> QED
        BY <3>1, <4>1, <4>2
    <3> QED
      BY <1>1, <1>2, <1>5, <2>1, <3>1, <3>2, <3>3, VolumeOK DEF EraseOK, Cells
  <2>8. WriteOK'
    BY <2>1 DEF WriteOK
  <2>9. IdleOK' /\ CleanCallIsExact' /\ PublishedIsValid'
    BY <1>5 DEF IdleOK, CleanCallIsExact, PublishedIsValid, Idle
  <2> QED
    BY <1>3, <2>2, <2>3, <2>4, <2>5, <2>6, <2>7, <2>8, <2>9 DEF IInv
<1> QED
  BY <1>1, <1>4, <1>5

LEMMA PublishStep ==
  ASSUME IInv, Publish, UNCHANGED ramVol
  PROVE  IInv'
PROOF
<1>1. /\ pc = "publish" /\ UNCHANGED <<chip, window, ctl, work, shadow, stale, base, call, ramVol>>
      /\ \/ pc' = "idle" /\ clean' = clean
         \/ pc' = "failed" /\ clean' = FALSE
  BY DEF Publish, Fault
<1>2. TypeOK'
  BY <1>1 DEF IInv, TypeOK, Loaded, Flash, Boots, Early
<1>3. BootOK'
  BY <1>1 DEF IInv, BootOK, Loaded, Flash, Boots, Early, Before, Volume, Captures
<1>4. OthersUntouched'
  BY <1>1, SparesSelf, SparedStay DEF IInv
<1>5. call.op = "boot" /\ base = "shadow" /\ ~chip.wip
  BY <1>1 DEF IInv, BootOK, Boots, Loaded
<1>6. CopyOK'
  BY <1>1, <1>5 DEF IInv, CopyOK, Flash, Same, Volume
<1>7. PublishedIsValid'
  <2>1. FvbValidateFvHeader(shadow) /\ (HeadersPlaced \/ VolumeFound)
    BY <1>1 DEF IInv, BootOK
  <2>2. FvbValidateFvHeader(shadow)' /\ (HeadersPlaced \/ VolumeFound)'
    BY <1>1, <2>1 DEF HeadersPlaced, VolumeFound, InFlash, FvbValidateFvHeader
  <2> QED
    BY <1>1, <1>5, <2>2 DEF PublishedIsValid
<1>8. IdleOK' /\ CleanCallIsExact'
  BY <1>1, <1>5 DEF IdleOK, CleanCallIsExact, Idle
<1>9. WorkOK' /\ SteadyOK' /\ EraseOK' /\ WriteOK'
  BY <1>1 DEF WorkOK, SteadyOK, EraseOK, WriteOK, Flash
<1> QED
  BY <1>2, <1>3, <1>4, <1>6, <1>7, <1>8, <1>9 DEF IInv

-----------------------------------------------------------------------------
(* The chip completes, and the power is lost                               *)

(* A read agrees with the flash where the copy does.                       *)
LEMMA ReadsAgree ==
  ASSUME CopyOK', pc' = "idle", call'.op = "read", NEW j \in 1..Len(call'.data),
         FvbOffset + call'.at + j - 1 \notin stale'
  PROVE  call'.data[j] = chip'.cells[FvbOffset + call'.at + j - 1]
PROOF
<1> DEFINE i == FvbOffset + call'.at + j - 1
           m == call'.at + j
<1>1. call'.at \in Nat /\ m \in 1..FvbSize /\ call'.data[j] = shadow'[m]
  BY DEF CopyOK
<1>2. FvbOffset \in Nat /\ FvbSize \in Nat /\ j \in Int
  BY FvbAssumption
<1>3. i \in Volume /\ i - FvbOffset + 1 = m
  <2>1. i = FvbOffset + (m - 1)
    BY <1>1, <1>2
  <2> HIDE DEF i, m
  <2> QED
    BY <1>1, <1>2, <2>1 DEF Volume
<1> HIDE DEF i, m
<1>4. \A l \in Volume \ stale' : shadow'[l - FvbOffset + 1] = chip'.cells[l]
  BY DEF CopyOK, Same, Volume
<1>5. i \notin stale'
  BY DEF i
<1>6. shadow'[m] = chip'.cells[i]
  BY <1>3, <1>4, <1>5
<1> QED
  BY <1>1, <1>6 DEF i

LEMMA CompletesStep ==
  ASSUME IInv, ChipCompletes, UNCHANGED ramVol
  PROVE  IInv'
PROOF
<1>1. /\ chip.wip /\ chip' = Completed(chip) /\ UNCHANGED <<window, ctl, pc, work, shadow, stale, base, call, clean, ramVol>>
  BY DEF ChipCompletes, fvb
<1>2. ChipOK(chip)
  BY DEF IInv, TypeOK
<1>3. ChipOK(chip') /\ ~chip'.wip /\ chip'.cells = chip.next /\ chip'.next = chip.next /\ Spares(chip, chip', {})
  BY <1>1, <1>2, CompletedOK
<1>4. TypeOK'
  BY <1>1, <1>3 DEF IInv, TypeOK
<1>5. BootOK'
  <2>1. pc # "publish"
    BY <1>1 DEF IInv, BootOK, Boots
  <2>2. Found => Found'
    BY <1>1, <1>3, FoundStays
  <2> QED
    BY <1>1, <1>3, <2>1, <2>2 DEF IInv, BootOK, Volume, Captures
<1>6. ASSUME NEW i, Same(i)
      PROVE  Same(i)'
  BY <1>1, <1>3, <1>6 DEF Same
<1>7. CopyOK'
  BY <1>1, <1>6 DEF IInv, CopyOK, Volume
<1>8. WorkOK'
  BY <1>1 DEF IInv, WorkOK, Positive, Volume
<1>9. Steady' = Steady
  BY <1>1 DEF Steady
<1>10. SteadyOK'
  BY <1>1, <1>3, <1>9 DEF IInv, SteadyOK, Sectors, Flash
<1>11. EraseOK'
  <2>1. Remaining' = Remaining /\ CellsOf(work.list)' = CellsOf(work.list)
    BY <1>1 DEF Remaining, CellsOf, Blocks, Block
  <2> QED
    BY <1>1, <1>3, <1>9, <2>1 DEF IInv, EraseOK, Cells
<1>12. WriteOK'
  <2>1. Asked' = Asked /\ Start' = Start /\ WasBlank' = WasBlank /\ Reached' = Reached
    BY <1>1 DEF Asked, Start, WasBlank, Reached, Chunk
  <2> QED
    BY <1>1, <1>3, <1>9, <2>1 DEF IInv, WriteOK, Volume
<1>13. IdleOK'
  BY <1>1, <1>3 DEF IInv, IdleOK
<1>14. OthersUntouched'
  <2>1. Spares(chip, chip', call.range)
    BY <1>3, SparesMore
  <2> QED
    BY <1>1, <2>1, SparedStay DEF IInv
<1>15. PublishedIsValid'
  <2>1. ~(pc = "idle" /\ call.op = "boot")
    BY <1>1 DEF IInv, IdleOK
  <2> QED
    BY <1>1, <2>1 DEF IInv, PublishedIsValid
<1>16. CleanCallIsExact'
  <2>1. ~(pc = "idle" /\ clean)
    BY <1>1 DEF IInv, IdleOK
  <2> QED
    BY <1>1, <1>7, <2>1, ReadsAgree DEF CleanCallIsExact, Idle
<1> QED
  BY <1>4, <1>5, <1>7, <1>8, <1>10, <1>11, <1>12, <1>13, <1>14, <1>15, <1>16 DEF IInv

LEMMA PowerStep ==
  ASSUME IInv, PowerLoss, UNCHANGED ramVol
  PROVE  IInv'
PROOF
<1>1. /\ chip' \in PowerLost(chip) /\ pc' = "off" /\ ctl' = NewController /\ work' = NoWork
      /\ base' = "none" /\ stale' = {} /\ UNCHANGED <<window, call, clean, ramVol>>
  BY DEF PowerLoss
<1>2. ChipOK(chip') /\ ~chip'.wip /\ Spares(chip, chip', {})
  BY <1>1, PowerLostOK DEF IInv, TypeOK
<1>3. CtlOK(ctl')
  BY <1>1 DEF CtlOK, NewController
<1>4. TypeOK'
  BY <1>1, <1>2, <1>3 DEF IInv, TypeOK, Loaded, Flash
<1>5. BootOK'
  BY <1>1, <1>2 DEF IInv, BootOK, Loaded, Flash, Boots, Early, Before, Volume
<1>6. OthersUntouched'
  <2>1. Spares(chip, chip', call.range)
    BY <1>2, SparesMore
  <2> QED
    BY <1>1, <2>1, SparedStay DEF IInv
<1>7. CopyOK' /\ PublishedIsValid'
  BY <1>1 DEF CopyOK, Flash, PublishedIsValid
<1> QED
  BY <1>1, <1>4, <1>5, <1>6, <1>7, StartStep DEF Flash

-----------------------------------------------------------------------------
(* The RAM driver                                                          *)

LEMMA RamHeader ==
  ASSUME NEW image \in Images
  PROVE  ValidateFvHeader(InitializeVariableFvHeader(image))
PROOF
<1>1. image \in Seq({0, 1}) /\ 2 <= Len(image) /\ Len(image) \in Nat
  BY ImagesAssumption DEF GoodFwVolHeader
<1>2. CASE ValidateFvHeader(image)
  BY <1>2 DEF InitializeVariableFvHeader
<1>3. CASE ~ValidateFvHeader(image)
  <2> DEFINE cells == InitializeVariableFvHeader(image)
  <2>1. cells = RamFlashWrite(image, 0, 0, GoodFwVolHeader)
    BY <1>3 DEF InitializeVariableFvHeader, RamFlashEraseBlock
  <2>2. RamFlashPtr(0, 0) = 0 /\ ~(0 >= FdBlocks)
    BY FdAssumption DEF RamFlashPtr
  <2>3. cells = [i \in 1..Len(image) |->
                   IF i - 1 \in 0..(0 + Len(GoodFwVolHeader) - 1) THEN GoodFwVolHeader[i - 0] ELSE image[i]]
    BY <2>1, <2>2 DEF RamFlashWrite
  <2>4. Len(GoodFwVolHeader) = 2 /\ GoodFwVolHeader[1] = 0 /\ GoodFwVolHeader[2] = 1
    BY DEF GoodFwVolHeader
  <2>5. cells[1] = 0 /\ cells[2] = 1
    BY <1>1, <2>3, <2>4
  <2>6. SubSeq(cells, 1, 2) = <<0, 1>>
    <3>1. cells \in Seq({0, 1}) /\ Len(cells) = Len(image)
      BY <1>1, <2>3, <2>4
    <3> HIDE DEF cells
    <3>2. SubSeq(cells, 1, 2) = [i \in 1..2 |-> cells[i]]
      BY <1>1, <3>1
    <3>3. [i \in 1..2 |-> cells[i]] = [i \in 1..2 |-> IF i = 1 THEN 0 ELSE 1]
      BY <2>5
    <3>4. <<0, 1>> = [i \in 1..2 |-> IF i = 1 THEN 0 ELSE 1]
      OBVIOUS
    <3> QED
      BY <3>2, <3>3, <3>4
  <2> QED
    BY <2>6 DEF ValidateFvHeader, GoodFwVolHeader
<1> QED
  BY <1>2, <1>3

LEMMA RamStartStep ==
  ASSUME IInv, RamFvbStarts
  PROVE  IInv'
PROOF
<1>1. /\ pc = "off" /\ pc' = "entry" /\ base' = "ram" /\ ValidateFvHeader(ramVol'.cells)
      /\ UNCHANGED <<chip, window, ctl, work, shadow, stale, call, clean, bounds>>
  BY RamHeader DEF RamFvbStarts, FvbInitialize
<1>2. TypeOK'
  BY <1>1 DEF IInv, TypeOK, Loaded, Flash
<1>3. BootOK'
  BY <1>1 DEF IInv, BootOK, Loaded, Flash, Boots, Early, Before, Volume
<1>4. OthersUntouched'
  BY <1>1, SparesSelf, SparedStay DEF IInv
<1>5. CopyOK' /\ PublishedIsValid'
  BY <1>1 DEF CopyOK, Flash, PublishedIsValid
<1> QED
  BY <1>1, <1>2, <1>3, <1>4, <1>5, StartStep DEF Flash

LEMMA RamCallStep ==
  ASSUME IInv, RamFvbCalled
  PROVE  IInv'
PROOF
<1>1. /\ pc = "failed" /\ call' = NoCall
      /\ UNCHANGED <<chip, window, ctl, pc, work, shadow, stale, base, clean>>
  BY DEF RamFvbCalled
<1>2. call'.op = "none" /\ DOMAIN call' = DOMAIN NoCall
  BY <1>1 DEF NoCall
<1>3. TypeOK'
  BY <1>1, <1>2 DEF IInv, TypeOK, Loaded, Flash
<1>4. BootOK'
  BY <1>1, <1>2 DEF IInv, BootOK, Loaded, Flash, Boots, Early, Before, Volume, Captures
<1>5. OthersUntouched'
  BY <1>2 DEF OthersUntouched
<1>6. CopyOK' /\ PublishedIsValid'
  BY <1>1, <1>2 DEF CopyOK, Flash, PublishedIsValid
<1> QED
  BY <1>1, <1>3, <1>4, <1>5, <1>6, StartStep DEF Flash

-----------------------------------------------------------------------------
(* Calls                                                                   *)

(* What a call that is answered at once has to show.                       *)
LEMMA AnsweredStep ==
  ASSUME IInv, pc = "idle", pc' = "idle", UNCHANGED <<chip, window, ctl, work, shadow, stale, base, ramVol>>,
         clean' \in BOOLEAN, clean' => ~chip.wip, DOMAIN call' = DOMAIN NoCall, call'.range = {},
         call'.op \in {"erase", "read", "attributes"},
         call'.before = chip.cells, call'.coming = chip.next,
         call'.op = "read" =>
           /\ call'.at \in Nat
           /\ \A j \in 1..Len(call'.data) :
                call'.at + j \in 1..FvbSize /\ call'.data[j] = shadow[call'.at + j]
  PROVE  IInv'
PROOF
<1>1. TypeOK'
  BY DEF IInv, TypeOK
<1>2. BootOK'
  BY DEF IInv, BootOK, Loaded, Flash, Boots, Early, Before, Captures
<1>3. CopyOK'
  BY DEF IInv, CopyOK, Flash, Same, Volume
<1>4. IdleOK' /\ PublishedIsValid'
  BY DEF IdleOK, PublishedIsValid
<1>5. OthersUntouched'
  BY DEF OthersUntouched
<1>6. CleanCallIsExact'
  BY <1>3, ReadsAgree DEF CleanCallIsExact, Idle
<1>7. WorkOK' /\ SteadyOK' /\ EraseOK' /\ WriteOK'
  BY DEF WorkOK, SteadyOK, EraseOK, WriteOK, Flash
<1> QED
  BY <1>1, <1>2, <1>3, <1>4, <1>5, <1>6, <1>7 DEF IInv

(* The places of a block of the volume.                                    *)
LEMMA InVolume ==
  ASSUME NEW lba \in 0..(FvbSize \div BlockSize - 1)
  PROVE  lba * BlockSize \in Nat /\ lba * BlockSize + BlockSize <= FvbSize
PROOF
<1>1. BlockSize \in Nat \ {0} /\ FvbSize \in Nat \ {0} /\ FvbSize % BlockSize = 0
  BY FvbAssumption
<1>2. PICK q \in Nat : FvbSize = q * BlockSize
  BY <1>1, Multiples
<1>3. FvbSize = BlockSize * q
  BY <1>1, <1>2
<1>4. FvbSize \div BlockSize = q
  BY <1>1, <1>3, Multiple
<1>5. lba \in Nat /\ lba + 1 <= q
  BY <1>4
<1>6. BlockSize * (lba + 1) <= BlockSize * q
  BY <1>1, <1>5, ProductOrder
<1>7. BlockSize * (lba + 1) = lba * BlockSize + BlockSize /\ lba * BlockSize \in Nat
  BY <1>1, <1>5
<1> QED
  BY <1>3, <1>6, <1>7

LEMMA ReadStep ==
  ASSUME IInv, NEW lba \in 0..(FvbSize \div BlockSize - 1), NEW where \in Reads,
         FvbRead(lba, where[1], where[2]), UNCHANGED ramVol
  PROVE  IInv'
PROOF
<1> DEFINE offset == where[1]
           n      == where[2]
           fits   == offset < BlockSize /\ n <= BlockSize /\ offset + n <= BlockSize
           at     == lba * BlockSize + offset
<1>1. /\ pc = "idle" /\ pc' = "idle"
      /\ UNCHANGED <<chip, window, ctl, work, shadow, stale, base, clean, ramVol>>
  BY DEF FvbRead
<1>2. /\ call'.op = "read" /\ call'.at = at /\ call'.range = {} /\ DOMAIN call' = DOMAIN NoCall
      /\ call'.before = chip.cells /\ call'.coming = chip.next
      /\ call'.data = IF fits THEN SubSeq(shadow, at + 1, at + n) ELSE <<>>
  BY DEF FvbRead, NoCall
<1>3. offset \in Nat /\ n \in Nat
  BY DataAssumption
<1>4. lba * BlockSize \in Nat /\ lba * BlockSize + BlockSize <= FvbSize
  BY InVolume
<1>5. BlockSize \in Nat \ {0} /\ FvbSize \in Nat \ {0}
  BY FvbAssumption
<1>6. shadow \in [1..FvbSize -> Bit] /\ clean \in BOOLEAN
  BY <1>1 DEF IInv, TypeOK, Loaded
<1>7. at \in Nat /\ (fits => at + n <= FvbSize)
  <2> DEFINE b == lba * BlockSize
  <2>1. b \in Nat /\ b + BlockSize <= FvbSize /\ at = b + offset
    BY <1>4
  <2> HIDE DEF b
  <2> QED
    BY <1>3, <1>5, <2>1
<1> HIDE DEF at
<1>8. ASSUME NEW j \in 1..Len(call'.data)
      PROVE  at + j \in 1..FvbSize /\ call'.data[j] = shadow[at + j]
  <2>1. fits
    BY <1>2, <1>8
  <2>2. call'.data = SubSeq(shadow, at + 1, at + n)
    BY <1>2, <2>1
  <2>3. shadow \in Seq(Bit) /\ Len(shadow) = FvbSize
    BY <1>5, <1>6
  <2> HIDE DEF fits, n
  <2>4. /\ Len(SubSeq(shadow, at + 1, at + n)) = n
        /\ \A l \in 1..n : SubSeq(shadow, at + 1, at + n)[l] = shadow[at + l]
    BY <1>3, <1>5, <1>7, <2>1, <2>3
  <2>5. j \in 1..n /\ call'.data[j] = shadow[at + j]
    BY <1>8, <2>2, <2>4
  <2> QED
    BY <1>3, <1>5, <1>7, <2>1, <2>5
<1>9. clean' => ~chip.wip
  BY <1>1 DEF IInv, IdleOK
<1> HIDE DEF fits, n, offset
<1> QED
  BY <1>1, <1>2, <1>6, <1>7, <1>8, <1>9, AnsweredStep

LEMMA AttributesStep ==
  ASSUME IInv, FvbSetAttributes
  PROVE  IInv'
PROOF
<1>1. /\ pc = "idle" /\ pc' = "idle"
      /\ UNCHANGED <<chip, window, ctl, work, shadow, stale, base, clean, ramVol>>
  BY DEF FvbSetAttributes
<1>2. /\ call'.op = "attributes" /\ call'.range = {} /\ DOMAIN call' = DOMAIN NoCall
      /\ call'.before = chip.cells /\ call'.coming = chip.next
  BY DEF FvbSetAttributes, NoCall
<1>3. clean \in BOOLEAN /\ (clean' => ~chip.wip)
  BY <1>1 DEF IInv, TypeOK, IdleOK
<1> QED
  BY <1>1, <1>2, <1>3, AnsweredStep

(* What the begin of a write or an erase has to show.                      *)
LEMMA BegunStep ==
  ASSUME IInv, pc = "idle", pc' = "enable", UNCHANGED <<chip, window, ctl, shadow, stale, base, ramVol>>,
         clean' = ~chip.wip, DOMAIN call' = DOMAIN NoCall, DOMAIN work' = DOMAIN NoWork,
         work'.for = "call", work'.op \in {"write", "erase"}, call'.op = work'.op,
         call'.before = chip.cells, call'.coming = chip.next,
         work'.tries = PollTries, WorkOK', EraseOK', WriteOK', PollTries > Sectors'
  PROVE  IInv'
PROOF
<1>1. TypeOK'
  BY DEF IInv, TypeOK, Loaded, Flash
<1>2. BootOK'
  BY DEF IInv, BootOK, Loaded, Flash, Boots, Early, Before, Captures
<1>3. CopyOK'
  BY DEF IInv, CopyOK, Flash, Same, Volume
<1>4. IdleOK' /\ PublishedIsValid' /\ CleanCallIsExact'
  BY DEF IdleOK, PublishedIsValid, CleanCallIsExact, Idle
<1>5. OthersUntouched'
  BY DEF OthersUntouched
<1>6. SteadyOK'
  BY DEF SteadyOK, Steady
<1> QED
  BY <1>1, <1>2, <1>3, <1>4, <1>5, <1>6 DEF IInv

LEMMA WriteBegins ==
  ASSUME IInv, NEW lba \in 0..(FvbSize \div BlockSize - 1), NEW offset \in 0..(BlockSize - 1),
         NEW data \in Data, FvbWrite(lba, offset, data), UNCHANGED ramVol
  PROVE  IInv'
PROOF
<1> DEFINE at == FvbOffset + lba * BlockSize + offset
<1>1. /\ pc = "idle" /\ pc' = "enable" /\ clean' = ~chip.wip
      /\ UNCHANGED <<chip, window, ctl, shadow, stale, base, ramVol>>
      /\ offset + Len(data) <= BlockSize
  BY DEF FvbWrite, Called
<1>2. /\ call'.op = "write" /\ call'.at = at - FvbOffset /\ call'.data = data
      /\ call'.range = at..(at + Len(data) - 1) /\ DOMAIN call' = DOMAIN NoCall
      /\ call'.before = chip.cells /\ call'.coming = chip.next
  BY DEF FvbWrite, Called, NoCall
<1>3. /\ work'.op = "write" /\ work'.for = "call" /\ work'.at = at /\ work'.end = at + Len(data)
      /\ work'.data = data /\ work'.tries = PollTries /\ work'.list = <<>>
      /\ DOMAIN work' = DOMAIN NoWork
  BY DEF FvbWrite, Writing, NoWork
<1>4. data \in Seq(Bit) /\ Len(data) \in Nat
  BY DataAssumption DEF Bit
<1>5. at \in Nat /\ FvbOffset <= at /\ at + Len(data) <= FvbOffset + FvbSize /\ FvbOffset \in Nat
      /\ FvbSize \in Nat
  <2> DEFINE b == lba * BlockSize
  <2>1. b \in Nat /\ b + BlockSize <= FvbSize
    BY InVolume
  <2>2. BlockSize \in Nat /\ FvbOffset \in Nat /\ FvbSize \in Nat
    BY FvbAssumption
  <2>3. at = FvbOffset + b + offset
    OBVIOUS
  <2> HIDE DEF b, at
  <2> QED
    BY <1>1, <1>4, <2>1, <2>2, <2>3
<1> HIDE DEF at
<1>6. Asked' = data /\ Start' = at /\ Reached' = at
  <2>1. FvbOffset + (at - FvbOffset) = at
    BY <1>5
  <2> QED
    BY <1>1, <1>2, <1>3, <2>1 DEF Asked, Start, Reached
<1>7. WorkOK'
  BY <1>1, <1>2, <1>3, <1>4, <1>5, TriesEnough DEF WorkOK, Positive
<1>8. EraseOK'
  BY <1>3 DEF EraseOK
<1>9. WriteOK'
  <2>1. at..((at + Len(data)) - 1) \subseteq Volume
    BY <1>4, <1>5 DEF Volume
  <2>2. SubSeq(data, 1, Len(data)) = data /\ at - at + 1 = 1
    BY <1>4, <1>5
  <2>3. ASSUME Steady', WasBlank', NEW j \in 1..Len(data)
        PROVE  chip.next[at + j - 1] = 1 /\ ~(at + j - 1 < at)
    <3>1. ~chip.wip
      BY <1>1, <1>3, <2>3 DEF Steady
    <3>2. at + j - 1 \in call'.range
      BY <1>2, <1>4, <1>5
    <3>3. chip.cells[at + j - 1] = 1
      BY <1>2, <1>3, <2>3, <3>2 DEF WasBlank
    <3>4. chip.next = chip.cells
      BY <3>1 DEF IInv, TypeOK, ChipOK
    <3> QED
      BY <1>4, <1>5, <3>3, <3>4
  <2>4. at + (Len(data) - 1) = (at + Len(data)) - 1
    BY <1>4, <1>5
  <2>5. data = SubSeq(data, at - at + 1, Len(data))
    BY <2>2
  <2>6. /\ work'.end = at + Len(data) /\ work'.at = at /\ work'.op = "write" /\ work'.for = "call"
        /\ call'.range = at..((at + Len(data)) - 1) /\ work'.data = data /\ chip' = chip
        /\ call'.at \in Nat
    BY <1>1, <1>2, <1>3, <1>5, <2>4
  <2>7. \A j \in 1..Len(data) : Steady' /\ WasBlank' =>
          chip'.next[at + j - 1] = IF at + j - 1 < at THEN data[j] ELSE 1
    BY <2>3, <2>6
  <2> QED
    <3>1. /\ Asked' \in Seq(Bit) /\ Start' \in Nat
          /\ work'.end = Start' + Len(Asked') /\ Start' <= work'.at
          /\ work'.data = SubSeq(Asked', work'.at - Start' + 1, Len(Asked'))
      BY <1>4, <1>5, <1>6, <2>5, <2>6
    <3>2. Start'..(work'.end - 1) \subseteq Volume /\ call'.range = Start'..(work'.end - 1)
      BY <1>6, <2>1, <2>6
    <3>3. Steady' /\ WasBlank' =>
            \A j \in 1..Len(Asked') :
              chip'.next[Start' + j - 1] = IF Start' + j - 1 < Reached' THEN Asked'[j] ELSE 1
      BY <1>6, <2>7
    <3>4. Volume' = Volume
      BY DEF Volume
    <3> HIDE DEF Volume
    <3> QED
      BY <2>6, <3>1, <3>2, <3>3, <3>4 DEF WriteOK
<1>10. PollTries > Sectors'
  BY <1>3, TriesEnough DEF Sectors
<1> QED
  BY <1>1, <1>2, <1>3, <1>7, <1>8, <1>9, <1>10, BegunStep

(* The first block of a list, or the next one.                             *)
LEMMA BlockBegins ==
  ASSUME NEW list \in Seq(Nat \X Nat), list # <<>>, Positive(list), pc' = "enable",
         work' = EraseBlock(list)
  PROVE  /\ work'.op = "erase" /\ work'.for = "call" /\ work'.tries = PollTries
         /\ DOMAIN work' = DOMAIN NoWork
         /\ {work'.at, work'.end} \subseteq Nat /\ work'.at < work'.end
         /\ work'.at % EraseSize = 0 /\ work'.end % EraseSize = 0
         /\ work'.list \in Seq(Nat \X Nat) /\ Positive(work'.list)
         /\ work'.at..(work'.end - 1) \cup CellsOf(work'.list) = CellsOf(list)
         /\ Remaining' = CellsOf(list)
         /\ PollTries > Sectors'
PROOF
<1> DEFINE lba == Head(list)[1]
           at  == FvbOffset + lba * BlockSize
           end == FvbOffset + (lba + 1) * BlockSize
<1>1. lba \in Nat /\ AfterBlock(list) \in Seq(Nat \X Nat) /\ Positive(AfterBlock(list))
  BY ListStep
<1>2. /\ work'.op = "erase" /\ work'.for = "call" /\ work'.tries = PollTries
      /\ work'.at = at /\ work'.end = end /\ work'.list = AfterBlock(list)
      /\ DOMAIN work' = DOMAIN NoWork
  BY DEF EraseBlock, Erasing, NoWork
<1>3. /\ at \in Nat /\ end = at + BlockSize /\ at < end
      /\ at % EraseSize = 0 /\ end % EraseSize = 0
      /\ Block(lba) = at..(end - 1)
      /\ (end - at) \div EraseSize = BlockSize \div EraseSize
  BY <1>1, BlockOK
<1> HIDE DEF at, end
<1>4. end \in Nat
  <2>1. BlockSize \in Nat
    BY FvbAssumption
  <2> QED
    BY <1>3, <2>1
<1>5. CellsOf(list) = Block(lba) \cup CellsOf(AfterBlock(list))
  BY CellsStep
<1>6. work'.at..(work'.end - 1) \cup CellsOf(work'.list) = CellsOf(list)
  BY <1>2, <1>3, <1>5
<1>7. Remaining' = CellsOf(list)
  <2>1. CellsOf(work.list)' = CellsOf(work'.list)
    BY DEF CellsOf, Blocks, Block
  <2> QED
    BY <1>6, <2>1 DEF Remaining
<1>8. PollTries > Sectors'
  BY <1>2, <1>3, TriesEnough DEF Sectors
<1> QED
  BY <1>1, <1>2, <1>3, <1>4, <1>6, <1>7, <1>8

LEMMA EraseBegins ==
  ASSUME IInv, NEW list \in Lists, FvbEraseBlocks(list), UNCHANGED ramVol
  PROVE  IInv'
PROOF
<1> DEFINE refused == ~WriteStatus(shadow) \/ ~ListValid(list)
<1>1. /\ pc = "idle" /\ clean' = ~chip.wip
      /\ UNCHANGED <<chip, window, ctl, shadow, stale, base, ramVol>>
  BY DEF FvbEraseBlocks, Called
<1>2. /\ call'.op = "erase" /\ DOMAIN call' = DOMAIN NoCall
      /\ call'.range = IF refused THEN {} ELSE CellsOf(list)
      /\ call'.before = chip.cells /\ call'.coming = chip.next
  BY DEF FvbEraseBlocks, Called, NoCall, CellsOf
<1>3. IF refused THEN UNCHANGED <<pc, work>> ELSE pc' = "enable" /\ work' = EraseBlock(list)
  BY DEF FvbEraseBlocks
<1>4. list \in Seq(Nat \X Nat) /\ list # <<>>
  BY DataAssumption
<1>5. CASE refused
  <2>1. call'.range = {} /\ pc' = "idle" /\ UNCHANGED work
    BY <1>1, <1>2, <1>3, <1>5
  <2> QED
    BY <1>1, <1>2, <2>1, AnsweredStep
<1>6. CASE ~refused
  <2>1. ListValid(list) /\ call'.range = CellsOf(list) /\ pc' = "enable" /\ work' = EraseBlock(list)
    BY <1>2, <1>3, <1>6
  <2>2. Positive(list)
    BY <2>1 DEF ListValid, Positive
  <2>3. CellsOf(list) \subseteq Cells
    BY <1>4, <2>1, ValidCells
  <2>4. /\ work'.op = "erase" /\ work'.for = "call" /\ work'.tries = PollTries
        /\ DOMAIN work' = DOMAIN NoWork
        /\ {work'.at, work'.end} \subseteq Nat /\ work'.at < work'.end
        /\ work'.at % EraseSize = 0 /\ work'.end % EraseSize = 0
        /\ work'.list \in Seq(Nat \X Nat) /\ Positive(work'.list)
        /\ work'.at..(work'.end - 1) \cup CellsOf(work'.list) = CellsOf(list)
        /\ Remaining' = CellsOf(list)
        /\ PollTries > Sectors'
    BY <1>4, <2>1, <2>2, BlockBegins
  <2>5. CellsOf(work.list)' = CellsOf(work'.list)
    BY DEF CellsOf, Blocks, Block
  <2>6. WorkOK'
    BY <1>2, <2>1, <2>4, TriesEnough DEF WorkOK, Positive
  <2>7. EraseOK'
    BY <1>2, <2>1, <2>3, <2>4, <2>5 DEF EraseOK, Cells
  <2>8. WriteOK'
    BY <2>4 DEF WriteOK
  <2> QED
    BY <1>1, <1>2, <2>1, <2>4, <2>6, <2>7, <2>8, BegunStep
<1> QED
  BY <1>5, <1>6

-----------------------------------------------------------------------------
(* The flash driver returns                                                *)

LEMMA ReturnedKeeps ==
  ASSUME IInv, FlashReturns, UNCHANGED ramVol
  PROVE  /\ pc = "returned" /\ UNCHANGED <<chip, window, ctl, base, clean, ramVol>>
         /\ CtlOK(ctl) /\ ChipOK(chip) /\ Captures(ctl) /\ base = "shadow" /\ clean \in BOOLEAN
         /\ shadow \in [1..FvbSize -> Bit] /\ DOMAIN call = DOMAIN NoCall
         /\ DOMAIN work = DOMAIN NoWork
         /\ work.result = "ok" => work.at = work.end
         /\ work.result = "ok" /\ Steady => chip.next = chip.cells /\ ~chip.wip
         /\ work.for # "call" => call.op = "boot" /\ call.range = Volume
BY DEF FlashReturns, IInv, TypeOK, BootOK, WorkOK, SteadyOK, Loaded, Flash, ChipOK

(* The volume has been erased: the headers are written.                    *)
LEMMA FormatReturns ==
  ASSUME IInv, FlashReturns, UNCHANGED ramVol, work.for = "format", work.result = "ok"
  PROVE  IInv'
PROOF
<1>1. /\ pc' = "enable" /\ work' = Writing("headers", FvbOffset, Header)
      /\ stale' = Volume /\ UNCHANGED <<shadow, call>>
  BY DEF FlashReturns
<1>2. /\ pc = "returned" /\ UNCHANGED <<chip, window, ctl, base, clean, ramVol>>
      /\ CtlOK(ctl) /\ ChipOK(chip) /\ Captures(ctl) /\ base = "shadow" /\ clean \in BOOLEAN
      /\ shadow \in [1..FvbSize -> Bit] /\ DOMAIN call = DOMAIN NoCall
      /\ work.at = work.end /\ call.op = "boot" /\ call.range = Volume
  BY ReturnedKeeps
<1>3. Steady
  BY DEF Steady
<1>4. chip.next = chip.cells /\ ~chip.wip
  BY <1>3, ReturnedKeeps
<1>5. Header \in Seq(Bit) /\ Len(Header) = 3
  BY DEF Header, Bit
<1>6. FvbOffset \in Nat /\ FvbSize \in Nat /\ 3 <= FvbSize
  BY <1>5, FvbAssumption, GeometryAssumption
<1>7. /\ work'.op = "write" /\ work'.for = "headers" /\ work'.at = FvbOffset
      /\ work'.end = FvbOffset + 3 /\ work'.data = Header /\ work'.tries = PollTries
      /\ work'.list = <<>> /\ DOMAIN work' = DOMAIN NoWork
  BY <1>1, <1>5 DEF Writing, NoWork
<1>8. \A i \in Volume : chip.next[i] = 1
  <2>1. work.op = "erase" /\ work.list = <<>> /\ {work.at, work.end} \subseteq Nat
    BY <1>2 DEF IInv, WorkOK, EraseOK, Flash
  <2>2. Remaining = {}
    <3>1. Remaining = work.at..(work.end - 1) \cup {}
      BY <1>2, <2>1, NoCells DEF Remaining
    <3> QED
      BY <1>2, <2>1, <3>1
  <2> QED
    BY <1>2, <1>3, <2>1, <2>2 DEF IInv, EraseOK, Flash
<1>9. TypeOK'
  BY <1>1, <1>2, <1>7 DEF IInv, TypeOK, Loaded, Flash
<1>10. BootOK'
  BY <1>1, <1>2 DEF IInv, BootOK, Loaded, Flash, Boots, Early, Before, Volume, Captures
<1>11. CopyOK'
  BY <1>1, <1>7 DEF CopyOK, Flash
<1>12. WorkOK'
  <2>1. {work'.at, work'.end} \subseteq Nat /\ work'.at <= work'.end
    BY <1>6, <1>7
  <2>2. work'.tries \in Nat \ {0} /\ Positive(work'.list)
    BY <1>7, TriesEnough DEF Positive
  <2>3. Volume' = Volume /\ Positive(work.list)' = Positive(work'.list)
    BY DEF Volume, Positive
  <2> QED
    <3>1. work'.list \in Seq(Nat \X Nat)
      <4>1. <<>> \in Seq(Nat \X Nat)
        OBVIOUS
      <4> QED
        BY <1>7, <4>1
    <3>2. stale' = Volume' /\ call' = call /\ pc' = "enable"
      BY <1>1, <2>3, Zenon
    <3> HIDE DEF Volume
    <3> QED
      BY <1>2, <1>7, <2>1, <2>2, <2>3, <3>1, <3>2 DEF WorkOK
<1>13. SteadyOK'
  BY <1>1, <1>2, <1>4, <1>7 DEF SteadyOK
<1>14. EraseOK'
  BY <1>7 DEF EraseOK
<1>15. WriteOK'
  <2>1. Asked' = Header /\ Start' = FvbOffset /\ Reached' = FvbOffset
    BY <1>1, <1>7 DEF Asked, Start, Reached
  <2>2. FvbOffset..((FvbOffset + 3) - 1) \subseteq Volume
    BY <1>6 DEF Volume
  <2>3. Header = SubSeq(Header, FvbOffset - FvbOffset + 1, 3)
    <3>1. FvbOffset - FvbOffset + 1 = 1
      BY <1>6
    <3>2. SubSeq(Header, 1, 3) = Header
      BY <1>5
    <3> QED
      BY <3>1, <3>2
  <2>4. \A j \in 1..3 : /\ FvbOffset + j - 1 \in Volume
                        /\ ~(FvbOffset + j - 1 < FvbOffset)
    BY <1>6 DEF Volume
  <2>5. \A j \in 1..3 : chip.next[FvbOffset + j - 1] =
                          IF FvbOffset + j - 1 < FvbOffset THEN Header[j] ELSE 1
    BY <1>8, <2>4
  <2>6. work'.end = Start' + Len(Asked') /\ Start' <= work'.at /\ Start' \in Nat
    <3>1. FvbOffset + 3 = FvbOffset + Len(Header) /\ FvbOffset <= FvbOffset
      BY <1>5, <1>6
    <3> QED
      BY <1>6, <1>7, <2>1, <3>1
  <2>7. Start'..(work'.end - 1) \subseteq Volume /\ Volume' = Volume
    BY <1>7, <2>1, <2>2 DEF Volume
  <2>8. work'.data = SubSeq(Asked', work'.at - Start' + 1, Len(Asked'))
    BY <1>5, <1>7, <2>1, <2>3
  <2>9. \A j \in 1..Len(Asked') : chip'.next[Start' + j - 1] =
                                    IF Start' + j - 1 < Reached' THEN Asked'[j] ELSE 1
    BY <1>2, <1>5, <2>1, <2>5
  <2> QED
    BY <1>5, <1>7, <2>1, <2>6, <2>7, <2>8, <2>9 DEF WriteOK
<1>16. IdleOK' /\ PublishedIsValid' /\ CleanCallIsExact'
  BY <1>1 DEF IdleOK, PublishedIsValid, CleanCallIsExact, Idle
<1>17. OthersUntouched'
  BY <1>1, <1>2, SparesSelf, SparedStay DEF IInv
<1> QED
  BY <1>9, <1>10, <1>11, <1>12, <1>13, <1>14, <1>15, <1>16, <1>17 DEF IInv

(* What a write that returns has left, over cells that were ones.          *)
LEMMA WrittenOut ==
  ASSUME IInv, pc = "returned", work.result = "ok", work.op = "write", Steady, WasBlank
  PROVE  \A j \in 1..Len(Asked) : chip.cells[Start + j - 1] = Asked[j]
PROOF
<1>1. /\ work.at = work.end /\ chip.next = chip.cells
      /\ Asked \in Seq(Bit) /\ Start \in Nat /\ work.end = Start + Len(Asked)
      /\ \A j \in 1..Len(Asked) :
           chip.next[Start + j - 1] = IF Start + j - 1 < Reached THEN Asked[j] ELSE 1
  BY DEF IInv, TypeOK, ChipOK, WorkOK, SteadyOK, WriteOK, Flash
<1>2. Reached = Start + Len(Asked)
  BY <1>1 DEF Reached
<1>3. \A j \in 1..Len(Asked) : Start + j - 1 < Start + Len(Asked)
  BY <1>1
<1> QED
  BY <1>1, <1>2, <1>3

(* The headers are in the flash and in the copy.                           *)
LEMMA HeadersReturn ==
  ASSUME IInv, FlashReturns, UNCHANGED ramVol, work.for = "headers", work.result = "ok"
  PROVE  IInv'
PROOF
<1>1. /\ pc' = "publish" /\ work' = NoWork /\ shadow' = Patched(shadow, 0, Header)
      /\ stale' = stale \ (FvbOffset..(FvbOffset + Len(Header) - 1)) /\ UNCHANGED call
  BY DEF FlashReturns, Shadowed
<1>2. /\ pc = "returned" /\ UNCHANGED <<chip, window, ctl, base, clean, ramVol>>
      /\ CtlOK(ctl) /\ ChipOK(chip) /\ Captures(ctl) /\ base = "shadow" /\ clean \in BOOLEAN
      /\ shadow \in [1..FvbSize -> Bit] /\ DOMAIN call = DOMAIN NoCall
      /\ call.op = "boot" /\ call.range = Volume
  BY ReturnedKeeps
<1>3. Steady /\ WasBlank /\ work.op = "write" /\ stale = Volume
  BY <1>2 DEF Steady, WasBlank, IInv, WorkOK, Flash
<1>4. chip.next = chip.cells /\ ~chip.wip
  BY <1>3, ReturnedKeeps
<1>5. /\ Header \in Seq(Bit) /\ Len(Header) = 3
      /\ Header[1] \in Bit /\ Header[2] \in Bit /\ Header[3] \in Bit
  BY DEF Header, Bit
<1>6. FvbOffset \in Nat /\ FvbSize \in Nat /\ 3 <= FvbSize
  BY <1>5, FvbAssumption, GeometryAssumption
<1>7. \A j \in 1..3 : chip.cells[FvbOffset + j - 1] = Header[j]
  BY <1>2, <1>3, <1>5, WrittenOut DEF Asked, Start
<1>8. shadow' \in [1..FvbSize -> Bit] /\ \A j \in 1..3 : shadow'[j] = Header[j]
  <2>1. Len(shadow) = FvbSize
    BY <1>2, <1>6
  <2>2. shadow' = [i \in 1..FvbSize |-> IF i - 1 \in 0..(0 + 3 - 1) THEN Header[i - 0] ELSE shadow[i]]
    BY <1>1, <1>5, <2>1 DEF Patched
  <2>3. \A i \in 1..FvbSize : i - 1 \in 0..(0 + 3 - 1) => i - 0 = i /\ i \in 1..3
    BY <1>6
  <2>4. \A i \in 1..3 : i \in 1..FvbSize /\ i - 1 \in 0..(0 + 3 - 1)
    BY <1>6
  <2>5. \A i \in 1..3 : Header[i] \in Bit
    BY <1>5
  <2> QED
    BY <1>2, <2>2, <2>3, <2>4, <2>5
<1>9. TypeOK'
  BY <1>1, <1>2, <1>8 DEF IInv, TypeOK, Loaded, Flash, Boots, Early
<1>10. BootOK'
  <2>1. FvbValidateFvHeader(shadow')
    BY <1>8 DEF FvbValidateFvHeader
  <2>2. HeadersPlaced'
    BY <1>2, <1>5, <1>7, <1>8 DEF HeadersPlaced, InFlash
  <2>3. FvbValidateFvHeader(shadow)'
    BY <2>1 DEF FvbValidateFvHeader
  <2> QED
    BY <1>1, <1>2, <1>4, <2>2, <2>3 DEF IInv, BootOK, Loaded, Flash, Boots, Early, Before, Volume,
                                        Captures
<1>11. CopyOK'
  <2>1. ASSUME NEW i \in Volume \ stale'
        PROVE  Same(i)'
    <3>1. i \in FvbOffset..(FvbOffset + 3 - 1)
      BY <1>1, <1>3, <1>5, <2>1
    <3>2. i - FvbOffset + 1 \in 1..3 /\ FvbOffset + (i - FvbOffset + 1) - 1 = i
      BY <1>6, <3>1
    <3>3. shadow'[i - FvbOffset + 1] = Header[i - FvbOffset + 1]
      BY <1>8, <3>2
    <3>4. chip.cells[i] = Header[i - FvbOffset + 1]
      BY <1>7, <3>2
    <3> QED
      BY <1>2, <1>4, <3>3, <3>4 DEF Same
  <2> QED
    BY <1>1, <2>1 DEF CopyOK, Flash, Volume
<1>12. OthersUntouched'
  BY <1>1, <1>2, SparesSelf, SparedStay DEF IInv
<1>13. PublishedIsValid'
  BY <1>1 DEF PublishedIsValid
<1> QED
  BY <1>1, <1>9, <1>10, <1>11, <1>12, <1>13, StartStep DEF Flash

LEMMA StartFails ==
  ASSUME IInv, FlashReturns, UNCHANGED ramVol, work.for # "call", work.result # "ok"
  PROVE  IInv'
PROOF
<1>1. pc' = "failed" /\ work' = NoWork /\ UNCHANGED <<stale, call>>
  BY DEF FlashReturns
<1>2. /\ UNCHANGED <<chip, window, ctl, base, clean, ramVol>>
      /\ CtlOK(ctl) /\ ChipOK(chip) /\ base = "shadow" /\ clean \in BOOLEAN
      /\ DOMAIN call = DOMAIN NoCall /\ call.op = "boot" /\ call.range = Volume
  BY ReturnedKeeps
<1>3. TypeOK'
  BY <1>1, <1>2 DEF IInv, TypeOK, Loaded, Flash
<1>4. BootOK'
  BY <1>1, <1>2 DEF IInv, BootOK, Loaded, Flash, Boots, Early, Before, Volume
<1>5. OthersUntouched'
  BY <1>1, <1>2, SparesSelf, SparedStay DEF IInv
<1>6. CopyOK' /\ PublishedIsValid'
  BY <1>1, <1>2 DEF CopyOK, Flash, PublishedIsValid
<1> QED
  BY <1>1, <1>3, <1>4, <1>5, <1>6, StartStep DEF Flash

(* The next block of a list.                                               *)
LEMMA BlockReturns ==
  ASSUME IInv, FlashReturns, UNCHANGED ramVol, work.for = "call", work.result = "ok", work.list # <<>>
  PROVE  IInv'
PROOF
<1>1. pc' = "enable" /\ work' = EraseBlock(work.list) /\ UNCHANGED <<shadow, stale, call>>
  BY DEF FlashReturns
<1>2. /\ pc = "returned" /\ UNCHANGED <<chip, window, ctl, base, clean, ramVol>>
      /\ CtlOK(ctl) /\ ChipOK(chip) /\ Captures(ctl) /\ base = "shadow" /\ clean \in BOOLEAN
      /\ shadow \in [1..FvbSize -> Bit] /\ DOMAIN call = DOMAIN NoCall /\ work.at = work.end
      /\ Steady => ~chip.wip
  BY ReturnedKeeps
<1>3. /\ work.op = "erase" /\ call.op = "erase" /\ {work.at, work.end} \subseteq Nat
      /\ work.list \in Seq(Nat \X Nat) /\ Positive(work.list)
      /\ call.range \subseteq Cells /\ CellsOf(work.list) \subseteq call.range
      /\ Steady => \A i \in call.range \ Remaining : chip.next[i] = 1
  BY <1>2 DEF IInv, WorkOK, EraseOK, Flash
<1>4. Remaining = CellsOf(work.list)
  <2>1. work.at..(work.end - 1) = {}
    BY <1>2, <1>3
  <2> QED
    BY <1>2, <2>1 DEF Remaining
<1>5. /\ work'.op = "erase" /\ work'.for = "call" /\ work'.tries = PollTries
      /\ DOMAIN work' = DOMAIN NoWork
      /\ {work'.at, work'.end} \subseteq Nat /\ work'.at < work'.end
      /\ work'.at % EraseSize = 0 /\ work'.end % EraseSize = 0
      /\ work'.list \in Seq(Nat \X Nat) /\ Positive(work'.list)
      /\ work'.at..(work'.end - 1) \cup CellsOf(work'.list) = CellsOf(work.list)
      /\ Remaining' = CellsOf(work.list)
      /\ PollTries > Sectors'
  BY <1>1, <1>3, BlockBegins
<1>6. Steady' = Steady
  BY <1>2, <1>5 DEF Steady
<1>7. FlashFrame
  <2>1. CtlOK(ctl') /\ Captures(ctl)' /\ ChipOK(chip')
    BY <1>2 DEF Captures
  <2> QED
    BY <1>1, <1>2, <1>5, <2>1, SparesSelf DEF FlashFrame, Flash
<1>8. WorkOK'
  BY <1>1, <1>3, <1>5, TriesEnough DEF WorkOK, Positive
<1>9. SteadyOK'
  BY <1>1, <1>2, <1>5, <1>6 DEF SteadyOK
<1>10. EraseOK'
  <2>1. CellsOf(work.list)' = CellsOf(work'.list)
    BY DEF CellsOf, Blocks, Block
  <2> QED
    BY <1>1, <1>2, <1>3, <1>4, <1>5, <1>6, <2>1 DEF EraseOK, Cells
<1>11. WriteOK'
  BY <1>5 DEF WriteOK
<1> QED
  BY <1>7, <1>8, <1>9, <1>10, <1>11, FlashStep

(* Data put into the copy, at the cells they were written to.              *)
LEMMA CopyPatched ==
  ASSUME NEW at \in Nat, NEW data \in Seq(Bit), NEW copy \in [1..FvbSize -> Bit],
         (FvbOffset + at)..(FvbOffset + at + Len(data) - 1) \subseteq Volume
  PROVE  /\ Patched(copy, at, data) \in [1..FvbSize -> Bit]
         /\ \A i \in Volume \ ((FvbOffset + at)..(FvbOffset + at + Len(data) - 1)) :
              Patched(copy, at, data)[i - FvbOffset + 1] = copy[i - FvbOffset + 1]
         /\ \A i \in (FvbOffset + at)..(FvbOffset + at + Len(data) - 1) :
              /\ i - (FvbOffset + at) + 1 \in 1..Len(data)
              /\ Patched(copy, at, data)[i - FvbOffset + 1] = data[i - (FvbOffset + at) + 1]
PROOF
<1> DEFINE n == Len(data)
           p == Patched(copy, at, data)
<1>1. FvbOffset \in Nat /\ FvbSize \in Nat /\ n \in Nat
  BY FvbAssumption
<1>2. Len(copy) = FvbSize
  BY <1>1
<1>3. p = [k \in 1..FvbSize |-> IF k - 1 \in at..(at + n - 1) THEN data[k - at] ELSE copy[k]]
  BY <1>2 DEF Patched
<1>4. \A k \in 1..FvbSize : k - 1 \in at..(at + n - 1) => k - at \in 1..n
  BY <1>1
<1>5. \A k \in 1..n : data[k] \in Bit
  OBVIOUS
<1> HIDE DEF p, n
<1>6. p \in [1..FvbSize -> Bit]
  BY <1>3, <1>4, <1>5
<1>7. ASSUME NEW i \in Volume \ ((FvbOffset + at)..(FvbOffset + at + n - 1))
      PROVE  p[i - FvbOffset + 1] = copy[i - FvbOffset + 1]
  <2> DEFINE k == i - FvbOffset + 1
  <2>1. k \in 1..FvbSize /\ ~(k - 1 \in at..(at + n - 1))
    BY <1>1 DEF Volume
  <2> HIDE DEF k
  <2>2. p[k] = copy[k]
    BY <1>3, <2>1
  <2> QED
    BY <2>2 DEF k
<1>8. ASSUME NEW i \in (FvbOffset + at)..(FvbOffset + at + n - 1)
      PROVE  i - (FvbOffset + at) + 1 \in 1..n /\ p[i - FvbOffset + 1] = data[i - (FvbOffset + at) + 1]
  <2> DEFINE k == i - FvbOffset + 1
             j == i - (FvbOffset + at) + 1
  <2>1. i \in Volume
    BY DEF n
  <2>2. k \in 1..FvbSize
    BY <1>1, <2>1 DEF Volume
  <2>3. k - 1 \in at..(at + n - 1) /\ k - at = j /\ j \in 1..n
    BY <1>1
  <2> HIDE DEF k, j
  <2>4. p[k] = data[j]
    BY <1>3, <2>2, <2>3
  <2> QED
    BY <2>3, <2>4 DEF k, j
<1> QED
  BY <1>6, <1>7, <1>8 DEF p, n

(* The answer of a call.  The copy follows a write; where it need not be   *)
(* what the flash holds the cells are counted as stale.                    *)
LEMMA CallReturns ==
  ASSUME IInv, FlashReturns, UNCHANGED ramVol, work.for = "call",
         work.result # "ok" \/ work.list = <<>>
  PROVE  IInv'
PROOF
<1> DEFINE ok == work.result = "ok"
<1>1. /\ pc' = "idle" /\ work' = NoWork /\ call' = [call EXCEPT !.result = work.result]
      /\ shadow' = IF ok /\ call.op = "write" THEN Shadowed(shadow, call.at, call.data) ELSE shadow
      /\ stale' = Diverged(stale, ok)
  BY DEF FlashReturns
<1>2. /\ pc = "returned" /\ UNCHANGED <<chip, window, ctl, base, clean, ramVol>>
      /\ CtlOK(ctl) /\ ChipOK(chip) /\ Captures(ctl) /\ base = "shadow" /\ clean \in BOOLEAN
      /\ shadow \in [1..FvbSize -> Bit] /\ DOMAIN call = DOMAIN NoCall
      /\ ok => work.at = work.end
      /\ ok /\ clean => chip.next = chip.cells /\ ~chip.wip
  BY ReturnedKeeps DEF Steady
<1>3. /\ call.op = work.op /\ work.op \in {"write", "erase"} /\ (clean => ok)
      /\ {work.at, work.end} \subseteq Nat
  BY <1>2 DEF IInv, WorkOK, SteadyOK, Steady, Flash
<1>4. /\ call'.result = work.result /\ DOMAIN call' = DOMAIN NoCall
      /\ \A f \in {"op", "at", "data", "range", "before", "coming"} : call'[f] = call[f]
  BY <1>1, <1>2 DEF NoCall
<1> DEFINE range == (FvbOffset + call.at)..(FvbOffset + call.at + Len(call.data) - 1)
<1>5. work.op = "write" =>
        /\ call.at \in Nat /\ call.data \in Seq(Bit)
        /\ call.range = range /\ range \subseteq Volume
        /\ Asked = call.data /\ Start = FvbOffset + call.at
  <2> SUFFICES ASSUME work.op = "write"
               PROVE  /\ call.at \in Nat /\ call.data \in Seq(Bit)
                      /\ call.range = range /\ range \subseteq Volume
                      /\ Asked = call.data /\ Start = FvbOffset + call.at
    OBVIOUS
  <2>1. Asked = call.data /\ Start = FvbOffset + call.at
    BY DEF Asked, Start
  <2>2. /\ call.at \in Nat /\ Asked \in Seq(Bit) /\ work.end = Start + Len(Asked)
        /\ call.range = Start..(work.end - 1) /\ Start..(work.end - 1) \subseteq Volume
    BY <1>2 DEF IInv, WriteOK, Flash
  <2>3. FvbOffset \in Nat /\ call.at \in Nat /\ Len(call.data) \in Nat
    BY <2>1, <2>2, FvbAssumption, GeometryAssumption
  <2>4. (FvbOffset + call.at + Len(call.data)) - 1 = FvbOffset + call.at + (Len(call.data) - 1)
    BY <2>3
  <2> QED
    BY <2>1, <2>2, <2>3, <2>4
<1>6. /\ shadow' \in [1..FvbSize -> Bit]
      /\ \A i \in Volume \ call.range : shadow'[i - FvbOffset + 1] = shadow[i - FvbOffset + 1]
      /\ ok /\ work.op = "write" =>
           \A i \in call.range : /\ i - Start + 1 \in 1..Len(Asked)
                                 /\ shadow'[i - FvbOffset + 1] = Asked[i - Start + 1]
  <2>1. CASE ok /\ work.op = "write"
    <3>1. shadow' = Patched(shadow, call.at, call.data)
      BY <1>1, <1>3, <2>1 DEF Shadowed
    <3>2. /\ call.at \in Nat /\ call.data \in Seq(Bit) /\ range \subseteq Volume
          /\ call.range = range /\ Asked = call.data /\ Start = FvbOffset + call.at
      BY <1>5, <2>1
    <3>3. /\ Patched(shadow, call.at, call.data) \in [1..FvbSize -> Bit]
          /\ \A i \in Volume \ range :
               Patched(shadow, call.at, call.data)[i - FvbOffset + 1] = shadow[i - FvbOffset + 1]
          /\ \A i \in range :
               /\ i - (FvbOffset + call.at) + 1 \in 1..Len(call.data)
               /\ Patched(shadow, call.at, call.data)[i - FvbOffset + 1] =
                    call.data[i - (FvbOffset + call.at) + 1]
      BY <1>2, <3>2, CopyPatched
    <3> HIDE DEF range
    <3> QED
      BY <3>1, <3>2, <3>3
  <2>2. CASE ~(ok /\ work.op = "write")
    BY <1>1, <1>2, <1>3, <2>2
  <2> QED
    BY <2>1, <2>2
<1> HIDE DEF range
(* What the flash holds after it, when nothing went wrong.                 *)
<1>7. ASSUME clean, work.op = "write", \A i \in call.range : call.before[i] = 1
      PROVE  \A j \in 1..Len(Asked) : chip.cells[Start + j - 1] = Asked[j]
  <2>1. Steady /\ WasBlank /\ work.result = "ok"
    BY <1>3, <1>7 DEF Steady, WasBlank
  <2> QED
    BY <1>2, <1>7, <2>1, WrittenOut
<1>8. ASSUME clean, work.op = "erase"
      PROVE  \A i \in call.range : chip.cells[i] = 1
  <2>1. ok /\ Steady /\ work.list = <<>> /\ chip.next = chip.cells /\ work.at = work.end
    BY <1>2, <1>3, <1>8 DEF Steady
  <2>2. Remaining = {}
    <3>1. Remaining = work.at..(work.end - 1) \cup {}
      BY <1>2, <2>1, NoCells DEF Remaining
    <3> QED
      BY <1>3, <2>1, <3>1
  <2> QED
    BY <1>2, <1>8, <2>1, <2>2 DEF IInv, EraseOK, Flash
<1>9. CopyOK'
  <2>1. ASSUME NEW i \in Volume, i \notin stale, i \notin call.range
        PROVE  Same(i)'
    <3>1. Same(i)
      BY <1>2, <2>1 DEF IInv, CopyOK, Flash
    <3> QED
      BY <1>2, <1>6, <2>1, <3>1 DEF Same
  <2>2. ASSUME NEW i \in call.range, i \in Volume, stale' = stale \ call.range, ~(i \in stale')
        PROVE  Same(i)' \/ i \notin stale \cup call.range
    <3>1. \/ /\ ok /\ clean /\ call.op = "write"
             /\ \A l \in call.range : call.before[l] = 1 /\ call.coming[l] = 1
          \/ stale' = stale \cup call.range
      BY <1>1 DEF Diverged
    <3>2. CASE stale' = stale \cup call.range
      BY <2>2, <3>2
    <3>3. CASE /\ ok /\ clean /\ call.op = "write"
               /\ \A l \in call.range : call.before[l] = 1 /\ call.coming[l] = 1
      <4> DEFINE j == i - Start + 1
      <4>1. /\ j \in 1..Len(Asked) /\ shadow'[i - FvbOffset + 1] = Asked[j]
        BY <1>3, <1>6, <2>2, <3>3
      <4>2. Start + j - 1 = i
        <5>1. Start \in Nat
          <6>1. call.at \in Nat /\ Start = FvbOffset + call.at /\ FvbOffset \in Nat
            BY <1>3, <1>5, <3>3, FvbAssumption
          <6> QED
            BY <6>1
        <5>2. i \in Int
          BY <2>2, FvbAssumption DEF Volume
        <5> QED
          BY <5>1, <5>2
      <4> HIDE DEF j
      <4>3. chip.cells[i] = Asked[j]
        BY <1>3, <1>7, <3>3, <4>1, <4>2
      <4>4. chip.next = chip.cells
        BY <1>2, <3>3
      <4> QED
        BY <1>2, <4>1, <4>3, <4>4 DEF Same
    <3> QED
      BY <3>1, <3>2, <3>3
  <2>3. stale' = stale \ call.range \/ stale' = stale \cup call.range
    BY <1>1 DEF Diverged
  <2>4. \A i \in Volume \ stale' : Same(i)'
    BY <2>1, <2>2, <2>3
  <2> QED
    BY <1>1, <1>3, <1>4, <2>4 DEF CopyOK, Flash, Volume
<1>10. TypeOK'
  BY <1>1, <1>2, <1>4, <1>6 DEF IInv, TypeOK, Loaded, Flash, NoWork
<1>11. BootOK'
  BY <1>1, <1>2, <1>3, <1>4 DEF IInv, BootOK, Loaded, Flash, Boots, Early, Before, Captures
<1>12. IdleOK'
  BY <1>1, <1>2, <1>3, <1>4 DEF IdleOK
<1>13. PublishedIsValid'
  BY <1>1, <1>3, <1>4 DEF PublishedIsValid
<1>14. OthersUntouched'
  BY <1>2, <1>4, SparesSelf, SparedStay DEF IInv
<1>15. CleanCallIsExact'
  <2>1. ASSUME clean'
        PROVE  /\ call'.result = "ok"
               /\ call'.op = "write" /\ (\A i \in call'.range : call'.before[i] = 1) =>
                    \A j \in 1..Len(call'.data) :
                      chip'.cells[FvbOffset + call'.at + j - 1] = call'.data[j]
               /\ call'.op = "erase" => \A i \in call'.range : chip'.cells[i] = 1
    <3>1. call'.result = "ok"
      BY <1>2, <1>3, <1>4, <2>1
    <3>2. ASSUME call'.op = "write", \A i \in call'.range : call'.before[i] = 1
          PROVE  \A j \in 1..Len(call'.data) :
                   chip'.cells[FvbOffset + call'.at + j - 1] = call'.data[j]
      <4>1. work.op = "write" /\ \A i \in call.range : call.before[i] = 1
        BY <1>3, <1>4, <3>2
      <4>2. \A j \in 1..Len(Asked) : chip.cells[Start + j - 1] = Asked[j]
        BY <1>2, <1>7, <2>1, <4>1
      <4> QED
        BY <1>2, <1>4, <1>5, <4>1, <4>2
    <3>3. call'.op = "erase" => \A i \in call'.range : chip'.cells[i] = 1
      BY <1>2, <1>3, <1>4, <1>8, <2>1
    <3> QED
      BY <3>1, <3>2, <3>3
  <2>2. call'.op # "read"
    BY <1>3, <1>4
  <2> QED
    BY <2>1, <2>2 DEF CleanCallIsExact
<1>16. WorkOK' /\ SteadyOK' /\ EraseOK' /\ WriteOK'
  BY <1>1 DEF WorkOK, SteadyOK, EraseOK, WriteOK, Flash
<1> QED
  BY <1>9, <1>10, <1>11, <1>12, <1>13, <1>14, <1>15, <1>16 DEF IInv

LEMMA ReturnStep ==
  ASSUME IInv, FlashReturns, UNCHANGED ramVol
  PROVE  IInv'
PROOF
<1>1. work.for \in {"format", "headers", "call"}
  BY DEF FlashReturns, IInv, WorkOK, Flash
<1> QED
  BY <1>1, FormatReturns, HeadersReturn, StartFails, BlockReturns, CallReturns

-----------------------------------------------------------------------------
(* The theorems                                                            *)

LEMMA InitOK == ASSUME NvInit PROVE IInv
PROOF
<1>1. PICK volume \in Contents :
        chip = NewChip([i \in Cells |-> IF i \in Volume THEN volume[i - FvbOffset + 1] ELSE Outside[i + 1]])
  BY DEF NvInit, Init
<1> DEFINE f == [i \in Cells |-> IF i \in Volume THEN volume[i - FvbOffset + 1] ELSE Outside[i + 1]]
<1>2. f \in [Cells -> Bit]
  <2>1. FvbOffset \in Nat /\ FvbSize \in Nat /\ Size \in Nat
    BY FvbAssumption
  <2>2. volume \in [1..FvbSize -> {0, 1}] /\ Outside \in [1..(FvbOffset + Size) -> {0, 1}]
    BY DataAssumption
  <2>3. \A i \in Volume : i - FvbOffset + 1 \in 1..FvbSize
    BY <2>1 DEF Volume
  <2>4. \A i \in Cells : i + 1 \in 1..(FvbOffset + Size)
    BY <2>1 DEF Cells
  <2> QED
    BY <2>2, <2>3, <2>4 DEF Bit
<1> HIDE DEF f
<1>3. ChipOK(chip) /\ ~chip.wip
  BY <1>1, <1>2 DEF NewChip, ChipOK, f
<1>4. /\ pc = "off" /\ ctl = NewController /\ work = NoWork /\ stale = {} /\ base = "none"
      /\ call = NoCall /\ clean = TRUE
  BY DEF NvInit, Init
<1>5. call.op = "none" /\ DOMAIN call = DOMAIN NoCall /\ DOMAIN work = DOMAIN NoWork /\ CtlOK(ctl)
  BY <1>4 DEF NoCall, CtlOK, NewController
<1>6. TypeOK
  BY <1>3, <1>4, <1>5 DEF TypeOK, Loaded, Flash
<1>7. BootOK
  BY <1>3, <1>4, <1>5 DEF BootOK, Boots, Early, Loaded, Flash
<1>8. CopyOK /\ WorkOK /\ SteadyOK /\ EraseOK /\ WriteOK /\ IdleOK
  BY <1>4 DEF CopyOK, WorkOK, SteadyOK, EraseOK, WriteOK, IdleOK, Flash
<1>9. CleanCallIsExact /\ OthersUntouched /\ PublishedIsValid
  BY <1>4, <1>5 DEF CleanCallIsExact, OthersUntouched, PublishedIsValid, Idle
<1> QED
  BY <1>6, <1>7, <1>8, <1>9 DEF IInv

LEMMA StutterOK == ASSUME IInv, UNCHANGED nvVars PROVE IInv'
PROOF
<1>1. UNCHANGED <<chip, window, ctl, pc, work, shadow, stale, base, call, clean, ramVol>>
  BY DEF nvVars, vars, fvb
<1>2. Asked' = Asked /\ Start' = Start /\ WasBlank' = WasBlank /\ Reached' = Reached /\ Steady' = Steady
  BY <1>1 DEF Asked, Start, WasBlank, Reached, Steady, Chunk
<1>3. Remaining' = Remaining /\ CellsOf(work.list)' = CellsOf(work.list) /\ Sectors' = Sectors
  BY <1>1 DEF Remaining, CellsOf, Blocks, Block, Sectors
<1>9. Found' = Found /\ HeadersPlaced' = HeadersPlaced /\ VolumeFound' = VolumeFound
  BY <1>1 DEF Found, HeadersPlaced, VolumeFound, InFlash, Cells
<1>4. TypeOK' /\ BootOK' /\ WorkOK'
  BY <1>1, <1>9 DEF IInv, TypeOK, BootOK, WorkOK, Volume, Captures, Positive, FvbValidateFvHeader
<1>5. CopyOK'
  BY <1>1 DEF IInv, CopyOK, Same, Volume
<1>6. SteadyOK' /\ EraseOK' /\ WriteOK' /\ IdleOK'
  BY <1>1, <1>2, <1>3 DEF IInv, SteadyOK, EraseOK, WriteOK, IdleOK, Volume, Cells
<1>7. CleanCallIsExact' /\ OthersUntouched' /\ PublishedIsValid'
  BY <1>1, <1>9 DEF IInv, CleanCallIsExact, OthersUntouched, PublishedIsValid, Idle, Cells,
                    FvbValidateFvHeader, Volume
<1> QED
  BY <1>4, <1>5, <1>6, <1>7 DEF IInv

LEMMA NextOK == ASSUME IInv, NvNext PROVE IInv'
PROOF
<1>1. CASE RamFvbStarts
  BY <1>1, RamStartStep
<1>2. CASE RamFvbWrites \/ RamFvbErases \/ RamFvbSetsAttributes
  BY <1>2, RamCallStep DEF RamFvbWrites, RamFvbErases, RamFvbSetsAttributes
<1>3. CASE FvbSetAttributes
  BY <1>3, AttributesStep
<1>4. CASE PowerLoss /\ UNCHANGED ramVol
  BY <1>4, PowerStep
<1>5. CASE FvbNext /\ UNCHANGED ramVol
  <2>1. CASE ChipCompletes
    BY <1>5, <2>1, CompletesStep
  <2>2. CASE SpiFlashWriteEnable
    BY <1>5, <2>2, EnableStep
  <2>3. CASE SpiFlashCommand
    <3>1. work.op \in {"erase", "write"}
      BY <2>3 DEF SpiFlashCommand, IInv, WorkOK, Flash
    <3> QED
      BY <1>5, <2>3, <3>1, EraseCommandStep, WriteCommandStep
  <2>4. CASE SpiFlashFirstStatus
    BY <1>5, <2>4, FirstStatusStep
  <2>5. CASE SpiFlashPolls
    BY <1>5, <2>5, PollStep
  <2>6. CASE SpiFlashWriteDisable
    BY <1>5, <2>6, DisableStep
  <2>7. CASE FvbSetup
    BY <1>5, <2>7, SetupStep
  <2>19. CASE Overwritten
    BY <1>5, <2>19, OverwrittenStep
  <2>8. CASE FvbFlashProbe
    BY <1>5, <2>8, ProbeStep
  <2>9. CASE Stall
    BY <1>5, <2>9, StallStep
  <2>10. CASE Allocate
    BY <1>5, <2>10, AllocateStep
  <2>11. CASE ReadVolume
    BY <1>5, <2>11, ReadVolumeStep
  <2>12. CASE Install
    BY <1>5, <2>12, InstallStep
  <2>13. CASE FvbPrepareFvHeader
    BY <1>5, <2>13, PrepareStep
  <2>14. CASE Publish
    BY <1>5, <2>14, PublishStep
  <2>15. CASE FlashReturns
    BY <1>5, <2>15, ReturnStep
  <2>16. CASE \E lba \in 0..(FvbSize \div BlockSize - 1), offset \in 0..(BlockSize - 1), data \in Data :
                FvbWrite(lba, offset, data)
    BY <1>5, <2>16, WriteBegins
  <2>17. CASE \E list \in Lists : FvbEraseBlocks(list)
    BY <1>5, <2>17, EraseBegins
  <2>18. CASE \E lba \in 0..(FvbSize \div BlockSize - 1), at \in Reads : FvbRead(lba, at[1], at[2])
    BY <1>5, <2>18, ReadStep
  <2> QED
    BY <1>5, <2>1, <2>2, <2>3, <2>4, <2>5, <2>6, <2>7, <2>8, <2>9, <2>10, <2>11, <2>12, <2>13,
       <2>14, <2>15, <2>16, <2>17, <2>18, <2>19 DEF FvbNext
<1> QED
  BY <1>1, <1>2, <1>3, <1>4, <1>5 DEF NvNext

(* The inductive invariant: what every place of the driver relies on.      *)
THEOREM NvInvariant == NvSpec => []IInv
PROOF
<1>1. IInv /\ [NvNext]_nvVars => IInv'
  BY NextOK, StutterOK
<1> QED
  BY InitOK, <1>1, PTL DEF NvSpec

(* A call that met no fault has done what it was asked: FvbWrite over      *)
(* erased cells leaves exactly its data, through pages and polls,          *)
(* FvbEraseBlocks nothing but ones in every block of its list, and a read  *)
(* from the copy is what the flash holds where the copy is not stale.      *)
THEOREM CleanCallsAreExact == NvSpec => []CleanCallIsExact
PROOF
<1>1. IInv => CleanCallIsExact
  BY DEF IInv
<1> QED
  BY NvInvariant, <1>1, PTL

(* Whatever fails, at whatever point the power is lost, the cells outside  *)
(* the range of the last call keep a value they had, or were to have, when *)
(* it began: SpiFlashWrite's pages never wrap and SpiFlashErase's sectors  *)
(* never reach over the end.                                               *)
THEOREM OthersStayUntouched == NvSpec => []OthersUntouched
PROOF
<1>1. IInv => OthersUntouched
  BY DEF IInv
<1> QED
  BY NvInvariant, <1>1, PTL

(* The volume that FvbEntryPoint publishes has all of its headers, in      *)
(* memory and in the flash, when this boot wrote them; a volume it found   *)
(* is published as it was, with a header that FvbValidateFvHeader takes,   *)
(* however the boots before ended; a start that gives up before it         *)
(* publishes leaves the RAM volume, with a valid header.                   *)
THEOREM PublishedStaysValid == NvSpec => []PublishedIsValid
PROOF
<1>1. IInv => PublishedIsValid
  BY DEF IInv
<1> QED
  BY NvInvariant, <1>1, PTL
=============================================================================
