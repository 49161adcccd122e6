------------------------------- MODULE MmcDxe -------------------------------
(***************************************************************************)
(* MmcDxe above the DesignWare eMMC host controller (DwEmmcDxe): the       *)
(* driver binding with its timer, the identification of the card, and      *)
(* block I/O.  A step is one command on the wires with what the driver     *)
(* does until the next one.                                                *)
(*                                                                         *)
(* DwEmmcSendCommand keeps a command with data in mDwEmmcCommand; it goes  *)
(* out with ReadBlockData or WriteBlockData.  SendCommand waits without a  *)
(* limit while the card holds the data line.  There is one host, and its   *)
(* card is always present (DwEmmcIsCardPresent).                           *)
(***************************************************************************)
EXTENDS MmcCard, Sequences

CONSTANTS
  CardKinds,    \* the cards the host may hold
  LastBlock,    \* of every card
  MaxBlock,     \* 0xFFFF in the code: blocks of one command
  RetryCount,   \* MAX_RETRY_COUNT, 1000 in the code
  ReadyTries,   \* 20 in the code: polls before a command
  SettleTries,  \* MMCI0_TIMEOUT, 10000 in the code: polls after it
  MaxFaults     \* bound on what goes wrong
ASSUME CountsAssumption ==
  /\ CardKinds \subseteq Kinds
  /\ {LastBlock, MaxFaults} \subseteq Nat
  /\ {MaxBlock, RetryCount, SettleTries} \subseteq Nat \ {0}
  /\ ReadyTries \in Nat \ {0, 1}

VARIABLES
  card,     \* the card (MmcCard)
  host,     \* mDwEmmcCommand, mDwEmmcArgument, app_cmd and the bus width
  inst,     \* the MMC_HOST_INSTANCE; ok is InitializeMmcDevice's status
  rcaCount, \* mEmmcRcaCount
  pc,       \* the next step of the driver
  back,     \* where it goes on after an initialisation
  try,      \* the Timeout of the loop it is in
  call,     \* the call of a block I/O function, its progress and its result
  faults    \* what may still go wrong

driver == <<inst, rcaCount, pc, back, try, call>>
vars   == <<card, host, driver, faults>>

(* good, budget and stopLost are history: the card was ready for data when *)
(* the call began, faults at that time, and a stop command went astray.    *)
NoCall == [op |-> "none", lba |-> 0, n |-> 0, left |-> 0, at |-> 0, moved |-> <<>>,
           good |-> FALSE, budget |-> 0, result |-> "none", stopLost |-> FALSE]

(* CreateMmcHostInstance: the media are those of mMmcMediaTemplate.        *)
NewInstance ==
  [initialized |-> FALSE, present |-> FALSE, ok |-> FALSE, last |-> 0, hcs |-> FALSE,
   type |-> "unknown", sector |-> FALSE, rca |-> 0]

Init ==
  /\ card \in {NewCard(k) : k \in CardKinds}
  /\ host = [cmd |-> "none", arg |-> 0, app |-> FALSE, width |-> 1]
  /\ inst = NewInstance /\ rcaCount = 0
  /\ pc = "absent" /\ back = "idle" /\ try = 0 /\ call = NoCall
  /\ faults = MaxFaults

-----------------------------------------------------------------------------
(* The host controller                                                     *)

(* What becomes of a command sent now: by the card, or with a fault.       *)
Fates(cmd, arg) ==
  {[card |-> r.card, ok |-> r.ok, fault |-> FALSE] : r \in Answers(card, cmd, arg)} \cup
  (IF faults = 0 THEN {} ELSE
     {[card |-> r.card, ok |-> r.ok, fault |-> TRUE] : r \in Faults(card, cmd, arg)})

(* DwEmmcSendCommand of a command without data; f is what becomes of it.   *)
SendCommand(cmd, arg, f) ==
  /\ ~card.busy
  /\ f \in Fates(cmd, arg)
  /\ card' = f.card
  /\ faults' = IF f.fault THEN faults - 1 ELSE faults
  /\ host' = [host EXCEPT !.app = cmd = "CMD55" /\ f.ok]

(* DwEmmcSendCommand of a command with data; an ACMD51 that follows no     *)
(* CMD55 would have none.                                                  *)
StoreCommand(cmd, arg) ==
  /\ cmd \in Reads \cup Writes /\ (cmd = "ACMD51" => host.app)
  /\ host' = [host EXCEPT !.cmd = cmd, !.arg = arg, !.app = FALSE]

(* DwEmmcReadBlockData, DwEmmcWriteBlockData: the command kept is sent,    *)
(* and the data pass if card and host agree on the bus width.              *)
DataFates ==
  {IF g.ok /\ host.width = g.card.width
   THEN [g EXCEPT !.card = DataPassed(g.card, host.cmd)] ELSE [g EXCEPT !.ok = FALSE] :
     g \in Fates(host.cmd, host.arg)}
MoveData(f) ==
  /\ ~card.busy
  /\ card' = f.card
  /\ faults' = IF f.fault THEN faults - 1 ELSE faults
  /\ UNCHANGED host

(* DwEmmcSetIos with a bus width; the two DDR timings are refused.         *)
SetIos(h, width) == [h EXCEPT !.width = width]

-----------------------------------------------------------------------------
(* Driver binding                                                          *)

(* MmcDriverBindingStart up to InsertMmcHost.                              *)
Start ==
  /\ pc = "absent"
  /\ pc' = "inserted" /\ inst' = NewInstance
  /\ UNCHANGED <<card, host, rcaCount, back, try, call, faults>>

(* CheckCardsCallback for the only host; "then" follows.                   *)
CheckCards(then, i) ==
  /\ back' = then
  /\ IF i.initialized THEN pc' = then /\ inst' = i
     ELSE pc' = "hw" /\ inst' = [i EXCEPT !.initialized = TRUE, !.present = TRUE, !.ok = FALSE]

(* MmcDriverBindingStart after InsertMmcHost: Initialized is cleared.      *)
StartChecks ==
  /\ pc = "inserted"
  /\ CheckCards("idle", [inst EXCEPT !.initialized = FALSE])
  /\ UNCHANGED <<card, host, rcaCount, try, call, faults>>

(* gCheckCardsEvent between the two: before and after it changes nothing.  *)
Timer ==
  /\ pc = "inserted" /\ ~inst.initialized
  /\ CheckCards("inserted", inst)
  /\ UNCHANGED <<card, host, rcaCount, try, call, faults>>

(* MmcDriverBindingStop: the loop stays at the instance it has freed, and  *)
(* frees it again; nothing is said of what follows.                        *)
Stop ==
  /\ pc = "idle" /\ pc' = "stopped"
  /\ UNCHANGED <<card, host, inst, rcaCount, back, try, call, faults>>

-----------------------------------------------------------------------------
(* Identification: a step is a command, the step after it if the card      *)
(* answers and the one if it does not                                      *)

Goes(cmd, ok, err) == [cmd |-> cmd, ok |-> ok, err |-> err]
(* The steps that go on with another one and no more.  The error of the    *)
(* eMMC's CMD7 is only printed.                                            *)
Identify ==
  [cmd2 |-> Goes("CMD2", "cmd3", "failed"),   cmd3 |-> Goes("CMD3", "cmd9", "failed"),
   cmd9 |-> Goes("CMD9", "cmd7", "failed"),   cmd7 |-> Goes("CMD7", "app", "failed"),
   app  |-> Goes("CMD55", "scr", "failed"),   appW |-> Goes("CMD55", "acmd6", "failed"),
   acmd6 |-> Goes("ACMD6", "setIos", "failed"), cmd16 |-> Goes("CMD16", "cmd23", "failed"),
   cmd0 |-> Goes("CMD0", "cmd1", "failed"),   cmd5 |-> Goes("CMD5", "failed", "ifCond"),
   ifCond |-> Goes("IF_COND", "cmd55", "cmd55"),
   eCmd2 |-> Goes("CMD2", "eCmd3", "failed"), eCmd3 |-> Goes("CMD3", "eCmd9", "failed"),
   eCmd9 |-> Goes("CMD9", "eCmd7", "failed"), eCmd7 |-> Goes("CMD7", "eNarrow", "eNarrow"),
   eNarrow |-> Goes("CMD6", "eNarrowed", "failed"),
   eTiming |-> Goes("CMD6", "eTimed", "failed")]

(* The argument; CMD3 of a plain MMC has its 1 in the wrong half.          *)
Argument(p) ==
  CASE p \in {"cmd9", "cmd7", "app", "appW", "eCmd9", "eCmd7"} -> inst.rca
    [] p = "eCmd3"   -> rcaCount + 1
    [] p = "eNarrow" -> 1
    [] p = "acmd6"   -> 4
    [] OTHER         -> 0

(* What the driver notes about the card with the answer to a step.         *)
Noted(p, f) ==
  CASE p = "ifCond" -> [inst EXCEPT !.hcs = f.ok]
    [] p = "cmd3" /\ f.ok  -> [inst EXCEPT !.rca = IF inst.type = "mmc" THEN 1 ELSE f.card.rca]
    [] p = "cmd9" /\ f.ok  -> [inst EXCEPT !.last = LastBlock]
    [] p = "eCmd3"         -> [inst EXCEPT !.rca = rcaCount + 1]
    [] OTHER               -> inst

IdentifyStep ==
  /\ pc \in DOMAIN Identify
  /\ \E f \in Fates(Identify[pc].cmd, Argument(pc)) :
       /\ SendCommand(Identify[pc].cmd, Argument(pc), f)
       /\ pc' = IF f.ok THEN Identify[pc].ok ELSE Identify[pc].err
       /\ inst' = Noted(pc, f)
  /\ rcaCount' = IF pc = "eCmd3" THEN rcaCount + 1 ELSE rcaCount
  /\ try' = RetryCount
  /\ UNCHANGED <<back, call>>

(* MmcNotifyState(MmcHwInitializationState): the controller is reset.      *)
HwInitialization ==
  /\ pc = "hw" /\ pc' = "cmd0"
  /\ host' = SetIos(host, 1)
  /\ UNCHANGED <<card, inst, rcaCount, back, try, call, faults>>

(* CMD1 until the card has powered up: is it an eMMC?                      *)
AskOcr ==
  /\ pc = "cmd1"
  /\ \E f \in Fates("CMD1", 1) :
       /\ SendCommand("CMD1", 1, f)
       /\ CASE ~f.ok -> pc' = "cmd5" /\ UNCHANGED <<inst, try>>
            [] f.ok /\ f.card.st # "ready" ->
                 /\ try' = try - 1
                 /\ pc' = IF try' > 0 THEN "cmd1" ELSE "failed"
                 /\ UNCHANGED inst
            [] f.ok /\ f.card.st = "ready" ->
                 /\ inst' = [inst EXCEPT !.sector = card.kind = "emmc"]
                 /\ pc' = IF card.kind = "emmc" THEN "eCmd2" ELSE "cmd5"
                 /\ UNCHANGED try
  /\ UNCHANGED <<rcaCount, back, call>>

(* The loop that tells an SD card from an MMC and waits for its power up.  *)
SdOrMmc ==
  /\ pc = "cmd55"
  /\ \E f \in Fates("CMD55", 0) :
       /\ SendCommand("CMD55", 0, f)
       /\ pc' = IF f.ok THEN "acmd41" ELSE "cmd1b"
       /\ inst' = [inst EXCEPT !.type = IF ~f.ok THEN "mmc" ELSE IF inst.hcs THEN "sd2" ELSE "sd"]
  /\ UNCHANGED <<rcaCount, back, try, call>>

PowerUp ==
  /\ pc \in {"acmd41", "cmd1b"}
  /\ LET cmd == IF pc = "acmd41" THEN "ACMD41" ELSE "CMD1"
         arg == IF inst.hcs THEN 1 ELSE 0
     IN  \E f \in Fates(cmd, arg) :
           /\ SendCommand(cmd, arg, f)
           /\ IF f.ok /\ f.card.st = "ready"
              THEN /\ inst' = [inst EXCEPT !.sector = BySector(f.card),
                                           !.type = IF @ = "sd2" /\ BySector(f.card)
                                                    THEN "sd2high" ELSE @]
                   /\ pc' = "cmd2" /\ UNCHANGED try
              ELSE /\ try' = try - 1
                   /\ pc' = IF try' = 0 THEN "failed" ELSE "cmd55"
                   /\ UNCHANGED inst
  /\ UNCHANGED <<rcaCount, back, call>>

(* ACMD51 and the switch functions of an SD card: commands with data.      *)
SdReads ==
  /\ pc \in {"scr", "switch0", "switch1"}
  /\ StoreCommand(IF pc = "scr" THEN "ACMD51" ELSE "SD_CMD6", 0)
  /\ pc' = CASE pc = "scr" -> "scrData" [] pc = "switch0" -> "switch0Data"
             [] OTHER -> "switch1Data"
  /\ UNCHANGED <<card, inst, rcaCount, back, try, call, faults>>

(* Their data, and what the card says: it has the switch command or not,   *)
(* high speed or not, and it may fail to change to it.                     *)
SdData ==
  /\ pc \in {"scrData", "switch0Data", "switch1Data"}
  /\ \E f \in DataFates :
       /\ MoveData(f)
       /\ IF ~f.ok THEN pc' = "failed"
          ELSE pc' \in CASE pc = "scrData"     -> {"switch0", "appW"}
                         [] pc = "switch0Data" -> {"switch1", "appW"}
                         [] OTHER              -> {"appW", "cmd16"}
  /\ UNCHANGED <<inst, rcaCount, back, try, call>>

(* SetIos with four bits, after ACMD6.                                     *)
SdSetIos ==
  /\ pc = "setIos" /\ pc' = "cmd16"
  /\ host' = SetIos(host, 4)
  /\ UNCHANGED <<card, inst, rcaCount, back, try, call, faults>>

(* EmmcSetEXTCSD goes on to ask for the state until the switch is done;    *)
(* EmmcIdentificationMode reads the ECSD then, InitializeEmmcDevice goes   *)
(* from the timing to the bus width.                                       *)
EmmcSwitched ==
  /\ pc \in {"eNarrowed", "eTimed", "eWidened"}
  /\ \E f \in Fates("CMD13", inst.rca) :
       /\ SendCommand("CMD13", inst.rca, f)
       /\ pc' = CASE ~f.ok -> "failed"
                  [] f.ok /\ f.card.st = "prg" -> pc
                  [] OTHER -> CASE pc = "eNarrowed" -> "ecsd" [] pc = "eTimed" -> "eWide"
                                [] OTHER -> "cmd16"
  /\ UNCHANGED <<inst, rcaCount, back, try, call>>

(* The host takes eight bits before the card does.                         *)
Widening(ok) == IF ok THEN "eWidened" ELSE "failed"
EmmcWiden ==
  /\ pc \in {"eWide", "eWider"}
  /\ IF pc = "eWide"
     THEN pc' = "eWider" /\ host' = SetIos(host, 8) /\ UNCHANGED <<card, faults>>
     ELSE \E f \in Fates("CMD6", 8) : SendCommand("CMD6", 8, f) /\ pc' = Widening(f.ok)
  /\ UNCHANGED <<inst, rcaCount, back, try, call>>

(* The ECSD, if there is memory for it, and the wait until it has passed;  *)
(* a card whose DEVICE_TYPE is that of old ones is left as it is.          *)
EmmcReadEcsd ==
  /\ pc = "ecsd"
  /\ \/ pc' = "failed" /\ UNCHANGED host
     \/ pc' = "ecsdData" /\ StoreCommand("CMD8", 0)
  /\ UNCHANGED <<card, inst, rcaCount, back, try, call, faults>>
EmmcEcsdData ==
  /\ pc = "ecsdData"
  /\ \E f \in DataFates : MoveData(f) /\ pc' = IF f.ok THEN "ecsdPassed" ELSE "failed"
  /\ UNCHANGED <<inst, rcaCount, back, try, call>>
EmmcSetUpMedia ==
  /\ pc = "ecsdPassed"
  /\ \E f \in Fates("CMD13", inst.rca) :
       /\ SendCommand("CMD13", inst.rca, f)
       /\ CASE ~f.ok -> pc' = "failed" /\ UNCHANGED inst
            [] f.ok /\ f.card.st = "data" -> UNCHANGED <<pc, inst>>
            [] OTHER -> /\ pc' \in {"eTiming", "cmd16"}
                        /\ inst' = [inst EXCEPT !.last = LastBlock, !.type = "emmc"]
  /\ UNCHANGED <<rcaCount, back, try, call>>

(* CMD23 for a plain MMC ends InitializeMmcDevice; nobody looks at its     *)
(* status, and the media are announced as present either way.              *)
Initialized ==
  /\ \/ /\ pc = "cmd23" /\ inst.type = "mmc"
        /\ \E f \in Fates("CMD23", 1) :
             SendCommand("CMD23", 1, f) /\ inst' = [inst EXCEPT !.ok = f.ok]
     \/ /\ pc = "failed" \/ (pc = "cmd23" /\ inst.type # "mmc")
        /\ inst' = [inst EXCEPT !.ok = pc # "failed"]
        /\ UNCHANGED <<card, host, faults>>
  /\ pc' = back
  /\ UNCHANGED <<rcaCount, back, try, call>>

-----------------------------------------------------------------------------
(* Block I/O                                                               *)

Chunk  == IF call.left <= MaxBlock THEN call.left ELSE MaxBlock
Usable == card.st = "tran" \/ (card.st = "prg" /\ card.busy)
Status(s) == [call EXCEPT !.result = s]

(* MmcIoBlocks: the checks, then the loop over the commands.               *)
IoBlocks(op, lba, n) ==
  LET new == [NoCall EXCEPT !.op = op, !.lba = lba, !.n = n, !.left = n, !.budget = faults,
                            !.good = inst.ok /\ card.alive /\ Usable,
                            !.stopLost = call.stopLost]
      refusal == IF ~inst.present THEN "no media" ELSE IF n = 0 THEN "success"
                 ELSE IF lba + n > inst.last + 1 THEN "invalid" ELSE "none"
  IN  /\ pc = "idle"
      /\ call' = [new EXCEPT !.result = refusal]
      /\ pc' = IF refusal = "none" THEN "ready" ELSE "idle"
      /\ try' = ReadyTries
      /\ UNCHANGED <<card, host, inst, rcaCount, back, faults>>

(* A poll of a loop that ends when the card is ready or in "tran", or with *)
(* the Timeout.  Where it goes, and the call then: if the card is in time, *)
(* if it is ready at the last poll, and if it never is.                    *)
(* Mutant: the Timeout does not run *)
TimeoutStays(t) == t
TimeoutRuns(t) == t - 1
PollReady(inTime, last, never) ==
  \E f \in Fates("CMD13", inst.rca) :
    /\ SendCommand("CMD13", inst.rca, f)
    /\ try' = TimeoutRuns(try)
    /\ \E ready \in ReadyForData(f.card) :
         LET over == f.ok /\ (ready \/ f.card.st = "tran")
         IN  \/ over /\ try' > 0 /\ pc' = inTime.pc /\ call' = inTime.call
             \/ over /\ try' = 0 /\ pc' = last.pc /\ call' = last.call
             \/ ~over /\ try' = 0 /\ pc' = never.pc /\ call' = never.call
             \/ ~over /\ try' > 0 /\ UNCHANGED <<pc, call>>

(* "The Card is busy": said of a card that is ready at the last poll, and  *)
(* not of one that is never ready, for the Timeout is below zero then.     *)
CheckReady ==
  /\ pc = "ready"
  /\ LET command == [pc |-> "command", call |-> call]
     IN  PollReady(command, [pc |-> "idle", call |-> Status("not ready")], command)
  /\ UNCHANGED <<inst, rcaCount, back>>

(* MmcTransferBlock: the command and its argument.                         *)
Command ==
  /\ pc = "command" /\ pc' = "data"
  /\ StoreCommand(CASE call.op = "read"  -> IF Chunk = 1 THEN "CMD17" ELSE "CMD18"
                    [] call.op = "write" -> IF Chunk = 1 THEN "CMD24" ELSE "CMD25",
                  IF inst.sector THEN call.lba ELSE call.lba * BlockBytes)
  /\ UNCHANGED <<card, inst, rcaCount, back, try, call, faults>>

(* The blocks the card takes or gives, each with its place in the buffer.  *)
Moved == LET first == IF BySector(card) THEN host.arg ELSE host.arg \div BlockBytes
         IN  [i \in 1 .. Chunk |-> <<first + i - 1, call.at + i - 1>>]

(* Mutant: no CMD12 after an error *)
DataFailedGoesOn == "next"
DataFailed == "abort"
Data ==
  /\ pc = "data"
  /\ \E f \in DataFates :
       /\ MoveData(f)
       /\ pc' = IF f.ok THEN "settle" ELSE DataFailed
       /\ call' = IF f.ok THEN [call EXCEPT !.moved = @ \o Moved] ELSE call
  /\ try' = SettleTries
  /\ UNCHANGED <<inst, rcaCount, back>>

(* The wait for the card after the data; no error of it counts.            *)
Settle ==
  /\ pc = "settle"
  /\ LET after == [pc |-> IF Chunk > 1 THEN "stop" ELSE "next", call |-> call]
     IN  PollReady(after, after, after)
  /\ UNCHANGED <<inst, rcaCount, back>>

(* CMD12, after several blocks or an error: its status is not looked at.   *)
StopTransmission ==
  /\ pc \in {"stop", "abort"} /\ pc' = "next"
  /\ \E f \in Fates("CMD12", 0) :
       /\ SendCommand("CMD12", 0, f)
       /\ call' = [call EXCEPT !.stopLost = @ \/ f.fault]
  /\ UNCHANGED <<inst, rcaCount, back, try>>

(* The rest of the call; the status of MmcTransferBlock is only printed.   *)
(* Mutant: the next command starts at the same block *)
AdvanceNot == [call EXCEPT !.left = @ - Chunk, !.at = @ + Chunk]
Advance == [call EXCEPT !.left = @ - Chunk, !.at = @ + Chunk, !.lba = @ + Chunk]
NextCommand ==
  /\ pc = "next"
  /\ IF call.left > Chunk THEN pc' = "ready" /\ call' = Advance
     ELSE pc' = "idle" /\ call' = [Advance EXCEPT !.result = "success"]
  /\ try' = ReadyTries
  /\ UNCHANGED <<card, host, inst, rcaCount, back, faults>>

-----------------------------------------------------------------------------
(* The card by itself: it finishes programming, or its data.               *)
CardFinishes ==
  /\ card.alive
  /\ \/ card.st = "prg" /\ card' = [card EXCEPT !.st = "tran", !.busy = FALSE]
     \/ card.st = "data" /\ ~card.stream /\ card' = [card EXCEPT !.st = "tran"]
  /\ UNCHANGED <<host, driver, faults>>

Initialization ==
  \/ HwInitialization \/ IdentifyStep \/ AskOcr \/ SdOrMmc \/ PowerUp
  \/ SdReads \/ SdData \/ SdSetIos
  \/ EmmcSwitched \/ EmmcWiden \/ EmmcReadEcsd \/ EmmcEcsdData \/ EmmcSetUpMedia
  \/ Initialized
Transfer == CheckReady \/ Command \/ Data \/ Settle \/ StopTransmission \/ NextCommand
Requests == \E op \in {"read", "write"}, lba \in 0 .. LastBlock, n \in 0 .. LastBlock + 1 :
              IoBlocks(op, lba, n)
Next == Start \/ StartChecks \/ Timer \/ Stop \/ Requests \/ Initialization \/ Transfer
          \/ CardFinishes

(* The driver runs once it was called, and a card does finish.             *)
Fairness ==
  /\ WF_vars(Initialization) /\ WF_vars(Transfer) /\ WF_vars(StartChecks)
  /\ WF_vars(CardFinishes)
Spec == Init /\ [][Next]_vars /\ Fairness

-----------------------------------------------------------------------------
(* Properties                                                              *)

Returned == pc = "idle" /\ call.op # "none"
Clean    == Returned /\ call.budget = faults

(* A call within the bounds that meets no fault and began with a usable    *)
(* card is right: every block moves once, in order, to or from its place   *)
(* in the buffer, however MmcIoBlocks cuts the call into commands.         *)
CleanCallMovesAll ==
  Clean /\ call.good /\ call.result \notin {"invalid", "no media"} =>
    /\ call.result = "success"
    /\ call.moved = [i \in 1 .. call.n |-> <<call.lba - call.at + i - 1, i - 1>>]

(* After a failed transfer the card is stopped: between calls it serves    *)
(* no open ended read and waits for no data, unless a CMD12 went astray.   *)
StreamsAreStopped ==
  Returned /\ card.alive /\ (card.stream \/ card.st = "rcv") => call.stopLost

(* Every call returns, and every initialisation ends.                      *)
CallsReturn == []<>(pc \in {"absent", "inserted", "idle", "stopped"})
=============================================================================
