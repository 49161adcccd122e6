------------------------------ MODULE MmcCard ------------------------------
(***************************************************************************)
(* The card behind the DesignWare eMMC controller: which commands it       *)
(* accepts in which state, what they change, and what can go wrong on the  *)
(* wires.  Code of no module of src/: it is modelled from the states and   *)
(* commands the drivers name.                                              *)
(*                                                                         *)
(* A card in "prg" holds the data line low (busy), one that serves an      *)
(* open ended read (stream) stays in "data" and one that takes data in     *)
(* "rcv" until it is told to stop.                                         *)
(***************************************************************************)
EXTENDS Naturals

CONSTANT BlockBytes   \* bytes of a block, to tell byte from sector addresses
ASSUME BlockBytesAssumption == BlockBytes \in Nat \ {0, 1}

Kinds == {"emmc", "mmc", "sd1", "sdhc", "sdio"}
Sd    == {"sd1", "sdhc"}
Mmc   == {"emmc", "mmc"}

NewCard(kind) ==
  [kind |-> kind, st |-> "idle", rca |-> 0, app |-> FALSE, stream |-> FALSE,
   width |-> 1, busy |-> FALSE, alive |-> TRUE]

(* A card of high capacity is addressed by blocks, the others by bytes.    *)
BySector(c) == c.kind \in {"emmc", "sdhc"}

Reads  == {"CMD8", "ACMD51", "SD_CMD6", "CMD17", "CMD18"}
Writes == {"CMD24", "CMD25"}

(* The states a command is legal in, the kinds of card that know it.       *)
LegalIn(cmd) ==
  CASE cmd \in {"CMD1", "CMD5", "IF_COND", "ACMD41"} -> {"idle"}
    [] cmd = "CMD2"  -> {"ready"}
    [] cmd = "CMD3"  -> {"ident"}
    [] cmd \in {"CMD9", "CMD7"} -> {"stby"}
    [] cmd = "CMD13" -> {"stby", "tran", "data", "rcv", "prg"}
    [] cmd = "CMD55" -> {"idle", "stby", "tran"}
    [] cmd = "CMD12" -> {"data", "rcv"}
    [] OTHER         -> {"tran"}
KnownTo(cmd) ==
  CASE cmd \in {"CMD1", "CMD8", "CMD6"} -> Mmc
    [] cmd \in {"CMD55", "ACMD41", "ACMD51", "ACMD6", "SD_CMD6"} -> Sd
    [] cmd = "CMD5"    -> {"sdio"}
    [] cmd = "IF_COND" -> {"sdhc"}
    [] OTHER           -> Mmc \cup Sd

Accepts(c, cmd, arg) ==
  /\ c.alive /\ c.st \in LegalIn(cmd) /\ c.kind \in KnownTo(cmd)
  /\ cmd \in {"CMD7", "CMD9", "CMD13", "CMD55"} => arg = c.rca
  /\ cmd \in {"ACMD41", "ACMD51", "ACMD6"} => c.app

Programming(c) == [c EXCEPT !.st = "prg", !.busy = TRUE]

(* The card after a command it accepts; powering up takes a while, and a   *)
(* card of high capacity waits for a host that says it supports it.        *)
After(c0, cmd, arg) ==
  LET c == [c0 EXCEPT !.app = FALSE] IN
  CASE cmd \in {"CMD1", "ACMD41"} ->
         {c} \cup (IF c.kind = "sdhc" /\ arg = 0 THEN {} ELSE {[c EXCEPT !.st = "ready"]})
    [] cmd = "CMD2"  -> {[c EXCEPT !.st = "ident"]}
    [] cmd = "CMD3"  -> {[c EXCEPT !.st = "stby", !.rca = IF c.kind \in Sd THEN 9 ELSE arg]}
    [] cmd = "CMD7"  -> {[c EXCEPT !.st = "tran"]}
    [] cmd = "CMD55" -> {[c EXCEPT !.app = TRUE]}
    [] cmd = "CMD6"  -> {Programming([c EXCEPT !.width = IF arg = 0 THEN @ ELSE arg])}
    [] cmd = "ACMD6" -> {[c EXCEPT !.width = arg]}
    [] cmd \in Reads  -> {[c EXCEPT !.st = "data", !.stream = cmd = "CMD18"]}
    [] cmd \in Writes -> {[c EXCEPT !.st = "rcv"]}
    [] cmd = "CMD12"  -> {IF c.st = "data" THEN [c EXCEPT !.st = "tran", !.stream = FALSE]
                          ELSE Programming(c)}
    [] OTHER -> {c}

(* The card when all data of the command in progress has passed.           *)
DataPassed(c, cmd) ==
  IF c.stream \/ cmd = "CMD25" THEN c
  ELSE IF c.st = "data" THEN [c EXCEPT !.st = "tran"] ELSE Programming(c)

(* CMD0 has no response, whatever becomes of it; any other command the     *)
(* card does not take ends with a response timeout.                        *)
Outcome(c, cmd, ok) == [card |-> c, ok |-> ok \/ cmd = "CMD0"]
Reset(c) == IF c.alive THEN NewCard(c.kind) ELSE c
Answers(c, cmd, arg) ==
  IF cmd = "CMD0" THEN {Outcome(Reset(c), cmd, TRUE)}
  ELSE IF ~Accepts(c, cmd, arg) THEN {Outcome([c EXCEPT !.app = FALSE], cmd, FALSE)}
  ELSE {Outcome(d, cmd, TRUE) : d \in After(c, cmd, arg)}

(* The command or its response is lost, the card dies, or it lets go of    *)
(* the data line before it has finished programming.                       *)
Faults(c, cmd, arg) ==
  {Outcome(c, cmd, FALSE)} \cup
  {Outcome([c EXCEPT !.alive = FALSE, !.busy = FALSE], cmd, FALSE)} \cup
  {Outcome(r.card, cmd, FALSE) : r \in Answers(c, cmd, arg)} \cup
  {[r EXCEPT !.card.busy = FALSE] : r \in Answers(c, cmd, arg)}

(* READY_FOR_DATA of a card that answers CMD13.                            *)
ReadyForData(c) ==
  IF c.st = "tran" THEN {TRUE} ELSE IF c.st = "prg" THEN {FALSE} ELSE BOOLEAN
=============================================================================
