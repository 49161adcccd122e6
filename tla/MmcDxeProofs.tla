---------------------------- MODULE MmcDxeProofs ----------------------------
(***************************************************************************)
(* Proofs about MmcDxe: for any cards, sizes, numbers of polls and faults, *)
(* no transfer is left open between calls, and a call that meets no fault  *)
(* moves every block once, to or from its place.                           *)
(***************************************************************************)
EXTENDS MmcDxe, Integers, TLAPS

-----------------------------------------------------------------------------
(* The card                                                                *)

Early   == {"idle", "ready", "ident", "stby"}
Working == {"tran", "data", "rcv", "prg"}
CardRecord ==
  [kind : Kinds, st : Early \cup Working, rca : Nat, app : BOOLEAN, stream : BOOLEAN,
   width : Nat, busy : BOOLEAN, alive : BOOLEAN]

CardOK(c) ==
  /\ c \in CardRecord
  /\ c.stream => c.st = "data"
  /\ c.st \in Early => c.width = 1
  /\ c.st # "idle" => c.kind # "sdio"

(* The card goes on with a transfer until it is told to stop.              *)
Open(c) == c.alive /\ (c.stream \/ c.st = "rcv")

-----------------------------------------------------------------------------
(* The steps of an identification, in the order they can come              *)

Asking  == {"cmd0", "cmd1", "cmd5", "ifCond", "cmd55", "acmd41", "cmd1b"}
SdOnes  == {"cmd2", "cmd3", "cmd9", "cmd7", "app", "scr", "scrData", "switch0",
            "switch0Data", "switch1", "switch1Data", "appW", "acmd6"}
Timing  == {"eNarrowed", "ecsd", "ecsdData", "ecsdPassed", "eTiming", "eTimed", "eWide"}
EmmcOnes == {"eCmd2", "eCmd3", "eCmd9", "eCmd7", "eNarrow"} \cup Timing
Last    == {"cmd16", "cmd23"}
Transfers == {"ready", "command", "data", "settle", "stop", "abort", "next"}
Calls     == {"idle"} \cup Transfers

(* The card has told its kind of address, and then an address of its own.  *)
Sized   == SdOnes \cup EmmcOnes \cup {"setIos", "eWider", "eWidened"} \cup Last
Named   == Sized \ {"cmd2", "cmd3", "cmd9", "eCmd2", "eCmd3", "eCmd9"}
(* Card and host use one line, or as many as the other.                    *)
Narrow  == SdOnes \cup EmmcOnes
Reading == {"scrData", "switch0Data", "switch1Data", "ecsdData"}

NamesAgree  == card.alive => inst.rca = card.rca
SizesAgree  == inst.sector = BySector(card) /\ card.kind # "sdio"
WidthsAgree == card.alive => host.width = card.width

Identified ==
  /\ pc \in Asking \cup Narrow \cup {"setIos"} => host.width = 1
  /\ pc \in Sized => SizesAgree
  /\ pc \in Named => NamesAgree
  /\ pc \in Narrow => (card.alive => card.width = 1)
  /\ pc = "setIos" => (card.alive => card.width = 4)
  /\ pc = "eWider" => host.width = 8
  /\ pc \in Last \cup {"eWidened"} => WidthsAgree
  /\ pc = "cmd23" => (card.alive => card.st \in Working)
  /\ pc \in Reading => host.cmd \in {"CMD8", "ACMD51", "SD_CMD6"}

(* What an initialisation with success means for as long as the card lives. *)
Fits ==
  inst.ok /\ pc \in Calls =>
    NamesAgree /\ SizesAgree /\ WidthsAgree /\ (card.alive => card.st \in Working)

-----------------------------------------------------------------------------
(* A call of a block I/O function                                          *)

Several == Chunk > 1
IoCmds  == {"CMD17", "CMD18", "CMD24", "CMD25"}

Types == {"unknown", "mmc", "sd", "sd2", "sd2high", "emmc"}
HostRecord == [cmd : {"none"} \cup Reads \cup Writes, arg : Nat, app : BOOLEAN, width : Nat]
InstRecord == [initialized : BOOLEAN, present : BOOLEAN, ok : BOOLEAN, last : Nat,
               hcs : BOOLEAN, type : Types, sector : BOOLEAN, rca : Nat]

TypeOK ==
  /\ CardOK(card)
  /\ host \in HostRecord /\ inst \in InstRecord
  /\ rcaCount \in Nat /\ try \in Int /\ faults \in Nat
  /\ pc \in {"absent", "inserted", "idle", "stopped", "hw", "failed"} \cup Asking
              \cup Sized \cup Transfers
  /\ back \in {"idle", "inserted"}
  /\ DOMAIN call = DOMAIN NoCall
  /\ {call.lba, call.n, call.left, call.at, call.budget} \subseteq Nat
  /\ {call.good, call.stopLost} \subseteq BOOLEAN

InTransfer ==
  pc \in Transfers =>
    /\ call.op \in {"read", "write"} /\ call.left > 0 /\ call.result = "none"
    /\ call.at + call.left = call.n /\ call.at <= call.lba

(* A command is of one block only if the step is, and then it needs no end. *)
Pending ==
  /\ pc = "stop" => Several
  /\ pc = "data" => host.cmd =
       IF call.op = "read" THEN IF Several THEN "CMD18" ELSE "CMD17"
       ELSE IF Several THEN "CMD25" ELSE "CMD24"

(* Where a transfer may be open: before its CMD12.                         *)
Closed ==
  Open(card) =>
    \/ call.stopLost \/ pc \in {"stop", "abort"} \/ (pc = "settle" /\ Several)

(* The blocks of the call that have moved, in their order.                 *)
MovedTo(k) == [i \in 1 .. k |-> <<call.lba - call.at + i - 1, i - 1>>]

Perfect == call.good /\ call.budget = faults /\ inst.ok
Ready   == card.st = "tran" \/ (card.st = "prg" /\ card.busy)
AsSent  ==
  IF ~Several THEN Ready
  ELSE IF call.op = "read" THEN card.st = "data" /\ card.stream ELSE card.st = "rcv"

GoesWell ==
  pc \in Transfers /\ call.good /\ call.budget = faults =>
    /\ inst.ok /\ card.alive /\ pc # "abort"
    /\ pc \in {"ready", "next"} => Ready
    /\ pc \in {"command", "data"} => card.st = "tran"
    /\ pc = "ready" => try = ReadyTries
    /\ pc = "data" => host.arg = IF inst.sector THEN call.lba ELSE call.lba * BlockBytes
    /\ pc \in {"settle", "stop"} => AsSent
    /\ call.moved = MovedTo(IF pc \in {"settle", "stop", "next"} THEN call.at + Chunk
                            ELSE call.at)

(* The first call comes when the card is identified; faults are used up.   *)
Asked == call.op # "none" => pc \in Calls \cup {"stopped"} /\ faults <= call.budget

IInv ==
  /\ TypeOK /\ Identified /\ Fits /\ InTransfer /\ Pending /\ Closed /\ GoesWell /\ Asked
  /\ CleanCallMovesAll
-----------------------------------------------------------------------------
(* What a command does to the card                                         *)

(* The bus width that a command the card takes leaves it with.             *)
WidthAfter(c, cmd, arg) ==
  IF cmd = "ACMD6" \/ (cmd = "CMD6" /\ arg # 0) THEN arg ELSE c.width

LEMMA AfterKeeps ==
  ASSUME NEW c, CardOK(c), NEW cmd, NEW arg \in Nat, Accepts(c, cmd, arg), cmd # "CMD0",
         NEW d \in After(c, cmd, arg)
  PROVE  /\ CardOK(d) /\ d.kind = c.kind /\ d.alive
         /\ cmd # "CMD3" => d.rca = c.rca
         /\ d.width = WidthAfter(c, cmd, arg)
         /\ c.st \in Working => d.st \in Working
         /\ cmd \notin {"CMD18", "CMD24", "CMD25"} => (Open(d) => Open(c))
         /\ cmd # "CMD18" => (d.stream => c.stream)
PROOF
<1> DEFINE c0 == [c EXCEPT !.app = FALSE]
<1>1. /\ c0 \in CardRecord /\ c0.kind = c.kind /\ c0.st = c.st /\ c0.rca = c.rca
      /\ c0.stream = c.stream /\ c0.width = c.width /\ c0.busy = c.busy /\ c0.alive = c.alive
  BY DEF CardOK, CardRecord
<1>2. c.st \in LegalIn(cmd) /\ c.kind \in KnownTo(cmd) /\ c.alive
  BY DEF Accepts
<1>3. d \in After(c, cmd, arg)
  OBVIOUS
<1> HIDE DEF c0
<1>5. CASE cmd \in {"CMD1", "ACMD41"}
  <2>1. d = c0 \/ d = [c0 EXCEPT !.st = "ready"]
    BY <1>3, <1>5 DEF After, c0, Reads, Writes
  <2>2. c.st = "idle" /\ c.kind # "sdio" /\ ~c.stream /\ c.width = 1
    BY <1>2, <1>5 DEF LegalIn, KnownTo, Mmc, Sd, CardOK, Early
  <2>3. d \in CardRecord /\ d.st \in {"idle", "ready"} /\ d.kind = c.kind /\ d.rca = c.rca
        /\ d.stream = c.stream /\ d.width = c.width /\ d.alive
    BY <1>1, <1>2, <2>1, <2>2 DEF CardRecord, Early
  <2> QED
    BY <1>5, <2>2, <2>3 DEF CardOK, Early, Working, Open, WidthAfter
<1>6. CASE cmd \in {"CMD2", "CMD3", "CMD7", "CMD55"}
  <2>1. \/ cmd = "CMD2" /\ d = [c0 EXCEPT !.st = "ident"]
        \/ /\ cmd = "CMD3"
           /\ d = [c0 EXCEPT !.st = "stby", !.rca = IF c0.kind \in Sd THEN 9 ELSE arg]
        \/ cmd = "CMD7" /\ d = [c0 EXCEPT !.st = "tran"]
        \/ cmd = "CMD55" /\ d = [c0 EXCEPT !.app = TRUE]
    BY <1>3, <1>6 DEF After, c0, Reads, Writes
  <2>2. c.kind # "sdio" /\ (cmd # "CMD55" => c.st \in {"ready", "ident", "stby"})
        /\ (cmd = "CMD55" => c.st \in {"idle", "stby", "tran"}) /\ ~c.stream
    BY <1>2, <1>6 DEF LegalIn, KnownTo, Mmc, Sd, CardOK, Early
  <2>3. d \in CardRecord
    <3>1. \A n \in Nat : [c0 EXCEPT !.st = "stby", !.rca = n] \in CardRecord
      BY <1>1 DEF CardRecord, Early
    <3>2. (IF c0.kind \in Sd THEN 9 ELSE arg) \in Nat
      OBVIOUS
    <3>3. CASE cmd = "CMD3"
      BY <2>1, <3>1, <3>2, <3>3
    <3>4. CASE cmd # "CMD3"
      BY <1>1, <2>1, <3>4 DEF CardRecord, Early, Working
    <3> QED
      BY <3>3, <3>4
  <2>4. d.kind = c.kind /\ d.stream = c.stream /\ d.width = c.width /\ d.alive
        /\ (cmd # "CMD3" => d.rca = c.rca)
        /\ d.st = CASE cmd = "CMD2" -> "ident" [] cmd = "CMD3" -> "stby" [] cmd = "CMD7" -> "tran"
                     [] cmd = "CMD55" -> c.st
    BY <1>1, <1>2, <2>1 DEF CardRecord, Early, Working
  <2> QED
    BY <1>6, <2>2, <2>3, <2>4 DEF CardOK, Early, Working, Open, WidthAfter
<1>7. CASE cmd \in {"CMD6", "ACMD6"}
  <2>1. \/ d = [c0 EXCEPT !.width = IF arg = 0 THEN @ ELSE arg, !.st = "prg", !.busy = TRUE]
           /\ cmd = "CMD6"
        \/ cmd = "ACMD6" /\ d = [c0 EXCEPT !.width = arg]
    BY <1>3, <1>7 DEF After, c0, Programming, Reads, Writes
  <2>2. c.kind # "sdio" /\ c.st = "tran" /\ ~c.stream
    BY <1>2, <1>7 DEF LegalIn, KnownTo, Mmc, Sd, CardOK
  <2>3. d \in CardRecord /\ d.st \in {"prg", "tran"} /\ d.kind = c.kind /\ d.stream = c.stream
        /\ d.rca = c.rca /\ d.width = WidthAfter(c, cmd, arg) /\ d.alive
    <3>1. CASE cmd = "CMD6" /\ arg = 0
      <4>1. d = [c0 EXCEPT !.width = @, !.st = "prg", !.busy = TRUE]
        BY <2>1, <3>1
      <4> QED
        BY <1>1, <1>2, <2>2, <3>1, <4>1 DEF CardRecord, Working, WidthAfter
    <3>2. CASE cmd = "CMD6" /\ arg # 0
      <4>1. d = [c0 EXCEPT !.width = arg, !.st = "prg", !.busy = TRUE]
        BY <2>1, <3>2
      <4> QED
        BY <1>1, <1>2, <2>2, <3>2, <4>1 DEF CardRecord, Working, WidthAfter
    <3>3. CASE cmd = "ACMD6"
      BY <1>1, <1>2, <2>1, <2>2, <3>3 DEF CardRecord, Working, WidthAfter
    <3> QED
      BY <1>7, <3>1, <3>2, <3>3
  <2> QED
    BY <1>7, <2>2, <2>3 DEF CardOK, Early, Working, Open
<1>8. CASE cmd \in Reads \cup Writes \cup {"CMD12"}
  <2>1. \/ cmd \in Reads /\ d = [c0 EXCEPT !.st = "data", !.stream = cmd = "CMD18"]
        \/ cmd \in Writes /\ d = [c0 EXCEPT !.st = "rcv"]
        \/ cmd = "CMD12" /\ c.st = "data" /\ d = [c0 EXCEPT !.st = "tran", !.stream = FALSE]
        \/ cmd = "CMD12" /\ c.st # "data" /\ d = [c0 EXCEPT !.st = "prg", !.busy = TRUE]
    BY <1>1, <1>3, <1>8 DEF After, c0, Programming, Reads, Writes
  <2>2. c.kind # "sdio" /\ (cmd # "CMD12" => c.st = "tran") /\ (c.stream => c.st = "data")
        /\ (cmd = "CMD12" => c.st \in {"data", "rcv"})
    BY <1>2, <1>8 DEF LegalIn, KnownTo, Mmc, Sd, CardOK, Reads, Writes
  <2>3. d \in CardRecord
    BY <1>1, <2>1 DEF CardRecord, Working
  <2>4. d.kind = c.kind /\ d.rca = c.rca /\ d.width = c.width /\ d.alive
        /\ (d.stream => d.st = "data") /\ d.st \in Working
        /\ (cmd \notin {"CMD18", "CMD24", "CMD25"} => ~d.stream /\ d.st # "rcv")
        /\ (cmd # "CMD18" => (d.stream => c.stream))
    <3>1. CASE cmd \in Reads
      <4>1. (cmd = "CMD18") \in BOOLEAN /\ d = [c0 EXCEPT !.st = "data", !.stream = cmd = "CMD18"]
        BY <2>1, <3>1 DEF Reads, Writes
      <4> QED
        BY <1>1, <1>2, <4>1, <3>1 DEF CardRecord, Working, Reads
    <3>2. CASE cmd \in Writes
      BY <1>1, <1>2, <2>1, <2>2, <3>2 DEF CardRecord, Working, Reads, Writes
    <3>3. CASE cmd = "CMD12"
      BY <1>1, <1>2, <2>1, <2>2, <3>3 DEF CardRecord, Working, Reads, Writes
    <3> QED
      BY <1>8, <3>1, <3>2, <3>3
  <2> QED
    BY <1>8, <2>2, <2>3, <2>4 DEF CardOK, Early, Working, Open, WidthAfter, Reads, Writes
<1>9. CASE cmd \notin {"CMD1", "ACMD41", "CMD2", "CMD3", "CMD7", "CMD55", "CMD6", "ACMD6", "CMD12"}
                    \cup Reads \cup Writes
  <2>1. d = c0
    BY <1>3, <1>9 DEF After, c0
  <2> QED
    BY <1>1, <1>2, <1>9, <2>1 DEF CardOK, Open, WidthAfter
<1> QED
  BY <1>5, <1>6, <1>7, <1>8, <1>9
(* What holds of a card after any command, taken or not.                   *)
Kept(c, cmd, arg, r) ==
  /\ CardOK(r.card) /\ r.card.kind = c.kind /\ r.ok \in BOOLEAN
  /\ r.card.alive => c.alive
  /\ cmd \notin {"CMD18", "CMD24", "CMD25"} => (Open(r.card) => Open(c))
  /\ cmd # "CMD18" => (r.card.stream => c.stream)
  /\ cmd \notin {"CMD0", "CMD3"} => r.card.rca = c.rca
  /\ cmd \notin {"CMD0", "CMD6", "ACMD6"} => r.card.width = c.width
  /\ cmd # "CMD0" /\ c.st \in Working => r.card.st \in Working
  /\ cmd # "CMD0" /\ r.ok =>
       Accepts(c, cmd, arg) /\ r.card.alive /\ r.card.width = WidthAfter(c, cmd, arg)

LEMMA OutcomeFields ==
  ASSUME NEW c, NEW cmd, NEW ok \in BOOLEAN
  PROVE  /\ Outcome(c, cmd, ok).card = c /\ Outcome(c, cmd, ok).ok \in BOOLEAN
         /\ Outcome(c, cmd, TRUE).ok = TRUE
         /\ cmd = "CMD0" => Outcome(c, cmd, ok).ok = TRUE
         /\ cmd # "CMD0" => Outcome(c, cmd, ok).ok = ok
         /\ DOMAIN Outcome(c, cmd, ok) = {"card", "ok"}
BY DEF Outcome

LEMMA AnswersKeep ==
  ASSUME NEW c, CardOK(c), NEW cmd, NEW arg \in Nat, NEW r \in Answers(c, cmd, arg)
  PROVE  Kept(c, cmd, arg, r)
PROOF
<1>1. CASE cmd = "CMD0"
  <2>1. r.card = Reset(c) /\ r.ok = TRUE
    <3>1. r = Outcome(Reset(c), cmd, TRUE)
      BY <1>1 DEF Answers
    <3> QED
      BY <3>1, OutcomeFields
  <2>2. CardOK(Reset(c)) /\ Reset(c).kind = c.kind /\ (Reset(c).alive => c.alive)
        /\ (Open(Reset(c)) => Open(c)) /\ (Reset(c).stream => c.stream)
    BY DEF Reset, NewCard, CardOK, CardRecord, Early, Working, Open
  <2> QED
    BY <1>1, <2>1, <2>2 DEF Kept
<1>2. CASE cmd # "CMD0" /\ ~Accepts(c, cmd, arg)
  <2> DEFINE d == [c EXCEPT !.app = FALSE]
  <2>1. r.card = d /\ r.ok = FALSE
    <3>1. r = Outcome(d, cmd, FALSE)
      BY <1>2 DEF Answers
    <3> QED
      BY <1>2, <3>1, OutcomeFields
  <2>2. d \in CardRecord /\ d.kind = c.kind /\ d.st = c.st /\ d.rca = c.rca /\ d.stream = c.stream
        /\ d.width = c.width /\ d.alive = c.alive
    BY DEF CardOK, CardRecord
  <2> QED
    BY <2>1, <2>2 DEF Kept, CardOK, Open
<1>3. CASE cmd # "CMD0" /\ Accepts(c, cmd, arg)
  <2>1. PICK d \in After(c, cmd, arg) : r.card = d /\ r.ok = TRUE
    <3>1. PICK d \in After(c, cmd, arg) : r = Outcome(d, cmd, TRUE)
      BY <1>3 DEF Answers
    <3>2. Outcome(d, cmd, TRUE).card = d /\ Outcome(d, cmd, TRUE).ok = TRUE
      BY TRUE \in BOOLEAN, OutcomeFields
    <3>3. r.card = d /\ r.ok = TRUE
      BY <3>1, <3>2
    <3> QED
      BY <3>3
  <2>2. /\ CardOK(d) /\ d.kind = c.kind /\ d.alive
        /\ cmd # "CMD3" => d.rca = c.rca
        /\ d.width = WidthAfter(c, cmd, arg)
        /\ c.st \in Working => d.st \in Working
        /\ cmd \notin {"CMD18", "CMD24", "CMD25"} => (Open(d) => Open(c))
        /\ cmd # "CMD18" => (d.stream => c.stream)
    BY <1>3, AfterKeeps
  <2>3. cmd \notin {"CMD6", "ACMD6"} => WidthAfter(c, cmd, arg) = c.width
    BY DEF WidthAfter
  <2>4. c.alive
    BY <1>3 DEF Accepts
  <2> QED
    BY <1>3, <2>1, <2>2, <2>3, <2>4 DEF Kept
<1> QED
  BY <1>1, <1>2, <1>3

LEMMA FaultsKeep ==
  ASSUME NEW c, CardOK(c), NEW cmd, NEW arg \in Nat, NEW r \in Faults(c, cmd, arg)
  PROVE  Kept(c, cmd, arg, r)
PROOF
<1> DEFINE Lost(d) == r.card = d /\ r.ok = (cmd = "CMD0")
<1>1. \/ Lost(c)
      \/ Lost([c EXCEPT !.alive = FALSE, !.busy = FALSE])
      \/ \E s \in Answers(c, cmd, arg) : Lost(s.card)
      \/ \E s \in Answers(c, cmd, arg) : r = [s EXCEPT !.card.busy = FALSE]
  BY DEF Faults, Outcome
<1>2. ASSUME Lost(c)
      PROVE  Kept(c, cmd, arg, r)
  BY <1>2 DEF Kept
<1>3. ASSUME Lost([c EXCEPT !.alive = FALSE, !.busy = FALSE])
      PROVE  Kept(c, cmd, arg, r)
  <2> DEFINE d == [c EXCEPT !.alive = FALSE, !.busy = FALSE]
  <2>1. d \in CardRecord /\ d.kind = c.kind /\ d.st = c.st /\ d.rca = c.rca /\ d.stream = c.stream
        /\ d.width = c.width /\ d.alive = FALSE
    BY DEF CardOK, CardRecord
  <2> QED
    BY <1>3, <2>1 DEF Kept, CardOK, Open
<1>4. ASSUME NEW s \in Answers(c, cmd, arg), Lost(s.card)
      PROVE  Kept(c, cmd, arg, r)
  BY <1>4, AnswersKeep DEF Kept
<1>5. ASSUME NEW s \in Answers(c, cmd, arg), r = [s EXCEPT !.card.busy = FALSE]
      PROVE  Kept(c, cmd, arg, r)
  <2>1. Kept(c, cmd, arg, s)
    BY AnswersKeep
  <2>2. DOMAIN s = {"card", "ok"}
    BY DEF Answers, Outcome
  <2>3. r.ok = s.ok /\ r.card = [s.card EXCEPT !.busy = FALSE]
    BY <1>5, <2>2
  <2>4. s.card \in CardRecord
    BY <2>1 DEF Kept, CardOK
  <2>5. r.card \in CardRecord /\ r.card.kind = s.card.kind /\ r.card.st = s.card.st
        /\ r.card.rca = s.card.rca /\ r.card.stream = s.card.stream
        /\ r.card.width = s.card.width /\ r.card.alive = s.card.alive
    BY <2>3, <2>4 DEF CardRecord
  <2> QED
    BY <2>1, <2>3, <2>5 DEF Kept, CardOK, Open
<1> HIDE DEF Lost
<1> QED
  BY <1>1, <1>2, <1>3, <1>4, <1>5

(* Together: what becomes of a command on the wires.                       *)
LEMMA FatesKeep ==
  ASSUME CardOK(card), faults \in Nat, NEW cmd, NEW arg \in Nat, NEW f \in Fates(cmd, arg)
  PROVE  Kept(card, cmd, arg, f) /\ f.fault \in BOOLEAN /\ (f.fault => faults > 0)
PROOF
<1>1. \/ \E r \in Answers(card, cmd, arg) : f = [card |-> r.card, ok |-> r.ok, fault |-> FALSE]
      \/ faults # 0 /\ \E r \in Faults(card, cmd, arg) :
                         f = [card |-> r.card, ok |-> r.ok, fault |-> TRUE]
  BY DEF Fates
<1>2. PICK r : Kept(card, cmd, arg, r) /\ f.card = r.card /\ f.ok = r.ok
  BY <1>1, AnswersKeep, FaultsKeep
<1>3. Kept(card, cmd, arg, f)
  BY <1>2 DEF Kept
<1>4. f.fault = FALSE \/ (f.fault = TRUE /\ faults # 0)
  BY <1>1
<1>5. f.fault \in BOOLEAN
  BY <1>4, Zenon
<1>6. faults # 0 => faults > 0
  OBVIOUS
<1> QED
  BY <1>3, <1>4, <1>5, <1>6

(* Without a fault the card takes what is legal, and nothing else.         *)
LEMMA FaultlessFates ==
  ASSUME CardOK(card), NEW cmd, cmd # "CMD0", NEW arg, NEW f \in Fates(cmd, arg), ~f.fault
  PROVE  IF Accepts(card, cmd, arg) THEN f.ok /\ f.card \in After(card, cmd, arg)
         ELSE ~f.ok /\ f.card = [card EXCEPT !.app = FALSE]
PROOF
<1>1. PICK r \in Answers(card, cmd, arg) : f = [card |-> r.card, ok |-> r.ok, fault |-> FALSE]
  BY DEF Fates
<1>2. f.card = r.card /\ f.ok = r.ok
  BY <1>1
<1>3. CASE Accepts(card, cmd, arg)
  <2>1. PICK d \in After(card, cmd, arg) : r = Outcome(d, cmd, TRUE)
    BY <1>3 DEF Answers
  <2>2. f.ok = TRUE /\ f.card = d
    BY <1>2, <2>1, OutcomeFields
  <2> QED
    BY <1>3, <2>1, <2>2
<1>4. CASE ~Accepts(card, cmd, arg)
  <2>1. r = Outcome([card EXCEPT !.app = FALSE], cmd, FALSE)
    BY <1>4 DEF Answers
  <2> QED
    BY <1>2, <1>4, <2>1, OutcomeFields
<1> QED
  BY <1>3, <1>4
-----------------------------------------------------------------------------
(* Steps                                                                   *)

(* What SendCommand leaves, with f what becomes of the command.            *)
Sent(cmd, arg, f) ==
  /\ card' = f.card /\ Kept(card, cmd, arg, f) /\ CardOK(card')
  /\ faults' \in Nat /\ faults' <= faults /\ (faults' = faults => ~f.fault)
  /\ f.fault \in BOOLEAN

LEMMA SendCommandSends ==
  ASSUME TypeOK, NEW cmd, NEW arg \in Nat, NEW f, SendCommand(cmd, arg, f)
  PROVE  /\ f \in Fates(cmd, arg) /\ ~card.busy /\ Sent(cmd, arg, f)
         /\ host' \in HostRecord /\ host'.cmd = host.cmd /\ host'.arg = host.arg
         /\ host'.width = host.width
PROOF
<1>1. /\ ~card.busy /\ f \in Fates(cmd, arg) /\ card' = f.card
      /\ faults' = IF f.fault THEN faults - 1 ELSE faults
      /\ host' = [host EXCEPT !.app = cmd = "CMD55" /\ f.ok]
  BY DEF SendCommand
<1>2. CardOK(card) /\ faults \in Nat /\ host \in HostRecord
  BY DEF TypeOK
<1>3. Kept(card, cmd, arg, f) /\ f.fault \in BOOLEAN /\ (f.fault => faults > 0)
  BY <1>1, <1>2, FatesKeep
<1>4. CardOK(card')
  BY <1>1, <1>3 DEF Kept
<1>5. faults' \in Nat /\ faults' <= faults /\ (faults' = faults => ~f.fault)
  BY <1>1, <1>2, <1>3
<1>6. (cmd = "CMD55" /\ f.ok) \in BOOLEAN
  OBVIOUS
<1>7. host' \in HostRecord /\ host'.cmd = host.cmd /\ host'.arg = host.arg
      /\ host'.width = host.width
  BY <1>1, <1>2, <1>6 DEF HostRecord
<1> QED
  BY <1>1, <1>3, <1>4, <1>5, <1>7 DEF Sent

(* Before the first call nothing is said of calls, but nothing is left open. *)
LEMMA BeforeCalls ==
  ASSUME IInv, pc \notin Calls \cup {"stopped"}, call' = call, pc' \notin Transfers,
         TypeOK', Identified', Fits', Open(card') => Open(card)
  PROVE  IInv'
PROOF
<1>1. call.op = "none"
  BY DEF IInv, Asked
<1>2. InTransfer' /\ Pending' /\ GoesWell' /\ Asked'
  BY <1>1, Zenon DEF InTransfer, Pending, GoesWell, Asked, Transfers
<1>3. CleanCallMovesAll'
  BY <1>1 DEF CleanCallMovesAll, Clean, Returned
<1>4. Closed'
  BY DEF IInv, Closed, Calls, Transfers
<1> QED
  BY <1>2, <1>3, <1>4 DEF IInv

LEMMA InitHolds ==
  ASSUME CountsAssumption, Init
  PROVE  IInv
PROOF
<1>1. PICK k \in Kinds : card = NewCard(k)
  BY DEF Init, CountsAssumption
<1>2. CardOK(card) /\ ~Open(card)
  BY <1>1 DEF CardOK, CardRecord, NewCard, Open, Early, Working
<1>3. pc = "absent" /\ call = NoCall /\ inst = NewInstance /\ back = "idle" /\ faults \in Nat
      /\ host = [cmd |-> "none", arg |-> 0, app |-> FALSE, width |-> 1] /\ rcaCount = 0 /\ try = 0
  BY DEF Init, CountsAssumption
<1>4. TypeOK
  <2>1. NewInstance \in InstRecord /\ host \in HostRecord
    BY <1>3 DEF NewInstance, HostRecord, InstRecord, Types
  <2>2. /\ {call.lba, call.n, call.left, call.at, call.budget} \subseteq Nat
        /\ {call.good, call.stopLost} \subseteq BOOLEAN
    BY <1>3 DEF NoCall
  <2> QED
    BY <1>2, <1>3, <2>1, <2>2 DEF TypeOK
<1>5. Identified /\ Fits
  BY <1>3 DEF Identified, Fits, NewInstance, Asking, Narrow, Sized, Named, SdOnes, EmmcOnes, Timing,
              Last, Reading
<1>6. InTransfer /\ Pending /\ Closed /\ GoesWell /\ Asked /\ CleanCallMovesAll
  BY <1>2, <1>3 DEF InTransfer, Pending, Closed, GoesWell, Asked, CleanCallMovesAll, Clean,
                    Returned, Transfers, NoCall
<1> QED
  BY <1>4, <1>5, <1>6 DEF IInv

(* The driver binding.                                                     *)
LEMMA BindingKeeps ==
  ASSUME IInv, Start \/ StartChecks \/ Timer
  PROVE  IInv'
PROOF
<1>1. TypeOK /\ inst \in InstRecord
  BY DEF IInv, TypeOK
<1>2. UNCHANGED <<card, host, rcaCount, try, call, faults>>
  BY DEF Start, StartChecks, Timer
<1>3. pc \in {"absent", "inserted"} /\ pc' \in {"inserted", "hw"} /\ inst' \in InstRecord
      /\ back' \in {"idle", "inserted"} /\ inst'.ok = FALSE
  <2>1. CASE Start
    <3>1. NewInstance \in InstRecord /\ NewInstance.ok = FALSE
      BY DEF NewInstance, InstRecord, Types
    <3> QED
      BY <1>1, <2>1, <3>1 DEF Start, TypeOK
  <2>2. CASE StartChecks
    <3>1. [inst EXCEPT !.initialized = FALSE].initialized = FALSE
      BY <1>1 DEF InstRecord
    <3>2. inst' = [[inst EXCEPT !.initialized = FALSE] EXCEPT !.initialized = TRUE, !.present = TRUE,
                                                              !.ok = FALSE]
          /\ pc' = "hw" /\ back' = "idle" /\ pc = "inserted"
      BY <2>2, <3>1 DEF StartChecks, CheckCards
    <3> QED
      BY <1>1, <3>2 DEF InstRecord
  <2>3. CASE Timer
    BY <1>1, <2>3 DEF Timer, CheckCards, InstRecord
  <2> QED
    BY <2>1, <2>2, <2>3
<1>4. TypeOK'
  BY <1>1, <1>2, <1>3 DEF TypeOK
<1>5. Identified' /\ Fits'
  BY <1>3 DEF Identified, Fits, Asking, Narrow, Sized, Named, SdOnes, EmmcOnes, Timing, Last, Reading
<1>6. pc \notin Calls \cup {"stopped"} /\ pc' \notin Transfers
  BY <1>3 DEF Calls, Transfers
<1> QED
  BY <1>2, <1>4, <1>5, <1>6, BeforeCalls
(* Identification.                                                         *)
Entry(p, cmd, ok, err) ==
  pc = p /\ Identify[pc].cmd = cmd /\ Identify[pc].ok = ok /\ Identify[pc].err = err

LEMMA IdentifyTable ==
  ASSUME pc \in DOMAIN Identify
  PROVE  \/ Entry("cmd2", "CMD2", "cmd3", "failed")
         \/ Entry("cmd3", "CMD3", "cmd9", "failed")
         \/ Entry("cmd9", "CMD9", "cmd7", "failed")
         \/ Entry("cmd7", "CMD7", "app", "failed")
         \/ Entry("app", "CMD55", "scr", "failed")
         \/ Entry("appW", "CMD55", "acmd6", "failed")
         \/ Entry("acmd6", "ACMD6", "setIos", "failed")
         \/ Entry("cmd16", "CMD16", "cmd23", "failed")
         \/ Entry("cmd0", "CMD0", "cmd1", "failed")
         \/ Entry("cmd5", "CMD5", "failed", "ifCond")
         \/ Entry("ifCond", "IF_COND", "cmd55", "cmd55")
         \/ Entry("eCmd2", "CMD2", "eCmd3", "failed")
         \/ Entry("eCmd3", "CMD3", "eCmd9", "failed")
         \/ Entry("eCmd9", "CMD9", "eCmd7", "failed")
         \/ Entry("eCmd7", "CMD7", "eNarrow", "eNarrow")
         \/ Entry("eNarrow", "CMD6", "eNarrowed", "failed")
         \/ Entry("eTiming", "CMD6", "eTimed", "failed")
BY DEF Identify, Entry, Goes

(* Where the steps lead.                                                   *)
Step(p, ok, q) ==
  IF ~ok
  THEN IF p = "cmd5" THEN q = "ifCond" ELSE IF p = "ifCond" THEN q = "cmd55"
       ELSE IF p = "eCmd7" THEN q = "eNarrow" ELSE q = "failed"
  ELSE <<p, q>> \in
         {<<"cmd2", "cmd3">>, <<"cmd3", "cmd9">>, <<"cmd9", "cmd7">>, <<"cmd7", "app">>,
          <<"app", "scr">>, <<"appW", "acmd6">>, <<"acmd6", "setIos">>, <<"cmd16", "cmd23">>,
          <<"cmd0", "cmd1">>, <<"cmd5", "failed">>, <<"ifCond", "cmd55">>, <<"eCmd2", "eCmd3">>,
          <<"eCmd3", "eCmd9">>, <<"eCmd9", "eCmd7">>, <<"eCmd7", "eNarrow">>,
          <<"eNarrow", "eNarrowed">>, <<"eTiming", "eTimed">>}

LEMMA ArgumentIsNat ==
  ASSUME TypeOK
  PROVE  Argument(pc) \in Nat
PROOF
<1>1. inst.rca \in Nat /\ rcaCount + 1 \in Nat
  BY DEF TypeOK, InstRecord
<1>2. CASE pc \in {"cmd9", "cmd7", "app", "appW", "eCmd9", "eCmd7"}
  BY <1>1, <1>2 DEF Argument
<1>3. CASE pc \notin {"cmd9", "cmd7", "app", "appW", "eCmd9", "eCmd7"}
  BY <1>1, <1>3 DEF Argument
<1> QED
  BY <1>2, <1>3

LEMMA NotedIsTyped ==
  ASSUME TypeOK, NEW f, f.ok \in BOOLEAN, CardOK(f.card)
  PROVE  /\ Noted(pc, f) \in InstRecord /\ Noted(pc, f).ok = inst.ok
         /\ Noted(pc, f).sector = inst.sector
         /\ pc \notin {"cmd3", "eCmd3"} => Noted(pc, f).rca = inst.rca
PROOF
<1>1. inst \in InstRecord /\ f.card.rca \in Nat /\ rcaCount + 1 \in Nat
  BY DEF TypeOK, CardOK, CardRecord
<1>2. CASE pc = "ifCond"
  BY <1>1, <1>2 DEF Noted, InstRecord
<1>3. CASE pc = "cmd3" /\ f.ok
  <2>1. PICK n \in Nat : Noted(pc, f) = [inst EXCEPT !.rca = n]
    BY <1>1, <1>3 DEF Noted
  <2> QED
    BY <1>1, <1>3, <2>1 DEF InstRecord
<1>4. CASE pc = "cmd9" /\ f.ok
  <2>1. LastBlock \in Nat
    BY CountsAssumption DEF CountsAssumption
  <2> QED
    BY <1>1, <1>4, <2>1 DEF Noted, InstRecord
<1>5. CASE pc = "eCmd3"
  BY <1>1, <1>5 DEF Noted, InstRecord
<1>6. CASE pc \notin {"ifCond", "eCmd3"} /\ ~(pc \in {"cmd3", "cmd9"} /\ f.ok)
  BY <1>1, <1>6 DEF Noted
<1> QED
  BY <1>2, <1>3, <1>4, <1>5, <1>6

LEMMA IdentifyKeeps ==
  ASSUME IInv, IdentifyStep
  PROVE  IInv'
PROOF
<1> DEFINE cmd == Identify[pc].cmd
           arg == Argument(pc)
<1>1. TypeOK /\ CardOK(card) /\ Identified
  BY DEF IInv, TypeOK
<1>2. PICK f \in Fates(cmd, arg) :
        /\ SendCommand(cmd, arg, f)
        /\ pc' = IF f.ok THEN Identify[pc].ok ELSE Identify[pc].err
        /\ inst' = Noted(pc, f)
  BY DEF IdentifyStep
<1>3. pc \in DOMAIN Identify /\ try' = RetryCount /\ UNCHANGED <<back, call>>
      /\ rcaCount' = IF pc = "eCmd3" THEN rcaCount + 1 ELSE rcaCount
  BY DEF IdentifyStep
<1>4. arg \in Nat
  BY <1>1, ArgumentIsNat
<1> HIDE DEF cmd, arg
<1>5. /\ Sent(cmd, arg, f) /\ host' \in HostRecord
      /\ host'.cmd = host.cmd /\ host'.arg = host.arg /\ host'.width = host.width
  BY <1>1, <1>2, <1>4, SendCommandSends
<1>6. f.ok \in BOOLEAN /\ CardOK(f.card) /\ card' = f.card /\ card'.kind = card.kind
  BY <1>5 DEF Sent, Kept
<1>7. /\ inst' \in InstRecord /\ inst'.ok = inst.ok /\ inst'.sector = inst.sector
      /\ pc \notin {"cmd3", "eCmd3"} => inst'.rca = inst.rca
  BY <1>1, <1>2, <1>6, NotedIsTyped
<1>8. Step(pc, f.ok, pc')
  <2>1. CASE f.ok
    <3>1. pc' = Identify[pc].ok
      BY <1>2, <2>1
    <3> QED
      BY <1>3, <2>1, <3>1, IdentifyTable DEF Entry, Step
  <2>2. CASE ~f.ok
    BY <1>2, <1>3, <2>2, IdentifyTable DEF Entry, Step
  <2> QED
    BY <2>1, <2>2
<1>9. TypeOK'
  <2>1. rcaCount' \in Nat /\ try' \in Int /\ faults' \in Nat
    BY <1>1, <1>3, <1>5, CountsAssumption DEF TypeOK, CountsAssumption, Sent
  <2>2. pc' \in {"absent", "inserted", "idle", "stopped", "hw", "failed"} \cup Asking \cup Sized
                  \cup Transfers
    BY <1>8 DEF Step, Asking, Sized, SdOnes, EmmcOnes, Timing, Last
  <2> QED
    BY <1>1, <1>3, <1>5, <1>6, <1>7, <2>1, <2>2 DEF TypeOK
<1>10. Entry(pc, cmd, Identify[pc].ok, Identify[pc].err)
  BY DEF Entry, cmd
<1>11. Identified'
  <2>1. /\ card'.alive => card.alive
        /\ cmd \notin {"CMD0", "CMD3"} => card'.rca = card.rca
        /\ cmd \notin {"CMD0", "CMD6", "ACMD6"} => card'.width = card.width
        /\ cmd # "CMD0" /\ card.st \in Working => card'.st \in Working
        /\ cmd # "CMD0" /\ f.ok => /\ Accepts(card, cmd, arg)
                                   /\ card'.width = WidthAfter(card, cmd, arg)
    BY <1>5, <1>6 DEF Sent, Kept
  <2>2. (pc' \in Asking \cup Narrow \cup {"setIos"} => host'.width = 1) /\ pc' # "eWider"
        /\ pc' # "eWidened" /\ pc' \notin Reading
    <3>1. pc' \notin {"eWider", "eWidened"} \cup Reading
      BY <1>8 DEF Step, Reading
    <3>2. pc' \in Asking \cup Narrow \cup {"setIos"} => pc \in Asking \cup Narrow
      BY <1>8 DEF Step, Asking, Narrow, SdOnes, EmmcOnes, Timing
    <3> QED
      BY <1>1, <1>5, <3>1, <3>2 DEF Identified
  <2>3. pc' \in Sized => SizesAgree'
    <3>1. pc' \in Sized => pc \in Sized
      BY <1>8 DEF Step, Sized, SdOnes, EmmcOnes, Timing, Last
    <3> QED
      BY <1>1, <1>6, <1>7, <3>1 DEF Identified, SizesAgree, BySector
  <2>4. pc' \in Named => NamesAgree'
    <3>1. pc' \in Named => /\ pc \in Named \/ (pc \in {"cmd9", "eCmd9"} /\ f.ok)
                           /\ pc \notin {"cmd3", "eCmd3", "cmd0"}
      BY <1>8 DEF Step, Named, Sized, SdOnes, EmmcOnes, Timing, Last
    <3>2. pc \in {"cmd9", "eCmd9"} => cmd = "CMD9" /\ arg = inst.rca
      BY <1>3, <1>10, IdentifyTable DEF Entry, arg, Argument
    <3>3. cmd = "CMD9" /\ f.ok => arg = card.rca
      BY <2>1 DEF Accepts
    <3>4. pc \notin {"cmd3", "eCmd3", "cmd0"} => cmd \notin {"CMD0", "CMD3"}
      BY <1>3, <1>10, IdentifyTable DEF Entry
    <3>5. pc \in Named => NamesAgree
      BY <1>1 DEF Identified
    <3> QED
      BY <1>7, <2>1, <3>1, <3>2, <3>3, <3>4, <3>5 DEF NamesAgree
  <2>5. pc' \in Narrow => (card'.alive => card'.width = 1)
    <3>1. ASSUME pc' \in Narrow, card'.alive
          PROVE  /\ pc \in Narrow /\ card.width = 1
                 /\ \/ cmd \notin {"CMD0", "CMD6", "ACMD6"}
                    \/ f.ok /\ cmd = "CMD6" /\ arg \in {0, 1}
      <4>1. pc \in Narrow /\ pc # "acmd6" /\ (f.ok \/ pc = "eCmd7")
        BY <1>8, <3>1 DEF Step, Narrow, SdOnes, EmmcOnes, Timing
      <4>2. \/ cmd \notin {"CMD0", "CMD6", "ACMD6"}
            \/ cmd = "CMD6" /\ pc \in {"eNarrow", "eTiming"}
        BY <1>3, <1>10, <4>1, IdentifyTable DEF Entry, Narrow, SdOnes, EmmcOnes, Timing
      <4>3. pc = "eNarrow" => arg = 1
        BY DEF arg, Argument
      <4>4. pc = "eTiming" => arg = 0
        BY DEF arg, Argument
      <4> QED
        BY <1>1, <2>1, <3>1, <4>1, <4>2, <4>3, <4>4 DEF Identified
    <3> QED
      BY <2>1, <3>1 DEF WidthAfter
  <2>6. pc' = "setIos" => (card'.alive => card'.width = 4)
    <3>1. pc' = "setIos" => pc = "acmd6" /\ f.ok
      BY <1>8 DEF Step
    <3>2. pc = "acmd6" => cmd = "ACMD6" /\ arg = 4
      BY <1>3, <1>10, IdentifyTable DEF Entry, arg, Argument
    <3> QED
      BY <2>1, <3>1, <3>2 DEF WidthAfter
  <2>7. pc' \in Last => WidthsAgree' /\ (card'.alive => card'.st \in Working)
    <3>1. pc' \in Last => pc = "cmd16" /\ f.ok
      BY <1>8 DEF Step, Last
    <3>2. pc = "cmd16" => cmd = "CMD16" /\ WidthsAgree
      BY <1>1, <1>3, <1>10, IdentifyTable DEF Entry, Identified, Last
    <3>3. cmd = "CMD16" /\ f.ok => card.st \in Working
      BY <2>1 DEF Accepts, LegalIn, Working
    <3> QED
      BY <1>5, <2>1, <3>1, <3>2, <3>3 DEF WidthsAgree
  <2> QED
    BY <2>2, <2>3, <2>4, <2>5, <2>6, <2>7 DEF Identified, Last
<1>12. Fits' /\ pc \notin Calls \cup {"stopped"} /\ pc' \notin Transfers
  <2>1. pc' \notin Calls
    BY <1>8 DEF Step, Calls, Transfers
  <2>2. pc \notin Calls \cup {"stopped"}
    BY <1>3, IdentifyTable DEF Entry, Calls, Transfers
  <2> QED
    BY <2>1, <2>2 DEF Fits, Calls
<1>13. Open(card') => Open(card)
  <2>1. cmd \notin {"CMD18", "CMD24", "CMD25"}
    BY <1>3, <1>10, IdentifyTable DEF Entry
  <2> QED
    BY <1>5, <1>6, <2>1 DEF Sent, Kept
<1> QED
  BY <1>3, <1>9, <1>11, <1>12, <1>13, BeforeCalls
(* The command that was kept goes out, and its data pass.                  *)
LEMMA MoveDataMoves ==
  ASSUME TypeOK, NEW f \in DataFates, MoveData(f)
  PROVE  \E g \in Fates(host.cmd, host.arg) :
           /\ ~card.busy /\ Kept(card, host.cmd, host.arg, g) /\ f.ok \in BOOLEAN
           /\ f.ok => /\ g.ok /\ host.width = g.card.width
                      /\ card' = DataPassed(g.card, host.cmd)
           /\ ~f.ok => card' = g.card /\ (g.ok => host.width # g.card.width)
           /\ faults' \in Nat /\ faults' <= faults /\ (faults' = faults => ~g.fault)
           /\ UNCHANGED host
PROOF
<1> DEFINE F(g) == IF g.ok /\ host.width = g.card.width
                   THEN [g EXCEPT !.card = DataPassed(g.card, host.cmd)]
                   ELSE [g EXCEPT !.ok = FALSE]
<1>1. PICK g \in Fates(host.cmd, host.arg) : f = F(g)
  BY DEF DataFates
<1>2. /\ ~card.busy /\ card' = f.card /\ UNCHANGED host
      /\ faults' = IF f.fault THEN faults - 1 ELSE faults
  BY DEF MoveData
<1>3. CardOK(card) /\ faults \in Nat /\ host.arg \in Nat
  BY DEF TypeOK, HostRecord
<1>4. Kept(card, host.cmd, host.arg, g) /\ g.fault \in BOOLEAN /\ (g.fault => faults > 0)
  BY <1>3, FatesKeep
<1>5. DOMAIN g = {"card", "ok", "fault"} /\ g.ok \in BOOLEAN
  <2>1. DOMAIN g = {"card", "ok", "fault"}
    BY DEF Fates
  <2> QED
    BY <1>4, <2>1 DEF Kept
<1>6. f.fault = g.fault
  BY <1>1, <1>5
<1>7. faults' \in Nat /\ faults' <= faults /\ (faults' = faults => ~g.fault)
  BY <1>2, <1>3, <1>4, <1>6
<1>8. CASE g.ok /\ host.width = g.card.width
  <2>1. f = [g EXCEPT !.card = DataPassed(g.card, host.cmd)]
    BY <1>1, <1>8
  <2>2. f.ok = g.ok /\ f.card = DataPassed(g.card, host.cmd)
    BY <1>5, <2>1
  <2> QED
    BY <1>2, <1>4, <1>5, <1>7, <1>8, <2>2
<1>9. CASE ~(g.ok /\ host.width = g.card.width)
  <2>1. f = [g EXCEPT !.ok = FALSE]
    BY <1>1, <1>9
  <2>2. f.ok = FALSE /\ f.card = g.card
    BY <1>5, <2>1
  <2> QED
    BY <1>2, <1>4, <1>5, <1>7, <1>9, <2>2
<1> QED
  BY <1>8, <1>9

LEMMA DataPassedFields ==
  ASSUME NEW c, CardOK(c), c.st \in Working, NEW cmd
  PROVE  LET d == DataPassed(c, cmd)
         IN  /\ CardOK(d) /\ d.kind = c.kind /\ d.rca = c.rca /\ d.width = c.width
             /\ d.alive = c.alive /\ d.st \in Working
             /\ c.stream \/ cmd = "CMD25" => d = c
             /\ ~c.stream /\ cmd # "CMD25" /\ c.st = "data" => d.st = "tran" /\ ~d.stream
             /\ ~c.stream /\ cmd # "CMD25" /\ c.st # "data" => d.st = "prg" /\ d.busy /\ ~d.stream
PROOF
<1>1. c \in CardRecord /\ c.stream \in BOOLEAN
  BY DEF CardOK, CardRecord
<1>2. CASE c.stream \/ cmd = "CMD25"
  BY <1>2 DEF DataPassed
<1>3. CASE ~c.stream /\ cmd # "CMD25"
  BY <1>1, <1>3 DEF DataPassed, Programming, CardOK, CardRecord, Working, Early
<1> QED
  BY <1>1, <1>2, <1>3

LEMMA MoveDataKeeps ==
  ASSUME TypeOK, NEW f \in DataFates, MoveData(f)
  PROVE  /\ CardOK(card') /\ card'.kind = card.kind /\ card'.rca = card.rca
         /\ card'.width = card.width /\ (card'.alive => card.alive)
         /\ card.st \in Working => card'.st \in Working
         /\ host.cmd \notin {"CMD18", "CMD24", "CMD25"} => (Open(card') => Open(card))
         /\ f.ok \in BOOLEAN /\ faults' \in Nat /\ faults' <= faults /\ UNCHANGED host
PROOF
<1>1. PICK g \in Fates(host.cmd, host.arg) :
           /\ ~card.busy /\ Kept(card, host.cmd, host.arg, g) /\ f.ok \in BOOLEAN
           /\ f.ok => /\ g.ok /\ host.width = g.card.width
                      /\ card' = DataPassed(g.card, host.cmd)
           /\ ~f.ok => card' = g.card /\ (g.ok => host.width # g.card.width)
           /\ faults' \in Nat /\ faults' <= faults /\ (faults' = faults => ~g.fault)
           /\ UNCHANGED host
  BY MoveDataMoves
<1>2. host.cmd \in {"none"} \cup Reads \cup Writes
  BY DEF TypeOK, HostRecord
<1>3. host.cmd \notin {"CMD0", "CMD3", "CMD6", "ACMD6"}
  BY <1>2 DEF Reads, Writes
<1>4. /\ CardOK(g.card) /\ g.card.kind = card.kind /\ g.card.rca = card.rca
      /\ g.card.width = card.width /\ (g.card.alive => card.alive)
      /\ card.st \in Working => g.card.st \in Working
      /\ host.cmd \notin {"CMD18", "CMD24", "CMD25"} => (Open(g.card) => Open(card))
  BY <1>1, <1>3 DEF Kept
<1>5. CASE ~f.ok
  BY <1>1, <1>4, <1>5
<1>6. CASE f.ok
  <2>1. card.st = "tran" /\ g.card.alive
    <3>1. Accepts(card, host.cmd, host.arg) /\ g.card.alive
      BY <1>1, <1>3, <1>6 DEF Kept
    <3>2. LegalIn(host.cmd) = {"tran"}
      BY <1>2 DEF LegalIn, Reads, Writes
    <3> QED
      BY <3>1, <3>2 DEF Accepts
  <2>2. g.card.st \in Working
    BY <1>4, <2>1 DEF Working
  <2>3. /\ CardOK(card') /\ card'.kind = g.card.kind /\ card'.rca = g.card.rca
        /\ card'.width = g.card.width /\ card'.alive = g.card.alive /\ card'.st \in Working
        /\ card'.stream => g.card.stream
        /\ card'.st = "rcv" => g.card.stream \/ host.cmd = "CMD25"
    BY <1>1, <1>4, <1>6, <2>2, DataPassedFields
  <2> QED
    BY <1>1, <1>4, <2>1, <2>3 DEF Open
<1> QED
  BY <1>1, <1>5, <1>6
(* A step within an identification that leaves the names, the sizes and    *)
(* the widths as they are.                                                 *)
LEMMA NothingRenamed ==
  ASSUME Identified, card'.alive => card.alive, card'.kind = card.kind, card'.rca = card.rca,
         card'.width = card.width, host'.width = host.width, inst'.rca = inst.rca,
         inst'.sector = inst.sector, pc \in Narrow, pc' \in {"failed", "cmd16"} \cup Narrow,
         pc' \in Named => pc \in Named,
         pc' \in Reading => host'.cmd \in {"CMD8", "ACMD51", "SD_CMD6"}
  PROVE  Identified'
PROOF
<1>1. pc \in Sized /\ pc' \notin {"setIos", "eWider", "eWidened", "cmd23"} /\ pc' \notin Asking
  BY DEF Sized, Narrow, SdOnes, EmmcOnes, Timing, Asking
<1>2. host'.width = 1 /\ (card'.alive => card'.width = 1)
  BY DEF Identified
<1>3. pc' \in Sized => SizesAgree'
  BY <1>1 DEF Identified, SizesAgree, BySector
<1>4. pc' \in Named => NamesAgree'
  BY DEF Identified, NamesAgree
<1>5. WidthsAgree'
  BY <1>2 DEF WidthsAgree
<1> QED
  BY <1>1, <1>2, <1>3, <1>4, <1>5 DEF Identified

LEMMA StillTyped ==
  ASSUME TypeOK, CardOK(card'), host' \in HostRecord, inst' \in InstRecord, rcaCount' = rcaCount,
         try' \in Int, faults' \in Nat, UNCHANGED <<back, call>>,
         pc' \in {"absent", "inserted", "idle", "stopped", "hw", "failed"} \cup Asking
                    \cup Sized \cup Transfers
  PROVE  TypeOK'
BY DEF TypeOK

LEMMA HwInitializationKeeps ==
  ASSUME IInv, HwInitialization
  PROVE  IInv'
PROOF
<1>1. /\ pc = "hw" /\ pc' = "cmd0" /\ host' = [host EXCEPT !.width = 1]
      /\ UNCHANGED <<card, inst, rcaCount, back, try, call, faults>>
  BY DEF HwInitialization, SetIos
<1>2. TypeOK
  BY DEF IInv
<1>3. host' \in HostRecord /\ host'.width = 1
  BY <1>1, <1>2 DEF TypeOK, HostRecord
<1>4. TypeOK'
  BY <1>1, <1>2, <1>3 DEF TypeOK, Asking
<1>5. Identified' /\ Fits'
  BY <1>1, <1>3 DEF Identified, Fits, Calls, Transfers, Narrow, Sized, Named, SdOnes, EmmcOnes,
                    Timing, Last, Reading
<1> QED
  BY <1>1, <1>4, <1>5, BeforeCalls DEF Calls, Transfers

(* A step of asking for power up: it goes on asking, or knows the card.    *)
LEMMA AskingKeeps ==
  ASSUME IInv, pc \in Asking, NEW cmd \in {"CMD1", "ACMD41", "CMD55"}, NEW arg \in Nat,
         NEW f, SendCommand(cmd, arg, f), inst' \in InstRecord, try' \in Int,
         UNCHANGED <<rcaCount, back, call>>,
         \/ pc' \in Asking \cup {"failed"}
         \/ /\ pc' \in {"cmd2", "eCmd2"} /\ f.ok /\ f.card.st = "ready"
            /\ inst'.sector = BySector(card)
  PROVE  IInv'
PROOF
<1>1. TypeOK /\ Identified
  BY DEF IInv
<1>2. /\ Sent(cmd, arg, f) /\ host' \in HostRecord /\ host'.width = host.width
  BY <1>1, SendCommandSends
<1>3. card' = f.card /\ CardOK(card') /\ card'.kind = card.kind /\ faults' \in Nat
      /\ (Open(card') => Open(card))
  BY <1>2 DEF Sent, Kept
<1>4. pc' \in Asking \cup Sized \cup {"failed"}
  BY DEF Sized, SdOnes, EmmcOnes
<1>5. TypeOK'
  BY <1>1, <1>2, <1>3, <1>4, StillTyped
<1>6. host'.width = 1
  BY <1>1, <1>2 DEF Identified
<1>7. Identified'
  <2>1. CASE pc' \in Asking \cup {"failed"}
    BY <1>6, <2>1 DEF Identified, Asking, Narrow, Sized, Named, SdOnes, EmmcOnes, Timing, Last, Reading
  <2>2. CASE pc' \in {"cmd2", "eCmd2"} /\ f.ok /\ f.card.st = "ready" /\ inst'.sector = BySector(card)
    <3>1. card'.width = 1 /\ card'.kind # "sdio"
      BY <1>3, <2>2 DEF CardOK, Early
    <3>2. SizesAgree'
      BY <1>3, <2>2, <3>1 DEF SizesAgree, BySector
    <3> QED
      BY <1>6, <2>2, <3>1, <3>2 DEF Identified, Asking, Named, Sized, Last, Reading
  <2> QED
    BY <2>1, <2>2
<1>8. pc \notin Calls \cup {"stopped"} /\ pc' \notin Transfers /\ Fits'
  <2>1. pc \notin Calls \cup {"stopped"}
    BY DEF Asking, Calls, Transfers
  <2>2. pc' \notin Calls
    BY <1>4 DEF Asking, Sized, SdOnes, EmmcOnes, Timing, Last, Calls, Transfers
  <2> QED
    BY <2>1, <2>2 DEF Fits, Calls
<1> QED
  BY <1>3, <1>5, <1>7, <1>8, BeforeCalls

LEMMA AskOcrKeeps ==
  ASSUME IInv, AskOcr
  PROVE  IInv'
PROOF
<1>1. inst \in InstRecord /\ try \in Int /\ CardOK(card)
  BY DEF IInv, TypeOK
<1>2. PICK f \in Fates("CMD1", 1) :
        /\ SendCommand("CMD1", 1, f)
        /\ CASE ~f.ok -> pc' = "cmd5" /\ UNCHANGED <<inst, try>>
             [] f.ok /\ f.card.st # "ready" ->
                  /\ try' = try - 1
                  /\ pc' = IF try' > 0 THEN "cmd1" ELSE "failed"
                  /\ UNCHANGED inst
             [] f.ok /\ f.card.st = "ready" ->
                  /\ inst' = [inst EXCEPT !.sector = card.kind = "emmc"]
                  /\ pc' = IF card.kind = "emmc" THEN "eCmd2" ELSE "cmd5"
                  /\ UNCHANGED try
  BY DEF AskOcr
<1>3. pc \in Asking /\ UNCHANGED <<rcaCount, back, call>>
  BY DEF AskOcr, Asking
<1>4. CASE ~f.ok
  BY <1>1, <1>2, <1>3, <1>4, AskingKeeps DEF Asking
<1>5. CASE f.ok /\ f.card.st # "ready"
  <2>1. try' \in Int /\ pc' \in {"cmd1", "failed"} /\ UNCHANGED inst
    BY <1>1, <1>2, <1>5
  <2> QED
    BY <1>1, <1>2, <1>3, <2>1, AskingKeeps DEF Asking
<1>6. CASE f.ok /\ f.card.st = "ready"
  <2>1. inst' = [inst EXCEPT !.sector = card.kind = "emmc"] /\ UNCHANGED try
        /\ pc' = IF card.kind = "emmc" THEN "eCmd2" ELSE "cmd5"
    BY <1>2, <1>6
  <2>2. inst' \in InstRecord /\ (card.kind = "emmc" => inst'.sector = TRUE)
    BY <1>1, <2>1 DEF InstRecord
  <2>3. card.kind = "emmc" => BySector(card) = TRUE
    BY DEF BySector
  <2>4. CASE card.kind = "emmc"
    BY <1>1, <1>2, <1>3, <1>6, <2>1, <2>2, <2>3, <2>4, AskingKeeps
  <2>5. CASE card.kind # "emmc"
    BY <1>1, <1>2, <1>3, <2>1, <2>2, <2>5, AskingKeeps DEF Asking
  <2> QED
    BY <2>4, <2>5
<1> QED
  BY <1>4, <1>5, <1>6

LEMMA SdOrMmcKeeps ==
  ASSUME IInv, SdOrMmc
  PROVE  IInv'
PROOF
<1>1. inst \in InstRecord /\ try \in Int
  BY DEF IInv, TypeOK
<1>2. PICK f \in Fates("CMD55", 0) :
        /\ SendCommand("CMD55", 0, f)
        /\ pc' = IF f.ok THEN "acmd41" ELSE "cmd1b"
        /\ inst' = [inst EXCEPT !.type = IF ~f.ok THEN "mmc" ELSE IF inst.hcs THEN "sd2" ELSE "sd"]
  BY DEF SdOrMmc
<1>3. pc \in Asking /\ UNCHANGED <<rcaCount, back, call, try>>
  BY DEF SdOrMmc, Asking
<1>4. (IF ~f.ok THEN "mmc" ELSE IF inst.hcs THEN "sd2" ELSE "sd") \in Types
  BY DEF Types
<1>5. inst' \in InstRecord
  BY <1>1, <1>2, <1>4 DEF InstRecord
<1>6. pc' \in Asking
  BY <1>2 DEF Asking
<1> QED
  BY <1>1, <1>2, <1>3, <1>5, <1>6, AskingKeeps

LEMMA PowerUpKeeps ==
  ASSUME IInv, PowerUp
  PROVE  IInv'
PROOF
<1> DEFINE cmd == IF pc = "acmd41" THEN "ACMD41" ELSE "CMD1"
           arg == IF inst.hcs THEN 1 ELSE 0
<1>1. inst \in InstRecord /\ try \in Int /\ TypeOK
  BY DEF IInv, TypeOK
<1>2. PICK f \in Fates(cmd, arg) :
        /\ SendCommand(cmd, arg, f)
        /\ IF f.ok /\ f.card.st = "ready"
           THEN /\ inst' = [inst EXCEPT !.sector = BySector(f.card),
                                        !.type = IF @ = "sd2" /\ BySector(f.card)
                                                 THEN "sd2high" ELSE @]
                /\ pc' = "cmd2" /\ UNCHANGED try
           ELSE /\ try' = try - 1
                /\ pc' = IF try' = 0 THEN "failed" ELSE "cmd55"
                /\ UNCHANGED inst
  BY DEF PowerUp
<1>3. pc \in Asking /\ UNCHANGED <<rcaCount, back, call>>
  BY DEF PowerUp, Asking
<1>4. cmd \in {"CMD1", "ACMD41", "CMD55"} /\ arg \in Nat
  OBVIOUS
<1> HIDE DEF cmd, arg
<1>5. f.card.kind = card.kind
  BY <1>1, <1>2, <1>4, SendCommandSends DEF Sent, Kept
<1>6. CASE f.ok /\ f.card.st = "ready"
  <2>1. inst' = [inst EXCEPT !.sector = BySector(f.card),
                             !.type = IF @ = "sd2" /\ BySector(f.card) THEN "sd2high" ELSE @]
        /\ pc' = "cmd2" /\ UNCHANGED try
    BY <1>2, <1>6
  <2>2. BySector(f.card) \in BOOLEAN /\ BySector(f.card) = BySector(card)
    BY <1>5 DEF BySector
  <2>3. (IF inst.type = "sd2" /\ BySector(f.card) THEN "sd2high" ELSE inst.type) \in Types
    BY <1>1 DEF InstRecord, Types
  <2>4. inst' \in InstRecord /\ inst'.sector = BySector(card)
    BY <1>1, <2>1, <2>2, <2>3 DEF InstRecord
  <2> QED
    BY <1>1, <1>2, <1>3, <1>4, <1>6, <2>1, <2>4, AskingKeeps
<1>7. CASE ~(f.ok /\ f.card.st = "ready")
  <2>1. try' \in Int /\ pc' \in {"failed", "cmd55"} /\ UNCHANGED inst
    BY <1>1, <1>2, <1>7
  <2> QED
    BY <1>1, <1>2, <1>3, <1>4, <2>1, AskingKeeps DEF Asking
<1> QED
  BY <1>6, <1>7
(* The steps of an identification end it neither with a call nor return.   *)
LEMMA StillIdentifying ==
  ASSUME pc \in Sized, pc' \in {"failed"} \cup Sized
  PROVE  Fits' /\ pc \notin Calls \cup {"stopped"} /\ pc' \notin Transfers
PROOF
<1>1. pc \notin Calls \cup {"stopped"} /\ pc' \notin Calls
  BY DEF Sized, SdOnes, EmmcOnes, Timing, Last, Calls, Transfers
<1> QED
  BY <1>1 DEF Fits, Calls

(* A step of an identification that sends a command, and renames nothing.  *)
LEMMA SendingKeeps ==
  ASSUME IInv, pc \in Narrow, NEW arg \in Nat, NEW f,
         SendCommand("CMD13", arg, f), UNCHANGED <<rcaCount, back, try, call>>, inst' \in InstRecord,
         inst'.rca = inst.rca, inst'.sector = inst.sector,
         pc' \in {"failed", "cmd16"} \cup Narrow, pc' \in Named => pc \in Named, pc' \notin Reading
  PROVE  IInv'
PROOF
<1>1. TypeOK /\ Identified
  BY DEF IInv
<1>2. Sent("CMD13", arg, f) /\ host' \in HostRecord /\ host'.width = host.width
  BY <1>1, SendCommandSends
<1>3. /\ CardOK(card') /\ card'.kind = card.kind /\ card'.rca = card.rca
      /\ card'.width = card.width /\ (card'.alive => card.alive)
      /\ Open(card') => Open(card)
      /\ faults' \in Nat
  BY <1>2 DEF Sent, Kept
<1>4. pc \in Sized /\ pc' \in {"failed"} \cup Sized
  BY DEF Sized, Narrow, Last
<1>5. TypeOK'
  BY <1>1, <1>2, <1>3, <1>4, StillTyped DEF TypeOK
<1>6. Identified'
  BY <1>1, <1>2, <1>3, NothingRenamed
<1> QED
  BY <1>3, <1>4, <1>5, <1>6, StillIdentifying, BeforeCalls

(* One that stores a command with data, and one that moves them.           *)
LEMMA StoringKeeps ==
  ASSUME IInv, pc \in Narrow, NEW cmd \in {"CMD8", "ACMD51", "SD_CMD6"}, StoreCommand(cmd, 0),
         UNCHANGED <<card, inst, rcaCount, back, try, call, faults>>,
         pc' \in Narrow, pc' \in Named => pc \in Named
  PROVE  IInv'
PROOF
<1>1. TypeOK /\ Identified
  BY DEF IInv
<1>2. host' = [host EXCEPT !.cmd = cmd, !.arg = 0, !.app = FALSE] /\ host \in HostRecord
  BY <1>1 DEF StoreCommand, TypeOK
<1>3. cmd \in Reads
  BY DEF Reads
<1>4. host' \in HostRecord /\ host'.width = host.width /\ host'.cmd = cmd
  BY <1>2, <1>3 DEF HostRecord
<1>5. pc \in Sized /\ pc' \in {"failed"} \cup Sized
  BY DEF Sized, Narrow, Last
<1>6. TypeOK'
  BY <1>1, <1>4, <1>5, StillTyped DEF TypeOK
<1>7. Identified'
  BY <1>1, <1>4, NothingRenamed
<1> QED
  BY <1>5, <1>6, <1>7, StillIdentifying, BeforeCalls

LEMMA MovingKeeps ==
  ASSUME IInv, pc \in Reading, NEW f \in DataFates, MoveData(f),
         UNCHANGED <<inst, rcaCount, back, try, call>>,
         pc' \in {"failed", "cmd16"} \cup Narrow, pc' \notin Reading
  PROVE  IInv'
PROOF
<1>1. TypeOK /\ Identified /\ pc \in Narrow \cap Named
  BY DEF IInv, Reading, Narrow, Named, Sized, SdOnes, EmmcOnes, Timing
<1>2. host.cmd \in {"CMD8", "ACMD51", "SD_CMD6"}
  BY <1>1 DEF Identified
<1>3. /\ CardOK(card') /\ card'.kind = card.kind /\ card'.rca = card.rca
      /\ card'.width = card.width /\ (card'.alive => card.alive)
      /\ host.cmd \notin {"CMD18", "CMD24", "CMD25"} => (Open(card') => Open(card))
      /\ faults' \in Nat /\ UNCHANGED host
  BY <1>1, MoveDataKeeps
<1>4. pc \in Sized /\ pc' \in {"failed"} \cup Sized
  BY <1>1 DEF Sized, Narrow, Last
<1>5. TypeOK'
  BY <1>1, <1>3, <1>4, StillTyped DEF TypeOK
<1>6. Identified'
  BY <1>1, <1>3, NothingRenamed
<1> QED
  BY <1>2, <1>3, <1>4, <1>5, <1>6, StillIdentifying, BeforeCalls

LEMMA SdKeeps ==
  ASSUME IInv, SdReads \/ SdData
  PROVE  IInv'
PROOF
<1>1. CASE SdReads
  <2>1. pc \in {"scr", "switch0", "switch1"} /\ pc' \in {"scrData", "switch0Data", "switch1Data"}
    BY <1>1 DEF SdReads
  <2>2. PICK cmd \in {"CMD8", "ACMD51", "SD_CMD6"} : StoreCommand(cmd, 0)
    BY <1>1 DEF SdReads
  <2>3. pc \in Narrow \cap Named /\ pc' \in Narrow
    BY <2>1 DEF Narrow, Named, Sized, SdOnes
  <2> QED
    BY <1>1, <2>2, <2>3, StoringKeeps DEF SdReads
<1>2. CASE SdData
  <2>1. PICK f \in DataFates : /\ MoveData(f)
                               /\ pc' \in {"failed", "switch0", "appW", "switch1", "cmd16"}
    BY <1>2 DEF SdData
  <2>2. pc \in Reading /\ pc' \in {"failed", "cmd16"} \cup Narrow /\ pc' \notin Reading
    BY <1>2, <2>1 DEF SdData, Reading, Narrow, SdOnes
  <2> QED
    BY <1>2, <2>1, <2>2, MovingKeeps DEF SdData
<1> QED
  BY <1>1, <1>2

LEMMA SdSetIosKeeps ==
  ASSUME IInv, SdSetIos
  PROVE  IInv'
PROOF
<1>1. /\ pc = "setIos" /\ pc' = "cmd16" /\ host' = [host EXCEPT !.width = 4]
      /\ UNCHANGED <<card, inst, rcaCount, back, try, call, faults>>
  BY DEF SdSetIos, SetIos
<1>2. TypeOK /\ Identified /\ host \in HostRecord
  BY DEF IInv, TypeOK
<1>3. host' \in HostRecord /\ host'.width = 4
  BY <1>1, <1>2 DEF HostRecord
<1>4. pc \in Sized \cap Named /\ pc' \in {"failed"} \cup Sized
  BY <1>1 DEF Sized, Named, Last
<1>5. TypeOK'
  BY <1>1, <1>2, <1>3, <1>4, StillTyped DEF TypeOK
<1>6. Identified'
  BY <1>1, <1>2, <1>3, <1>4 DEF Identified, SizesAgree, NamesAgree, WidthsAgree, BySector, Asking,
     Narrow, SdOnes, EmmcOnes, Timing, Last, Reading
<1> QED
  BY <1>1, <1>4, <1>5, <1>6, StillIdentifying, BeforeCalls

LEMMA EmmcSwitchedKeeps ==
  ASSUME IInv, EmmcSwitched
  PROVE  IInv'
PROOF
<1>1. TypeOK /\ Identified /\ inst.rca \in Nat
  BY DEF IInv, TypeOK, InstRecord
<1>2. PICK f \in Fates("CMD13", inst.rca) :
        /\ SendCommand("CMD13", inst.rca, f)
        /\ pc' = CASE ~f.ok -> "failed"
                   [] f.ok /\ f.card.st = "prg" -> pc
                   [] OTHER -> CASE pc = "eNarrowed" -> "ecsd" [] pc = "eTimed" -> "eWide"
                                 [] OTHER -> "cmd16"
  BY DEF EmmcSwitched
<1>3. pc \in {"eNarrowed", "eTimed", "eWidened"} /\ UNCHANGED <<inst, rcaCount, back, try, call>>
  BY DEF EmmcSwitched
<1>4. /\ pc = "eWidened" => pc' \in {"failed", "eWidened", "cmd16"}
      /\ pc # "eWidened" => pc' \in {"failed", pc, "ecsd", "eWide"}
  <2>1. CASE ~f.ok
    BY <1>2, <2>1
  <2>2. CASE f.ok /\ f.card.st = "prg"
    BY <1>2, <2>2
  <2>3. CASE f.ok /\ f.card.st # "prg"
    BY <1>2, <1>3, <2>3
  <2> QED
    BY <2>1, <2>2, <2>3
<1>5. CASE pc # "eWidened"
  <2>1. pc \in Narrow \cap Named /\ pc' \in {"failed", "cmd16"} \cup Narrow /\ pc' \notin Reading
    BY <1>3, <1>4, <1>5 DEF Narrow, Named, Sized, EmmcOnes, Timing, Reading
  <2> QED
    BY <1>1, <1>2, <1>3, <2>1, SendingKeeps DEF TypeOK
<1>6. CASE pc = "eWidened"
  <2>1. Sent("CMD13", inst.rca, f) /\ host' \in HostRecord /\ host'.width = host.width
    BY <1>1, <1>2, SendCommandSends
  <2>2. /\ CardOK(card') /\ card'.kind = card.kind /\ card'.rca = card.rca
        /\ card'.width = card.width /\ (card'.alive => card.alive)
        /\ Open(card') => Open(card)
        /\ faults' \in Nat
    BY <2>1 DEF Sent, Kept
  <2>3. pc \in Sized \cap Named /\ pc' \in {"failed"} \cup Sized
    BY <1>4, <1>6 DEF Sized, Named, Last
  <2>4. TypeOK'
    BY <1>1, <1>3, <2>1, <2>2, <2>3, StillTyped DEF TypeOK
  <2>5. Identified'
    BY <1>1, <1>3, <1>4, <1>6, <2>1, <2>2, <2>3 DEF Identified, SizesAgree, NamesAgree, WidthsAgree,
       BySector, Asking, Narrow, SdOnes, EmmcOnes, Timing, Last, Reading
  <2> QED
    BY <1>3, <2>2, <2>3, <2>4, <2>5, StillIdentifying, BeforeCalls
<1> QED
  BY <1>5, <1>6
LEMMA EmmcWidenKeeps ==
  ASSUME IInv, EmmcWiden
  PROVE  IInv'
PROOF
<1>1. TypeOK /\ Identified /\ host \in HostRecord
  BY DEF IInv, TypeOK
<1>2. UNCHANGED <<inst, rcaCount, back, try, call>>
  BY DEF EmmcWiden
<1>3. CASE pc = "eWide"
  <2>1. pc' = "eWider" /\ host' = [host EXCEPT !.width = 8] /\ UNCHANGED <<card, faults>>
    BY <1>3 DEF EmmcWiden, SetIos
  <2>2. host' \in HostRecord /\ host'.width = 8
    BY <1>1, <2>1 DEF HostRecord
  <2>3. pc \in Sized \cap Named /\ pc' \in {"failed"} \cup Sized
    BY <1>3, <2>1 DEF Sized, Named, EmmcOnes, Timing
  <2>4. TypeOK'
    BY <1>1, <1>2, <2>1, <2>2, <2>3, StillTyped DEF TypeOK
  <2>5. Identified'
    BY <1>1, <1>2, <2>1, <2>2, <2>3 DEF Identified, SizesAgree, NamesAgree, BySector, Asking,
       Narrow, SdOnes, EmmcOnes, Timing, Last, Reading
  <2> QED
    BY <1>2, <2>1, <2>3, <2>4, <2>5, StillIdentifying, BeforeCalls
<1>4. CASE pc # "eWide"
  <2>1. PICK f \in Fates("CMD6", 8) :
          /\ pc = "eWider" /\ SendCommand("CMD6", 8, f)
          /\ pc' = IF f.ok THEN "eWidened" ELSE "failed"
    BY <1>4 DEF EmmcWiden, Widening
  <2>2. Sent("CMD6", 8, f) /\ host' \in HostRecord /\ host'.width = host.width
    BY <1>1, <2>1, SendCommandSends
  <2>3. /\ CardOK(card') /\ card'.kind = card.kind /\ card'.rca = card.rca
        /\ (card'.alive => card.alive) /\ (f.ok => card'.width = 8)
        /\ Open(card') => Open(card)
        /\ faults' \in Nat
    BY <2>2 DEF Sent, Kept, WidthAfter
  <2>4. pc \in Sized \cap Named /\ pc' \in {"failed"} \cup Sized
    BY <2>1 DEF Sized, Named
  <2>5. TypeOK'
    BY <1>1, <1>2, <2>2, <2>3, <2>4, StillTyped DEF TypeOK
  <2>6. Identified'
    BY <1>1, <1>2, <2>1, <2>2, <2>3, <2>4 DEF Identified, SizesAgree, NamesAgree, WidthsAgree,
       BySector, Asking, Narrow, SdOnes, EmmcOnes, Timing, Last, Reading
  <2> QED
    BY <1>2, <2>3, <2>4, <2>5, <2>6, StillIdentifying, BeforeCalls
<1> QED
  BY <1>3, <1>4

LEMMA EmmcEcsdKeeps ==
  ASSUME IInv, EmmcReadEcsd \/ EmmcEcsdData
  PROVE  IInv'
PROOF
<1>1. TypeOK /\ Identified
  BY DEF IInv
<1>2. CASE EmmcReadEcsd
  <2>1. pc = "ecsd" /\ UNCHANGED <<card, inst, rcaCount, back, try, call, faults>>
    BY <1>2 DEF EmmcReadEcsd
  <2>2. pc \in Narrow \cap Named \cap Sized
    BY <2>1 DEF Narrow, Named, Sized, EmmcOnes, Timing
  <2>3. CASE pc' = "failed" /\ UNCHANGED host
    <3>1. pc' \in {"failed"} \cup Sized
      BY <2>3
    <3>2. TypeOK'
      BY <1>1, <2>1, <2>3, <3>1, StillTyped DEF TypeOK
    <3>3. Identified'
      BY <1>1, <2>1, <2>2, <2>3, NothingRenamed DEF Named, Sized, SdOnes, EmmcOnes, Timing, Last,
         Reading
    <3> QED
      BY <2>1, <2>2, <3>1, <3>2, <3>3, StillIdentifying, BeforeCalls
  <2>4. CASE pc' = "ecsdData" /\ StoreCommand("CMD8", 0)
    <3>1. pc' \in Narrow
      BY <2>4 DEF Narrow, EmmcOnes, Timing
    <3> QED
      BY <2>1, <2>2, <2>4, <3>1, StoringKeeps
  <2> QED
    BY <1>2, <2>3, <2>4 DEF EmmcReadEcsd
<1>3. CASE EmmcEcsdData
  <2>1. PICK f \in DataFates : MoveData(f) /\ pc' = IF f.ok THEN "ecsdPassed" ELSE "failed"
    BY <1>3 DEF EmmcEcsdData
  <2>2. pc \in Reading /\ pc' \in {"failed", "cmd16"} \cup Narrow /\ pc' \notin Reading
    BY <1>3, <2>1 DEF EmmcEcsdData, Reading, Narrow, EmmcOnes, Timing
  <2> QED
    BY <1>3, <2>1, <2>2, MovingKeeps DEF EmmcEcsdData
<1> QED
  BY <1>2, <1>3

LEMMA EmmcSetUpMediaKeeps ==
  ASSUME IInv, EmmcSetUpMedia
  PROVE  IInv'
PROOF
<1>1. inst \in InstRecord /\ inst.rca \in Nat
  BY DEF IInv, TypeOK, InstRecord
<1>2. PICK f \in Fates("CMD13", inst.rca) :
        /\ SendCommand("CMD13", inst.rca, f)
        /\ CASE ~f.ok -> pc' = "failed" /\ UNCHANGED inst
             [] f.ok /\ f.card.st = "data" -> UNCHANGED <<pc, inst>>
             [] OTHER -> /\ pc' \in {"eTiming", "cmd16"}
                         /\ inst' = [inst EXCEPT !.last = LastBlock, !.type = "emmc"]
  BY DEF EmmcSetUpMedia
<1>3. pc = "ecsdPassed" /\ UNCHANGED <<rcaCount, back, try, call>>
  BY DEF EmmcSetUpMedia
<1>4. /\ UNCHANGED inst \/ inst' = [inst EXCEPT !.last = LastBlock, !.type = "emmc"]
      /\ pc' \in {"failed", "ecsdPassed", "eTiming", "cmd16"}
  <2>1. CASE ~f.ok
    BY <1>2, <2>1
  <2>2. CASE f.ok /\ f.card.st = "data"
    BY <1>2, <1>3, <2>2
  <2>3. CASE f.ok /\ f.card.st # "data"
    BY <1>2, <2>3
  <2> QED
    BY <2>1, <2>2, <2>3
<1>5. inst' \in InstRecord /\ inst'.rca = inst.rca /\ inst'.sector = inst.sector
  <2>1. LastBlock \in Nat /\ "emmc" \in Types
    BY CountsAssumption DEF CountsAssumption, Types
  <2> QED
    BY <1>1, <1>4, <2>1 DEF InstRecord
<1>6. pc \in Narrow \cap Named /\ pc' \in {"failed", "cmd16"} \cup Narrow /\ pc' \notin Reading
  BY <1>3, <1>4 DEF Narrow, Named, Sized, EmmcOnes, Timing, Reading
<1> QED
  BY <1>1, <1>2, <1>3, <1>5, <1>6, SendingKeeps

(* The end of an identification: with success, everything agrees.          *)
LEMMA InitializedKeeps ==
  ASSUME IInv, Initialized
  PROVE  IInv'
PROOF
<1>1. TypeOK /\ Identified /\ inst \in InstRecord /\ back \in {"idle", "inserted"}
  BY DEF IInv, TypeOK
<1>2. pc' = back /\ UNCHANGED <<rcaCount, back, try, call>> /\ pc \in {"cmd23", "failed"}
  BY DEF Initialized
<1>3. /\ CardOK(card') /\ card'.kind = card.kind /\ card'.rca = card.rca
      /\ card'.width = card.width /\ (card'.alive => card.alive)
      /\ Open(card') => Open(card)
      /\ card.st \in Working => card'.st \in Working
      /\ faults' \in Nat /\ host' \in HostRecord /\ host'.width = host.width
      /\ inst' \in InstRecord /\ inst'.rca = inst.rca /\ inst'.sector = inst.sector
      /\ inst'.ok => pc = "cmd23"
  <2>1. CASE pc = "cmd23" /\ inst.type = "mmc"
    <3>1. PICK f \in Fates("CMD23", 1) :
            SendCommand("CMD23", 1, f) /\ inst' = [inst EXCEPT !.ok = f.ok]
      BY <2>1 DEF Initialized
    <3>2. Sent("CMD23", 1, f) /\ host' \in HostRecord /\ host'.width = host.width
      BY <1>1, <3>1, SendCommandSends
    <3>3. f.ok \in BOOLEAN
      BY <3>2 DEF Sent, Kept
    <3>4. inst' \in InstRecord /\ inst'.rca = inst.rca /\ inst'.sector = inst.sector
      BY <1>1, <3>1, <3>3 DEF InstRecord
    <3> QED
      BY <2>1, <3>2, <3>4 DEF Sent, Kept
  <2>2. CASE ~(pc = "cmd23" /\ inst.type = "mmc")
    <3>1. inst' = [inst EXCEPT !.ok = pc # "failed"] /\ UNCHANGED <<card, host, faults>>
      BY <2>2 DEF Initialized
    <3>2. (pc # "failed") \in BOOLEAN
      OBVIOUS
    <3>3. inst' \in InstRecord /\ inst'.rca = inst.rca /\ inst'.sector = inst.sector
          /\ (inst'.ok <=> pc # "failed")
      BY <1>1, <3>1, <3>2 DEF InstRecord
    <3> QED
      BY <1>1, <1>2, <3>1, <3>3 DEF TypeOK
  <2> QED
    BY <2>1, <2>2
<1>4. TypeOK'
  BY <1>1, <1>2, <1>3, StillTyped DEF TypeOK
<1>5. Identified'
  BY <1>1, <1>2 DEF Identified, Asking, Narrow, Sized, Named, SdOnes, EmmcOnes, Timing, Last, Reading
<1>6. Fits'
  <2>1. ASSUME pc = "cmd23"
        PROVE  NamesAgree /\ SizesAgree /\ WidthsAgree /\ (card.alive => card.st \in Working)
    BY <1>1, <2>1 DEF Identified, Named, Sized, Last
  <2> QED
    BY <1>3, <2>1 DEF Fits, NamesAgree, SizesAgree, WidthsAgree, BySector
<1>7. pc \notin Calls \cup {"stopped"} /\ pc' \notin Transfers
  BY <1>1, <1>2 DEF Calls, Transfers
<1> QED
  BY <1>2, <1>3, <1>4, <1>5, <1>6, <1>7, BeforeCalls
-----------------------------------------------------------------------------
(* The calls                                                               *)

ChunkOf(left) == IF left <= MaxBlock THEN left ELSE MaxBlock

LEMMA ChunkIsPositive ==
  ASSUME NEW left \in Nat, left > 0
  PROVE  ChunkOf(left) \in Nat /\ ChunkOf(left) > 0 /\ ChunkOf(left) <= left
PROOF
<1>1. MaxBlock \in Nat \ {0}
  BY CountsAssumption DEF CountsAssumption
<1> QED
  BY <1>1 DEF ChunkOf

(* During calls the instance and the card stay as they were initialised.   *)
LEMMA FitsKeeps ==
  ASSUME Fits, pc \in Calls, pc' \in Calls \cup {"stopped"}, UNCHANGED inst,
         card'.kind = card.kind, card'.rca = card.rca, card'.width = card.width,
         card'.alive => card.alive, card.st \in Working => card'.st \in Working,
         host'.width = host.width
  PROVE  Fits' /\ Identified'
PROOF
<1>1. Fits'
  BY DEF Fits, NamesAgree, SizesAgree, WidthsAgree, BySector
<1>2. Identified'
  BY DEF Identified, Calls, Transfers, Asking, Narrow, Sized, Named, SdOnes, EmmcOnes, Timing, Last,
         Reading
<1> QED
  BY <1>1, <1>2

(* A poll: where it goes, and that a card in "tran" is in time.            *)
LEMMA PollGoes ==
  ASSUME NEW inTime, NEW last, NEW never, PollReady(inTime, last, never)
  PROVE  \E f \in Fates("CMD13", inst.rca) :
           /\ SendCommand("CMD13", inst.rca, f) /\ try' = try - 1
           /\ \/ pc' = inTime.pc /\ call' = inTime.call
              \/ pc' = last.pc /\ call' = last.call
              \/ pc' = never.pc /\ call' = never.call
              \/ UNCHANGED <<pc, call>>
           /\ f.ok /\ f.card.st = "tran" /\ try' > 0 =>
                pc' = inTime.pc /\ call' = inTime.call
PROOF
<1>1. PICK f \in Fates("CMD13", inst.rca) :
        /\ SendCommand("CMD13", inst.rca, f) /\ try' = try - 1
        /\ \E ready \in ReadyForData(f.card) :
             \/ (f.ok /\ (ready \/ f.card.st = "tran")) /\ try' > 0
                /\ pc' = inTime.pc /\ call' = inTime.call
             \/ (f.ok /\ (ready \/ f.card.st = "tran")) /\ try' = 0
                /\ pc' = last.pc /\ call' = last.call
             \/ ~(f.ok /\ (ready \/ f.card.st = "tran")) /\ try' = 0
                /\ pc' = never.pc /\ call' = never.call
             \/ ~(f.ok /\ (ready \/ f.card.st = "tran")) /\ try' > 0 /\ UNCHANGED <<pc, call>>
  BY DEF PollReady, TimeoutRuns
<1>2. \/ pc' = inTime.pc /\ call' = inTime.call
      \/ pc' = last.pc /\ call' = last.call
      \/ pc' = never.pc /\ call' = never.call
      \/ UNCHANGED <<pc, call>>
  BY <1>1
<1>3. ASSUME f.ok, f.card.st = "tran", try' > 0
      PROVE  pc' = inTime.pc /\ call' = inTime.call
  <2>1. try' # 0
    BY <1>3
  <2> QED
    BY <1>1, <1>3, <2>1
<1> QED
  BY <1>1, <1>2, <1>3

(* CMD13 changes nothing a call relies on, and without a fault the card    *)
(* answers it.                                                             *)
LEMMA AskingTheState ==
  ASSUME IInv, pc \in Calls, NEW f, SendCommand("CMD13", inst.rca, f)
  PROVE  /\ CardOK(card') /\ card'.kind = card.kind /\ card'.rca = card.rca
         /\ card'.width = card.width /\ (card'.alive => card.alive)
         /\ Open(card') => Open(card)
         /\ card.st \in Working => card'.st \in Working
         /\ host' \in HostRecord /\ host'.width = host.width /\ host'.cmd = host.cmd
         /\ faults' \in Nat /\ faults' <= faults /\ ~card.busy /\ card' = f.card
         /\ inst.ok /\ card.alive /\ faults' = faults =>
              /\ f.ok /\ card'.alive /\ card'.st = card.st /\ card'.stream = card.stream
              /\ card'.busy = card.busy
PROOF
<1>1. TypeOK /\ CardOK(card) /\ inst.rca \in Nat /\ Fits
  BY DEF IInv, TypeOK, InstRecord
<1>2. /\ f \in Fates("CMD13", inst.rca) /\ ~card.busy /\ Sent("CMD13", inst.rca, f)
      /\ host' \in HostRecord /\ host'.width = host.width /\ host'.cmd = host.cmd
  BY <1>1, SendCommandSends
<1>3. ASSUME inst.ok, card.alive, faults' = faults
      PROVE  /\ f.ok /\ card'.alive /\ card'.st = card.st /\ card'.stream = card.stream
             /\ card'.busy = card.busy
  <2>1. Accepts(card, "CMD13", inst.rca)
    BY <1>1, <1>3 DEF Accepts, LegalIn, KnownTo, Fits, NamesAgree, SizesAgree, Working, CardOK,
                      CardRecord, Kinds, Mmc, Sd
  <2>2. f.ok /\ f.card \in After(card, "CMD13", inst.rca)
    BY <1>1, <1>2, <1>3, <2>1, FaultlessFates DEF Sent
  <2>3. f.card = [card EXCEPT !.app = FALSE]
    BY <2>2 DEF After, Reads, Writes
  <2> QED
    BY <1>1, <1>2, <1>3, <2>2, <2>3 DEF Sent, CardOK, CardRecord
<1> QED
  BY <1>2, <1>3 DEF Sent, Kept
(* The parts of the invariant, as the steps of a call need them.           *)
LEMMA CallFacts ==
  ASSUME IInv, pc \in Transfers
  PROVE  /\ TypeOK /\ CardOK(card) /\ host \in HostRecord /\ inst \in InstRecord
         /\ DOMAIN call = DOMAIN NoCall /\ faults \in Nat /\ try \in Int
         /\ call.lba \in Nat /\ call.left \in Nat /\ call.at \in Nat /\ call.n \in Nat
         /\ call.op \in {"read", "write"} /\ call.result = "none" /\ call.left > 0
         /\ call.budget \in Nat /\ call.good \in BOOLEAN /\ call.stopLost \in BOOLEAN
         /\ call.at + call.left = call.n /\ call.at <= call.lba /\ faults <= call.budget
         /\ Chunk = ChunkOf(call.left) /\ Chunk \in Nat /\ Chunk > 0 /\ Chunk <= call.left
         /\ pc \in Calls /\ Fits
PROOF
<1>1. TypeOK /\ InTransfer /\ Asked /\ Fits
  BY DEF IInv
<1>2. call.op \in {"read", "write"} /\ call.left > 0 /\ call.result = "none"
      /\ call.at + call.left = call.n /\ call.at <= call.lba
  BY <1>1 DEF InTransfer
<1>3. faults <= call.budget
  BY <1>1, <1>2 DEF Asked
<1>4. call.left \in Nat /\ Chunk = ChunkOf(call.left)
  BY <1>1 DEF TypeOK, Chunk, ChunkOf
<1>5. Chunk \in Nat /\ Chunk > 0 /\ Chunk <= call.left
  BY <1>2, <1>4, ChunkIsPositive
<1> QED
  BY <1>1, <1>2, <1>3, <1>4, <1>5 DEF TypeOK, Calls

LEMMA CheckReadyKeeps ==
  ASSUME IInv, CheckReady
  PROVE  IInv'
PROOF
<1>1. pc = "ready" /\ UNCHANGED <<inst, rcaCount, back>>
  BY DEF CheckReady
<1>2. pc \in Transfers
  BY <1>1 DEF Transfers
<1> DEFINE idle == [call EXCEPT !.result = "not ready"]
<1>3. PICK f \in Fates("CMD13", inst.rca) :
        /\ SendCommand("CMD13", inst.rca, f) /\ try' = try - 1
        /\ \/ pc' = "command" /\ call' = call
           \/ pc' = "idle" /\ call' = idle
           \/ UNCHANGED <<pc, call>>
        /\ f.ok /\ f.card.st = "tran" /\ try' > 0 => pc' = "command" /\ call' = call
  <2> DEFINE command == [pc |-> "command", call |-> call]
             busy    == [pc |-> "idle", call |-> idle]
  <2>1. PollReady(command, busy, command)
    BY DEF CheckReady, Status
  <2>2. command.pc = "command" /\ command.call = call /\ busy.pc = "idle" /\ busy.call = idle
    OBVIOUS
  <2> HIDE DEF command, busy, idle
  <2> QED
    BY <2>1, <2>2, PollGoes
<1> HIDE DEF idle
<1>4. /\ CardOK(card') /\ card'.kind = card.kind /\ card'.rca = card.rca
      /\ card'.width = card.width /\ (card'.alive => card.alive)
      /\ Open(card') => Open(card)
      /\ card.st \in Working => card'.st \in Working
      /\ host' \in HostRecord /\ host'.width = host.width
      /\ faults' \in Nat /\ faults' <= faults /\ ~card.busy /\ card' = f.card
      /\ inst.ok /\ card.alive /\ faults' = faults => f.ok /\ card'.alive /\ card'.st = card.st
  BY <1>2, <1>3, AskingTheState DEF Calls
<1>5. /\ DOMAIN call' = DOMAIN call /\ call'.op = call.op /\ call'.lba = call.lba
      /\ call'.n = call.n /\ call'.left = call.left /\ call'.at = call.at
      /\ call'.moved = call.moved /\ call'.good = call.good /\ call'.budget = call.budget
      /\ call'.stopLost = call.stopLost
      /\ pc' = "idle" \/ call' = call
  BY <1>2, <1>3, CallFacts DEF NoCall, idle
<1>6. pc' \in {"command", "idle", "ready"}
  BY <1>1, <1>3
<1>7. TypeOK'
  BY <1>1, <1>2, <1>3, <1>4, <1>5, <1>6, CallFacts DEF TypeOK, Transfers
<1>8. Fits' /\ Identified'
  BY <1>1, <1>2, <1>4, <1>6, CallFacts, FitsKeeps DEF Calls, Transfers
<1>9. InTransfer' /\ Pending' /\ Asked'
  BY <1>2, <1>4, <1>5, <1>6, CallFacts DEF InTransfer, Pending, Asked, Calls, Transfers
<1>10. Closed'
  BY <1>1, <1>4, <1>5 DEF Closed, IInv
<1>11. ASSUME call.good, call.budget = faults'
       PROVE  /\ pc' = "command" /\ call' = call /\ card'.st = "tran" /\ card'.alive /\ inst.ok
              /\ call.moved = MovedTo(call.at)
  <2>1. faults = faults' /\ call.budget = faults
    BY <1>2, <1>4, <1>11, CallFacts
  <2>2. inst.ok /\ card.alive /\ Ready /\ try = ReadyTries /\ call.moved = MovedTo(call.at)
    BY <1>1, <1>2, <1>11, <2>1 DEF IInv, GoesWell
  <2>3. card.st = "tran"
    BY <1>4, <2>2 DEF Ready
  <2>4. try' > 0
    BY <1>3, <2>2, CountsAssumption DEF CountsAssumption
  <2> QED
    BY <1>3, <1>4, <2>1, <2>2, <2>3, <2>4
<1>12. GoesWell'
  BY <1>1, <1>5, <1>6, <1>11 DEF GoesWell, MovedTo
<1>13. CleanCallMovesAll'
  BY <1>5, <1>11 DEF CleanCallMovesAll, Clean, Returned
<1> QED
  BY <1>7, <1>8, <1>9, <1>10, <1>12, <1>13 DEF IInv
LEMMA CommandKeeps ==
  ASSUME IInv, Command
  PROVE  IInv'
PROOF
<1> DEFINE cmd == CASE call.op = "read"  -> IF Chunk = 1 THEN "CMD17" ELSE "CMD18"
                    [] call.op = "write" -> IF Chunk = 1 THEN "CMD24" ELSE "CMD25"
           arg == IF inst.sector THEN call.lba ELSE call.lba * BlockBytes
<1>1. /\ pc = "command" /\ pc' = "data" /\ cmd \in Reads \cup Writes
      /\ host' = [host EXCEPT !.cmd = cmd, !.arg = arg, !.app = FALSE]
      /\ UNCHANGED <<card, inst, rcaCount, back, try, call, faults>>
  BY DEF Command, StoreCommand
<1>2. pc \in Transfers
  BY <1>1 DEF Transfers
<1>3. cmd = IF call.op = "read" THEN IF Several THEN "CMD18" ELSE "CMD17"
            ELSE IF Several THEN "CMD25" ELSE "CMD24"
  BY <1>2, CallFacts DEF Several
<1>4. arg \in Nat
  <2>1. BlockBytes \in Nat /\ call.lba \in Nat
    BY <1>2, BlockBytesAssumption, CallFacts DEF BlockBytesAssumption
  <2>2. call.lba * BlockBytes \in Nat
    BY <2>1
  <2> QED
    BY <2>1, <2>2
<1> HIDE DEF cmd, arg
<1>5. host' \in HostRecord /\ host'.width = host.width /\ host'.cmd = cmd /\ host'.arg = arg
  BY <1>1, <1>2, <1>4, CallFacts DEF HostRecord
<1>6. TypeOK'
  BY <1>1, <1>2, <1>5, CallFacts DEF TypeOK, Transfers
<1>7. Fits' /\ Identified'
  BY <1>1, <1>2, <1>5, CallFacts, FitsKeeps DEF Calls, Transfers
<1>8. InTransfer' /\ Pending' /\ Asked'
  BY <1>1, <1>2, <1>3, <1>5, CallFacts DEF InTransfer, Pending, Asked, Calls, Transfers, Several,
     Chunk
<1>9. Closed'
  BY <1>1 DEF Closed, IInv
<1>10. GoesWell'
  <2>1. GoesWell
    BY DEF IInv
  <2> QED
    BY <1>1, <1>2, <1>5, <2>1 DEF GoesWell, MovedTo, arg
<1>11. CleanCallMovesAll'
  BY <1>1 DEF CleanCallMovesAll, Clean, Returned
<1> QED
  BY <1>6, <1>7, <1>8, <1>9, <1>10, <1>11 DEF IInv

(* A faultless command of a call is taken, and leaves the card in progress. *)
LEMMA TakenWithoutFault ==
  ASSUME CardOK(card), card.st = "tran", card.alive, NEW cmd \in IoCmds, NEW arg,
         NEW g \in Fates(cmd, arg), ~g.fault
  PROVE  /\ g.ok /\ g.card.width = card.width /\ g.card.alive
         /\ cmd \in {"CMD17", "CMD18"} => /\ g.card.st = "data"
                                          /\ g.card.stream <=> cmd = "CMD18"
         /\ cmd \in {"CMD24", "CMD25"} => g.card.st = "rcv" /\ ~g.card.stream
PROOF
<1>1. card \in CardRecord /\ card.kind # "sdio" /\ ~card.stream
  BY DEF CardOK
<1>2. Accepts(card, cmd, arg)
  BY <1>1 DEF Accepts, LegalIn, KnownTo, IoCmds, CardRecord, Kinds, Mmc, Sd
<1>3. g.ok /\ g.card \in After(card, cmd, arg)
  BY <1>2, FaultlessFates DEF IoCmds
<1> DEFINE c0 == [card EXCEPT !.app = FALSE]
<1>4. /\ cmd \in {"CMD17", "CMD18"} => g.card = [c0 EXCEPT !.st = "data", !.stream = cmd = "CMD18"]
      /\ cmd \in {"CMD24", "CMD25"} => g.card = [c0 EXCEPT !.st = "rcv"]
  BY <1>3 DEF After, Reads, Writes, IoCmds
<1>5. c0 \in CardRecord /\ c0.width = card.width /\ c0.alive = card.alive /\ c0.stream = card.stream
  BY <1>1 DEF CardRecord
<1> HIDE DEF c0
<1>6. CASE cmd \in {"CMD17", "CMD18"}
  <2>1. (cmd = "CMD18") \in BOOLEAN
    OBVIOUS
  <2> QED
    BY <1>3, <1>4, <1>5, <1>6, <2>1 DEF CardRecord
<1>7. CASE cmd \in {"CMD24", "CMD25"}
  BY <1>1, <1>3, <1>4, <1>5, <1>7 DEF CardRecord
<1> QED
  BY <1>6, <1>7 DEF IoCmds

LEMMA FirstBlock ==
  ASSUME NEW lba \in Nat
  PROVE  (lba * BlockBytes) \div BlockBytes = lba
PROOF
<1>1. BlockBytes \in Nat \ {0}
  BY BlockBytesAssumption DEF BlockBytesAssumption
<1>2. \A a \in Nat, b \in Nat \ {0} : (a * b) \div b = a
  BY Z3
<1> QED
  BY <1>1, <1>2

(* Block i of a call that began at block x, and n of them behind "from".   *)
Placed(x, i) == <<x + i - 1, i - 1>>
Blocks(x, from, n) == [i \in 1 .. n |-> Placed(x, from + i)]

LEMMA MoreMoved ==
  ASSUME NEW k \in Nat, NEW n \in Nat, NEW x \in Int
  PROVE  Blocks(x, 0, k) \o Blocks(x, k, n) = Blocks(x, 0, k + n)
PROOF
<1>1. \A m \in Nat : Blocks(x, 0, m) = [i \in 1 .. m |-> Placed(x, i)]
  BY DEF Blocks
<1>2. [i \in 1 .. k |-> Placed(x, i)] \o [i \in 1 .. n |-> Placed(x, k + i)]
      = [i \in 1 .. (k + n) |-> Placed(x, i)]
  OBVIOUS
<1> QED
  BY <1>1, <1>2 DEF Blocks

LEMMA DataKeeps ==
  ASSUME IInv, Data
  PROVE  IInv'
PROOF
<1>1. pc = "data" /\ UNCHANGED <<inst, rcaCount, back>> /\ try' = SettleTries
  BY DEF Data
<1>2. PICK f \in DataFates :
        /\ MoveData(f)
        /\ pc' = IF f.ok THEN "settle" ELSE "abort"
        /\ call' = IF f.ok THEN [call EXCEPT !.moved = @ \o Moved] ELSE call
  BY DEF Data, DataFailed
<1>3. pc \in Transfers
  BY <1>1 DEF Transfers
<1>4. PICK g \in Fates(host.cmd, host.arg) :
        /\ ~card.busy /\ Kept(card, host.cmd, host.arg, g) /\ f.ok \in BOOLEAN
        /\ f.ok => /\ g.ok /\ host.width = g.card.width
                   /\ card' = DataPassed(g.card, host.cmd)
        /\ ~f.ok => card' = g.card /\ (g.ok => host.width # g.card.width)
        /\ faults' \in Nat /\ faults' <= faults /\ (faults' = faults => ~g.fault)
        /\ UNCHANGED host
  BY <1>2, <1>3, CallFacts, MoveDataMoves
<1>5. /\ CardOK(card') /\ card'.kind = card.kind /\ card'.rca = card.rca
      /\ card'.width = card.width /\ (card'.alive => card.alive)
      /\ card.st \in Working => card'.st \in Working
      /\ host.cmd \notin {"CMD18", "CMD24", "CMD25"} => (Open(card') => Open(card))
  BY <1>2, <1>3, CallFacts, MoveDataKeeps
<1>6. host.cmd = IF call.op = "read" THEN IF Several THEN "CMD18" ELSE "CMD17"
                 ELSE IF Several THEN "CMD25" ELSE "CMD24"
  BY <1>1 DEF IInv, Pending
<1>7. /\ DOMAIN call' = DOMAIN call /\ call'.op = call.op /\ call'.lba = call.lba
      /\ call'.n = call.n /\ call'.left = call.left /\ call'.at = call.at
      /\ call'.good = call.good /\ call'.budget = call.budget
      /\ call'.stopLost = call.stopLost /\ call'.result = call.result
      /\ f.ok => call'.moved = call.moved \o Moved
  BY <1>2, <1>3, <1>4, CallFacts DEF NoCall
<1>8. Chunk' = Chunk /\ (Several' <=> Several)
  BY <1>7 DEF Chunk, Several
<1>9. TypeOK'
  <2>1. SettleTries \in Int
    BY CountsAssumption DEF CountsAssumption
  <2> QED
    BY <1>1, <1>2, <1>3, <1>4, <1>5, <1>7, <2>1, CallFacts DEF TypeOK, Transfers
<1>10. Fits' /\ Identified'
  BY <1>1, <1>2, <1>3, <1>4, <1>5, CallFacts, FitsKeeps DEF Calls, Transfers
<1>11. InTransfer' /\ Pending' /\ Asked'
  BY <1>1, <1>2, <1>3, <1>4, <1>7, CallFacts DEF InTransfer, Pending, Asked, Calls, Transfers
<1>12. f.ok => card.st = "tran" /\ g.card.st \in Working
  <2>1. ASSUME f.ok
        PROVE  Accepts(card, host.cmd, host.arg)
    BY <1>4, <1>6, <2>1 DEF Kept
  <2>2. LegalIn(host.cmd) = {"tran"}
    BY <1>6 DEF LegalIn
  <2> QED
    BY <1>4, <1>6, <2>1, <2>2 DEF Accepts, Kept, Working
<1>13. Closed'
  <2>1. CASE Several \/ ~f.ok
    BY <1>2, <1>8, <2>1 DEF Closed
  <2>2. CASE ~Several /\ f.ok
    <3>1. host.cmd \in {"CMD17", "CMD24"} /\ ~card.stream
      BY <1>3, <1>6, <1>12, <2>2, CallFacts DEF CardOK
    <3>2. ~g.card.stream /\ CardOK(g.card)
      BY <1>4, <3>1 DEF Kept
    <3>3. ~Open(card')
      BY <1>4, <1>12, <2>2, <3>1, <3>2, DataPassedFields DEF Open
    <3> QED
      BY <3>3 DEF Closed
  <2> QED
    BY <2>1, <2>2
<1>14. ASSUME call.good, call.budget = faults'
       PROVE  /\ inst.ok /\ f.ok /\ card'.alive /\ AsSent'
              /\ call'.moved = MovedTo(call.at + Chunk)
  <2>1. faults = faults' /\ call.budget = faults
    BY <1>3, <1>4, <1>14, CallFacts
  <2>2. /\ inst.ok /\ card.alive /\ card.st = "tran" /\ call.moved = MovedTo(call.at)
        /\ host.arg = IF inst.sector THEN call.lba ELSE call.lba * BlockBytes
    BY <1>1, <1>3, <1>14, <2>1 DEF IInv, GoesWell
  <2>3. SizesAgree /\ WidthsAgree
    BY <1>3, <2>2, CallFacts DEF Fits
  <2>4. /\ g.ok /\ g.card.width = card.width /\ g.card.alive
        /\ host.cmd \in {"CMD17", "CMD18"} => /\ g.card.st = "data"
                                              /\ g.card.stream <=> host.cmd = "CMD18"
        /\ host.cmd \in {"CMD24", "CMD25"} => g.card.st = "rcv" /\ ~g.card.stream
    <3>1. host.cmd \in IoCmds
      BY <1>6 DEF IoCmds
    <3> QED
      BY <1>3, <1>4, <2>1, <2>2, <3>1, CallFacts, TakenWithoutFault
  <2>5. f.ok
    BY <1>4, <2>2, <2>3, <2>4 DEF WidthsAgree
  <2>6. /\ card'.alive
        /\ host.cmd = "CMD17" => card'.st = "tran"
        /\ host.cmd = "CMD18" => card'.st = "data" /\ card'.stream
        /\ host.cmd = "CMD24" => card'.st = "prg" /\ card'.busy
        /\ host.cmd = "CMD25" => card'.st = "rcv"
    <3>1. CardOK(g.card) /\ card' = DataPassed(g.card, host.cmd)
      BY <1>4, <2>5 DEF Kept
    <3> QED
      BY <1>12, <2>4, <2>5, <3>1, DataPassedFields
  <2>7. AsSent'
    BY <1>3, <1>6, <1>7, <1>8, <2>6, CallFacts DEF AsSent, Ready
  <2>8. Moved = [i \in 1 .. Chunk |-> <<call.lba + i - 1, call.at + i - 1>>]
    <3>1. (IF BySector(card) THEN host.arg ELSE host.arg \div BlockBytes) = call.lba
      BY <1>3, <2>2, <2>3, FirstBlock, CallFacts DEF SizesAgree
    <3> QED
      BY <3>1 DEF Moved
  <2>9. call.moved \o Moved = MovedTo(call.at + Chunk)
    <3> DEFINE x == call.lba - call.at
    <3>1. x \in Int /\ call.lba = x + call.at /\ call.at \in Nat /\ Chunk \in Nat
      BY <1>3, CallFacts
    <3>2. call.moved = Blocks(x, 0, call.at)
      BY <2>2, <3>1 DEF MovedTo, Blocks, Placed
    <3>3. Moved = Blocks(x, call.at, Chunk)
      BY <2>8, <3>1 DEF Blocks, Placed
    <3> HIDE DEF x
    <3>4. call.moved \o Moved = Blocks(x, 0, call.at + Chunk)
      BY <3>1, <3>2, <3>3, MoreMoved
    <3> QED
      BY <3>1, <3>4 DEF MovedTo, Blocks, Placed, x
  <2> QED
    BY <1>7, <2>2, <2>5, <2>6, <2>7, <2>9
<1>15. GoesWell'
  BY <1>1, <1>2, <1>7, <1>8, <1>14 DEF GoesWell, MovedTo
<1>16. CleanCallMovesAll'
  BY <1>2 DEF CleanCallMovesAll, Clean, Returned
<1> QED
  BY <1>9, <1>10, <1>11, <1>13, <1>15, <1>16 DEF IInv
LEMMA SettleKeeps ==
  ASSUME IInv, Settle
  PROVE  IInv'
PROOF
<1>1. pc = "settle" /\ UNCHANGED <<inst, rcaCount, back>>
  BY DEF Settle
<1>2. pc \in Transfers
  BY <1>1 DEF Transfers
<1>3. PICK f \in Fates("CMD13", inst.rca) :
        /\ SendCommand("CMD13", inst.rca, f) /\ try' = try - 1 /\ UNCHANGED call
        /\ pc' = (IF Several THEN "stop" ELSE "next") \/ pc' = pc
  <2> DEFINE after == [pc |-> IF Chunk > 1 THEN "stop" ELSE "next", call |-> call]
  <2>1. PollReady(after, after, after)
    BY DEF Settle
  <2>2. after.pc = (IF Several THEN "stop" ELSE "next") /\ after.call = call
    BY DEF Several
  <2> HIDE DEF after
  <2> QED
    BY <2>1, <2>2, PollGoes
<1>4. /\ CardOK(card') /\ card'.kind = card.kind /\ card'.rca = card.rca
      /\ card'.width = card.width /\ (card'.alive => card.alive)
      /\ Open(card') => Open(card)
      /\ card.st \in Working => card'.st \in Working
      /\ host' \in HostRecord /\ host'.width = host.width
      /\ faults' \in Nat /\ faults' <= faults
      /\ inst.ok /\ card.alive /\ faults' = faults =>
           /\ card'.alive /\ card'.st = card.st /\ card'.stream = card.stream
           /\ card'.busy = card.busy
  BY <1>2, <1>3, AskingTheState DEF Calls
<1>5. pc' \in {"settle", "stop", "next"} /\ (pc' = "stop" => Several) /\ (pc' = "next" => ~Several)
  BY <1>1, <1>3
<1>6. Chunk' = Chunk /\ (Several' <=> Several)
  BY <1>3 DEF Chunk, Several
<1>7. TypeOK'
  BY <1>1, <1>2, <1>3, <1>4, <1>5, CallFacts DEF TypeOK, Transfers
<1>8. Fits' /\ Identified'
  BY <1>1, <1>2, <1>4, <1>5, CallFacts, FitsKeeps DEF Calls, Transfers
<1>9. InTransfer' /\ Pending' /\ Asked'
  BY <1>2, <1>3, <1>4, <1>5, <1>6, CallFacts DEF InTransfer, Pending, Asked, Calls, Transfers
<1>10. Closed'
  BY <1>1, <1>3, <1>4, <1>5, <1>6 DEF Closed, IInv
<1>11. ASSUME call.good, call.budget = faults'
       PROVE  /\ inst.ok /\ card'.alive /\ AsSent' /\ (pc' = "next" => Ready')
              /\ call.moved = MovedTo(call.at + Chunk)
  <2>1. faults = faults' /\ call.budget = faults
    BY <1>2, <1>4, <1>11, CallFacts
  <2>2. inst.ok /\ card.alive /\ AsSent /\ call.moved = MovedTo(call.at + Chunk)
    BY <1>1, <1>2, <1>11, <2>1 DEF IInv, GoesWell
  <2>3. card'.alive /\ card'.st = card.st /\ card'.stream = card.stream /\ card'.busy = card.busy
    BY <1>4, <2>1, <2>2
  <2>4. AsSent' /\ (pc' = "next" => Ready')
    BY <1>3, <1>5, <1>6, <2>2, <2>3 DEF AsSent, Ready
  <2> QED
    BY <2>2, <2>3, <2>4
<1>12. GoesWell'
  BY <1>1, <1>3, <1>5, <1>6, <1>11 DEF GoesWell, MovedTo
<1>13. CleanCallMovesAll'
  BY <1>5 DEF CleanCallMovesAll, Clean, Returned
<1> QED
  BY <1>7, <1>8, <1>9, <1>10, <1>12, <1>13 DEF IInv

(* CMD12 closes what is open, unless it goes astray.                       *)
LEMMA StoppedWithoutFault ==
  ASSUME CardOK(card), NEW g \in Fates("CMD12", 0), ~g.fault
  PROVE  /\ ~Open(g.card)
         /\ card.alive /\ card.st \in {"data", "rcv"} =>
              g.card.alive /\ (g.card.st = "tran" \/ (g.card.st = "prg" /\ g.card.busy))
PROOF
<1> DEFINE c0 == [card EXCEPT !.app = FALSE]
<1>1. /\ card \in CardRecord /\ (card.stream => card.st = "data")
      /\ card.st # "idle" => card.kind # "sdio"
  BY DEF CardOK
<1>2. Accepts(card, "CMD12", 0) <=> card.alive /\ card.st \in {"data", "rcv"}
  BY <1>1 DEF Accepts, LegalIn, KnownTo, CardRecord, Kinds, Mmc, Sd
<1>3. c0 \in CardRecord /\ c0.st = card.st /\ c0.stream = card.stream /\ c0.alive = card.alive
  BY <1>1 DEF CardRecord
<1>4. CASE card.alive /\ card.st \in {"data", "rcv"}
  <2>1. g.card \in After(card, "CMD12", 0)
    BY <1>2, <1>4, FaultlessFates
  <2>2. g.card = IF c0.st = "data" THEN [c0 EXCEPT !.st = "tran", !.stream = FALSE]
                 ELSE [c0 EXCEPT !.st = "prg", !.busy = TRUE]
    BY <2>1 DEF After, Reads, Writes, Programming
  <2> HIDE DEF c0
  <2> QED
    BY <1>1, <1>3, <1>4, <2>2 DEF CardRecord, Open
<1>5. CASE ~(card.alive /\ card.st \in {"data", "rcv"})
  <2>1. g.card = c0
    BY <1>2, <1>5, FaultlessFates
  <2> HIDE DEF c0
  <2> QED
    BY <1>1, <1>3, <1>5, <2>1 DEF Open
<1> QED
  BY <1>4, <1>5

LEMMA StopTransmissionKeeps ==
  ASSUME IInv, StopTransmission
  PROVE  IInv'
PROOF
<1>1. pc \in {"stop", "abort"} /\ pc' = "next" /\ UNCHANGED <<inst, rcaCount, back, try>>
  BY DEF StopTransmission
<1>2. pc \in Transfers
  BY <1>1 DEF Transfers
<1>3. PICK f \in Fates("CMD12", 0) :
        /\ SendCommand("CMD12", 0, f)
        /\ call' = [call EXCEPT !.stopLost = @ \/ f.fault]
  BY DEF StopTransmission
<1>4. /\ Sent("CMD12", 0, f) /\ host' \in HostRecord /\ host'.width = host.width
  BY <1>2, <1>3, CallFacts, SendCommandSends
<1>5. /\ CardOK(card') /\ card'.kind = card.kind /\ card'.rca = card.rca
      /\ card'.width = card.width /\ (card'.alive => card.alive)
      /\ card.st \in Working => card'.st \in Working
      /\ faults' \in Nat /\ faults' <= faults /\ (faults' = faults => ~f.fault)
      /\ f.fault \in BOOLEAN /\ card' = f.card
  BY <1>4 DEF Sent, Kept
<1>6. (call.stopLost \/ f.fault) \in BOOLEAN
  OBVIOUS
<1>7. /\ DOMAIN call' = DOMAIN call /\ call'.op = call.op /\ call'.lba = call.lba
      /\ call'.n = call.n /\ call'.left = call.left /\ call'.at = call.at
      /\ call'.moved = call.moved /\ call'.good = call.good /\ call'.budget = call.budget
      /\ call'.result = call.result /\ call'.stopLost \in BOOLEAN
      /\ f.fault => call'.stopLost
  BY <1>2, <1>3, <1>6, CallFacts DEF NoCall
<1>8. Chunk' = Chunk
  BY <1>7 DEF Chunk
<1>9. TypeOK'
  BY <1>1, <1>2, <1>4, <1>5, <1>7, CallFacts DEF TypeOK, Transfers
<1>10. Fits' /\ Identified'
  BY <1>1, <1>2, <1>4, <1>5, CallFacts, FitsKeeps DEF Calls, Transfers
<1>11. InTransfer' /\ Pending' /\ Asked'
  BY <1>1, <1>2, <1>5, <1>7, CallFacts DEF InTransfer, Pending, Asked, Calls, Transfers
<1>12. Closed'
  <2>1. CASE f.fault
    BY <1>7, <2>1 DEF Closed
  <2>2. CASE ~f.fault
    <3>1. ~Open(card')
      BY <1>2, <1>5, <2>2, CallFacts, StoppedWithoutFault
    <3> QED
      BY <3>1 DEF Closed
  <2> QED
    BY <2>1, <2>2
<1>13. ASSUME call.good, call.budget = faults'
       PROVE  inst.ok /\ card'.alive /\ Ready' /\ call.moved = MovedTo(call.at + Chunk)
  <2>1. faults = faults' /\ call.budget = faults
    BY <1>2, <1>5, <1>13, CallFacts
  <2>2. inst.ok /\ card.alive /\ pc = "stop" /\ AsSent /\ call.moved = MovedTo(call.at + Chunk)
    BY <1>1, <1>2, <1>13, <2>1 DEF IInv, GoesWell
  <2>3. card.st \in {"data", "rcv"}
    BY <2>2 DEF AsSent, IInv, Pending
  <2> QED
    BY <1>2, <1>5, <2>1, <2>2, <2>3, CallFacts, StoppedWithoutFault DEF Ready
<1>14. GoesWell'
  BY <1>1, <1>7, <1>8, <1>13 DEF GoesWell, MovedTo
<1>15. CleanCallMovesAll'
  BY <1>1 DEF CleanCallMovesAll, Clean, Returned
<1> QED
  BY <1>9, <1>10, <1>11, <1>12, <1>14, <1>15 DEF IInv

LEMMA NextCommandKeeps ==
  ASSUME IInv, NextCommand
  PROVE  IInv'
PROOF
<1>1. /\ pc = "next" /\ UNCHANGED <<card, host, inst, rcaCount, back, faults>> /\ try' = ReadyTries
      /\ IF call.left > Chunk THEN pc' = "ready" /\ call' = Advance
         ELSE pc' = "idle" /\ call' = [Advance EXCEPT !.result = "success"]
  BY DEF NextCommand
<1>2. pc \in Transfers
  BY <1>1 DEF Transfers
<1>3. /\ DOMAIN Advance = DOMAIN call /\ Advance.op = call.op /\ Advance.lba = call.lba + Chunk
      /\ Advance.n = call.n /\ Advance.left = call.left - Chunk /\ Advance.at = call.at + Chunk
      /\ Advance.moved = call.moved /\ Advance.good = call.good /\ Advance.budget = call.budget
      /\ Advance.result = call.result /\ Advance.stopLost = call.stopLost
  BY <1>2, CallFacts DEF NoCall, Advance
<1>4. /\ DOMAIN call' = DOMAIN call /\ call'.op = call.op /\ call'.lba = call.lba + Chunk
      /\ call'.n = call.n /\ call'.left = call.left - Chunk /\ call'.at = call.at + Chunk
      /\ call'.moved = call.moved /\ call'.good = call.good /\ call'.budget = call.budget
      /\ call'.stopLost = call.stopLost
      /\ pc' = "ready" => call'.result = call.result /\ call.left > Chunk
      /\ pc' = "idle" => call'.result = "success" /\ ~(call.left > Chunk)
      /\ pc' \in {"ready", "idle"}
  BY <1>1, <1>2, <1>3, CallFacts DEF NoCall
<1>5. /\ call'.lba \in Nat /\ call'.left \in Nat /\ call'.at \in Nat /\ call'.n \in Nat
      /\ call'.at + call'.left = call'.n /\ call'.at <= call'.lba
      /\ pc' = "ready" => call'.left > 0
      /\ pc' = "idle" => call'.at = call'.n
      /\ call'.lba - call'.at = call.lba - call.at
  BY <1>2, <1>4, CallFacts
<1>6. TypeOK'
  <2>1. ReadyTries \in Int
    BY CountsAssumption DEF CountsAssumption
  <2> QED
    BY <1>1, <1>2, <1>4, <1>5, <2>1, CallFacts DEF TypeOK, Transfers
<1>7. Fits' /\ Identified'
  BY <1>1, <1>2, <1>4, CallFacts, FitsKeeps DEF Calls, Transfers
<1>8. InTransfer' /\ Pending' /\ Asked'
  BY <1>1, <1>2, <1>4, <1>5, CallFacts DEF InTransfer, Pending, Asked, Calls, Transfers
<1>9. Closed'
  BY <1>1, <1>4 DEF Closed, IInv
<1>10. ASSUME call.good, call.budget = faults
       PROVE  inst.ok /\ card.alive /\ Ready /\ call'.moved = [i \in 1 .. call'.at |-> <<call'.lba - call'.at + i - 1, i - 1>>]
  <2>1. inst.ok /\ card.alive /\ Ready /\ call.moved = MovedTo(call.at + Chunk)
    BY <1>1, <1>2, <1>10 DEF IInv, GoesWell
  <2> QED
    BY <1>4, <1>5, <2>1 DEF MovedTo
<1>11. GoesWell'
  BY <1>1, <1>4, <1>10 DEF GoesWell, Ready, MovedTo, Transfers
<1>12. CleanCallMovesAll'
  BY <1>1, <1>4, <1>5, <1>10 DEF CleanCallMovesAll, Clean, Returned, MovedTo
<1> QED
  BY <1>6, <1>7, <1>8, <1>9, <1>11, <1>12 DEF IInv

LEMMA IoBlocksKeeps ==
  ASSUME IInv, NEW op \in {"read", "write"}, NEW lba \in Nat, NEW n \in Nat, IoBlocks(op, lba, n)
  PROVE  IInv'
PROOF
<1> DEFINE refusal == IF ~inst.present THEN "no media" ELSE IF n = 0 THEN "success"
                      ELSE IF lba + n > inst.last + 1 THEN "invalid" ELSE "none"
           good == inst.ok /\ card.alive /\ Usable
           new == [NoCall EXCEPT !.op = op, !.lba = lba, !.n = n, !.left = n, !.budget = faults,
                                 !.good = good, !.stopLost = call.stopLost]
<1>1. /\ pc = "idle" /\ call' = [new EXCEPT !.result = refusal]
      /\ pc' = IF refusal = "none" THEN "ready" ELSE "idle"
      /\ try' = ReadyTries /\ UNCHANGED <<card, host, inst, rcaCount, back, faults>>
  BY DEF IoBlocks
<1>2. TypeOK /\ Fits /\ faults \in Nat /\ call.stopLost \in BOOLEAN /\ pc \in Calls
  BY <1>1 DEF IInv, TypeOK, Calls
<1>3. good \in BOOLEAN
  OBVIOUS
<1> HIDE DEF good
<1>4. /\ DOMAIN new = DOMAIN NoCall /\ new.op = op /\ new.lba = lba /\ new.n = n /\ new.left = n
      /\ new.at = 0 /\ new.moved = <<>> /\ new.good = good /\ new.budget = faults
      /\ new.stopLost = call.stopLost
  BY DEF NoCall
<1> HIDE DEF new, refusal
<1>5. /\ DOMAIN call' = DOMAIN NoCall /\ call'.op = op /\ call'.lba = lba /\ call'.n = n
      /\ call'.left = n /\ call'.at = 0 /\ call'.moved = <<>> /\ call'.good = good
      /\ call'.budget = faults /\ call'.stopLost = call.stopLost /\ call'.result = refusal
  BY <1>1, <1>4 DEF NoCall
<1>6. /\ refusal = "none" => n > 0
      /\ refusal \in {"none", "success", "invalid", "no media"}
      /\ refusal = "success" => n = 0
  BY DEF refusal
<1>7. pc' \in {"ready", "idle"} /\ (pc' = "ready" <=> refusal = "none")
  BY <1>1
<1>8. TypeOK'
  <2>1. ReadyTries \in Int
    BY CountsAssumption DEF CountsAssumption
  <2> QED
    <3>1. /\ {call'.lba, call'.n, call'.left, call'.at, call'.budget} \subseteq Nat
          /\ {call'.good, call'.stopLost} \subseteq BOOLEAN
      BY <1>2, <1>3, <1>5
    <3> QED
      BY <1>1, <1>2, <1>5, <1>7, <2>1, <3>1 DEF TypeOK, Transfers
<1>9. Fits' /\ Identified'
  BY <1>1, <1>2, <1>7, FitsKeeps DEF Calls, Transfers
<1>10. InTransfer' /\ Pending' /\ Asked'
  <2>1. Pending' /\ Asked'
    BY <1>1, <1>2, <1>5, <1>7 DEF Pending, Asked, Calls, Transfers
  <2>2. 0 + n = n /\ 0 <= lba
    OBVIOUS
  <2>3. pc' \in Transfers => refusal = "none"
    BY <1>7 DEF Transfers
  <2> QED
    BY <1>5, <1>6, <2>1, <2>2, <2>3 DEF InTransfer
<1>11. Closed'
  BY <1>1, <1>5 DEF Closed, IInv
<1>12. <<>> = [i \in 1 .. 0 |-> <<lba + i - 1, i - 1>>]
  OBVIOUS
<1>13. GoesWell'
  <2>1. good => inst.ok /\ card.alive /\ Ready
    BY DEF good, Usable, Ready
  <2>2. call'.moved = MovedTo(call.at)'
    BY <1>5, <1>12 DEF MovedTo
  <2> QED
    BY <1>1, <1>5, <1>7, <2>1, <2>2 DEF GoesWell, Ready, Transfers
<1>14. CleanCallMovesAll'
  <2>1. n = 0 => call'.moved = [i \in 1 .. n |-> <<lba - 0 + i - 1, i - 1>>]
    BY <1>5, <1>12
  <2>2. pc' = "idle" => refusal # "none"
    BY <1>7
  <2> QED
    <3>1. CASE pc' = "idle" /\ refusal = "success"
      <4>1. n = 0 /\ call'.n = n /\ call'.lba = lba /\ call'.at = 0 /\ call'.result = "success"
        BY <1>5, <1>6, <3>1
      <4> QED
        BY <2>1, <4>1 DEF CleanCallMovesAll
    <3>2. CASE pc' = "idle" /\ refusal # "success"
      <4>1. call'.result \in {"invalid", "no media"}
        BY <1>5, <1>6, <2>2, <3>2
      <4> QED
        BY <4>1 DEF CleanCallMovesAll
    <3>3. CASE pc' # "idle"
      BY <3>3 DEF CleanCallMovesAll, Clean, Returned
    <3> QED
      BY <3>1, <3>2, <3>3
<1> QED
  BY <1>8, <1>9, <1>10, <1>11, <1>13, <1>14 DEF IInv

LEMMA CardFinishesKeeps ==
  ASSUME IInv, CardFinishes
  PROVE  IInv'
PROOF
<1>1. /\ card.alive /\ UNCHANGED <<host, inst, rcaCount, pc, back, try, call, faults>>
      /\ \/ card.st = "prg" /\ card' = [card EXCEPT !.st = "tran", !.busy = FALSE]
         \/ card.st = "data" /\ ~card.stream /\ card' = [card EXCEPT !.st = "tran"]
  BY DEF CardFinishes, driver
<1>2. TypeOK /\ CardOK(card)
  BY DEF IInv, TypeOK
<1>3. /\ card' \in CardRecord /\ card'.st = "tran" /\ card'.kind = card.kind /\ card'.rca = card.rca
      /\ card'.stream = card.stream /\ card'.width = card.width /\ card'.alive = card.alive
      /\ ~card.stream
  BY <1>1, <1>2 DEF CardOK, CardRecord, Working
<1>4. CardOK(card') /\ ~Open(card')
  BY <1>1, <1>2, <1>3 DEF CardOK, Early, Open
<1>5. TypeOK'
  BY <1>1, <1>2, <1>4 DEF TypeOK
<1>6. Identified' /\ Fits'
  BY <1>1, <1>3 DEF IInv, Identified, Fits, NamesAgree, SizesAgree, WidthsAgree, BySector, Working
<1>7. InTransfer' /\ Pending' /\ Asked' /\ CleanCallMovesAll'
  BY <1>1 DEF IInv, InTransfer, Pending, Asked, CleanCallMovesAll, Clean, Returned, Several, Chunk
<1>8. Closed'
  BY <1>4 DEF Closed
<1>9. GoesWell'
  <2>1. Ready' /\ (AsSent => AsSent')
    BY <1>1, <1>3 DEF Ready, AsSent, Several, Chunk
  <2>2. GoesWell
    BY DEF IInv
  <2> QED
    BY <1>1, <1>3, <2>1, <2>2 DEF GoesWell, MovedTo, Chunk
<1> QED
  BY <1>5, <1>6, <1>7, <1>8, <1>9 DEF IInv

LEMMA StopKeeps ==
  ASSUME IInv, Stop
  PROVE  IInv'
PROOF
<1>1. /\ pc = "idle" /\ pc' = "stopped"
      /\ UNCHANGED <<card, host, inst, rcaCount, back, try, call, faults>>
  BY DEF Stop
<1>2. TypeOK' /\ Fits' /\ Identified'
  <2>1. TypeOK /\ Fits /\ pc \in Calls
    BY <1>1 DEF IInv, Calls
  <2>2. TypeOK'
    BY <1>1, <2>1 DEF TypeOK
  <2> QED
    BY <1>1, <2>1, <2>2, FitsKeeps
<1>3. InTransfer' /\ Pending' /\ Asked' /\ CleanCallMovesAll' /\ GoesWell'
  BY <1>1 DEF IInv, InTransfer, Pending, Asked, CleanCallMovesAll, Clean, Returned, GoesWell,
              Transfers
<1>4. Closed'
  BY <1>1 DEF Closed, IInv
<1> QED
  BY <1>2, <1>3, <1>4 DEF IInv

-----------------------------------------------------------------------------
(* The theorems                                                            *)

LEMMA StepKeeps ==
  ASSUME IInv, [Next]_vars
  PROVE  IInv'
PROOF
<1>1. CASE Start \/ StartChecks \/ Timer
  BY <1>1, BindingKeeps
<1>2. CASE Stop
  BY <1>2, StopKeeps
<1>3. CASE Requests
  <2>1. LastBlock \in Nat
    BY CountsAssumption DEF CountsAssumption
  <2>2. PICK op \in {"read", "write"}, lba \in 0 .. LastBlock, n \in 0 .. LastBlock + 1 :
          IoBlocks(op, lba, n)
    BY <1>3 DEF Requests
  <2>3. lba \in Nat /\ n \in Nat
    BY <2>1
  <2> QED
    BY <2>2, <2>3, IoBlocksKeeps
<1>4. CASE Initialization
  BY <1>4, HwInitializationKeeps, IdentifyKeeps, AskOcrKeeps, SdOrMmcKeeps, PowerUpKeeps, SdKeeps,
     SdSetIosKeeps, EmmcSwitchedKeeps, EmmcWidenKeeps, EmmcEcsdKeeps, EmmcSetUpMediaKeeps,
     InitializedKeeps
  DEF Initialization
<1>5. CASE Transfer
  BY <1>5, CheckReadyKeeps, CommandKeeps, DataKeeps, SettleKeeps, StopTransmissionKeeps,
     NextCommandKeeps
  DEF Transfer
<1>6. CASE CardFinishes
  BY <1>6, CardFinishesKeeps
<1>7. CASE UNCHANGED vars
  <2>1. UNCHANGED <<card, host, inst, rcaCount, pc, back, try, call, faults>>
    BY <1>7 DEF vars, driver
  <2>2. TypeOK' /\ Identified' /\ Fits'
    BY <2>1 DEF IInv, TypeOK, Identified, Fits, NamesAgree, SizesAgree, WidthsAgree, BySector
  <2>3. InTransfer' /\ Pending' /\ Closed' /\ Asked' /\ CleanCallMovesAll'
    BY <2>1 DEF IInv, InTransfer, Pending, Closed, Asked, CleanCallMovesAll, Clean, Returned,
                Several, Chunk
  <2>4. GoesWell'
    <3>1. (Ready' <=> Ready) /\ (AsSent' <=> AsSent)
      BY <2>1 DEF Ready, AsSent, Several, Chunk
    <3>2. GoesWell
      BY DEF IInv
    <3> QED
      BY <2>1, <3>1, <3>2 DEF GoesWell, MovedTo, Chunk
  <2> QED
    BY <2>2, <2>3, <2>4 DEF IInv
<1> QED
  BY <1>1, <1>2, <1>3, <1>4, <1>5, <1>6, <1>7 DEF Next

(* The inductive invariant: an identification that ends with success leaves *)
(* driver, host and card agreed on address, block size and bus width, and   *)
(* a call keeps count of what it has moved and of what the card is doing.   *)
THEOREM MmcInvariant == Spec => []IInv
PROOF
<1>1. Init => IInv
  BY InitHolds, CountsAssumption
<1>2. IInv /\ [Next]_vars => IInv'
  BY StepKeeps
<1> QED
  BY <1>1, <1>2, PTL DEF Spec

(* A call that meets no fault and began with a usable card moves every     *)
(* block once, in order, to or from its place in the buffer, for any size  *)
(* of card and any limit on the blocks of one command.                     *)
THEOREM CleanCallsMoveAll == Spec => []CleanCallMovesAll
PROOF
<1>1. IInv => CleanCallMovesAll
  BY DEF IInv
<1> QED
  BY <1>1, MmcInvariant, PTL

(* Between calls the card serves no open ended read and waits for no data, *)
(* whatever went wrong, unless a CMD12 itself went astray.                 *)
THEOREM StreamsAlwaysStopped == Spec => []StreamsAreStopped
PROOF
<1>1. IInv => StreamsAreStopped
  BY DEF IInv, Closed, StreamsAreStopped, Returned, Open
<1> QED
  BY <1>1, MmcInvariant, PTL
=============================================================================
