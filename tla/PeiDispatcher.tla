--------------------------- MODULE PeiDispatcher ---------------------------
(***************************************************************************)
(* The PEI dispatcher (MdeMoudulePkg/Core/Pei/Dispatcher/Dispatcher.c,     *)
(* with the parts of PeiMain.c, FwVol.c, Security.c and MemoryServices.c   *)
(* that it relies on): it walks the firmware volumes pass after pass,      *)
(* enters every PEIM whose dependency expression holds, opens firmware     *)
(* volume images, lets notifications and delayed functions run, and goes   *)
(* through the PEI core once more when permanent memory was discovered.    *)
(*                                                                         *)
(* The code that the dispatcher calls is the environment: between being    *)
(* called and returning it uses the services it may use, in any order.     *)
(* Callback notifications run inside those services and count as part of   *)
(* the code that called them; PpiDatabase models them.  So do the delayed  *)
(* functions that a registration with delay 0 calls at once; what happens  *)
(* to the table then is DelayedDispatch's.                                 *)
(***************************************************************************)
EXTENDS Integers, Sequences, FiniteSets

CONSTANTS
  File,              \* files of the types the dispatcher looks for
  Fv,                \* firmware volumes
  Ppi,               \* PPIs, one for each GUID
  Delayed,           \* functions for delayed dispatch
  DELAYED_DISPATCH_MAX_ENTRIES,
  BootFv,            \* the boot firmware volume
  SecPpis,           \* PPIs installed before the dispatcher runs first
  MemoryDiscovered,  \* gEfiPeiMemoryDiscoveredPpiGuid
  FilesOf,           \* [Fv -> Seq(File)]: in the order they are stored
  AprioriFile,       \* [Fv -> Seq(File)]: the names in the Apriori file
  Contains,          \* [File -> Fv \cup {NoFv}]: the volume in an FV image
  NoFv,
  Depex,             \* [File -> SUBSET SUBSET Ppi]: databases that satisfy it
  NeedsToLoad,       \* [File -> SUBSET Ppi]: what its sections need to be read
  NeedsToVerify,     \* [File -> SUBSET Ppi]: without these VerifyPeim objects
  Does,              \* [Code -> SUBSET Service]: what the code called may do
  Shadowing          \* do the PCDs and the boot mode ask for shadowing

Code == ({"peim", "shadow"} \X File) \cup ({"notify"} \X Ppi)
        \cup ({"delayed"} \X Delayed)

Service == ({"install"} \X Ppi) \cup ({"publish"} \X Fv)
           \cup ({"shadow"} \X File) \cup ({"delay"} \X Delayed)
           \cup {<<"memory", NoFv>>}

NoCode == <<"none", NoFv>>

\* The elements of s at the positions in K, in order.
Select(s, K) ==
  [i \in 1 .. Cardinality(K) |->
     s[CHOOSE k \in K : Cardinality({j \in K : j < k}) = i - 1]]

\* DiscoverPeimsAndOrderWithApriori: the files named in the Apriori file
\* first, in its order, then the others as they are stored.
Elements(s) == {s[i] : i \in DOMAIN s}
AprioriPart(v) ==
  Select(AprioriFile[v], {i \in DOMAIN AprioriFile[v] :
                            AprioriFile[v][i] \in Elements(FilesOf[v])})
Order(v) ==
  AprioriPart(v)
    \o Select(FilesOf[v], {i \in DOMAIN FilesOf[v] :
                             FilesOf[v][i] \notin Elements(AprioriFile[v])})

ASSUME PlatformAssumption ==
  /\ BootFv \in Fv /\ NoFv \notin Fv
  /\ SecPpis \subseteq Ppi /\ MemoryDiscovered \in Ppi
  /\ FilesOf \in [Fv -> Seq(File)] /\ AprioriFile \in [Fv -> Seq(File)]
  /\ Contains \in [File -> Fv \cup {NoFv}]
  /\ Depex \in [File -> SUBSET SUBSET Ppi]
  /\ NeedsToLoad \in [File -> SUBSET Ppi]
  /\ NeedsToVerify \in [File -> SUBSET Ppi]
  /\ Does \in [Code -> SUBSET Service]
  /\ Shadowing \in BOOLEAN

\* No file is stored twice, nor named twice in an Apriori file.
ASSUME VolumeAssumption ==
  /\ \A v \in Fv : \A i, j \in DOMAIN FilesOf[v] :
       FilesOf[v][i] = FilesOf[v][j] => i = j
  /\ \A v \in Fv : \A i, j \in DOMAIN AprioriFile[v] :
       AprioriFile[v][i] = AprioriFile[v][j] => i = j
  /\ \A v, w \in Fv : v # w => Elements(FilesOf[v]) \cap Elements(FilesOf[w]) = {}

VARIABLES
  fvs,                \* Fv[]: the volumes known, in order of discovery
  scanned,            \* the volumes with ScanFv set
  hobs,               \* the FV images with an FV2 HOB
  opening,            \* images of a new volume that its callback has to look at
  peimState,          \* PeimState of every file
  ppis,               \* the PPIs installed
  notified,           \* those ProcessDispatchNotifyList was through with
  delayed,            \* state of each delayed function
  ran,                \* those DelayedDispatchDispatcher called in this cycle
  currentFv,          \* CurrentPeimFvCount
  currentPeim,        \* CurrentPeimCount
  saved,              \* SaveCurrentPeimFvCount and SaveCurrentPeimCount
  aprioriCount,       \* AprioriCount
  needingDispatch,    \* PeimNeedingDispatch
  dispatchOnThisPass, \* PeimDispatchOnThisPass
  reenter,            \* PeimDispatcherReenter
  switchStackSignal,  \* SwitchStackSignal
  memoryInstalled,    \* PeiMemoryInstalled
  pc,                 \* where the dispatcher is, see Place
  after,              \* where ProcessDispatchNotifyList returns to
  running,            \* the code called, when pc is "code"
  entered,            \* history: how often each PEIM was entered
  shadowed            \* history: how often it was entered as a shadow

volumes   == <<fvs, scanned, hobs, opening>>
database  == <<ppis, notified>>
functions == <<delayed, ran>>
position  == <<currentFv, currentPeim, saved, aprioriCount>>
flags     == <<needingDispatch, dispatchOnThisPass, reenter>>
memory    == <<switchStackSignal, memoryInstalled>>
history   == <<entered, shadowed>>
vars == <<volumes, peimState, database, functions, position, flags, memory,
          pc, after, running, history>>

NOT_DISPATCHED == 0
DISPATCHED == 1
REGISTER_FOR_SHADOW == 2
DONE == 3

(* "start": PeiDispatcher is called; "shadow": head of the inner shadow    *)
(* loop; "shadowed": its increment; "pass": head of the do-while; "fv",    *)
(* "peim": head of the two for loops; "switch1", "switch2": the calls of   *)
(* PeiCheckAndSwitchStack; "inline": the shadow call after the second;     *)
(* "notify": ProcessDispatchNotifyList; "delayed": DelayedDispatch-        *)
(* Dispatcher; "next": increment of the PEIM loop; "code": code that the   *)
(* dispatcher called; "end": PeiDispatcher has returned.                   *)
Place == {"start", "shadow", "shadowed", "pass", "fv", "peim", "switch1",
          "switch2", "inline", "notify", "delayed", "next", "code", "end"}

\* PeiCore has set up the boot volume and processed the PPIs from SEC.
Init ==
  /\ fvs = <<BootFv>> /\ scanned = {} /\ hobs = {} /\ opening = <<>>
  /\ peimState = [f \in File |-> NOT_DISPATCHED]
  /\ ppis = SecPpis /\ notified = {}
  /\ delayed = [d \in Delayed |-> "free"] /\ ran = {}
  /\ currentFv = 0 /\ currentPeim = 0 /\ saved = <<0, 0>> /\ aprioriCount = 0
  /\ needingDispatch = FALSE /\ dispatchOnThisPass = FALSE /\ reenter = FALSE
  /\ switchStackSignal = FALSE /\ memoryInstalled = FALSE
  /\ pc = "start" /\ after = "start" /\ running = NoCode
  /\ entered = [f \in File |-> 0] /\ shadowed = [f \in File |-> 0]

-----------------------------------------------------------------------------
(* Helpers.                                                                *)

\* The dispatcher is at p, and no callback of a service is in progress.
At(p) == pc = p /\ opening = <<>>

CurrentVolume == fvs[currentFv + 1]

\* PeimCount of a volume: zero until it was scanned.
PeimCount(v) == IF v \in scanned THEN Len(Order(v)) ELSE 0

CurrentFile == Order(CurrentVolume)[currentPeim + 1]

Readable(f) == NeedsToLoad[f] \subseteq ppis
Trusted(f)  == NeedsToVerify[f] \subseteq ppis
IsImage(f)  == Contains[f] # NoFv

GoTo(p) == pc' = p
Call(code) == pc' = "code" /\ running' = code
ProcessDispatchNotifyList(return) == pc' = "notify" /\ after' = return

-----------------------------------------------------------------------------
(* Firmware volumes found while code runs.                                 *)

\* The FV images of a volume, in the order FindFileByType finds them.
Images(v) == Select(FilesOf[v], {i \in DOMAIN FilesOf[v] : IsImage(FilesOf[v][i])})

\* FirmwareVolumeInfoPpiNotifyCallback: a volume that is not known yet goes
\* to the end of Fv[], and its images are looked at next.
Register(v, rest) ==
  IF v \in Elements(fvs)
  THEN opening' = rest /\ UNCHANGED fvs
  ELSE fvs' = Append(fvs, v) /\ opening' = Images(v) \o rest

\* ProcessFvFile extracts an image only if no FV2 HOB names it.
Extractable(f) == Readable(f) /\ Trusted(f)

ProcessFvFile(f, rest) ==
  IF f \in hobs \/ ~Extractable(f)
  THEN opening' = rest /\ UNCHANGED <<fvs, hobs>>
  ELSE Register(Contains[f], rest) /\ hobs' = hobs \cup {f}

ProcessFvFileSucceeds(f) == f \in hobs \/ Extractable(f)

\* The loop of the callback over the images, those with a false dependency
\* expression left out; an image's own volume comes before the next image.
OpenImage ==
  /\ opening # <<>>
  /\ LET f == Head(opening)
     IN  IF ppis \in Depex[f] THEN ProcessFvFile(f, Tail(opening))
         ELSE opening' = Tail(opening) /\ UNCHANGED <<fvs, hobs>>
  /\ UNCHANGED <<scanned, peimState, database, functions, position, flags,
                 memory, pc, after, running, history>>

-----------------------------------------------------------------------------
(* The services the code called by the dispatcher uses.                    *)

\* The delayed functions in the table, and those called at an early dispatch
\* point, one after the other, while the code that made it waits.
Waiting == {d \in Delayed : delayed[d] = "waiting"}
Early   == {d \in Delayed : delayed[d] = "early"}

Acting == IF Early = {} THEN {running} ELSE {"delayed"} \X Early

May(kind, x) == At("code") /\ \E c \in Acting : <<kind, x>> \in Does[c]

InstallPpi(p) ==
  /\ May("install", p)
  /\ ppis' = ppis \cup {p}
  /\ UNCHANGED <<volumes, peimState, notified, functions, position, flags,
                 memory, pc, after, running, history>>

PublishFv(v) ==
  /\ May("publish", v)
  /\ Register(v, <<>>)
  /\ UNCHANGED <<scanned, hobs, peimState, database, functions, position,
                 flags, memory, pc, after, running, history>>

PeiInstallPeiMemory ==
  /\ May("memory", NoFv)
  /\ ~memoryInstalled
  /\ switchStackSignal' = TRUE
  /\ UNCHANGED <<volumes, peimState, database, functions, position, flags,
                 memoryInstalled, pc, after, running, history>>

PeiRegisterForShadow(f) ==
  /\ May("shadow", f)
  /\ f = CurrentFile
  /\ peimState[f] < REGISTER_FOR_SHADOW
  /\ peimState' = [peimState EXCEPT ![f] = REGISTER_FOR_SHADOW]
  /\ UNCHANGED <<volumes, database, functions, position, flags, memory, pc,
                 after, running, history>>

TableFull == Cardinality(Waiting \cup Early) = DELAYED_DISPATCH_MAX_ENTRIES

\* Delay 0 makes an early dispatch point: d is called at once, and so are those
\* waiting whose time has come.
PeiDelayedDispatchRegister(d) ==
  /\ May("delay", d)
  /\ delayed[d] = "free"
  /\ \/ TableFull /\ delayed' = [delayed EXCEPT ![d] = "refused"]
     \/ ~TableFull /\ delayed' = [delayed EXCEPT ![d] = "waiting"]
     \/ ~TableFull /\ \E expired \in SUBSET Waiting :
          delayed' = [e \in Delayed |->
            IF e \in expired \cup {d} THEN "early" ELSE delayed[e]]
  /\ UNCHANGED <<volumes, peimState, database, ran, position, flags, memory,
                 pc, after, running, history>>

Services ==
  \/ \E p \in Ppi : InstallPpi(p)
  \/ \E v \in Fv : PublishFv(v)
  \/ PeiInstallPeiMemory
  \/ \E f \in File : PeiRegisterForShadow(f)
  \/ \E d \in Delayed : PeiDelayedDispatchRegister(d)

-----------------------------------------------------------------------------
(* The shadow loop, run when PeiDispatcher is entered with memory.         *)

Start ==
  /\ At("start")
  /\ IF memoryInstalled /\ Shadowing
     THEN /\ saved' = <<currentFv, currentPeim>>
          /\ currentFv' = 0 /\ currentPeim' = 0
          /\ GoTo("shadow")
     ELSE GoTo("pass") /\ UNCHANGED <<saved, currentFv, currentPeim>>
  /\ UNCHANGED <<volumes, peimState, database, functions, aprioriCount, flags,
                 memory, after, running, history>>

InShadowLoop ==
  /\ At("shadow") /\ currentFv < Len(fvs)
  /\ currentPeim < PeimCount(CurrentVolume)

ShadowPass ==
  /\ InShadowLoop
  /\ peimState[CurrentFile] # REGISTER_FOR_SHADOW
  /\ GoTo("shadowed")
  /\ UNCHANGED <<volumes, peimState, database, functions, position, flags,
                 memory, after, running, history>>

\* The state moves on before the entry point is called.  A PEIM that cannot
\* be loaded stays registered.
ShadowPeim ==
  /\ InShadowLoop
  /\ LET f == CurrentFile
     IN  /\ peimState[f] = REGISTER_FOR_SHADOW
         /\ IF Readable(f)
            THEN /\ peimState' = [peimState EXCEPT ![f] = DONE]
                 /\ shadowed' = [shadowed EXCEPT ![f] = @ + 1]
                 /\ Call(<<"shadow", f>>)
                 /\ after' = "shadowed"
            ELSE /\ ProcessDispatchNotifyList("shadowed")
                 /\ UNCHANGED <<peimState, shadowed, running>>
  /\ UNCHANGED <<volumes, database, functions, position, flags, memory,
                 entered>>

ShadowNext ==
  /\ At("shadowed")
  /\ currentPeim' = currentPeim + 1
  /\ GoTo("shadow")
  /\ UNCHANGED <<volumes, peimState, database, functions, currentFv, saved,
                 aprioriCount, flags, memory, after, running, history>>

ShadowNextFv ==
  /\ At("shadow") /\ currentFv < Len(fvs)
  /\ currentPeim >= PeimCount(CurrentVolume)
  /\ currentFv' = currentFv + 1 /\ currentPeim' = 0
  /\ UNCHANGED <<volumes, peimState, database, functions, saved, aprioriCount,
                 flags, memory, pc, after, running, history>>

ShadowEnd ==
  /\ At("shadow") /\ currentFv >= Len(fvs)
  /\ currentFv' = saved[1] /\ currentPeim' = saved[2]
  /\ GoTo("pass")
  /\ UNCHANGED <<volumes, peimState, database, functions, saved, aprioriCount,
                 flags, memory, after, running, history>>

-----------------------------------------------------------------------------
(* The main loop.                                                          *)

\* Mutant: the record of the last pass is lost when the core was reentered.
PassStartForgets ==
  /\ At("pass")
  /\ reenter' = FALSE /\ needingDispatch' = FALSE /\ dispatchOnThisPass' = FALSE
  /\ GoTo("fv")
  /\ UNCHANGED <<volumes, peimState, database, functions, position, memory,
                 after, running, history>>

\* The record of the last pass is still good when the PEI core was reentered.
PassStart ==
  /\ At("pass")
  /\ IF reenter
     THEN reenter' = FALSE /\ UNCHANGED <<needingDispatch, dispatchOnThisPass>>
     ELSE /\ needingDispatch' = FALSE /\ dispatchOnThisPass' = FALSE
          /\ UNCHANGED reenter
  /\ GoTo("fv")
  /\ UNCHANGED <<volumes, peimState, database, functions, position, memory,
                 after, running, history>>

\* A volume is scanned once; only that sets the count of Apriori files.
DiscoverPeimsAndOrderWithApriori(v) ==
  /\ scanned' = scanned \cup {v}
  /\ aprioriCount' = IF v \in scanned \/ Order(v) = <<>> THEN aprioriCount
                     ELSE Len(AprioriPart(v))

FvStart ==
  /\ At("fv") /\ currentFv < Len(fvs)
  /\ IF currentPeim = 0 THEN DiscoverPeimsAndOrderWithApriori(CurrentVolume)
                        ELSE UNCHANGED <<scanned, aprioriCount>>
  /\ GoTo("peim")
  /\ UNCHANGED <<fvs, hobs, opening, peimState, database, functions, currentFv,
                 currentPeim, saved, flags, memory, after, running, history>>

InPeimLoop == At("peim") /\ currentPeim < PeimCount(CurrentVolume)

PeimPassed ==
  /\ InPeimLoop
  /\ peimState[CurrentFile] # NOT_DISPATCHED
  /\ GoTo("delayed")
  /\ UNCHANGED <<volumes, peimState, database, functions, position, flags,
                 memory, after, running, history>>

DepexSatisfied(f) == currentPeim < aprioriCount \/ ppis \in Depex[f]

Undispatched == InPeimLoop /\ peimState[CurrentFile] = NOT_DISPATCHED

DepexFalse ==
  /\ Undispatched
  /\ ~DepexSatisfied(CurrentFile)
  /\ needingDispatch' = TRUE
  /\ GoTo("delayed")
  /\ UNCHANGED <<volumes, peimState, database, functions, position,
                 dispatchOnThisPass, reenter, memory, after, running, history>>

\* Mutant: an image that could not be processed counts as dispatched.
DispatchImageCounted ==
  /\ Undispatched
  /\ LET f == CurrentFile
     IN  /\ IsImage(f) /\ DepexSatisfied(f)
         /\ ProcessFvFile(f, <<>>)
         /\ dispatchOnThisPass' = TRUE
         /\ IF ProcessFvFileSucceeds(f)
            THEN /\ peimState' = [peimState EXCEPT ![f] = DISPATCHED]
                 /\ UNCHANGED needingDispatch
            ELSE needingDispatch' = TRUE /\ UNCHANGED peimState
  /\ GoTo("switch1")
  /\ UNCHANGED <<scanned, database, functions, position, reenter, memory,
                 after, running, history>>

DispatchImage ==
  /\ Undispatched
  /\ LET f == CurrentFile
     IN  /\ IsImage(f) /\ DepexSatisfied(f)
         /\ ProcessFvFile(f, <<>>)
         /\ IF ProcessFvFileSucceeds(f)
            THEN /\ peimState' = [peimState EXCEPT ![f] = DISPATCHED]
                 /\ dispatchOnThisPass' = TRUE
                 /\ UNCHANGED needingDispatch
            ELSE /\ needingDispatch' = TRUE
                 /\ UNCHANGED <<peimState, dispatchOnThisPass>>
  /\ GoTo("switch1")
  /\ UNCHANGED <<scanned, database, functions, position, reenter, memory,
                 after, running, history>>

PeimReady == /\ Undispatched
             /\ ~IsImage(CurrentFile) /\ DepexSatisfied(CurrentFile)

\* PeiLoadImage fails: neither flag of the pass is set.
LoadFails ==
  /\ PeimReady
  /\ ~Readable(CurrentFile)
  /\ GoTo("switch1")
  /\ UNCHANGED <<volumes, peimState, database, functions, position, flags,
                 memory, after, running, history>>

SecurityViolation ==
  /\ PeimReady
  /\ Readable(CurrentFile) /\ ~Trusted(CurrentFile)
  /\ needingDispatch' = TRUE
  /\ GoTo("switch1")
  /\ UNCHANGED <<volumes, peimState, database, functions, position,
                 dispatchOnThisPass, reenter, memory, after, running, history>>

\* The state moves on before the entry point is called: the PEIM may
\* register itself for shadow while it runs.
DispatchPeim ==
  /\ PeimReady
  /\ LET f == CurrentFile
     IN  /\ Extractable(f)
         /\ peimState' = [peimState EXCEPT ![f] = DISPATCHED]
         /\ entered' = [entered EXCEPT ![f] = @ + 1]
         /\ Call(<<"peim", f>>)
  /\ UNCHANGED <<volumes, database, functions, position, flags, memory, after,
                 shadowed>>

\* Mutant: the count of Apriori files does not survive the switch.
SwitchStackForgets ==
  /\ memoryInstalled' = TRUE /\ switchStackSignal' = FALSE
  /\ reenter' = TRUE /\ aprioriCount' = 0
  /\ ppis' = ppis \cup {MemoryDiscovered}
  /\ ProcessDispatchNotifyList("start")
  /\ UNCHANGED <<notified, needingDispatch, dispatchOnThisPass>>

\* SwitchStack into PeiCore, which comes back to PeiDispatcher on the new
\* stack: PeiMemoryInstalled and PeimDispatcherReenter are set, the Memory
\* Discovered PPI is installed and its notifications are dispatched.
SwitchStack ==
  /\ memoryInstalled' = TRUE /\ switchStackSignal' = FALSE
  /\ reenter' = TRUE
  /\ ppis' = ppis \cup {MemoryDiscovered}
  /\ ProcessDispatchNotifyList("start")
  /\ UNCHANGED <<notified, needingDispatch, dispatchOnThisPass, aprioriCount>>

PeiCheckAndSwitchStack ==
  /\ At("switch1") \/ At("switch2")
  /\ IF switchStackSignal
     THEN SwitchStack
     ELSE /\ IF pc = "switch1" THEN ProcessDispatchNotifyList("switch2")
             ELSE GoTo("inline") /\ UNCHANGED after
          /\ UNCHANGED <<memory, flags, database, aprioriCount>>
  /\ UNCHANGED <<volumes, peimState, functions, currentFv, currentPeim, saved,
                 running, history>>

\* A PEIM that registered after memory was installed is entered at once for
\* the second time; the state moves on when it has returned.
InlineShadow ==
  /\ At("inline")
  /\ IF /\ memoryInstalled /\ Shadowing
        /\ peimState[CurrentFile] = REGISTER_FOR_SHADOW
     THEN /\ shadowed' = [shadowed EXCEPT ![CurrentFile] = @ + 1]
          /\ Call(<<"shadow", CurrentFile>>)
          /\ after' = "delayed"
     ELSE GoTo("delayed") /\ UNCHANGED <<shadowed, running, after>>
  /\ UNCHANGED <<volumes, peimState, database, functions, position, flags,
                 memory, entered>>

PeimNext ==
  /\ At("next")
  /\ currentPeim' = currentPeim + 1
  /\ GoTo("peim")
  /\ UNCHANGED <<volumes, peimState, database, functions, currentFv, saved,
                 aprioriCount, flags, memory, after, running, history>>

FvNext ==
  /\ At("peim") /\ currentPeim >= PeimCount(CurrentVolume)
  /\ currentPeim' = 0 /\ aprioriCount' = 0
  /\ currentFv' = currentFv + 1
  /\ GoTo("fv")
  /\ UNCHANGED <<volumes, peimState, database, functions, saved, flags, memory,
                 after, running, history>>

PassEnd ==
  /\ At("fv") /\ currentFv >= Len(fvs)
  /\ currentFv' = 0
  /\ GoTo(IF (needingDispatch /\ dispatchOnThisPass) \/ Waiting # {}
          THEN "pass" ELSE "end")
  /\ UNCHANGED <<volumes, peimState, database, functions, currentPeim, saved,
                 aprioriCount, flags, memory, after, running, history>>

\* PeiCore goes on to the DXE IPL and never comes back.
DxeIpl == At("end") /\ UNCHANGED vars

-----------------------------------------------------------------------------
(* Notifications and delayed functions.                                    *)

\* PpiDatabase models ProcessDispatchNotifyList: the notifications of every
\* PPI not looked at yet are called, until none is left.
DispatchNotify(p) ==
  /\ At("notify")
  /\ p \in ppis \ notified
  /\ notified' = notified \cup {p}
  /\ Call(<<"notify", p>>)
  /\ UNCHANGED <<volumes, peimState, ppis, functions, position, flags, memory,
                 after, history>>

NotifyListReturns ==
  /\ At("notify")
  /\ ppis = notified
  /\ GoTo(after)
  /\ UNCHANGED <<volumes, peimState, database, functions, position, flags,
                 memory, after, running, history>>

\* One cycle of DelayedDispatchDispatcher: each entry whose time has come is
\* called once; the time that has passed is any.
DelayedExpires(d) ==
  /\ At("delayed")
  /\ d \in Waiting \ ran
  /\ ran' = ran \cup {d}
  /\ Call(<<"delayed", d>>)
  /\ UNCHANGED <<volumes, peimState, database, delayed, position, flags,
                 memory, after, history>>

DelayedCycleEnds ==
  /\ At("delayed")
  /\ ran' = {}
  /\ IF ran # {} THEN ProcessDispatchNotifyList("next")
                 ELSE GoTo("next") /\ UNCHANGED after
  /\ UNCHANGED <<volumes, peimState, database, delayed, position, flags,
                 memory, running, history>>

-----------------------------------------------------------------------------
(* The code called returns.                                                *)

Returns(kind) ==
  At("code") /\ Early = {} /\ running[1] = kind /\ running' = NoCode

PeimReturns ==
  /\ Returns("peim")
  /\ dispatchOnThisPass' = TRUE
  /\ GoTo("switch1")
  /\ UNCHANGED <<volumes, peimState, database, functions, position,
                 needingDispatch, reenter, memory, after, history>>

\* To the shadow loop, or to the inline call, which moves the state now.
ShadowReturns ==
  /\ Returns("shadow")
  /\ ProcessDispatchNotifyList(after)
  /\ peimState' = IF after = "delayed"
                  THEN [peimState EXCEPT ![CurrentFile] = @ + 1] ELSE peimState
  /\ UNCHANGED <<volumes, database, functions, position, flags, memory,
                 history>>

NotifyReturns ==
  /\ Returns("notify")
  /\ GoTo("notify")
  /\ UNCHANGED <<volumes, peimState, database, functions, position, flags,
                 memory, after, history>>

\* A delayed function asks to be called again, or is done.
DelayedReturns(state) ==
  /\ Returns("delayed")
  /\ delayed' = [delayed EXCEPT ![running[2]] = state]
  /\ GoTo("delayed")
  /\ UNCHANGED <<volumes, peimState, database, ran, position, flags, memory,
                 after, history>>

\* So does one that was called at an early dispatch point.
EarlyReturns(state) ==
  /\ At("code")
  /\ \E d \in Early : delayed' = [delayed EXCEPT ![d] = state]
  /\ UNCHANGED <<volumes, peimState, database, ran, position, flags, memory,
                 pc, after, running, history>>

-----------------------------------------------------------------------------
DelayedWork == \/ \E d \in Delayed : DelayedExpires(d)
               \/ DelayedReturns("waiting") \/ EarlyReturns("waiting")

DelayedDone == DelayedReturns("gone") \/ EarlyReturns("gone")

Dispatcher ==
  \/ OpenImage
  \/ Start \/ ShadowPass \/ ShadowPeim \/ ShadowNext \/ ShadowNextFv \/ ShadowEnd
  \/ PassStart \/ FvStart \/ PeimPassed \/ DepexFalse \/ DispatchImage
  \/ LoadFails \/ SecurityViolation \/ DispatchPeim \/ PeiCheckAndSwitchStack
  \/ InlineShadow \/ PeimNext \/ FvNext \/ PassEnd
  \/ \E p \in Ppi : DispatchNotify(p)
  \/ NotifyListReturns \/ DelayedCycleEnds
  \/ PeimReturns \/ ShadowReturns \/ NotifyReturns

Next == Services \/ Dispatcher \/ DelayedWork \/ DelayedDone \/ DxeIpl

Spec == Init /\ [][Next]_vars

\* The core is never preempted and the code it calls returns; time passes,
\* so that a delayed function's time comes, and no delayed function asks to
\* be called again for ever.
FairSpec == /\ Spec /\ WF_vars(Dispatcher)
            /\ \A d \in Delayed : SF_vars(DelayedExpires(d))
            /\ SF_vars(DelayedDone)
-----------------------------------------------------------------------------
(* Properties.                                                             *)

Known(f) == \E v \in Elements(fvs) : f \in Elements(FilesOf[v])

\* The dispatcher would dispatch f if it looked at it now.
Ready(f) == /\ Known(f) /\ peimState[f] = NOT_DISPATCHED
            /\ ppis \in Depex[f] /\ Extractable(f)

\* When the dispatcher gives up, no file of any volume it knows could be
\* dispatched: "nothing has changed", as the comment over the condition of
\* the do-while says, also when the core was reentered in the last pass.
NobodyLeftBehind == pc = "end" => \A f \in File : ~Ready(f)

\* Files named in an Apriori file do not wait for their dependency
\* expression, also when the stack was switched while they were dispatched.
AprioriDispatched ==
  pc = "end" =>
    \A v \in Elements(fvs) : \A f \in Elements(AprioriPart(v)) :
      Extractable(f) => peimState[f] # NOT_DISPATCHED

\* The dispatcher gives up at last.
Terminates == <>(pc = "end")
=============================================================================
