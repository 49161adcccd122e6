--------------------------- MODULE PciBusNumbers ---------------------------
(***************************************************************************)
(* How PciBusDxe numbers the buses of a machine: PciHostBridgeEnumerator   *)
(* with PciRootBridgeEnumerator, PciScanBus, ResetAllPpbBusNumber and      *)
(* PciPciDeviceInfoCollector, and after it the hot plug requests.          *)
(*                                                                         *)
(* The driver finds functions by configuration cycles, and which function  *)
(* answers a cycle depends on the secondary and subordinate numbers the    *)
(* driver has already written into the bridges: Segments and Answering are *)
(* that hardware.  A walk over a bus is a frame on a stack, one step per   *)
(* function that answers, and the recursion of the code pushes a frame.    *)
(* Beside the driver run the hot plug controllers, which signal an event   *)
(* when the slots they have powered hold functions.                        *)
(*                                                                         *)
(* A machine is described by                                               *)
(*   parent, above, kind    the tree: the bus a function is on, by the     *)
(*                          bridge above, all bridges above with the root  *)
(*                          bridge; "root", "bridge", "cardbus", "device"  *)
(*   device                 the device number: the functions of a bus      *)
(*                          answer in the order of their names             *)
(*   ranges                 of a root bridge: the bus numbers it may use,  *)
(*                          a sequence of [min, max] in ascending order    *)
(*   hotPlug                whether there is a gPciHotPlugInit             *)
(*   controllers            the bridges that are hot plug controllers      *)
(*   late                   functions in slots that are not powered yet    *)
(*   padding, toRoot        the numbers GetResourcePadding asks for, and   *)
(*                          whether to be added at the root bridge         *)
(*   ari, virtual           functions with ARI; the ReservedBusNum of one  *)
(*                          with SR-IOV                                    *)
(***************************************************************************)
EXTENDS Integers, Sequences, FiniteSets, SequencesExt, FiniteSetsExt

CONSTANTS
  Machines,     \* the machines that are considered
  MaxBus,       \* the largest bus number a register holds, PCI_MAX_BUS
  MaxDepth,     \* bound: the walks the stack of the firmware has room for
  MaxFailures,  \* bound: failures of PciSearchDevice
  MaxRequests   \* bound: hot plug requests

VARIABLES
  machine,      \* the machine
  plugged,      \* its functions that are there
  second,       \* the secondary bus number in every bridge
  last,         \* the subordinate bus number in every bridge
  found,        \* gPciRootHpcData[].Found
  initialized,  \* gPciRootHpcData[].Initialized
  phase,        \* what PciHostBridgeEnumerator is doing
  pass,         \* its first or second numbering
  root,         \* the root bridge it has come to
  failed,       \* RootBridgeEnumerationStatus is an error
  frames,       \* the walks in progress, the innermost last
  subBus,       \* SubBusNumber
  padded,       \* PaddedBusRange
  given,        \* the last bus number given to SetBusNumbers
  devices,      \* the PCI_IO_DEVICEs: <<parent, function>>
  reached,      \* history: the CardBus bridges this numbering has come to,
  beyond,       \*   a bus was given a number beyond the last there is,
  failures,     \*   failures of PciSearchDevice,
  requests      \*   hot plug requests

vars == <<machine, plugged, second, last, found, initialized, phase, pass, root,
          failed, frames, subBus, padded, given, devices, reached, beyond,
          failures, requests>>
registers == <<second, last>>
slots     == <<plugged, found, initialized>>
progress  == <<pass, root, failed>>
numbers   == <<subBus, padded>>
history   == <<reached, beyond>>

Nodes   == DOMAIN machine.kind
Roots   == {r \in Nodes : machine.kind[r] = "root"}
Kind(f) == machine.kind[f]
IsBridge(f) == Kind(f) \in {"bridge", "cardbus"}

Chain(f) == {f} \cup machine.above[f]
RootOf(f) == CHOOSE r \in Chain(f) : r \in Roots
Below(f)  == {g \in Nodes \ Roots : g # f /\ f \in Chain(g)}

(* The ranges of a root bridge; the lowest number is that of its own bus.  *)
Ranges(r)   == machine.ranges[r]
Numbers(r)  == UNION {Ranges(r)[i].min .. Ranges(r)[i].max : i \in DOMAIN Ranges(r)}
StartBus(r) == Ranges(r)[1].min
PciGetMaxBusNumber(r) == Last(Ranges(r)).max

(***************************************************************************)
(* The hardware.  A cycle for bus b becomes a cycle on the bus below f     *)
(* when every bridge above forwards it and f has b as secondary number.    *)
(***************************************************************************)
Forwards(f, b) == second[f] < b /\ b <= last[f]
Segments(r, b) ==
  IF b \notin Numbers(r) THEN {}
  ELSE IF b = StartBus(r) THEN {r}
  ELSE {f \in Below(r) \cap plugged :
          /\ IsBridge(f) /\ second[f] = b
          /\ \A g \in Chain(f) \ {f, r} : Forwards(g, b)}
Answering(r, b) == {f \in plugged : machine.parent[f] \in Segments(r, b)}

None    == MaxBus + 1
Byte(n) == n % (MaxBus + 1)

\* Mutant: the hole between two ranges is not skipped.
AllocateBusNumberInHole(r, start, n) ==
  IF start + n > Last(Ranges(r)).max THEN None ELSE start + n

(***************************************************************************)
(* Numbers for n buses after the bus start: the last of them, in the       *)
(* ranges of the root bridge.  Bytes wrap.                                 *)
(***************************************************************************)
PciAllocateBusNumber(r, start, n) ==
  LET from[i \in DOMAIN Ranges(r), next \in 0 .. MaxBus] ==
        IF next <= Ranges(r)[i].max THEN next
        ELSE IF i = Len(Ranges(r)) THEN None
        ELSE from[i + 1, Byte(next + Ranges(r)[i + 1].min - (Ranges(r)[i].max + 1))]
      at == {i \in DOMAIN Ranges(r) : start \in Ranges(r)[i].min .. Ranges(r)[i].max}
  IN  IF at = {} THEN None ELSE from[Min(at), Byte(start + n)]
Wraps(start, n, next) == next # None /\ next < start + n

(***************************************************************************)
(* Walks                                                                   *)
(***************************************************************************)
Frame(w, b, n) == [walk |-> w, bridge |-> b, bus |-> n, at |-> 0,
                   ari |-> FALSE, reserved |-> 0, ready |-> FALSE]
Depth    == Len(frames)
Top      == frames[Depth]
Caller   == frames[Depth - 1]
Answers  == {f \in Answering(RootOf(Top.bridge), Top.bus) : f > Top.at}
Walking(w)     == frames # <<>> /\ Top.walk = w /\ Depth <= MaxDepth
Visiting(w, f) == Walking(w) /\ Answers # {} /\ f = Min(Answers)
Ended(w)       == Walking(w) /\ Answers = {}
Go(frame)         == frames' = Front(frames) \o <<frame>>
Enter(frame, new) == frames' = Front(frames) \o <<frame, new>>
Return            == frames' = Front(frames)
MovedTo(f)        == [Top EXCEPT !.at = f]

(* The numbers an earlier boot left in the bridges, with some unused.      *)
Earlier(unused) ==
  LET on      == {f \in plugged : IsBridge(f)}
      rank(f) == Cardinality({g \in on : RootOf(g) = RootOf(f) /\ g <= f})
      nth(r, n) == {b \in Numbers(r) : Cardinality({c \in Numbers(r) : c < b}) = n}
      fits    == \A f \in on : nth(RootOf(f), rank(f) + unused) # {}
  IN  [f \in Nodes |-> IF f \in on /\ fits
                       THEN Min(nth(RootOf(f), rank(f) + unused)) ELSE 0]

Init ==
  /\ machine \in Machines
  /\ plugged = Nodes \ (Roots \cup machine.late)
  /\ \/ second = [f \in Nodes |-> 0]
     \/ \E unused \in 0 .. 1 : second = Earlier(unused)
  /\ last = [f \in Nodes |-> Max({second[g] : g \in Below(f) \cup {f}})]
  /\ found = {} /\ initialized = {}
  /\ phase = "reset" /\ pass = 1 /\ root = Min(Roots) /\ failed = FALSE
  /\ frames = <<Frame("reset", root, StartBus(root))>>
  /\ subBus = 0 /\ padded = 0
  /\ given = [r \in Roots |-> None]
  /\ devices = {}
  /\ reached = {} /\ beyond = FALSE
  /\ failures = 0 /\ requests = 0

\* Mutant: only the primary number is cleared.
ClearPrimary(f) == f \in Nodes /\ UNCHANGED registers

(***************************************************************************)
(* ResetAllPpbBusNumber: depth first, and a bridge is cleared after the    *)
(* buses it leads to.                                                      *)
(***************************************************************************)
Clear(f) == /\ second' = [second EXCEPT ![f] = 0]
            /\ last' = [last EXCEPT ![f] = 0]

ResetVisit ==
  \E f \in Nodes :
    /\ Visiting("reset", f)
    /\ IF Kind(f) = "bridge" /\ second[f] # 0
       THEN /\ Enter(MovedTo(f), Frame("reset", Top.bridge, second[f]))
            /\ UNCHANGED registers
       ELSE /\ Go(MovedTo(f))
            /\ IF Kind(f) = "bridge" THEN Clear(f) ELSE UNCHANGED registers
    /\ UNCHANGED <<machine, slots, phase, progress, numbers, given, devices,
                   history, failures, requests>>

ResetReturn ==
  /\ Ended("reset") /\ Depth > 1
  /\ Return /\ Clear(Caller.at)
  /\ UNCHANGED <<machine, slots, phase, progress, numbers, given, devices,
                 history, failures, requests>>

(***************************************************************************)
(* PciScanBus                                                              *)
(***************************************************************************)
(* TempReservedBusNum begins anew with every device unless ARI makes one   *)
(* device of the bus; ARI is decided by function 0 of device 0.            *)
ScanFrame(f) ==
  LET first   == machine.device[f] = 0 /\ Top.at = 0
      sameDev == Top.at # 0 /\ machine.device[Top.at] = machine.device[f]
  IN  [MovedTo(f) EXCEPT !.ari = @ \/ (first /\ f \in machine.ari),
                         !.reserved = IF Top.ari \/ sameDev THEN @ ELSE 0]
AriMismatch(f) == (f \in machine.ari) # ScanFrame(f).ari

(* PciRootBridgeEnumerator fails; the other root bridges are still done.   *)
Fails ==
  /\ failed' = TRUE /\ frames' = <<>>
  /\ UNCHANGED <<registers, numbers, history>>

ScanDevice(f) ==
  LET have == ScanFrame(f).reserved
      want == machine.virtual[f]
      next == PciAllocateBusNumber(root, subBus, want - have)
  IN  IF want <= have
      THEN Go(ScanFrame(f)) /\ UNCHANGED <<failed, registers, numbers, history>>
      ELSE IF next = None THEN Fails
      ELSE /\ Go([ScanFrame(f) EXCEPT !.reserved = want])
           /\ subBus' = next
           /\ beyond' = (beyond \/ Wraps(subBus, want - have, next))
           /\ UNCHANGED <<failed, registers, padded, reached>>

IsPciHotPlugBus(f) == machine.hotPlug /\ machine.padding[f] > 0
Ready(f) == f \notin machine.controllers \/ f \in initialized

(* When what lies below a bridge is numbered, from the bus number up to     *)
(* sub: room for what may be plugged in later, here or at the root bridge,  *)
(* and the last number.                                                     *)
AtRoot(f, ready)  == IsPciHotPlugBus(f) /\ f \in machine.toRoot /\ ready
AtHere(f, ready)  == IsPciHotPlugBus(f) /\ ~AtRoot(f, ready)
Room(f, number)   == PciAllocateBusNumber(root, number, machine.padding[f])
RoomWraps(f, number, ready) ==
  AtHere(f, ready) /\ Wraps(number, machine.padding[f], Room(f, number))
Reserve(room, sub) == Max({room, sub})

CloseBridge(f, number, sub, ready, rest) ==
  IF AtHere(f, ready) /\ Room(f, number) = None
  THEN failed' = TRUE /\ frames' = <<>> /\ UNCHANGED <<last, numbers>>
  ELSE /\ subBus' = IF AtHere(f, ready) THEN Reserve(Room(f, number), sub) ELSE sub
       /\ padded' = IF AtRoot(f, ready) THEN Byte(machine.padding[f] + padded) ELSE padded
       /\ last' = [last EXCEPT ![f] = subBus']
       /\ frames' = rest /\ UNCHANGED failed

(* A bridge gets the next number and, while what lies below it is being    *)
(* numbered, everything up to the last number there is.  The slot of a     *)
(* CardBus bridge is not looked into.                                      *)
ScanBridge(f) ==
  LET next  == PciAllocateBusNumber(root, subBus, 1)
      frame == [ScanFrame(f) EXCEPT !.ready = Ready(f)]
      wraps == Wraps(subBus, 1, next)
  IN  IF next = None THEN Fails
      ELSE /\ second' = [second EXCEPT ![f] = next]
           /\ reached' = reached \cup {f}
           /\ IF Kind(f) = "bridge"
              THEN /\ last' = [last EXCEPT ![f] = Byte(PciGetMaxBusNumber(root))]
                   /\ subBus' = next /\ beyond' = (beyond \/ wraps)
                   /\ Enter(frame, Frame("scan", f, next))
                   /\ UNCHANGED <<failed, padded>>
              ELSE /\ beyond' = (beyond \/ wraps \/ RoomWraps(f, next, Ready(f)))
                   /\ CloseBridge(f, next, next, Ready(f), Front(frames) \o <<frame>>)

ScanVisit ==
  \E f \in Nodes :
    /\ Visiting("scan", f)
    /\ devices' = devices \cup {<<Top.bridge, f>>}
    /\ IF AriMismatch(f) THEN Fails /\ UNCHANGED found
       ELSE /\ found' = IF machine.hotPlug THEN found \cup ({f} \cap machine.controllers) ELSE found
            /\ IF IsBridge(f) THEN ScanBridge(f) ELSE ScanDevice(f)
    /\ UNCHANGED <<machine, plugged, initialized, phase, pass, root, given,
                   failures, requests>>

(* PciSearchDevice fails (authentication, memory): the function is passed  *)
(* over; GetResourcePadding fails: the root bridge fails.                  *)
ScanSearchFails ==
  /\ failures < MaxFailures
  /\ \E f \in Nodes :
       /\ Visiting("scan", f)
       /\ \/ /\ Go([MovedTo(f) EXCEPT !.reserved = ScanFrame(f).reserved])
             /\ UNCHANGED <<failed, registers, numbers, devices, history>>
          \/ IsPciHotPlugBus(f) /\ Fails /\ devices' = devices \cup {<<Top.bridge, f>>}
  /\ failures' = failures + 1
  /\ UNCHANGED <<machine, slots, phase, pass, root, given, requests>>

ScanReturn ==
  /\ Ended("scan") /\ Depth > 1
  /\ CloseBridge(Caller.at, Top.bus, subBus, Caller.ready, Front(frames))
  /\ beyond' = (beyond \/ RoomWraps(Caller.at, Top.bus, Caller.ready))
  /\ UNCHANGED <<machine, slots, second, phase, pass, root, given, devices,
                 reached, failures, requests>>

(* The recursion has come deeper than the stack of the firmware.           *)
StackOverflows ==
  /\ Depth > MaxDepth
  /\ phase' = "fault" /\ frames' = <<>>
  /\ UNCHANGED <<machine, slots, registers, progress, numbers, given, devices,
                 history, failures, requests>>

(***************************************************************************)
(* PciRootBridgeEnumerator and PciHostBridgeEnumerator around the walks    *)
(***************************************************************************)
StartScan ==
  /\ phase = "reset" /\ Ended("reset") /\ Depth = 1
  /\ phase' = "scan" /\ frames' = <<Frame("scan", root, StartBus(root))>>
  /\ subBus' = StartBus(root) /\ padded' = 0
  /\ devices' = {d \in devices : root \notin Chain(d[2])}
  /\ reached' = {f \in reached : root \notin Chain(f)}
  /\ UNCHANGED <<machine, slots, registers, progress, given, beyond, failures,
                 requests>>

GiveNumbers ==
  /\ phase = "scan" /\ Ended("scan") /\ Depth = 1
  /\ LET end == PciAllocateBusNumber(root, subBus, padded)
     IN  IF end = None THEN Fails /\ UNCHANGED given
         ELSE /\ given' = [given EXCEPT ![root] = end]
              /\ subBus' = end /\ frames' = <<>>
              /\ beyond' = (beyond \/ Wraps(subBus, padded, end))
              /\ UNCHANGED <<failed, registers, padded, reached>>
  /\ UNCHANGED <<machine, slots, phase, pass, root, devices, failures, requests>>

Rest == {r \in Roots : r > root}
Begin(p, w, r) == /\ phase' = p /\ root' = r
                  /\ frames' = <<Frame(w, r, StartBus(r))>>

(* After a numbering comes the next root bridge; after the first of two,   *)
(* everything is reset and the controllers are waited for; after the last, *)
(* the PCI_IO_DEVICEs are made anew.                                       *)
NextRoot ==
  /\ phase = "scan" /\ frames = <<>>
  /\ \/ Rest # {} /\ Begin("reset", "reset", Min(Rest))
     \/ Rest = {} /\ failed /\ phase' = "error" /\ UNCHANGED <<root, frames>>
     \/ Rest = {} /\ ~failed /\ machine.hotPlug /\ pass = 1 /\ Begin("resetAll", "reset", Min(Roots))
     \/ Rest = {} /\ ~failed /\ ~(machine.hotPlug /\ pass = 1) /\ Begin("collect", "collect", Min(Roots))
  /\ devices' = IF phase' = "collect" THEN {} ELSE devices
  /\ UNCHANGED <<machine, slots, registers, pass, failed, numbers, given,
                 history, failures, requests>>

ResetAllNext ==
  /\ phase = "resetAll" /\ Ended("reset") /\ Depth = 1
  /\ IF Rest # {} THEN Begin("resetAll", "reset", Min(Rest))
     ELSE phase' = "wait" /\ frames' = <<>> /\ UNCHANGED root
  /\ UNCHANGED <<machine, slots, registers, pass, failed, numbers, given,
                 devices, history, failures, requests>>

\* Mutant: the second numbering does not wait for the controllers.
AllRootHPCInitializedEarly ==
  /\ phase = "wait"
  /\ pass' = 2 /\ Begin("reset", "reset", Min(Roots))
  /\ UNCHANGED <<machine, slots, registers, failed, numbers, given, devices,
                 history, failures, requests>>

\* Mutant: there is no timeout.
AllRootHPCInitializedForever ==
  /\ phase = "wait" /\ found \subseteq initialized
  /\ pass' = 2 /\ Begin("reset", "reset", Min(Roots))
  /\ UNCHANGED <<machine, slots, registers, failed, numbers, given, devices,
                 history, failures, requests>>

AllRootHPCInitialized ==
  /\ phase = "wait"
  /\ IF found \subseteq initialized
     THEN pass' = 2 /\ Begin("reset", "reset", Min(Roots))
     ELSE phase' = "error" /\ UNCHANGED <<pass, root, frames>>
  /\ UNCHANGED <<machine, slots, registers, failed, numbers, given, devices,
                 history, failures, requests>>

(***************************************************************************)
(* PciPciDeviceInfoCollector.  A bridge without a number that follows its  *)
(* bus ends the walk over the functions of its device.                     *)
(***************************************************************************)
CollectVisit ==
  \E f \in Nodes :
    /\ Visiting("collect", f)
    /\ devices' = devices \cup {<<Top.bridge, f>>}
    /\ IF ~IsBridge(f) THEN Go(MovedTo(f))
       ELSE IF second[f] > Top.bus
       THEN Enter(MovedTo(f), Frame("collect", f, second[f]))
       ELSE Go(MovedTo(Max({g \in Answers : machine.device[g] = machine.device[f]})))
    /\ UNCHANGED <<machine, slots, registers, phase, progress, numbers, given,
                   history, failures, requests>>

CollectSearchFails ==
  /\ failures < MaxFailures
  /\ \E f \in Nodes : Visiting("collect", f) /\ Go(MovedTo(f))
  /\ failures' = failures + 1
  /\ UNCHANGED <<machine, slots, registers, phase, progress, numbers, given,
                 devices, history, requests>>

CollectReturn ==
  /\ Ended("collect") /\ Depth > 1
  /\ Return
  /\ UNCHANGED <<machine, slots, registers, phase, progress, numbers, given,
                 devices, history, failures, requests>>

CollectNext ==
  /\ Ended("collect") /\ Depth = 1
  /\ IF Top.bridge \in Roots /\ Rest # {}
     THEN Begin("collect", "collect", Min(Rest))
     ELSE phase' = "idle" /\ frames' = <<>> /\ UNCHANGED root
  /\ UNCHANGED <<machine, slots, registers, pass, failed, numbers, given,
                 devices, history, failures, requests>>

(***************************************************************************)
(* The hot plug controllers                                                *)
(***************************************************************************)
PciHPCInitialized(c) ==
  /\ c \in found \ initialized
  /\ initialized' = initialized \cup {c}
  /\ plugged' = plugged \cup Below(c)
  /\ UNCHANGED <<machine, registers, found, phase, progress, frames, numbers,
                 given, devices, history, failures, requests>>

(***************************************************************************)
(* PciHotPlugRequestNotify, once the machine has been enumerated.  To add: *)
(* what is in the slots is powered, then PciBridgeEnumerator numbers the   *)
(* buses below (PciAssignBusNumber) and collects.  The root bridge device  *)
(* of the last pass was made anew and never given BusNumberRanges, which   *)
(* PciAllocateBusNumber reads for every bridge there is to number: what    *)
(* address 0 holds decides whether that is a fault, no range has the       *)
(* number and the request is refused, or a range has it and the next.      *)
(***************************************************************************)
Child(b) == {d[2] : d \in {e \in devices : e[1] = b}}
Slot(b)  == /\ phase \in {"idle", "refused"} /\ requests < MaxRequests
            /\ requests' = requests + 1
            /\ IsPciHotPlugBus(b) /\ second[b] # 0
            /\ \E d \in devices : d[2] = b

HotPlugAdd(b) ==
  /\ Slot(b) /\ Child(b) = {}
  /\ plugged' = plugged \cup Below(b)
  /\ phase' = "assign" /\ frames' = <<Frame("assign", b, second[b])>>
  /\ subBus' = second[b]
  /\ UNCHANGED <<machine, registers, found, initialized, progress, padded,
                 given, devices, history, failures>>

AssignBridge(f) ==
  \/ /\ phase' \in {"fault", "refused"} /\ frames' = <<>>
     /\ UNCHANGED <<registers, subBus, history>>
  \/ /\ subBus' = Byte(subBus + 1)
     /\ second' = [second EXCEPT ![f] = subBus']
     /\ reached' = reached \cup {f}
     /\ beyond' = (beyond \/ subBus + 1 > last[frames[1].bridge])
     /\ IF Kind(f) = "bridge"
        THEN /\ last' = [last EXCEPT ![f] = MaxBus]
             /\ Enter(MovedTo(f), Frame("assign", f, subBus'))
        ELSE last' = [last EXCEPT ![f] = subBus'] /\ Go(MovedTo(f))
     /\ UNCHANGED phase

AssignVisit ==
  /\ \E f \in Nodes :
       /\ Visiting("assign", f)
       /\ IF IsBridge(f) THEN AssignBridge(f)
          ELSE Go(MovedTo(f)) /\ UNCHANGED <<phase, registers, subBus, history>>
  /\ UNCHANGED <<machine, slots, progress, padded, given, devices, failures,
                 requests>>

AssignReturn ==
  /\ Ended("assign") /\ Depth > 1
  /\ last' = [last EXCEPT ![Caller.at] = subBus]
  /\ Return
  /\ UNCHANGED <<machine, slots, second, phase, progress, numbers, given, devices,
                 history, failures, requests>>

AssignEnds ==
  /\ Ended("assign") /\ Depth = 1
  /\ phase' = "collect"
  /\ frames' = <<Frame("collect", Top.bridge, second[Top.bridge])>>
  /\ UNCHANGED <<machine, slots, registers, progress, numbers, given, devices,
                 history, failures, requests>>

HotPlugRemove(b) ==
  /\ Slot(b) /\ Child(b) # {}
  /\ devices' = {d \in devices : d[2] \notin Below(b)}
  /\ plugged' = plugged \ Below(b)
  /\ second' = [f \in Nodes |-> IF f \in Below(b) THEN 0 ELSE second[f]]
  /\ last' = [f \in Nodes |-> IF f \in Below(b) THEN 0 ELSE last[f]]
  /\ UNCHANGED <<machine, found, initialized, phase, progress, frames, numbers,
                 given, history, failures>>

Driver ==
  \/ ResetVisit \/ ResetReturn \/ StartScan \/ ScanVisit \/ ScanReturn
  \/ GiveNumbers \/ NextRoot \/ ResetAllNext \/ AllRootHPCInitialized
  \/ CollectVisit \/ CollectReturn \/ CollectNext \/ AssignVisit \/ AssignReturn
  \/ AssignEnds \/ StackOverflows

Next ==
  \/ Driver \/ ScanSearchFails \/ CollectSearchFails
  \/ \E c \in Nodes : PciHPCInitialized(c)
  \/ \E b \in Nodes : HotPlugAdd(b)
  \/ \E b \in Nodes : HotPlugRemove(b)

Spec     == Init /\ [][Next]_vars
FairSpec == Spec /\ WF_vars(Driver)

(***************************************************************************)
(* Properties                                                              *)
(***************************************************************************)
TypeOK ==
  /\ machine \in Machines /\ root \in Roots
  /\ plugged \subseteq Nodes \ Roots
  /\ second \in [Nodes -> 0 .. MaxBus] /\ last \in [Nodes -> 0 .. MaxBus]
  /\ initialized \subseteq found /\ found \subseteq machine.controllers
  /\ phase \in {"reset", "scan", "resetAll", "wait", "collect", "idle",
                "assign", "refused", "error", "fault"}
  /\ pass \in 1 .. 2 /\ failed \in BOOLEAN
  /\ subBus \in 0 .. MaxBus /\ padded \in 0 .. MaxBus
  /\ devices \subseteq Nodes \X Nodes

(* At every moment, also between the writes of a numbering and after one   *)
(* that failed, at most one bus of the machine answers a configuration     *)
(* cycle (PciDevicePresent never sees two functions at once): the reset    *)
(* comes before the scan, and the open window of the bridge being scanned  *)
(* (PciLib.c:1317) overlaps with nothing that still has a number.  Left    *)
(* out, because the code does not see to them: CardBus bridges that this   *)
(* numbering has not come to, which keep the number of an earlier boot or  *)
(* pass (PciEnumeratorSupport.c:2880), and everything after a number was   *)
(* taken beyond the last there is: the eight bits wrap (PciLib.c:1046),    *)
(* and a hot plug request does not look at the subordinate number of the   *)
(* bridge it numbers below (PciEnumerator.c:377).                          *)
Heard(r, b) == {f \in Segments(r, b) : Kind(f) = "cardbus" => f \in reached}
RoutingUnambiguous ==
  ~beyond => \A r \in Roots : \A b \in Numbers(r) : Cardinality(Heard(r, b)) <= 1

Numbered(f) == /\ f \in plugged /\ IsBridge(f) /\ second[f] # 0
               /\ Kind(f) = "cardbus" => f \in reached

(* When the numbering has succeeded and no number was taken beyond the     *)
(* last there is (see above), the numbers of a bridge lie within those of  *)
(* the bridge above and apart from those of its neighbours, and they are   *)
(* among the numbers SetBusNumbers was given, up to the last number a      *)
(* register holds.  CardBus bridges the scan could not look at are left    *)
(* out.                                                                    *)
NumbersNest ==
  phase \in {"collect", "idle"} /\ ~beyond =>
    \A f \in Nodes : Numbered(f) =>
      LET p == machine.parent[f]
          r == RootOf(f)
      IN  /\ second[f] > IF p = r THEN StartBus(r) ELSE second[p]
          /\ second[f] <= last[f]
          /\ last[f] <= IF p = r THEN given[r] ELSE last[p]
          /\ {second[f], last[f]} \subseteq Numbers(r)
          /\ \A g \in Nodes :
               Numbered(g) /\ g # f /\ machine.parent[g] = p =>
                 last[f] < second[g] \/ last[g] < second[f]

(* An enumeration in which nothing failed and no number was taken beyond   *)
(* the last has a PCI_IO_DEVICE for every function that is there, under    *)
(* the bridge it is behind; those that the hot plug controllers powered    *)
(* during the first pass, and those added or removed later, included.      *)
EverythingFound ==
  phase = "idle" /\ failures = 0 /\ ~beyond =>
    devices = {<<machine.parent[f], f>> : f \in plugged}

(* The enumeration ends, whatever the controllers do, unless a number      *)
(* wraps: with bus 0 below a bridge PciScanBus recurs without an end.      *)
EnumerationEnds == <>(beyond \/ phase \in {"idle", "error"})
=============================================================================
