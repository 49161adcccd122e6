---------------------------- MODULE PciDevices ----------------------------
(***************************************************************************)
(* The life of the PCI_IO_DEVICEs of PciBusDxe: the driver binding of a    *)
(* root bridge, the registration of its functions, hot plug requests, and  *)
(* the calls of the drivers of the functions to change attributes.         *)
(*                                                                         *)
(* A registered function has its protocols on a handle of its own, and     *)
(* the root bridge is open for it as a child.  The protocols lie in the    *)
(* PCI_IO_DEVICE, whose memory is given back when the function is removed; *)
(* if they are on a handle then, nothing is said of what follows.          *)
(* The services of the UEFI core are modelled by what they do: a handle    *)
(* ceases to exist with its last protocol, a protocol in use by a driver   *)
(* that does not stop cannot be uninstalled, and a driver is told to stop  *)
(* without children only after it was told to stop its children.           *)
(***************************************************************************)
EXTENDS PciAttributes

VARIABLES
  pool,         \* mPciDevicePool: the root bridge is in it
  enumerated,   \* the host bridge is in gPciHostBrigeHandles
  listed,       \* the functions in the ChildLists
  allocated,    \* PCI_IO_DEVICE.Allocated
  handle,       \* PCI_IO_DEVICE.Handle: "null", "valid" or "stale"
  installed,    \* functions with their protocols on their handle
  opened,       \* functions the root bridge is open for
  registered,   \* PCI_IO_DEVICE.Registered
  processed,    \* PCI_IO_DEVICE.AllOpRomProcessed
  override,     \* PCI_IO_DEVICE.BusOverride
  romTable,     \* functions whose driver mRomImageTable has
  inUse,        \* functions with a driver that does not stop
  dangling,     \* functions given back with protocols on their handle
  todo,         \* what the call in progress has yet to do
  stopped,      \* AllChildrenStopped
  shut,         \* history: bridges whose own driver turned VGA off,
  failures      \*   failures of the core

pciio == <<supports, attributes, registers, shut>>
nodes == <<pool, enumerated, listed, allocated>>
rom   == <<processed, override, romTable>>
flags == <<handle, installed, opened, registered>>
vars  == <<machine, pciio, nodes, rom, flags, inUse, dangling, todo, stopped, failures>>

Root == CHOOSE r \in Roots : TRUE
Idle == todo = <<>> /\ dangling = {}
Step(op, f) == [op |-> op, function |-> f]

(* What a call does to the functions below b in the order of the lists:    *)
(* each before those below it, each bridge again after them.               *)
Walk(list) ==
  LET walk[b \in Nodes] ==
        FoldLeft(LAMBDA s, f : IF f \notin list THEN s
                               ELSE s \o <<Step("register", f)>> \o walk[f] \o
                                    (IF f \in Bridges THEN <<Step("enable", f)>> ELSE <<>>),
                 <<>>, machine.children[b])
  IN  walk

Init ==
  /\ machine \in Machines
  /\ registers \in {[f \in Nodes |-> IF f \in on THEN {"io", "memory"} ELSE {}] :
                      on \in {{}, Nodes \ Roots}}
  /\ supports = [f \in Nodes |-> {}] /\ attributes = [f \in Nodes |-> {}]
  /\ pool = FALSE /\ enumerated = FALSE /\ listed = {} /\ allocated = {}
  /\ handle = [f \in Nodes |-> "null"]
  /\ installed = {} /\ opened = {} /\ registered = {}
  /\ processed = {} /\ override = {} /\ romTable = {}
  /\ inUse = {} /\ dangling = {} /\ todo = <<>> /\ stopped = TRUE
  /\ shut = {} /\ failures = 0

(***************************************************************************)
(* PciBusDriverBindingStart: the first for a host bridge enumerates, a     *)
(* later one only looks at what is there, takes what has resources for     *)
(* allocated and knows the images of ROMs from the table.                  *)
(***************************************************************************)
Fresh(list) ==
  /\ handle' = [f \in Nodes |-> IF f \in list THEN "null" ELSE handle[f]]
  /\ UNCHANGED <<installed, opened, registered>>

RemoveRejectedPciDevices(list) == list \ machine.rejected

Found(list, enabled, known) ==
  /\ pool' = TRUE /\ enumerated' = TRUE /\ listed' = list
  /\ allocated' = enabled
  /\ processed' = known
  /\ override' = known \cap romTable
  /\ Fresh(list)
  /\ DetermineDeviceAttribute(Root, list) /\ UNCHANGED shut
  /\ todo' = Walk(list)[Root]

PciEnumerator ==
  LET found == Below(Root) \ machine.later
  IN  ~pool /\ ~enumerated /\ Found(found, found \cap machine.allocated, {})

PciEnumeratorLight ==
  LET kept == RemoveRejectedPciDevices(Below(Root) \ machine.later)
  IN  ~pool /\ enumerated /\ Found(kept, kept, kept \cap machine.efiRoms)

(* The root bridge is in use already: StartPciDevices goes over its        *)
(* functions again.                                                        *)
StartAgain ==
  /\ pool
  /\ todo' = Walk(listed)[Root]
  /\ UNCHANGED <<nodes, flags, pciio, processed, override>>

Start ==
  /\ Idle
  /\ PciEnumerator \/ PciEnumeratorLight \/ StartAgain
  /\ UNCHANGED <<machine, romTable, inUse, dangling, stopped, failures>>

(***************************************************************************)
(* RegisterPciDevice.  "install", "loadFile2", "override" and "open" are   *)
(* the services of the core that can fail.  What failed leaves a handle    *)
(* that no longer exists, or protocols on one the root bridge is not open  *)
(* for.  The core refuses a handle that does not exist and a protocol that *)
(* is there already.                                                       *)
(***************************************************************************)
Installable(f) == handle[f] # "stale" /\ f \notin installed

(* ProcessOpRomImage: an image that starts becomes a driver override.      *)
ProcessOpRomImage(f, failing) ==
  IF failing \in {"install", "loadFile2"} THEN UNCHANGED rom
  ELSE /\ processed' = processed \cup {f}
       /\ \E started \in BOOLEAN :
            /\ started => f \in machine.efiRoms \ processed
            /\ override' = override \cup (IF started THEN {f} ELSE {})
            /\ romTable' = romTable \cup (IF started THEN {f} ELSE {})

RegisterPciDevice(f, failing) ==
  /\ ProcessOpRomImage(f, failing)
  /\ failing = "override" => f \in override'
  /\ handle' = [handle EXCEPT ![f] = CASE failing \in {"none", "open"} -> "valid"
                                       [] failing = "install" -> @
                                       [] OTHER -> "stale"]
  /\ installed'  = IF failing \in {"none", "open"} THEN installed \cup {f} ELSE installed
  /\ opened'     = IF failing = "none" THEN opened \cup {f} ELSE opened
  /\ registered' = IF failing = "none" THEN registered \cup {f} ELSE registered

Now(op) == todo # <<>> /\ Head(todo).op = op

(* StartPciDevicesOnBridge goes on to the next function if one fails.      *)
StartPciDevice ==
  /\ Now("register")
  /\ LET f == Head(todo).function
     IN  IF f \in registered \/ f \notin allocated THEN UNCHANGED <<flags, rom, failures>>
         ELSE \E failing \in {"none", "install", "open", "override"}
                             \cup (IF f \in machine.efiRoms THEN {"loadFile2"} ELSE {}) :
                /\ ~Installable(f) => failing = "install"
                /\ failures' = IF Installable(f) /\ failing # "none" THEN failures + 1 ELSE failures
                /\ failures' <= machine.failures
                /\ RegisterPciDevice(f, failing)
  /\ todo' = Tail(todo)
  /\ UNCHANGED <<machine, pciio, nodes, inUse, dangling, stopped>>

(* A bridge is enabled after the functions below it, registered or not.    *)
EnableBridge ==
  /\ Now("enable")
  /\ LET b == Head(todo).function
         on == supports[b] \cap DeviceEnable
     IN  /\ attributes' = [attributes EXCEPT ![b] = @ \cup on]
         /\ registers'  = [registers EXCEPT ![b] = @ \cup BitsOf(b, on)]
  /\ todo' = Tail(todo)
  /\ UNCHANGED <<machine, supports, shut, nodes, flags, rom, inUse, dangling,
                 stopped, failures>>

(***************************************************************************)
(* DeRegisterPciDevice: first the functions below, then the function; the  *)
(* first that is in use ends it.  "done" are the functions it removes.     *)
(***************************************************************************)
Under(f) ==
  LET walk[b \in Nodes] ==
        IF b \notin registered THEN <<>>
        ELSE FoldLeft(LAMBDA s, c : s \o walk[c], <<>>, machine.children[b]) \o <<b>>
  IN  walk[f]

\* Mutant: the root bridge is not opened again for a function in use.
DeRegisterClosed(f) ==
  LET walk == Under(f)
      kept == {i \in DOMAIN walk : \E k \in 1 .. i : walk[k] \in inUse}
      done == {walk[i] : i \in DOMAIN walk \ kept}
  IN  [done |-> done, closed |-> done \cup (Range(walk) \cap inUse), ok |-> kept = {}]

DeRegisterPciDevice(f) ==
  LET walk == Under(f)
      kept == {i \in DOMAIN walk : \E k \in 1 .. i : walk[k] \in inUse}
      done == {walk[i] : i \in DOMAIN walk \ kept}
  IN  [done |-> done, closed |-> done, ok |-> kept = {}]

Removed(done, closed) ==
  /\ handle' = [f \in Nodes |-> IF f \in done THEN "null" ELSE handle[f]]
  /\ installed' = installed \ done
  /\ opened' = opened \ closed
  /\ registered' = registered \ done

(* The memory of functions is given back: what is still on a handle then   *)
(* dangles.                                                                *)
FreePciDevice(set, on) ==
  /\ listed' = listed \ set
  /\ allocated' = allocated \ set
  /\ dangling' = dangling \cup (set \cap on)

(***************************************************************************)
(* PciBusDriverBindingStop, called by the core first with the children     *)
(* the root bridge is open for and, when they are stopped, without.        *)
(***************************************************************************)
Disconnect ==
  /\ Idle /\ pool
  /\ todo' = SetToSeq({Step("stop", f) : f \in opened}) \o <<Step("destroy", Root)>>
  /\ stopped' = TRUE
  /\ UNCHANGED <<machine, pciio, nodes, flags, rom, inUse, dangling, failures>>

StopChild ==
  /\ Now("stop")
  /\ \E d \in {DeRegisterPciDevice(Head(todo).function)} :
       /\ Removed(d.done, d.closed)
       /\ stopped' = (stopped /\ d.ok)
  /\ todo' = Tail(todo)
  /\ UNCHANGED <<machine, pciio, nodes, rom, inUse, dangling, failures>>

DestroyRootBridgeByHandle ==
  /\ Now("destroy")
  /\ IF stopped
     THEN /\ pool' = FALSE
          /\ FreePciDevice(listed, installed)
          /\ registered' = registered \ listed
          /\ UNCHANGED <<enumerated, handle, installed, opened, rom>>
     ELSE UNCHANGED <<nodes, flags, rom, dangling>>
  /\ todo' = <<>>
  /\ UNCHANGED <<machine, pciio, inUse, stopped, failures>>

(***************************************************************************)
(* PciHotPlugRequestNotify for a bridge: add what is in its slot, remove   *)
(* functions behind it, or remove and give back all of them.               *)
(***************************************************************************)
HotPlugAdd(b) ==
  /\ Idle
  /\ b \in installed \cap listed
  /\ IF Children(b) \cap listed # {}
     THEN /\ todo' = Walk(listed)[b]
          /\ UNCHANGED <<listed, allocated, flags, processed, override, pciio>>
     ELSE /\ listed' = listed \cup Below(b)
          /\ allocated' = allocated \cup Below(b)
          /\ processed' = processed \ Below(b) /\ override' = override \ Below(b)
          /\ Fresh(Below(b))
          /\ DetermineDeviceAttribute(b, listed') /\ UNCHANGED shut
          /\ todo' = Walk(listed')[b]
  /\ UNCHANGED <<machine, pool, enumerated, romTable, inUse, dangling, stopped, failures>>

HotPlugRemove(f) ==
  /\ Idle
  /\ f \in installed
  /\ \E d \in {DeRegisterPciDevice(f)} : Removed(d.done, d.closed)
  /\ UNCHANGED <<machine, pciio, nodes, rom, inUse, dangling, todo, stopped, failures>>

RemoveAllPciDeviceOnBridge(b) ==
  /\ Idle
  /\ b \in installed \cap listed
  /\ LET there == Below(b) \cap listed
         done  == {f \in there \cap registered : DeRegisterPciDevice(f).ok}
     IN  /\ handle' = [f \in Nodes |-> IF f \in done THEN "null" ELSE handle[f]]
         /\ installed' = installed \ done
         /\ opened' = opened \ done
         /\ registered' = registered \ there
         /\ FreePciDevice(there, installed \ done)
  /\ UNCHANGED <<machine, pciio, pool, enumerated, rom, inUse, todo, stopped, failures>>

(***************************************************************************)
(* The drivers of the functions.                                           *)
(***************************************************************************)
DriverKeeps(f) ==
  /\ Idle /\ f \in registered \cap machine.keepers
  /\ inUse' = IF f \in inUse THEN inUse \ {f} ELSE inUse \cup {f}
  /\ UNCHANGED <<machine, pciio, nodes, flags, rom, dangling, todo, stopped, failures>>

Wanted ==
  {DeviceEnable, {"busMaster"}, {"palette"},
   IF machine.vgaAliases THEN {"vgaIo", "vgaMemory"} ELSE {"vgaIo16", "vgaMemory"}}

DriverEnables(f) ==
  /\ Idle /\ f \in registered \ Bridges
  /\ \E want \in Wanted, rootAccepts \in BOOLEAN, only \in BOOLEAN :
       LET set == Asked(f, want)
           off == IF only THEN supports[f] \ set ELSE {}
       IN  Enable(f, set, off, listed, rootAccepts)
  /\ UNCHANGED <<shut, nodes, flags, rom, inUse, dangling, todo, stopped, failures>>

(* Nothing goes upstream or downstream: the driver of a bridge turns off   *)
(* what the functions below need.                                          *)
DriverDisables(f) ==
  /\ Idle /\ f \in registered /\ (f \in Bridges => f \in machine.quitters)
  /\ \E want \in Wanted :
       /\ Disable(f, Asked(f, want))
       /\ shut' = shut \cup (IF want \cap Vga # {} THEN {f} \cap Bridges ELSE {})
  /\ UNCHANGED <<nodes, flags, rom, inUse, dangling, todo, stopped, failures>>

Next ==
  \/ Start \/ StartPciDevice \/ EnableBridge
  \/ Disconnect \/ StopChild \/ DestroyRootBridgeByHandle
  \/ \E b \in machine.slots :
       \/ HotPlugAdd(b) \/ RemoveAllPciDeviceOnBridge(b)
       \/ \E f \in Below(b) : HotPlugRemove(f)
  \/ \E f \in Nodes \ Roots : DriverKeeps(f) \/ DriverEnables(f) \/ DriverDisables(f)

Spec == Init /\ [][Next]_vars

(***************************************************************************)
(* Properties                                                              *)
(***************************************************************************)
(* RegisterPciDevice and DeRegisterPciDevice: Registered is TRUE exactly   *)
(* for the functions the root bridge is open for, and these are in the     *)
(* lists and have their protocols on a handle that exists, even if         *)
(* starting or stopping failed half way.                                   *)
RegisteredMeansInstalled ==
  dangling = {} =>
    /\ registered = opened
    /\ \A f \in registered : f \in listed \cap installed /\ handle[f] = "valid"

(* PciIoAttributes: at most one function on the host bridge answers for    *)
(* the legacy VGA addresses.                                               *)
OneVgaActive ==
  Cardinality({f \in listed \ Bridges : attributes[f] \cap Vga # {}}) <= 1

(* PciIoAttributes: what the supports of a VGA function promise is         *)
(* reached.  Every bridge above a function that answers for VGA forwards   *)
(* VGA, with 16 bits if the function decodes 16 bits.  Bridges at which    *)
(* their own driver once turned VGA off are left out: the code does not    *)
(* ask who is behind them (PciIo.c:1765).                                  *)
VgaReachable ==
  \A f \in listed \ Bridges : \A b \in Above[f] \ (Roots \cup shut) :
    /\ attributes[f] \cap {"vgaIo", "vgaIo16"} # {} => "vga" \in registers[b]
    /\ "vgaIo16" \in attributes[f] => "vga16" \in registers[b]
=============================================================================
