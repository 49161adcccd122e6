--------------------------- MODULE PciAttributes ---------------------------
(***************************************************************************)
(* The attributes of PCI functions in PciBusDxe: DetermineDeviceAttribute, *)
(* which finds out what a function supports and has enabled, and           *)
(* PciIoAttributes, which enables and disables.  To enable an attribute    *)
(* that concerns legacy addresses opens the bridges above as well, up to   *)
(* the root bridge, which belongs to another driver and may refuse.        *)
(*                                                                         *)
(* A machine is described by                                               *)
(*   children, parent, kind  the tree: "root", "bridge", "device"          *)
(*   class, bus              "vga", "gfx" or "other"; the bus a function   *)
(*                           is on                                         *)
(*   implemented             of a function: the bits of the command        *)
(*                           register, and of a bridge the bits of bridge  *)
(*                           control, that can be set                      *)
(*   fast, fastBelow         functions that can do fast back to back       *)
(*                           transactions, bridges that can below          *)
(*   rootSupports            what the root bridges support                 *)
(*   vgaAliases              mReserveVgaAliases                            *)
(*   efiRoms                 functions with an EFI image in their ROM      *)
(*   allocated, rejected     functions that get resources; devices whose   *)
(*                           BARs get none                                 *)
(*   slots, later            bridges whose hot plug controller makes       *)
(*                           requests; functions plugged in later          *)
(*   keepers                 functions whose driver may refuse to stop     *)
(*   quitters                bridges whose driver disables attributes      *)
(*   failures                bound: services of the core that fail         *)
(***************************************************************************)
EXTENDS Integers, Sequences, FiniteSets, SequencesExt, FiniteSetsExt

CONSTANTS
  Machines      \* the machines that are considered

(* The nodes above f in a machine, those that every set has that holds the *)
(* parent of f and the parents of its bridges; and those of all machines.  *)
Branching(m) == {f \in DOMAIN m.kind : m.kind[f] # "device"}
Ancestors(m, f) ==
  IF m.kind[f] = "root" THEN {}
  ELSE {b \in Branching(m) :
          \A S \in SUBSET Branching(m) :
            /\ m.parent[f] \in S
            /\ \A g \in S : m.kind[g] = "bridge" => m.parent[g] \in S
            => b \in S}
Trees == [m \in Machines |-> [f \in DOMAIN m.kind |-> Ancestors(m, f)]]

(* Every function is below a root bridge, and in the list of its parent;   *)
(* with a bridge everything below it is plugged in later; only devices are *)
(* rejected.                                                               *)
IsTree(m) ==
  /\ \A f \in DOMAIN m.kind :
       /\ m.kind[f] \in {"root", "bridge", "device"}
       /\ m.kind[f] # "root" =>
            /\ m.parent[f] \in Branching(m) /\ f \in Range(m.children[m.parent[f]])
            /\ f \notin Ancestors(m, f)
            /\ \E r \in Ancestors(m, f) : m.kind[r] = "root"
            /\ m.parent[f] \in m.later => f \in m.later
  /\ \E r \in DOMAIN m.kind : m.kind[r] = "root"
  /\ \A f \in DOMAIN m.kind \cap m.rejected : m.kind[f] = "device"

(* Only bridges have a bridge control register, and those that can decode  *)
(* 16 bits of VGA addresses can forward them.                              *)
HasRegisters(m) ==
  \A f \in DOMAIN m.kind :
    /\ m.kind[f] = "device" => m.implemented[f] \cap {"isa", "vga", "vga16"} = {}
    /\ "vga16" \in m.implemented[f] => "vga" \in m.implemented[f]

ASSUME MachineAssumption == \A m \in Machines : IsTree(m) /\ HasRegisters(m)

VARIABLES
  machine,      \* the machine
  supports,     \* PCI_IO_DEVICE.Supports
  attributes,   \* PCI_IO_DEVICE.Attributes
  registers     \* the bits set in the command and bridge control registers

Nodes   == DOMAIN machine.kind
Kind(f) == machine.kind[f]
Roots   == {f \in Nodes : Kind(f) = "root"}
Bridges == {f \in Nodes : Kind(f) = "bridge"}
Children(b) == Range(machine.children[b])
Above   == Trees[machine]
Below(b) == {f \in Nodes : b \in Above[f]}

DeviceEnable == {"io", "memory", "busMaster"}
Vga          == {"vgaIo", "vgaIo16", "vgaMemory"}
Palette      == {"palette", "palette16"}
Sixteen      == {"vgaIo16", "palette16"}
Bits         == DeviceEnable \cup {"snoop", "isa", "vga", "vga16"}

(***************************************************************************)
(* PciSetDeviceAttribute: attributes from the bits of the registers.       *)
(***************************************************************************)
FromRegisters(bits) ==
  (bits \cap DeviceEnable)
  \cup (IF "snoop" \in bits THEN {"palette"} ELSE {})
  \cup (IF "isa"   \in bits THEN {"isaIo"} ELSE {})
  \cup (IF "vga"   \in bits THEN {"vgaIo", "vgaMemory", "palette"} ELSE {})
  \cup (IF "vga16" \in bits THEN {"vgaIo16", "palette16"} ELSE {})

Supported(f) ==
  LET other == IF machine.vgaAliases THEN Sixteen ELSE {"vgaIo", "palette"}
      own   == FromRegisters(machine.implemented[f] \cap Bits)
  IN  IF f \in Bridges THEN own \ other
      ELSE IF machine.class[f] = "vga"
      THEN own \cup {"vgaMemory", IF machine.vgaAliases THEN "vgaIo" ELSE "vgaIo16"}
      ELSE own

(* Fast back to back transactions are switched on for all functions below  *)
(* a bridge or for none.                                                   *)
FastBackToBack(b, listed) ==
  /\ Children(b) \cap listed \subseteq machine.fast
  /\ b \in Roots \cup machine.fastBelow

(* The bits a function has after the bridge b was looked at.               *)
Tested(f, listed) ==
  LET on  == IF f \in Roots THEN {}
             ELSE IF FastBackToBack(machine.parent[f], listed) THEN {"fast"} ELSE {}
      sec == IF f \in Bridges /\ Children(f) \cap listed # {} /\ FastBackToBack(f, listed)
             THEN {"fastBelow"} ELSE {}
  IN  (registers[f] \ {"fast", "fastBelow"}) \cup on \cup sec

(* Beyond DeviceEnable a function supports what its parent does: of what   *)
(* there is above b, and of the bridges from b on.                         *)
DetermineDeviceAttribute(b, listed) ==
  LET seen  == {b} \cup (Below(b) \cap listed)
      outer == IF b \in Roots \/ machine.parent[b] \in Roots THEN machine.rootSupports
               ELSE supports[machine.parent[b]]
      passed(f) == {a \in outer : \A g \in (Above[f] \cap seen) \ Roots : a \in Supported(g)}
  IN  /\ supports' = [f \in Nodes |-> IF f \in Roots THEN machine.rootSupports
                                      ELSE IF f \in seen
                                      THEN Supported(f) \cap (passed(f) \cup DeviceEnable)
                                      ELSE supports[f]]
      /\ attributes' = [f \in Nodes |-> IF f \in seen \ Roots THEN FromRegisters(registers[f])
                                        ELSE attributes[f]]
      /\ registers' = [f \in Nodes |-> IF f \in seen /\ f # b THEN Tested(f, listed)
                                       ELSE IF f = b THEN (registers[f] \ {"fastBelow"})
                                                          \cup (Tested(f, listed) \cap {"fastBelow"})
                                       ELSE registers[f]]

(***************************************************************************)
(* PciIoAttributes                                                         *)
(***************************************************************************)
(* The bits for attributes.  For a bridge the bit of the palette attribute *)
(* is written to the command register, where it is that of bus mastering.  *)
BitsOf(f, set) ==
  (set \cap DeviceEnable) \cup
  (IF f \in Bridges
   THEN (IF set \cap {"vgaIo", "vgaIo16"} # {} THEN {"vga"} ELSE {})
        \cup (IF "isaIo" \in set THEN {"isa"} ELSE {})
        \cup (IF set \cap Palette # {} THEN {"busMaster"} ELSE {})
        \cup (IF set \cap Sixteen # {} THEN {"vga16"} ELSE {})
   ELSE IF set \cap Palette # {} THEN {"snoop"} ELSE {})

\* Mutant: only what is directly below the root bridge is looked at.
LocateVgaDeviceAtRoot(listed) ==
  {f \in listed : machine.class[f] = "vga" /\ attributes[f] \cap Vga # {} /\ machine.parent[f] \in Roots}

(* The active VGA function, the first in the order of the lists.           *)
LocateVgaDeviceOnHostBridge(listed) ==
  {f \in listed : machine.class[f] = "vga" /\ attributes[f] \cap Vga # {}}

PciDevicesOnTheSamePath(f, g) ==
  \/ machine.parent[f] = machine.parent[g]
  \/ g \in Below(machine.parent[f])
  \/ f \in Below(machine.parent[g])

(* Whether a function may snoop the palette.  Behind a bridge that comes   *)
(* before that of the active VGA function, that one stops snooping.        *)
SupportPaletteSnoopAttributes(f, active) ==
  /\ machine.class[f] = "gfx"
  /\ \A v \in active : PciDevicesOnTheSamePath(v, f) =>
       IF machine.parent[v] = machine.parent[f] THEN "snoop" \notin registers[v]
       ELSE machine.bus[v] >= machine.bus[f]
StopsSnooping(f, set, active) ==
  {v \in active : /\ f \notin Bridges /\ set \cap Palette # {}
                  /\ PciDevicesOnTheSamePath(v, f) /\ machine.parent[v] # machine.parent[f]}

(* To ask for all of DeviceEnable is to ask for what is supported.  VGA    *)
(* and VGA16 exclude each other.                                           *)
Asked(f, set) == IF DeviceEnable \subseteq set THEN set \cap supports[f] ELSE set
Accepts(f, set) ==
  /\ set \cap {"vgaIo", "palette"} = {} \/ set \cap Sixteen = {}
  /\ set \subseteq supports[f]

Allowed(f, set, active) ==
  /\ Accepts(f, set)
  /\ f \notin Bridges =>
       /\ set \cap Vga # {} => active \subseteq {f}
       /\ set \cap Palette # {} => SupportPaletteSnoopAttributes(f, active)

UpStream(set) == set \ DeviceEnable

\* Mutant: the bridges above the nearest one are not opened.
EnabledBridgesNearest(f, set) ==
  {b \in Above[f] \ Roots : b = machine.parent[f] /\ Accepts(b, UpStream(set))}

(* The bridges above that are enabled as well, up to one that does not     *)
(* accept.                                                                 *)
EnabledBridges(f, set) ==
  {b \in Above[f] \ Roots : \A c \in (Above[f] \ (Above[b] \cup Roots)) : Accepts(c, UpStream(set))}

(* Enable: the function first, then the bridges, the root bridge last.     *)
(* Set disables the rest, off, when all that succeeded.                    *)
Enable(f, set, off, listed, rootAccepts) ==
  \E active \in {LocateVgaDeviceOnHostBridge(listed)} :
    LET open   == EnabledBridges(f, set)
        up     == UpStream(set)
        root   == CHOOSE r \in Roots : r \in Above[f]
        whole  == open = Above[f] \ Roots /\ rootAccepts /\ up \subseteq supports[root]
        quiet  == StopsSnooping(f, set, active)
        rest   == IF whole /\ Accepts(f, Asked(f, off)) THEN Asked(f, off) ELSE {}
        add(g) == IF g = f THEN set ELSE IF g \in open THEN up ELSE {}
        less(g) == IF g = f THEN rest ELSE {}
    IN  /\ Allowed(f, set, active)
        /\ attributes' = [g \in Nodes |-> IF g = root
                                          THEN attributes[g] \cup (IF whole THEN up ELSE {})
                                          ELSE (attributes[g] \cup add(g)) \ less(g)]
        /\ registers' = [g \in Nodes |-> ((registers[g] \ (IF g \in quiet THEN {"snoop"} ELSE {}))
                                          \cup (BitsOf(g, add(g)) \cap machine.implemented[g]))
                                         \ BitsOf(g, less(g))]
        /\ UNCHANGED <<machine, supports>>

Disable(f, set) ==
  /\ Accepts(f, set)
  /\ attributes' = [attributes EXCEPT ![f] = @ \ set]
  /\ registers'  = [registers EXCEPT ![f] = @ \ BitsOf(f, set)]
  /\ UNCHANGED <<machine, supports>>
=============================================================================
