------------------------- MODULE PciDevicesProofs -------------------------
(***************************************************************************)
(* Proofs about PciDevices: for any tree of bridges and devices, any lists *)
(* of what is allocated, rejected, plugged in later or kept in use, and    *)
(* any number of failures of the core, what is registered is installed,    *)
(* one VGA function at most is active, and the bridges above it forward    *)
(* VGA.                                                                    *)
(***************************************************************************)
EXTENDS PciDevices, FiniteSetTheorems, TLAPS

Devices == Nodes \ (Roots \cup Bridges)
Active  == {f \in listed \ Bridges : attributes[f] \cap Vga # {}}

(* What a node has above it, in the terms of the machine.                  *)
TreeFacts ==
  /\ Roots # {} /\ Root \in Roots
  /\ \A f \in Roots : Above[f] = {}
  /\ \A f \in Nodes : Above[f] \subseteq Nodes \ Devices /\ f \notin Above[f]
  /\ \A f \in Nodes \ Roots :
       /\ machine.parent[f] \in Nodes
       /\ Above[f] = {machine.parent[f]} \cup Above[machine.parent[f]]
       /\ f \in Children(machine.parent[f])
       /\ \E r \in Roots : r \in Above[f]
       /\ machine.parent[f] \in machine.later => f \in machine.later
  /\ machine.rejected \cap Nodes \subseteq Devices

(* The lists: they hold no root bridge, with a function the bridges above  *)
(* it, and nothing when the root bridge is not in the pool.                *)
ListsHold ==
  /\ listed \subseteq Nodes \ Roots
  /\ \A f \in listed : Above[f] \ Roots \subseteq listed
  /\ allocated \subseteq listed
  /\ ~pool => listed = {}

(* A function supports what it implements, and beyond DeviceEnable what    *)
(* all bridges above it support.                                           *)
SupportsHold ==
  /\ \A f \in Nodes \ Roots : supports[f] \subseteq Supported(f)
  /\ \A f \in listed : \A b \in Above[f] \ Roots : supports[f] \ DeviceEnable \subseteq supports[b]

(* A device has no bits of bridge control, and only a VGA function answers *)
(* for VGA.                                                                *)
DevicesHold ==
  /\ \A f \in Devices : registers[f] \cap {"vga", "vga16"} = {}
  /\ \A f \in listed \ Bridges : attributes[f] \cap Vga # {} => machine.class[f] = "vga"

Domains ==
  /\ DOMAIN handle = Nodes /\ DOMAIN supports = Nodes
  /\ DOMAIN attributes = Nodes /\ DOMAIN registers = Nodes

AtMostOne == \A f, g \in Active : f = g

(* What the proofs know of who answers for VGA.                            *)
VgaHolds == DevicesHold /\ AtMostOne /\ VgaReachable

Inv ==
  /\ machine \in Machines /\ Domains
  /\ ListsHold /\ SupportsHold /\ VgaHolds /\ RegisteredMeansInstalled

-----------------------------------------------------------------------------
(* The nodes above a node of a machine.                                    *)

\* What holds of the parent of f, and of that of a bridge when it holds of
\* the bridge, holds of all nodes above f.
LEMMA Climb ==
  ASSUME NEW m, IsTree(m), NEW f \in DOMAIN m.kind, m.kind[f] # "root", NEW P,
         m.parent[f] \in P,
         \A g \in P \cap Branching(m) : m.kind[g] = "bridge" => m.parent[g] \in P
  PROVE  Ancestors(m, f) \subseteq P
PROOF
<1> DEFINE S == P \cap Branching(m)
<1>1. S \in SUBSET Branching(m) /\ m.parent[f] \in S
  BY DEF IsTree
<1>2. \A g \in S : m.kind[g] = "bridge" => m.parent[g] \in S
  BY DEF IsTree, Branching
<1> HIDE DEF S
<1>3. Ancestors(m, f) \subseteq S
  BY <1>1, <1>2 DEF Ancestors
<1> QED
  BY <1>3 DEF S

\* With a bridge its parent is above f.
LEMMA AboveClosed ==
  ASSUME NEW m, IsTree(m), NEW f \in DOMAIN m.kind, m.kind[f] # "root"
  PROVE  /\ m.parent[f] \in Ancestors(m, f)
         /\ \A g \in Ancestors(m, f) : m.kind[g] = "bridge" => m.parent[g] \in Ancestors(m, f)
PROOF
<1>1. m.parent[f] \in Branching(m)
  BY DEF IsTree
<1>2. m.parent[f] \in Ancestors(m, f)
  BY <1>1 DEF Ancestors
<1>3. ASSUME NEW g \in Ancestors(m, f), m.kind[g] = "bridge"
      PROVE  m.parent[g] \in Ancestors(m, f)
  <2>1. g \in Branching(m) /\ m.parent[g] \in Branching(m)
    BY <1>3 DEF Ancestors, Branching, IsTree
  <2>2. ASSUME NEW S \in SUBSET Branching(m), m.parent[f] \in S,
               \A x \in S : m.kind[x] = "bridge" => m.parent[x] \in S
        PROVE  m.parent[g] \in S
    BY <1>3, <2>2 DEF Ancestors
  <2> QED
    BY <2>1, <2>2 DEF Ancestors
<1> QED
  BY <1>2, <1>3

\* Above f are its parent and what is above the parent.
LEMMA AboveParent ==
  ASSUME NEW m, IsTree(m), NEW f \in DOMAIN m.kind, m.kind[f] # "root"
  PROVE  Ancestors(m, f) = {m.parent[f]} \cup Ancestors(m, m.parent[f])
PROOF
<1> DEFINE p == m.parent[f]
           P == {p} \cup Ancestors(m, p)
<1>1. p \in Branching(m) /\ p \in DOMAIN m.kind /\ p \in Ancestors(m, f)
  BY AboveClosed DEF IsTree, Branching
<1>2. m.kind[p] = "root" => Ancestors(m, p) = {}
  BY DEF Ancestors
<1>3. m.kind[p] # "root" => m.kind[p] = "bridge"
  BY <1>1 DEF IsTree, Branching
<1>4. \A g \in P : m.kind[g] = "bridge" => m.parent[g] \in P
  BY <1>1, <1>2, AboveClosed
<1>5. Ancestors(m, f) \subseteq P
  <2> HIDE DEF P
  <2>1. m.parent[f] \in P
    BY DEF P
  <2> QED
    BY <2>1, <1>4, Climb
<1>6. Ancestors(m, p) \subseteq Ancestors(m, f)
  <2>1. CASE m.kind[p] = "root"
    BY <1>2, <2>1
  <2>2. CASE m.kind[p] # "root"
    <3>1. \A g \in Ancestors(m, f) : m.kind[g] = "bridge" => m.parent[g] \in Ancestors(m, f)
      BY AboveClosed
    <3>2. m.parent[p] \in Ancestors(m, f)
      BY <1>1, <1>3, <2>2, <3>1
    <3> HIDE DEF p
    <3> QED
      BY <1>1, <2>2, <3>1, <3>2, Climb
  <2> QED
    BY <2>1, <2>2
<1> QED
  BY <1>1, <1>5, <1>6

\* The facts of the tree hold of every machine.
LEMMA MachineIsTree ==
  ASSUME machine \in Machines
  PROVE  TreeFacts
PROOF
<1>1. IsTree(machine) /\ HasRegisters(machine)
  BY MachineAssumption
<1>2. \A f \in Nodes : Above[f] = Ancestors(machine, f)
  BY DEF Above, Trees, Nodes
<1>3. \A f \in Nodes : Kind(f) \in {"root", "bridge", "device"}
  BY <1>1 DEF IsTree, Nodes, Kind
<1>4. /\ Branching(machine) = Nodes \ Devices
      /\ \A f \in Nodes : f \in Roots <=> machine.kind[f] = "root"
  BY <1>3 DEF Branching, Devices, Nodes, Roots, Bridges, Kind
<1>5. Roots # {} /\ Root \in Roots
  <2>1. Roots # {}
    BY <1>1 DEF IsTree, Roots, Nodes, Kind
  <2> QED
    BY <2>1 DEF Root
<1>6. \A f \in Roots : Above[f] = {}
  BY <1>2, <1>4 DEF Ancestors, Roots
<1>7. \A f \in Nodes : Above[f] \subseteq Nodes \ Devices /\ f \notin Above[f]
  <2>1. \A f \in Nodes : Ancestors(machine, f) \subseteq Branching(machine)
    BY DEF Ancestors
  <2>2. \A f \in Nodes : machine.kind[f] # "root" => f \notin Ancestors(machine, f)
    BY <1>1 DEF IsTree, Nodes
  <2> QED
    BY <1>2, <1>4, <1>6, <2>1, <2>2
<1>8. ASSUME NEW f \in Nodes \ Roots
      PROVE  /\ machine.parent[f] \in Nodes
             /\ Above[f] = {machine.parent[f]} \cup Above[machine.parent[f]]
             /\ f \in Children(machine.parent[f])
             /\ \E r \in Roots : r \in Above[f]
             /\ machine.parent[f] \in machine.later => f \in machine.later
  <2>1. machine.kind[f] # "root" /\ f \in DOMAIN machine.kind
    BY <1>4 DEF Nodes
  <2>2. /\ machine.parent[f] \in Branching(machine)
        /\ f \in Range(machine.children[machine.parent[f]])
        /\ \E r \in Ancestors(machine, f) : machine.kind[r] = "root"
        /\ machine.parent[f] \in machine.later => f \in machine.later
    BY <1>1, <2>1 DEF IsTree
  <2>3. Ancestors(machine, f) = {machine.parent[f]} \cup Ancestors(machine, machine.parent[f])
    BY <1>1, <2>1, AboveParent
  <2>4. machine.parent[f] \in Nodes
    BY <1>4, <2>2
  <2>5. \E r \in Roots : r \in Above[f]
    BY <1>2, <1>4, <1>7, <2>2
  <2> QED
    BY <1>2, <2>2, <2>3, <2>4, <2>5 DEF Children
<1>9. machine.rejected \cap Nodes \subseteq Devices
  BY <1>1 DEF IsTree, Devices, Roots, Bridges, Nodes, Kind
<1> QED
  BY <1>5, <1>6, <1>7, <1>8, <1>9 DEF TreeFacts

\* The same in the terms of the state: what holds of the parent of f, and of
\* that of a bridge when it holds of the bridge, holds of all above f.
LEMMA ClimbAbove ==
  ASSUME machine \in Machines, NEW f \in Nodes \ Roots, NEW P,
         machine.parent[f] \in P,
         \A g \in P \cap Bridges : machine.parent[g] \in P
  PROVE  Above[f] \subseteq P
PROOF
<1>1. IsTree(machine) /\ f \in DOMAIN machine.kind /\ machine.kind[f] # "root"
  BY MachineAssumption DEF Nodes, Roots, Kind
<1>2. \A g \in P \cap Branching(machine) : machine.kind[g] = "bridge" => machine.parent[g] \in P
  BY DEF Branching, Bridges, Nodes, Kind
<1>3. Above[f] = Ancestors(machine, f)
  BY DEF Above, Trees, Nodes
<1> QED
  BY <1>1, <1>2, <1>3, Climb

\* What is above a node above f is above f.
LEMMA AboveTransitive ==
  ASSUME machine \in Machines, NEW f \in Nodes, NEW a \in Above[f]
  PROVE  Above[a] \subseteq Above[f]
PROOF
<1> DEFINE P == {b \in Nodes : Above[b] \subseteq Above[f] /\ (b \in Bridges => machine.parent[b] \in Above[f])}
<1>1. TreeFacts
  BY MachineIsTree
<1>2. f \notin Roots
  BY <1>1 DEF TreeFacts
<1>3. \A b \in Bridges : b \in Nodes \ Roots
  BY DEF Bridges, Roots
<1>4. \A b \in Nodes : Above[b] \subseteq Above[f] => b \in P
  BY <1>1, <1>3 DEF TreeFacts
<1>5. machine.parent[f] \in P
  BY <1>1, <1>2, <1>4 DEF TreeFacts
<1>6. \A g \in P \cap Bridges : machine.parent[g] \in P
  BY <1>1, <1>3, <1>4 DEF TreeFacts
<1> HIDE DEF P
<1>7. Above[f] \subseteq P
  BY <1>2, <1>5, <1>6, ClimbAbove
<1> QED
  BY <1>7 DEF P

\* Of two nodes above f, one is above the other.
LEMMA AboveInLine ==
  ASSUME machine \in Machines, NEW f \in Nodes, NEW a \in Above[f]
  PROVE  Above[f] \subseteq {a} \cup Above[a] \cup Below(a)
PROOF
<1> DEFINE P == {a} \cup Above[a] \cup Below(a)
<1>1. TreeFacts
  BY MachineIsTree
<1>2. f \in Nodes \ Roots /\ a \in Nodes
  BY <1>1 DEF TreeFacts
<1>3. machine.parent[f] \in P
  BY <1>1, <1>2 DEF TreeFacts, Below
<1>4. \A g \in Bridges : g \in Nodes \ Roots
  BY DEF Bridges, Roots
<1>5. \A g \in P \cap Bridges : machine.parent[g] \in P
  <2>1. \A g \in Above[a] \cap Bridges : machine.parent[g] \in Above[a]
    BY <1>1, <1>2, <1>4, AboveTransitive DEF TreeFacts
  <2>2. a \in Bridges => machine.parent[a] \in Above[a]
    BY <1>1, <1>4 DEF TreeFacts
  <2>3. \A g \in Below(a) : g \in Nodes \ Roots /\ a \in Above[g]
    BY <1>1 DEF TreeFacts, Below
  <2>4. \A g \in Below(a) : machine.parent[g] \in {a} \cup Below(a)
    BY <1>1, <2>3 DEF TreeFacts, Below
  <2> QED
    BY <2>1, <2>2, <2>4
<1> HIDE DEF P
<1>6. Above[f] \subseteq P
  BY <1>2, <1>3, <1>5, ClimbAbove
<1> QED
  BY <1>6 DEF P

-----------------------------------------------------------------------------
(* The lists.                                                              *)

\* The machine stays, and with it all that is read from it.
LEMMA SameMachine ==
  ASSUME UNCHANGED machine
  PROVE  /\ Nodes' = Nodes /\ Roots' = Roots /\ Bridges' = Bridges /\ Devices' = Devices
         /\ Above' = Above
         /\ \A f : Supported(f)' = Supported(f) /\ Below(f)' = Below(f)
PROOF
<1>1. Nodes' = Nodes /\ Roots' = Roots /\ Bridges' = Bridges /\ Above' = Above
  BY DEF Nodes, Roots, Bridges, Kind, Above
<1>2. \A f : Supported(f)' = Supported(f)
  BY <1>1 DEF Supported
<1>3. \A f : Below(f)' = Below(f)
  BY <1>1 DEF Below
<1> QED
  BY <1>1, <1>2, <1>3 DEF Devices

\* What a bus scan finds: with a function the bridges above it.
LEMMA FoundLists ==
  ASSUME machine \in Machines, NEW L,
         \/ L = Below(Root) \ machine.later
         \/ L = RemoveRejectedPciDevices(Below(Root) \ machine.later)
  PROVE  /\ L \subseteq Below(Root) /\ L \subseteq Nodes \ Roots
         /\ \A f \in L : Above[f] \ Roots \subseteq L
PROOF
<1>0. TreeFacts
  BY MachineIsTree
<1>1. /\ L \subseteq Below(Root) /\ L \cap machine.later = {}
      /\ \A c \in Below(Root) : c \notin machine.later /\ c \notin machine.rejected => c \in L
  BY DEF RemoveRejectedPciDevices
<1>2. L \subseteq Nodes \ Roots
  BY <1>0, <1>1 DEF TreeFacts, Below
<1> DEFINE P == L \cup Roots
<1>3. ASSUME NEW g \in L
      PROVE  machine.parent[g] \in P
  <2> DEFINE p == machine.parent[g]
  <2>1. /\ g \in Nodes \ Roots /\ Root \in Above[g] /\ Root \in Roots
        /\ g \notin machine.later
    BY <1>0, <1>1, <1>2 DEF TreeFacts, Below
  <2>2. /\ p \in Nodes /\ p \in Above[g] /\ Above[g] = {p} \cup Above[p]
        /\ p \notin machine.later
    BY <1>0, <2>1 DEF TreeFacts
  <2>3. p \notin machine.rejected
    BY <1>0, <2>1, <2>2 DEF TreeFacts
  <2>4. p = Root \/ p \in Below(Root)
    BY <2>1, <2>2 DEF Below
  <2> QED
    BY <1>1, <2>1, <2>2, <2>3, <2>4
<1>4. ASSUME NEW f \in L
      PROVE  Above[f] \subseteq P
  <2>1. \A g \in P \cap Bridges : machine.parent[g] \in P
    BY <1>3 DEF Roots, Bridges
  <2>2. f \in Nodes \ Roots /\ machine.parent[f] \in P
    BY <1>2, <1>3
  <2> HIDE DEF P
  <2> QED
    BY <2>1, <2>2, ClimbAbove
<1> QED
  BY <1>1, <1>2, <1>4

\* The lists with all that is below a function in them.
LEMMA AddedLists ==
  ASSUME machine \in Machines, ListsHold, NEW b \in listed
  PROVE  /\ Below(b) \subseteq Nodes \ Roots
         /\ \A f \in listed \cup Below(b) : Above[f] \ Roots \subseteq listed \cup Below(b)
PROOF
<1>1. TreeFacts
  BY MachineIsTree
<1>2. Below(b) \subseteq Nodes \ Roots
  BY <1>1 DEF TreeFacts, Below
<1>3. Above[b] \ Roots \subseteq listed
  BY DEF ListsHold
<1>4. ASSUME NEW f \in Below(b)
      PROVE  Above[f] \subseteq {b} \cup Above[b] \cup Below(b)
  BY AboveInLine DEF Below
<1>5. \A f \in listed : Above[f] \ Roots \subseteq listed
  BY DEF ListsHold
<1> QED
  BY <1>2, <1>3, <1>4, <1>5

\* The lists without what is below a function.
LEMMA RemovedLists ==
  ASSUME machine \in Machines, ListsHold, NEW b
  PROVE  \A f \in listed \ Below(b) : Above[f] \ Roots \subseteq listed \ Below(b)
PROOF
<1>1. SUFFICES ASSUME NEW f \in listed \ Below(b), NEW c \in Above[f] \ Roots
               PROVE  c \in listed \ Below(b)
  OBVIOUS
<1>2. f \in Nodes /\ c \in listed
  BY DEF ListsHold
<1>3. Above[c] \subseteq Above[f]
  BY <1>2, AboveTransitive
<1> QED
  BY <1>2, <1>3 DEF Below

\* If no child of a bridge is in the lists, nothing below it is.
LEMMA NothingBelow ==
  ASSUME machine \in Machines, ListsHold, NEW b \in listed, Children(b) \cap listed = {}
  PROVE  Below(b) \cap listed = {}
PROOF
<1>1. TreeFacts
  BY MachineIsTree
<1> DEFINE P == (listed \cup Roots) \ {b}
<1>2. ASSUME NEW g \in listed
      PROVE  machine.parent[g] \in P
  <2>1. g \in Nodes \ Roots /\ Above[g] \ Roots \subseteq listed
    BY DEF ListsHold
  <2>2. machine.parent[g] \in Above[g] /\ g \in Children(machine.parent[g])
    BY <1>1, <2>1 DEF TreeFacts
  <2> QED
    BY <2>1, <2>2
<1>3. ASSUME NEW f \in listed
      PROVE  Above[f] \subseteq P
  <2>1. \A g \in P \cap Bridges : machine.parent[g] \in P
    BY <1>2 DEF Roots, Bridges
  <2>2. f \in Nodes \ Roots /\ machine.parent[f] \in P
    BY <1>2 DEF ListsHold
  <2> HIDE DEF P
  <2> QED
    BY <2>1, <2>2, ClimbAbove
<1> QED
  BY <1>3 DEF Below

-----------------------------------------------------------------------------
(* Attributes: what a function supports, and what it answers for.          *)

\* A bridge that supports VGA can forward it; a device that does is a VGA
\* function, and its registers have no bits for it.
LEMMA VgaSupport ==
  ASSUME machine \in Machines
  PROVE  /\ \A f \in Bridges : /\ "vgaIo" \in Supported(f) => "vga" \in machine.implemented[f]
                               /\ "vgaIo16" \in Supported(f) =>
                                    /\ "vga" \in machine.implemented[f]
                                    /\ "vga16" \in machine.implemented[f]
         /\ \A f \in Devices : /\ Supported(f) \cap Vga # {} => machine.class[f] = "vga"
                               /\ machine.implemented[f] \cap {"vga", "vga16"} = {}
PROOF
<1>1. HasRegisters(machine) /\ IsTree(machine)
  BY MachineAssumption
<1>2. \A f \in Nodes : "vga16" \in machine.implemented[f] => "vga" \in machine.implemented[f]
  BY <1>1 DEF HasRegisters, Nodes
<1>3. ASSUME NEW f \in Bridges
      PROVE  /\ "vgaIo" \in Supported(f) => "vga" \in machine.implemented[f]
             /\ "vgaIo16" \in Supported(f) => "vga16" \in machine.implemented[f]
  BY <1>3 DEF Supported, FromRegisters, Bits, DeviceEnable, Sixteen
<1>4. ASSUME NEW f \in Devices
      PROVE  /\ Supported(f) \cap Vga # {} => machine.class[f] = "vga"
             /\ machine.implemented[f] \cap {"vga", "vga16"} = {}
  <2>1. machine.kind[f] = "device" /\ f \in DOMAIN machine.kind /\ f \notin Bridges
    BY <1>1 DEF IsTree, Devices, Nodes, Roots, Bridges, Kind
  <2>2. machine.implemented[f] \cap {"isa", "vga", "vga16"} = {}
    BY <1>1, <2>1 DEF HasRegisters
  <2>3. FromRegisters(machine.implemented[f] \cap Bits) \cap Vga = {}
    BY <2>2 DEF FromRegisters, Vga, DeviceEnable
  <2>4. machine.class[f] # "vga" =>
          Supported(f) = FromRegisters(machine.implemented[f] \cap Bits)
    BY <2>1 DEF Supported
  <2> QED
    BY <2>2, <2>3, <2>4
<1>5. Bridges \subseteq Nodes
  BY DEF Bridges
<1> QED
  BY <1>2, <1>3, <1>4, <1>5

\* DetermineDeviceAttribute after the lists have grown below b.
Grown(b) ==
  \/ b = Root /\ listed = {} /\ listed' \subseteq Below(Root)
  \/ b \in listed /\ Below(b) \cap listed = {} /\ listed' = listed \cup Below(b)

\* Every function is given what it implements; what it supports beyond
\* DeviceEnable, all bridges above it do.
LEMMA LookedSupports ==
  ASSUME machine \in Machines, UNCHANGED machine, ListsHold, ListsHold', SupportsHold,
         NEW b, Grown(b), DetermineDeviceAttribute(b, listed')
  PROVE  SupportsHold'
PROOF
<1> DEFINE seen  == {b} \cup (Below(b) \cap listed')
           outer == IF b \in Roots \/ machine.parent[b] \in Roots THEN machine.rootSupports
                    ELSE supports[machine.parent[b]]
           passed(f) == {a \in outer : \A g \in (Above[f] \cap seen) \ Roots : a \in Supported(g)}
<1>0. TreeFacts
  BY MachineIsTree
<1>1. \A f \in Nodes \ Roots :
        supports'[f] = IF f \in seen THEN Supported(f) \cap (passed(f) \cup DeviceEnable)
                       ELSE supports[f]
  BY DEF DetermineDeviceAttribute
<1>2. /\ Nodes' = Nodes /\ Roots' = Roots /\ Above' = Above
      /\ \A f : Supported(f)' = Supported(f)
  BY SameMachine
<1>3. /\ listed' \subseteq Nodes \ Roots
      /\ \A f \in listed' : Above[f] \ Roots \subseteq listed'
  BY <1>2 DEF ListsHold
<1>4. \A f \in Nodes : \A a \in Above[f] : Above[a] \subseteq Above[f]
  BY AboveTransitive
<1>5. \A f \in Nodes : f \notin Above[f] /\ Above[f] \subseteq Nodes
  BY <1>0 DEF TreeFacts
<1>6. \A f \in Nodes \ Roots : supports'[f] \subseteq Supported(f)
  <2> HIDE DEF passed, seen
  <2> QED
    BY <1>1 DEF SupportsHold
<1>7. ASSUME NEW f \in listed' \cap seen, NEW c \in (Above[f] \cap seen) \ Roots
      PROVE  supports'[f] \ DeviceEnable \subseteq supports'[c]
  <2>1. /\ f \in Nodes \ Roots /\ c \in Nodes \ Roots
        /\ supports'[f] = Supported(f) \cap (passed(f) \cup DeviceEnable)
        /\ supports'[c] = Supported(c) \cap (passed(c) \cup DeviceEnable)
    BY <1>1, <1>3, <1>5
  <2>2. passed(f) \subseteq passed(c)
    BY <1>4, <2>1
  <2>3. passed(f) \subseteq Supported(c)
    OBVIOUS
  <2> HIDE DEF passed
  <2> QED
    BY <2>1, <2>2, <2>3
<1>8. ASSUME NEW f \in listed', NEW c \in Above[f] \ Roots
      PROVE  supports'[f] \ DeviceEnable \subseteq supports'[c]
  <2>0. f \in Nodes \ Roots /\ c \in listed' /\ c \in Nodes \ Roots
    BY <1>3
  <2>1. CASE b = Root
    <3>1. listed' \subseteq seen
      BY <1>0, <2>1 DEF Grown, TreeFacts, ListsHold
    <3> QED
      BY <1>7, <2>0, <3>1
  <2>2. CASE b \in listed /\ Below(b) \cap listed = {} /\ listed' = listed \cup Below(b)
    <3>0. b \in Nodes \ Roots /\ seen = {b} \cup Below(b)
      BY <2>2 DEF ListsHold
    <3>1. ASSUME f \in seen, c \in seen
          PROVE  supports'[f] \ DeviceEnable \subseteq supports'[c]
      BY <1>7, <3>1
    <3>2. ASSUME f \in seen, c \notin seen
          PROVE  supports'[f] \ DeviceEnable \subseteq supports'[c]
      <4>1. c \in Above[b]
        <5>1. f # b => Above[f] \subseteq {b} \cup Above[b] \cup Below(b)
          BY <2>0, <3>0, <3>2, AboveInLine DEF Below
        <5> QED
          BY <3>0, <3>2, <5>1
      <4>2. c \in listed
        BY <2>0, <2>2, <3>0, <3>2
      <4>3. Above[b] = {machine.parent[b]} \cup Above[machine.parent[b]]
        BY <1>0, <3>0 DEF TreeFacts
      <4>4. machine.parent[b] \notin Roots
        BY <1>0, <2>0, <4>1, <4>3 DEF TreeFacts
      <4>5. machine.parent[b] \in listed
        BY <2>2, <4>3, <4>4 DEF ListsHold
      <4>6. supports[machine.parent[b]] \ DeviceEnable \subseteq supports[c]
        BY <2>0, <4>1, <4>3, <4>5 DEF SupportsHold
      <4>7. outer = supports[machine.parent[b]]
        BY <3>0, <4>4
      <4>8. supports'[f] \ DeviceEnable \subseteq outer
        <5>1. supports'[f] = Supported(f) \cap (passed(f) \cup DeviceEnable)
          BY <1>1, <2>0, <3>2
        <5>2. passed(f) \subseteq outer
          OBVIOUS
        <5> HIDE DEF passed, outer
        <5> QED
          BY <5>1, <5>2
      <4>9. supports'[c] = supports[c]
        BY <1>1, <2>0, <3>2
      <4> QED
        BY <4>6, <4>7, <4>8, <4>9
    <3>3. ASSUME f \notin seen
          PROVE  supports'[f] \ DeviceEnable \subseteq supports'[c]
      <4>1. f \in listed
        BY <2>2, <3>0, <3>3
      <4>2. c \notin seen
        <5>1. c = b => f \in Below(b)
          BY <2>0 DEF Below
        <5>2. c \in Below(b) => f \in Below(b)
          BY <1>4, <2>0 DEF Below
        <5> QED
          BY <3>0, <3>3, <5>1, <5>2
      <4>3. supports'[f] = supports[f] /\ supports'[c] = supports[c]
        BY <1>1, <2>0, <3>3, <4>2
      <4> QED
        BY <4>1, <4>3 DEF SupportsHold
    <3> QED
      BY <3>1, <3>2, <3>3
  <2> QED
    BY <2>1, <2>2 DEF Grown
<1> QED
  BY <1>2, <1>6, <1>8 DEF SupportsHold

\* VgaHolds, function by function.
LEMMA VgaHoldsIf ==
  ASSUME UNCHANGED machine,
         \A f \in Devices : registers'[f] \cap {"vga", "vga16"} = {},
         \A f \in listed' \ Bridges :
           attributes'[f] \cap Vga # {} =>
             /\ machine.class[f] = "vga"
             /\ \A g \in listed' \ Bridges : attributes'[g] \cap Vga # {} => g = f
             /\ \A b \in Above[f] \ (Roots \cup shut') :
                  /\ attributes'[f] \cap {"vgaIo", "vgaIo16"} # {} => "vga" \in registers'[b]
                  /\ "vgaIo16" \in attributes'[f] => "vga16" \in registers'[b]
  PROVE  VgaHolds'
PROOF
<1>1. /\ Roots' = Roots /\ Bridges' = Bridges /\ Devices' = Devices /\ Above' = Above
  BY SameMachine
<1>2. DevicesHold'
  BY <1>1 DEF DevicesHold
<1>3. AtMostOne'
  BY <1>1 DEF AtMostOne, Active
<1>4. VgaReachable'
  BY <1>1 DEF VgaReachable, Vga
<1> QED
  BY <1>2, <1>3, <1>4 DEF VgaHolds

\* A step that only takes functions from the lists keeps all that is said of
\* attributes.
LEMMA VgaShrinks ==
  ASSUME machine \in Machines, UNCHANGED <<machine, pciio>>, listed' \subseteq listed,
         SupportsHold, VgaHolds
  PROVE  SupportsHold' /\ VgaHolds'
PROOF
<1>1. UNCHANGED <<machine, supports, attributes, registers, shut>>
  BY DEF pciio
<1>2. VgaHolds'
  BY <1>1, VgaHoldsIf DEF VgaHolds, DevicesHold, AtMostOne, Active, VgaReachable
<1>3. SupportsHold'
  BY <1>1, SameMachine DEF SupportsHold
<1> QED
  BY <1>2, <1>3

\* After DetermineDeviceAttribute nobody new answers for VGA, and the bits of
\* bridge control are as they were.
LEMMA LookedVga ==
  ASSUME machine \in Machines, UNCHANGED <<machine, shut>>, ListsHold, ListsHold', VgaHolds,
         NEW b, Grown(b), DetermineDeviceAttribute(b, listed')
  PROVE  VgaHolds'
PROOF
<1> DEFINE seen == {b} \cup (Below(b) \cap listed')
<1>0. TreeFacts
  BY MachineIsTree
<1>1. \A f \in Nodes \ Roots :
        attributes'[f] = IF f \in seen THEN FromRegisters(registers[f]) ELSE attributes[f]
  BY DEF DetermineDeviceAttribute
<1>2. \A f \in Nodes \ Roots : registers'[f] \cap {"vga", "vga16"} = registers[f] \cap {"vga", "vga16"}
  <2>1. \A f \in Nodes : registers'[f] \in {Tested(f, listed'),
                            (registers[f] \ {"fastBelow"}) \cup (Tested(f, listed') \cap {"fastBelow"}),
                            registers[f]}
    BY DEF DetermineDeviceAttribute
  <2>2. \A f : Tested(f, listed') \cap {"vga", "vga16"} = registers[f] \cap {"vga", "vga16"}
    BY DEF Tested
  <2> QED
    BY <2>1, <2>2
<1>3. \A f \in Devices : registers[f] \cap {"vga", "vga16"} = {}
  BY DEF VgaHolds, DevicesHold
<1>4. listed' \subseteq Nodes \ Roots
  BY SameMachine DEF ListsHold
<1>5. \A f \in Devices : FromRegisters(registers[f]) \cap Vga = {}
  BY <1>3 DEF FromRegisters, Vga, DeviceEnable
<1>6. \A f \in listed' \ Bridges : attributes'[f] \cap Vga # {} =>
        f \in listed \ Bridges /\ attributes[f] \cap Vga # {}
  <2>1. \A f \in listed' : f \in seen \/ f \in listed
    BY DEF Grown
  <2> QED
    BY <1>1, <1>4, <1>5, <2>1 DEF Devices
<1>7. \A f \in Devices : registers'[f] \cap {"vga", "vga16"} = {}
  BY <1>2, <1>3 DEF Devices
<1>8. \A f \in listed' : Above[f] \subseteq Nodes
  BY <1>0, <1>4 DEF TreeFacts
<1>9. ASSUME NEW f \in listed' \ Bridges, attributes'[f] \cap Vga # {}
      PROVE  /\ machine.class[f] = "vga"
             /\ \A g \in listed' \ Bridges : attributes'[g] \cap Vga # {} => g = f
             /\ \A c \in Above[f] \ (Roots \cup shut') :
                  /\ attributes'[f] \cap {"vgaIo", "vgaIo16"} # {} => "vga" \in registers'[c]
                  /\ "vgaIo16" \in attributes'[f] => "vga16" \in registers'[c]
  <2>1. f \in listed \ Bridges /\ attributes[f] \cap Vga # {}
    BY <1>6, <1>9
  <2>2. attributes'[f] = attributes[f]
    BY <1>1, <1>4, <1>5, <1>9 DEF Devices
  <2>3. \A g \in listed' \ Bridges : attributes'[g] \cap Vga # {} => g = f
    BY <1>6, <2>1 DEF VgaHolds, AtMostOne, Active
  <2>4. \A c \in Above[f] \ (Roots \cup shut) :
          /\ attributes[f] \cap {"vgaIo", "vgaIo16"} # {} => "vga" \in registers[c]
          /\ "vgaIo16" \in attributes[f] => "vga16" \in registers[c]
    BY <2>1 DEF VgaHolds, VgaReachable
  <2>5. \A c \in Above[f] \ Roots : /\ "vga" \in registers'[c] <=> "vga" \in registers[c]
                                    /\ "vga16" \in registers'[c] <=> "vga16" \in registers[c]
    BY <1>2, <1>8
  <2> QED
    BY <2>1, <2>2, <2>3, <2>4, <2>5 DEF VgaHolds, DevicesHold
<1> QED
  BY <1>7, <1>9, VgaHoldsIf

\* A step that gives nobody VGA, and leaves the bits of bridge control alone
\* except for bridges their driver shut.
LEMMA VgaFewer ==
  ASSUME machine \in Machines, UNCHANGED <<machine, supports, listed>>,
         listed \subseteq Nodes \ Roots, SupportsHold, VgaHolds, shut \subseteq shut',
         \A f \in Nodes \ Roots :
           /\ attributes'[f] \cap Vga \subseteq attributes[f]
           /\ registers'[f] \cap {"vga", "vga16"} \subseteq registers[f]
           /\ f \notin shut' => registers[f] \cap {"vga", "vga16"} \subseteq registers'[f]
  PROVE  SupportsHold' /\ VgaHolds'
PROOF
<1>0. TreeFacts
  BY MachineIsTree
<1>1. SupportsHold'
  BY SameMachine DEF SupportsHold
<1>2. \A f \in Devices : registers'[f] \cap {"vga", "vga16"} = {}
  BY DEF VgaHolds, DevicesHold, Devices
<1>3. ASSUME NEW f \in listed \ Bridges, attributes'[f] \cap Vga # {}
      PROVE  /\ machine.class[f] = "vga"
             /\ \A g \in listed \ Bridges : attributes'[g] \cap Vga # {} => g = f
             /\ \A c \in Above[f] \ (Roots \cup shut') :
                  /\ attributes'[f] \cap {"vgaIo", "vgaIo16"} # {} => "vga" \in registers'[c]
                  /\ "vgaIo16" \in attributes'[f] => "vga16" \in registers'[c]
  <2>1. \A g \in listed : attributes'[g] \cap Vga # {} => attributes[g] \cap Vga # {}
    OBVIOUS
  <2>2. \A g \in listed \ Bridges : attributes'[g] \cap Vga # {} => g = f
    BY <1>3, <2>1 DEF VgaHolds, AtMostOne, Active
  <2>3. machine.class[f] = "vga"
    BY <1>3, <2>1 DEF VgaHolds, DevicesHold
  <2>4. \A c \in Above[f] \ (Roots \cup shut') :
          /\ attributes[f] \cap {"vgaIo", "vgaIo16"} # {} => "vga" \in registers[c]
          /\ "vgaIo16" \in attributes[f] => "vga16" \in registers[c]
    BY DEF VgaHolds, VgaReachable
  <2>5. \A c \in Above[f] \ (Roots \cup shut') :
          /\ "vga" \in registers[c] => "vga" \in registers'[c]
          /\ "vga16" \in registers[c] => "vga16" \in registers'[c]
    BY <1>0 DEF TreeFacts
  <2>6. {"vgaIo", "vgaIo16"} \subseteq Vga
    BY DEF Vga
  <2> QED
    BY <2>2, <2>3, <2>4, <2>5, <2>6
<1> QED
  BY <1>1, <1>2, <1>3, VgaHoldsIf

\* A bridge is enabled: only DeviceEnable is concerned.
LEMMA EnableBridgeVga ==
  ASSUME machine \in Machines, Domains, ListsHold, SupportsHold, VgaHolds, EnableBridge
  PROVE  SupportsHold' /\ VgaHolds'
PROOF
<1>1. PICK b : \E on \in SUBSET DeviceEnable :
                 /\ attributes' = [attributes EXCEPT ![b] = @ \cup on]
                 /\ registers'  = [registers EXCEPT ![b] = @ \cup BitsOf(b, on)]
  BY DEF EnableBridge
<1>2. PICK on \in SUBSET DeviceEnable :
                 /\ attributes' = [attributes EXCEPT ![b] = @ \cup on]
                 /\ registers'  = [registers EXCEPT ![b] = @ \cup BitsOf(b, on)]
  BY <1>1
<1>3. on \cap Vga = {} /\ BitsOf(b, on) \cap {"vga", "vga16"} = {}
  BY DEF BitsOf, DeviceEnable, Vga, Palette, Sixteen
<1>4. \A f \in Nodes \ Roots :
        /\ attributes'[f] \cap Vga \subseteq attributes[f]
        /\ registers'[f] \cap {"vga", "vga16"} = registers[f] \cap {"vga", "vga16"}
  BY <1>2, <1>3 DEF Domains
<1>5. UNCHANGED <<machine, supports, listed, shut>> /\ listed \subseteq Nodes \ Roots
  BY DEF EnableBridge, nodes, ListsHold
<1> QED
  BY <1>4, <1>5, VgaFewer

\* A driver disables attributes.
LEMMA DriverDisablesVga ==
  ASSUME machine \in Machines, Domains, ListsHold, SupportsHold, VgaHolds,
         NEW f \in Nodes \ Roots, DriverDisables(f)
  PROVE  SupportsHold' /\ VgaHolds'
PROOF
<1>1. PICK want \in Wanted :
        /\ Disable(f, Asked(f, want))
        /\ shut' = shut \cup (IF want \cap Vga # {} THEN {f} \cap Bridges ELSE {})
  BY DEF DriverDisables
<1> DEFINE set == Asked(f, want)
<1>2. /\ attributes' = [attributes EXCEPT ![f] = @ \ set]
      /\ registers'  = [registers EXCEPT ![f] = @ \ BitsOf(f, set)]
  BY <1>1 DEF Disable
<1>3. f \notin shut' => BitsOf(f, set) \cap {"vga", "vga16"} = {}
  <2>1. CASE f \in Bridges
    <3>1. SUFFICES ASSUME f \notin shut' PROVE BitsOf(f, set) \cap {"vga", "vga16"} = {}
      OBVIOUS
    <3>2. want \cap Vga = {}
      BY <1>1, <2>1, <3>1
    <3>3. want \cap {"vgaIo", "vgaIo16", "palette16"} = {}
      BY <3>2 DEF Wanted, DeviceEnable, Vga
    <3>4. set \cap {"vgaIo", "vgaIo16", "palette16"} = {}
      BY <3>3 DEF Asked
    <3> HIDE DEF set
    <3> QED
      BY <2>1, <3>4 DEF BitsOf, DeviceEnable, Palette, Sixteen
  <2>2. CASE f \notin Bridges
    <3> HIDE DEF set
    <3> QED
      BY <2>2 DEF BitsOf, DeviceEnable
  <2> QED
    BY <2>1, <2>2
<1> HIDE DEF set
<1>4. \A g \in Nodes \ Roots :
        /\ attributes'[g] \cap Vga \subseteq attributes[g]
        /\ registers'[g] \cap {"vga", "vga16"} \subseteq registers[g]
        /\ g \notin shut' => registers[g] \cap {"vga", "vga16"} \subseteq registers'[g]
  BY <1>2, <1>3 DEF Domains
<1>5. /\ UNCHANGED <<machine, supports, listed>> /\ listed \subseteq Nodes \ Roots
      /\ shut \subseteq shut'
  BY <1>1 DEF DriverDisables, Disable, nodes, ListsHold
<1> QED
  BY <1>4, <1>5, VgaFewer

\* A driver enables attributes: if VGA, nobody else answers for it, and all
\* bridges above are opened for it.
LEMMA DriverEnablesVga ==
  ASSUME machine \in Machines, Domains, ListsHold, SupportsHold, VgaHolds,
         NEW f \in listed \ Bridges, NEW set, NEW off, NEW rootAccepts,
         Enable(f, set, off, listed, rootAccepts), UNCHANGED <<listed, shut>>
  PROVE  SupportsHold' /\ VgaHolds'
PROOF
<1> DEFINE active == LocateVgaDeviceOnHostBridge(listed)
           open   == EnabledBridges(f, set)
           up     == UpStream(set)
           root   == CHOOSE r \in Roots : r \in Above[f]
           whole  == open = Above[f] \ Roots /\ rootAccepts /\ up \subseteq supports[root]
           quiet  == StopsSnooping(f, set, active)
           rest   == IF whole /\ Accepts(f, Asked(f, off)) THEN Asked(f, off) ELSE {}
           add(g) == IF g = f THEN set ELSE IF g \in open THEN up ELSE {}
           less(g) == IF g = f THEN rest ELSE {}
<1>0. TreeFacts
  BY MachineIsTree
<1>1. /\ Allowed(f, set, active)
      /\ attributes' = [g \in Nodes |-> IF g = root
                                        THEN attributes[g] \cup (IF whole THEN up ELSE {})
                                        ELSE (attributes[g] \cup add(g)) \ less(g)]
      /\ registers' = [g \in Nodes |-> ((registers[g] \ (IF g \in quiet THEN {"snoop"} ELSE {}))
                                        \cup (BitsOf(g, add(g)) \cap machine.implemented[g]))
                                       \ BitsOf(g, less(g))]
      /\ UNCHANGED <<machine, supports>>
  BY DEF Enable
<1>2. f \in Devices /\ f \in Nodes \ Roots /\ root \in Roots
  BY <1>0 DEF ListsHold, Devices, TreeFacts
<1>3. Accepts(f, set) /\ (set \cap Vga # {} => active \subseteq {f})
  BY <1>1, <1>2 DEF Allowed, Devices
<1>4. set \subseteq supports[f] /\ \A b \in Above[f] \ Roots : Accepts(b, up)
  <2>1. set \subseteq supports[f]
    BY <1>3 DEF Accepts
  <2>2. \A b \in Above[f] \ Roots : supports[f] \ DeviceEnable \subseteq supports[b]
    BY DEF SupportsHold
  <2> QED
    BY <1>3, <2>1, <2>2 DEF Accepts, UpStream
<1>5. open = Above[f] \ Roots
  BY <1>4 DEF EnabledBridges
<1>6. f \notin open
  BY <1>0, <1>2, <1>5 DEF TreeFacts
<1>7. /\ attributes'[f] \subseteq attributes[f] \cup set
      /\ \A g \in (Nodes \ Roots) \ (open \cup {f}) : attributes'[g] \subseteq attributes[g]
  <2> HIDE DEF root, rest, open, up, whole
  <2> QED
    BY <1>1, <1>2
<1>8. \A g : BitsOf(g, {}) = {}
  BY DEF BitsOf
<1>9. \A g \in Nodes \ {f} :
        /\ registers[g] \cap {"vga", "vga16"} \subseteq registers'[g]
        /\ g \in open => BitsOf(g, up) \cap machine.implemented[g] \subseteq registers'[g]
  <2>1. \A g \in Nodes \ {f} :
          registers'[g] = (registers[g] \ (IF g \in quiet THEN {"snoop"} ELSE {}))
                             \cup (BitsOf(g, add(g)) \cap machine.implemented[g])
    <3> HIDE DEF rest, open, up, whole, quiet
    <3> QED
      BY <1>1, <1>8
  <2>2. \A g \in Nodes \ {f} : g \in open => add(g) = up
    OBVIOUS
  <2> HIDE DEF add, open, quiet
  <2> QED
    BY <2>1, <2>2
<1>10. \A g \in Devices : registers'[g] \cap {"vga", "vga16"} = {}
  <2>1. \A g \in Devices : /\ registers[g] \cap {"vga", "vga16"} = {}
                           /\ machine.implemented[g] \cap {"vga", "vga16"} = {}
    BY VgaSupport DEF VgaHolds, DevicesHold
  <2>2. \A g \in Nodes : registers'[g] \subseteq registers[g] \cup machine.implemented[g]
    <3> HIDE DEF rest, open, up, whole, quiet, add
    <3> QED
      BY <1>1
  <2> QED
    BY <2>1, <2>2 DEF Devices
<1>11. \A b \in open : /\ set \cap {"vgaIo", "vgaIo16"} # {} => "vga" \in registers'[b]
                       /\ "vgaIo16" \in set => "vga16" \in registers'[b]
  <2>1. SUFFICES ASSUME NEW b \in open
                 PROVE  /\ set \cap {"vgaIo", "vgaIo16"} # {} => "vga" \in registers'[b]
                        /\ "vgaIo16" \in set => "vga16" \in registers'[b]
    OBVIOUS
  <2>2. b \in Bridges /\ b \in Nodes \ Roots /\ b # f
    BY <1>0, <1>2, <1>5, <1>6 DEF TreeFacts, Devices
  <2>3. up \subseteq Supported(b)
    BY <1>4, <1>5, <2>2 DEF Accepts, SupportsHold
  <2>4. set \cap {"vgaIo", "vgaIo16"} \subseteq up
    BY DEF UpStream, DeviceEnable
  <2>5. BitsOf(b, up) \cap machine.implemented[b] \subseteq registers'[b]
    BY <1>9, <2>2
  <2>6. /\ up \cap {"vgaIo", "vgaIo16"} # {} => "vga" \in BitsOf(b, up)
        /\ "vgaIo16" \in up => "vga16" \in BitsOf(b, up)
    BY <2>2 DEF BitsOf, Sixteen
  <2>7. /\ "vgaIo" \in up => "vga" \in machine.implemented[b]
        /\ "vgaIo16" \in up => "vga" \in machine.implemented[b] /\ "vga16" \in machine.implemented[b]
    BY <2>2, <2>3, VgaSupport
  <2> HIDE DEF up
  <2> QED
    BY <2>4, <2>5, <2>6, <2>7
<1>12. \A g \in listed \ Bridges : g # f => attributes'[g] \subseteq attributes[g]
  BY <1>0, <1>5, <1>7 DEF TreeFacts, ListsHold, Devices
<1>13. set \cap Vga # {} => machine.class[f] = "vga"
  BY <1>2, <1>4, VgaSupport DEF SupportsHold
<1>14. \A g \in listed \ Bridges : attributes[g] \cap Vga # {} => g \in active
  BY DEF VgaHolds, DevicesHold, LocateVgaDeviceOnHostBridge
<1> HIDE DEF active, open, up, root, whole, quiet, rest
<1>15. ASSUME NEW g \in listed \ Bridges, attributes'[g] \cap Vga # {}
       PROVE  /\ machine.class[g] = "vga"
              /\ \A x \in listed \ Bridges : attributes'[x] \cap Vga # {} => x = g
  <2>1. CASE set \cap Vga # {}
    <3>1. \A x \in listed \ Bridges : attributes'[x] \cap Vga # {} => x = f
      BY <1>3, <1>12, <1>14, <2>1
    <3> QED
      BY <1>13, <1>15, <2>1, <3>1
  <2>2. CASE set \cap Vga = {}
    <3>1. \A x \in listed \ Bridges : attributes'[x] \cap Vga # {} => attributes[x] \cap Vga # {}
      BY <1>7, <1>12, <2>2
    <3> QED
      BY <1>15, <3>1 DEF VgaHolds, DevicesHold, AtMostOne, Active
  <2> QED
    BY <2>1, <2>2
<1>16. ASSUME NEW g \in listed \ Bridges, NEW b \in Above[g] \ (Roots \cup shut)
       PROVE  /\ attributes'[g] \cap {"vgaIo", "vgaIo16"} # {} => "vga" \in registers'[b]
              /\ "vgaIo16" \in attributes'[g] => "vga16" \in registers'[b]
  <2>1. b \in Nodes \ {f}
    BY <1>0, <1>2 DEF TreeFacts, ListsHold
  <2>2. /\ attributes[g] \cap {"vgaIo", "vgaIo16"} # {} => "vga" \in registers'[b]
        /\ "vgaIo16" \in attributes[g] => "vga16" \in registers'[b]
    BY <1>9, <2>1 DEF VgaHolds, VgaReachable
  <2>3. CASE g # f
    BY <1>12, <2>2, <2>3
  <2>4. CASE g = f
    BY <1>5, <1>7, <1>11, <2>2, <2>4
  <2> QED
    BY <2>3, <2>4
<1>17. SupportsHold'
  BY <1>1, SameMachine DEF SupportsHold
<1>18. VgaHolds'
  BY <1>1, <1>10, <1>15, <1>16, VgaHoldsIf
<1> QED
  BY <1>17, <1>18

-----------------------------------------------------------------------------
(* The invariant.                                                          *)

LEMMA InitInv == Init => Inv
PROOF
<1> SUFFICES ASSUME Init PROVE Inv
  OBVIOUS
<1>1. Domains
  BY DEF Init, Domains
<1>2. ListsHold
  BY DEF Init, ListsHold
<1>3. SupportsHold
  BY DEF Init, SupportsHold, Roots
<1>4. \A f \in Nodes : registers[f] \cap {"vga", "vga16"} = {}
  BY DEF Init
<1>5. VgaHolds
  BY <1>4 DEF Init, VgaHolds, DevicesHold, AtMostOne, Active, VgaReachable, Devices
<1>6. RegisteredMeansInstalled
  BY DEF Init, RegisteredMeansInstalled
<1> QED
  BY <1>1, <1>2, <1>3, <1>5, <1>6 DEF Inv, Init

\* Steps that leave the lists and the attributes alone.
LEMMA QuietStep ==
  ASSUME Inv, UNCHANGED <<machine, pciio, nodes>>, DOMAIN handle' = Nodes,
         RegisteredMeansInstalled'
  PROVE  Inv'
PROOF
<1>1. UNCHANGED <<supports, attributes, registers, pool, listed, allocated>>
  BY DEF pciio, nodes
<1>2. Domains' /\ ListsHold'
  BY <1>1, SameMachine DEF Inv, Domains, ListsHold
<1>3. SupportsHold' /\ VgaHolds'
  BY <1>1, VgaShrinks DEF Inv
<1> QED
  BY <1>2, <1>3 DEF Inv

\* Steps that only change attributes.
LEMMA AttributeStep ==
  ASSUME Inv, UNCHANGED <<machine, nodes, flags, dangling>>,
         DOMAIN supports' = Nodes, DOMAIN attributes' = Nodes, DOMAIN registers' = Nodes,
         SupportsHold', VgaHolds'
  PROVE  Inv'
PROOF
<1>1. UNCHANGED <<pool, listed, allocated, handle, installed, opened, registered>>
  BY DEF nodes, flags
<1>2. Domains' /\ ListsHold'
  BY <1>1, SameMachine DEF Inv, Domains, ListsHold
<1>3. RegisteredMeansInstalled'
  BY <1>1 DEF Inv, RegisteredMeansInstalled
<1> QED
  BY <1>2, <1>3 DEF Inv

\* Steps that take functions from the lists.
LEMMA RemovalStep ==
  ASSUME Inv, UNCHANGED <<machine, pciio>>, DOMAIN handle' = Nodes,
         listed' \subseteq listed, ListsHold', RegisteredMeansInstalled'
  PROVE  Inv'
PROOF
<1>1. UNCHANGED <<supports, attributes, registers>>
  BY DEF pciio
<1>2. Domains'
  BY <1>1, SameMachine DEF Inv, Domains
<1>3. SupportsHold' /\ VgaHolds'
  BY VgaShrinks DEF Inv
<1> QED
  BY <1>2, <1>3 DEF Inv

\* Steps that add functions below b to the lists.
LEMMA GrowthStep ==
  ASSUME Inv, UNCHANGED <<machine, installed, opened, registered, dangling, shut>>, ListsHold',
         NEW b, Grown(b), DetermineDeviceAttribute(b, listed'),
         NEW new, Fresh(new), new \cap listed = {}, dangling = {}
  PROVE  Inv'
PROOF
<1>1. DOMAIN supports' = Nodes /\ DOMAIN attributes' = Nodes /\ DOMAIN registers' = Nodes
      /\ DOMAIN handle' = Nodes
  BY DEF DetermineDeviceAttribute, Fresh
<1>2. Domains'
  BY <1>1, SameMachine DEF Domains
<1>3. SupportsHold' /\ VgaHolds'
  BY LookedSupports, LookedVga DEF Inv
<1>4. listed \subseteq listed' /\ listed \subseteq Nodes
  BY DEF Grown, Inv, ListsHold
<1>5. \A f \in listed : handle'[f] = handle[f]
  BY <1>4 DEF Fresh
<1>6. RegisteredMeansInstalled'
  BY <1>4, <1>5 DEF Inv, RegisteredMeansInstalled
<1> QED
  BY <1>2, <1>3, <1>6 DEF Inv

LEMMA StartInv ==
  ASSUME Inv, Start
  PROVE  Inv'
PROOF
<1>1. machine \in Machines /\ dangling = {} /\ UNCHANGED <<machine, dangling>>
  BY DEF Inv, Start, Idle
<1>2. ASSUME NEW L, NEW enabled \in SUBSET L, NEW known, Found(L, enabled, known), ~pool,
             \/ L = Below(Root) \ machine.later
             \/ L = RemoveRejectedPciDevices(Below(Root) \ machine.later)
      PROVE  Inv'
  <2>1. listed = {}
    BY <1>2 DEF Inv, ListsHold
  <2>2. listed' = L /\ allocated' = enabled /\ pool' = TRUE /\ Fresh(L)
        /\ DetermineDeviceAttribute(Root, L)
        /\ UNCHANGED <<installed, opened, registered, shut>>
    BY <1>2 DEF Found, Fresh
  <2>3. /\ L \subseteq Below(Root) /\ L \subseteq Nodes \ Roots
        /\ \A f \in L : Above[f] \ Roots \subseteq L
    BY <1>1, <1>2, FoundLists
  <2>4. ListsHold'
    BY <1>1, <2>2, <2>3, SameMachine DEF ListsHold
  <2>5. Grown(Root)
    BY <2>1, <2>2, <2>3 DEF Grown
  <2> QED
    BY <1>1, <2>1, <2>2, <2>4, <2>5, GrowthStep
<1>3. CASE PciEnumerator
  BY <1>2, <1>3 DEF PciEnumerator
<1>4. CASE PciEnumeratorLight
  BY <1>2, <1>4 DEF PciEnumeratorLight
<1>5. CASE StartAgain
  <2>1. UNCHANGED <<pciio, nodes, handle, installed, opened, registered>>
    BY <1>5 DEF StartAgain, flags
  <2>2. RegisteredMeansInstalled' /\ DOMAIN handle' = Nodes
    BY <1>1, <2>1 DEF Inv, RegisteredMeansInstalled, nodes, Domains
  <2> QED
    BY <1>1, <2>1, <2>2, QuietStep
<1> QED
  BY <1>3, <1>4, <1>5 DEF Start

LEMMA StartPciDeviceInv ==
  ASSUME Inv, StartPciDevice
  PROVE  Inv'
PROOF
<1> DEFINE f == Head(todo).function
<1>1. UNCHANGED <<machine, pciio, nodes, dangling>> /\ UNCHANGED listed
  BY DEF StartPciDevice, nodes
<1>2. \/ UNCHANGED flags
      \/ f \in allocated /\ f \notin registered /\ \E failing : RegisterPciDevice(f, failing)
  BY DEF StartPciDevice
<1> HIDE DEF f
<1>3. CASE UNCHANGED flags
  BY <1>1, <1>3, QuietStep DEF flags, Inv, RegisteredMeansInstalled, Domains
<1>4. ASSUME f \in allocated, f \notin registered, NEW failing, RegisterPciDevice(f, failing)
      PROVE  Inv'
  <2>1. f \in listed /\ f \in Nodes
    BY <1>4 DEF Inv, ListsHold
  <2>2. DOMAIN handle = Nodes
    BY DEF Inv, Domains
  <2>3. /\ DOMAIN handle' = Nodes
        /\ \A g \in Nodes : g # f => handle'[g] = handle[g]
        /\ failing = "none" => handle'[f] = "valid"
    BY <1>4, <2>1, <2>2 DEF RegisterPciDevice
  <2>4. /\ installed \subseteq installed'
        /\ IF failing = "none"
           THEN /\ f \in installed' /\ opened' = opened \cup {f}
                /\ registered' = registered \cup {f}
           ELSE opened' = opened /\ registered' = registered
    BY <1>4 DEF RegisterPciDevice
  <2>5. ASSUME dangling = {}
        PROVE  /\ registered' = opened'
               /\ \A g \in registered' : g \in listed' \cap installed' /\ handle'[g] = "valid"
    <3>1. /\ registered = opened
          /\ \A g \in registered : g \in listed \cap installed /\ handle[g] = "valid"
      BY <2>5 DEF Inv, RegisteredMeansInstalled
    <3>2. /\ listed' = listed /\ listed \subseteq Nodes
          /\ \A g \in registered : handle'[g] = "valid"
      BY <1>1, <1>4, <2>3, <3>1 DEF Inv, ListsHold
    <3> QED
      BY <2>1, <2>3, <2>4, <3>1, <3>2
  <2>6. RegisteredMeansInstalled'
    BY <1>1, <2>5 DEF RegisteredMeansInstalled
  <2> QED
    BY <1>1, <2>3, <2>6, QuietStep
<1> QED
  BY <1>2, <1>3, <1>4

\* DeRegisterPciDevice closes exactly what it removes.
LEMMA RemovedRegistered ==
  ASSUME Inv, UNCHANGED <<machine, pciio, nodes, dangling>>, NEW f,
         Removed(DeRegisterPciDevice(f).done, DeRegisterPciDevice(f).closed)
  PROVE  Inv'
PROOF
<1> DEFINE d == DeRegisterPciDevice(f)
<1>1. d.closed = d.done
  BY DEF DeRegisterPciDevice
<1> HIDE DEF d
<1>2. Removed(d.done, d.closed)
  BY DEF d
<1>3. listed' = listed /\ listed \subseteq Nodes
  BY DEF nodes, Inv, ListsHold
<1>4. RegisteredMeansInstalled' /\ DOMAIN handle' = Nodes
  BY <1>1, <1>2, <1>3 DEF Removed, Inv, RegisteredMeansInstalled
<1> QED
  BY <1>4, QuietStep

LEMMA DestroyInv ==
  ASSUME Inv, DestroyRootBridgeByHandle
  PROVE  Inv'
PROOF
<1>1. UNCHANGED <<machine, pciio>>
  BY DEF DestroyRootBridgeByHandle
<1>2. CASE stopped
  <2>1. /\ pool' = FALSE /\ listed' = {} /\ allocated' = allocated \ listed
        /\ dangling' = dangling \cup (listed \cap installed)
        /\ registered' = registered \ listed
        /\ UNCHANGED <<handle, installed, opened>>
    BY <1>2 DEF DestroyRootBridgeByHandle, FreePciDevice
  <2>2. ListsHold'
    BY <2>1 DEF ListsHold, Inv
  <2>3. RegisteredMeansInstalled'
    BY <2>1 DEF Inv, RegisteredMeansInstalled
  <2>4. DOMAIN handle' = Nodes /\ listed' \subseteq listed
    BY <2>1 DEF Inv, Domains
  <2> QED
    BY <1>1, <2>2, <2>3, <2>4, RemovalStep
<1>3. CASE ~stopped
  <2>1. UNCHANGED <<nodes, dangling, handle, installed, opened, registered, listed>>
    BY <1>3 DEF DestroyRootBridgeByHandle, flags, nodes
  <2>2. RegisteredMeansInstalled' /\ DOMAIN handle' = Nodes
    BY <2>1 DEF Inv, RegisteredMeansInstalled, Domains
  <2> QED
    BY <1>1, <2>1, <2>2, QuietStep
<1> QED
  BY <1>2, <1>3

LEMMA HotPlugAddInv ==
  ASSUME Inv, NEW b, HotPlugAdd(b)
  PROVE  Inv'
PROOF
<1>1. /\ dangling = {} /\ b \in listed /\ machine \in Machines
      /\ UNCHANGED <<machine, dangling, pool>>
  BY DEF HotPlugAdd, Idle, Inv
<1>2. CASE Children(b) \cap listed # {}
  <2>1. UNCHANGED <<pciio, nodes, handle, installed, opened, registered, listed>>
    BY <1>2 DEF HotPlugAdd, flags, nodes
  <2>2. RegisteredMeansInstalled' /\ DOMAIN handle' = Nodes
    BY <1>1, <2>1 DEF Inv, RegisteredMeansInstalled, Domains
  <2> QED
    BY <1>1, <2>1, <2>2, QuietStep
<1>3. CASE Children(b) \cap listed = {}
  <2>1. /\ listed' = listed \cup Below(b) /\ allocated' = allocated \cup Below(b)
        /\ Fresh(Below(b)) /\ DetermineDeviceAttribute(b, listed')
        /\ UNCHANGED <<installed, opened, registered, shut>>
    BY <1>3 DEF HotPlugAdd, Fresh
  <2>2. Below(b) \cap listed = {}
    BY <1>1, <1>3, NothingBelow DEF Inv
  <2>3. /\ Below(b) \subseteq Nodes \ Roots
        /\ \A f \in listed \cup Below(b) : Above[f] \ Roots \subseteq listed \cup Below(b)
    BY <1>1, AddedLists DEF Inv
  <2>4. ListsHold'
    BY <1>1, <2>1, <2>3, SameMachine DEF ListsHold, Inv
  <2>5. Grown(b)
    BY <1>1, <2>1, <2>2 DEF Grown
  <2> QED
    BY <1>1, <2>1, <2>2, <2>4, <2>5, GrowthStep
<1> QED
  BY <1>2, <1>3

LEMMA RemoveAllInv ==
  ASSUME Inv, NEW b, RemoveAllPciDeviceOnBridge(b)
  PROVE  Inv'
PROOF
<1> DEFINE there == Below(b) \cap listed
           done  == {f \in there \cap registered : DeRegisterPciDevice(f).ok}
<1>1. UNCHANGED <<machine, pciio, pool>> /\ dangling = {} /\ machine \in Machines
  BY DEF RemoveAllPciDeviceOnBridge, Idle, Inv
<1>2. /\ handle' = [f \in Nodes |-> IF f \in done THEN "null" ELSE handle[f]]
      /\ installed' = installed \ done /\ opened' = opened \ done
      /\ registered' = registered \ there
      /\ listed' = listed \ there /\ allocated' = allocated \ there
      /\ dangling' = dangling \cup (there \cap (installed \ done))
  BY DEF RemoveAllPciDeviceOnBridge, FreePciDevice
<1>3. done \subseteq there \cap registered /\ listed' = listed \ Below(b)
  BY <1>2
<1>4. \A f \in listed \ Below(b) : Above[f] \ Roots \subseteq listed \ Below(b)
  BY <1>1, RemovedLists DEF Inv
<1> HIDE DEF done, there
<1>5. ListsHold'
  BY <1>1, <1>2, <1>3, <1>4, SameMachine DEF ListsHold, Inv
<1>6. RegisteredMeansInstalled'
  BY <1>1, <1>2, <1>3 DEF Inv, RegisteredMeansInstalled, ListsHold
<1> QED
  BY <1>1, <1>2, <1>5, <1>6, RemovalStep

LEMMA DriverInv ==
  ASSUME Inv, NEW f \in Nodes \ Roots,
         DriverKeeps(f) \/ DriverEnables(f) \/ DriverDisables(f)
  PROVE  Inv'
PROOF
<1>1. CASE DriverKeeps(f)
  BY <1>1, QuietStep
     DEF DriverKeeps, flags, nodes, Inv, RegisteredMeansInstalled, Domains
<1>2. CASE DriverEnables(f)
  <2>1. PICK set, off, rootAccepts : Enable(f, set, off, listed, rootAccepts)
    BY <1>2 DEF DriverEnables
  <2>2. f \in listed \ Bridges /\ UNCHANGED <<nodes, flags, dangling>> /\ UNCHANGED <<listed, shut>>
    BY <1>2 DEF DriverEnables, Idle, Inv, RegisteredMeansInstalled, nodes
  <2>3. /\ DOMAIN attributes' = Nodes /\ DOMAIN registers' = Nodes
        /\ UNCHANGED <<machine, supports>>
    BY <2>1 DEF Enable
  <2>4. SupportsHold' /\ VgaHolds'
    BY <2>1, <2>2, DriverEnablesVga DEF Inv
  <2> QED
    BY <2>2, <2>3, <2>4, AttributeStep DEF Inv, Domains
<1>3. CASE DriverDisables(f)
  <2>1. SupportsHold' /\ VgaHolds'
    BY <1>3, DriverDisablesVga DEF Inv
  <2>2. /\ DOMAIN attributes' = Nodes /\ DOMAIN registers' = Nodes
        /\ UNCHANGED <<machine, supports, nodes, flags, dangling>>
    BY <1>3 DEF DriverDisables, Disable, Inv, Domains
  <2> QED
    BY <2>1, <2>2, AttributeStep DEF Inv, Domains
<1> QED
  BY <1>1, <1>2, <1>3

LEMMA NextInv == Inv /\ [Next]_vars => Inv'
PROOF
<1> SUFFICES ASSUME Inv, [Next]_vars PROVE Inv'
  OBVIOUS
<1>1. CASE Start
  BY <1>1, StartInv
<1>2. CASE StartPciDevice
  BY <1>2, StartPciDeviceInv
<1>3. CASE EnableBridge
  <2>1. SupportsHold' /\ VgaHolds'
    BY <1>3, EnableBridgeVga DEF Inv
  <2>2. /\ DOMAIN attributes' = Nodes /\ DOMAIN registers' = Nodes
        /\ UNCHANGED <<machine, supports, nodes, flags, dangling>>
    BY <1>3 DEF EnableBridge, Inv, Domains
  <2> QED
    BY <2>1, <2>2, AttributeStep DEF Inv, Domains
<1>4. CASE Disconnect
  BY <1>4, QuietStep
     DEF Disconnect, flags, nodes, Inv, RegisteredMeansInstalled, Domains
<1>5. CASE StopChild
  BY <1>5, RemovedRegistered DEF StopChild
<1>6. CASE DestroyRootBridgeByHandle
  BY <1>6, DestroyInv
<1>7. ASSUME NEW b, HotPlugAdd(b)
      PROVE  Inv'
  BY <1>7, HotPlugAddInv
<1>8. ASSUME NEW b, RemoveAllPciDeviceOnBridge(b)
      PROVE  Inv'
  BY <1>8, RemoveAllInv
<1>9. ASSUME NEW f, HotPlugRemove(f)
      PROVE  Inv'
  BY <1>9, RemovedRegistered DEF HotPlugRemove
<1>10. ASSUME NEW f \in Nodes \ Roots,
              DriverKeeps(f) \/ DriverEnables(f) \/ DriverDisables(f)
       PROVE  Inv'
  BY <1>10, DriverInv
<1>11. CASE UNCHANGED vars
  BY <1>11, QuietStep
     DEF vars, pciio, flags, nodes, Inv, RegisteredMeansInstalled, Domains
<1> QED
  BY <1>1, <1>2, <1>3, <1>4, <1>5, <1>6, <1>7, <1>8, <1>9, <1>10, <1>11 DEF Next

-----------------------------------------------------------------------------
(* The theorems.                                                           *)

\* The invariant: the lists are those of a tree without gaps, a function
\* supports beyond DeviceEnable what all bridges above it do, and the
\* properties hold.
THEOREM PciInvariant == Spec => []Inv
PROOF
<1> QED
  BY InitInv, NextInv, PTL DEF Spec

\* RegisterPciDevice and DeRegisterPciDevice: for any tree and any failures of
\* the core, Registered is TRUE exactly for the functions the root bridge is
\* open for, and these are in the lists, with their protocols on a handle.
THEOREM RegisteredAlwaysInstalled == Spec => []RegisteredMeansInstalled
PROOF
<1>1. Inv => RegisteredMeansInstalled
  BY DEF Inv
<1> QED
  BY <1>1, PciInvariant, PTL

\* PciIoAttributes: for any tree and any VGA functions in it, at most one of
\* them answers for the legacy VGA addresses.
THEOREM OneVgaAlwaysActive == Spec => []OneVgaActive
PROOF
<1>1. Inv => OneVgaActive
  <2> SUFFICES ASSUME Inv PROVE Cardinality(Active) <= 1
    BY DEF OneVgaActive, Active
  <2>1. \A f, g \in Active : f = g
    BY DEF Inv, VgaHolds, AtMostOne
  <2>2. CASE Active = {}
    BY <2>2, FS_EmptySet
  <2>3. CASE Active # {}
    <3>1. PICK f \in Active : TRUE
      BY <2>3
    <3>2. Active = {f}
      BY <2>1, <3>1
    <3> QED
      BY <3>2, FS_Singleton
  <2> QED
    BY <2>2, <2>3
<1> QED
  BY <1>1, PciInvariant, PTL

\* PciIoAttributes: for any tree and any abilities of its bridges, every
\* bridge above a function that answers for VGA forwards VGA, with 16 bits if
\* the function decodes 16 bits.
THEOREM VgaAlwaysReachable == Spec => []VgaReachable
PROOF
<1>1. Inv => VgaReachable
  BY DEF Inv, VgaHolds
<1> QED
  BY <1>1, PciInvariant, PTL
=============================================================================
