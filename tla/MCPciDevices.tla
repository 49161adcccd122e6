--------------------------- MODULE MCPciDevices ---------------------------
(***************************************************************************)
(* Small machines for PciDevices.                                          *)
(***************************************************************************)
EXTENDS PciDevices

LOCAL None(n) == [f \in 1 .. n |-> {}]

(* A slot behind a bridge, a function beside it, ROMs, rejections.         *)
LOCAL Slot ==
  [kind |-> <<"root", "bridge", "device", "device">>,
   children |-> << <<2, 3>>, <<4>>, <<>>, <<>> >>, parent |-> <<0, 1, 1, 2>>,
   class |-> <<"other", "other", "other", "other">>, bus |-> <<0, 0, 0, 1>>,
   implemented |-> None(4), fast |-> {3}, fastBelow |-> {2}, rootSupports |-> {},
   vgaAliases |-> FALSE, efiRoms |-> {}, allocated |-> 2 .. 4, rejected |-> {},
   slots |-> {2}, later |-> {}, keepers |-> {3, 4}, quitters |-> {}, failures |-> 1]
Slots ==
  {[Slot EXCEPT !.efiRoms = {3}, !.later = {4}],
   [Slot EXCEPT !.efiRoms = {3, 4}],
   [Slot EXCEPT !.allocated = {2, 3}],
   [Slot EXCEPT !.allocated = {2, 4}, !.rejected = {3}]}

(* Two VGA functions and a graphics function, one of them behind bridges.  *)
LOCAL Vgas(c3, c4, c5) ==
  [kind |-> <<"root", "bridge", "bridge", "device", "device">>,
   children |-> << <<2, 5>>, <<3>>, <<4>>, <<>>, <<>> >>, parent |-> <<0, 1, 2, 3, 1>>,
   class |-> <<"other", "other", c3, c4, c5>>, bus |-> <<0, 0, 1, 2, 0>>,
   implemented |-> << {}, Bits, Bits, {"io", "memory", "snoop"}, {"io", "busMaster", "snoop"} >>,
   fast |-> {3, 4}, fastBelow |-> {3}, rootSupports |-> {},
   vgaAliases |-> FALSE, efiRoms |-> {}, allocated |-> 2 .. 5, rejected |-> {},
   slots |-> {}, later |-> {}, keepers |-> {}, quitters |-> {}, failures |-> 0]
Screens ==
  {[Vgas("other", c4, c5) EXCEPT !.rootSupports = IF a THEN {"vgaIo", "vgaMemory", "palette"}
                                                  ELSE {"vgaIo16", "vgaMemory", "palette16", "palette"},
                                 !.implemented[3] = bits, !.vgaAliases = a] :
     c4 \in {"vga", "gfx"}, c5 \in {"vga", "gfx"}, a \in BOOLEAN,
     bits \in {Bits, DeviceEnable}} \cup
  {[Vgas("other", "vga", "vga") EXCEPT !.rootSupports = {"vgaIo16", "vgaMemory"},
                                       !.slots = {3}, !.later = {4}]} \cup
  {[Vgas("other", "vga", "vga") EXCEPT !.rootSupports = {"vgaIo16", "vgaMemory"},
                                       !.quitters = {b}] : b \in {2, 3}}

All == Slots \cup Screens
=============================================================================
