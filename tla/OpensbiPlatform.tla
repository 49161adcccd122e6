--------------------------- MODULE OpensbiPlatform ---------------------------
(****************************************************************************)
(* The platform table that the firmware hands to OpenSBI and the hooks      *)
(* behind it: the generic platform (OpensbiPlatform.c), the StarFive        *)
(* override (StarFiveJH7110.c) and the EDK2 wrapper that SEC puts in front  *)
(* of them (Edk2OpensbiPlatformWrapperLib.c), as operators on records.      *)
(*                                                                          *)
(*  dtb       what the hooks read of the device tree:                       *)
(*    root, cpus       the nodes "/" and "/cpus" exist                      *)
(*    harts            the hart ids of the cpu nodes, in order; BadHart     *)
(*                     where the node has none                              *)
(*    compatible       the compatible string of the root                    *)
(*    bootHart         starfive,boot-hart-id of /chosen, or NoHart          *)
(*    reserved         the node /reserved-memory exists                     *)
(*    regs             the pmu and clock nodes have addresses               *)
(*    pmic             "none", or how the bus of the power chip is named    *)
(*  platform  hart_count, hart_index2id, ops, firmware_context as in        *)
(*            struct sbi_platform; special (generic_plat), selected         *)
(*            (selected_hartid) and reset (the registered reset device)     *)
(****************************************************************************)
EXTENDS Naturals, Sequences

CONSTANTS NoHart,      \* stands for the unset selected_hartid
          BadHart,     \* a cpu node that fdt_parse_hart_id rejects
          MaxHartBits  \* SBI_HARTMASK_MAX_BITS, 128 in the code

ASSUME MaxHartBitsAssumption == MaxHartBits \in Nat

StarFiveMatch == {"sifive,fu540", "starfive,jh7110"}

(* struct sbi_platform platform, as it is linked.                           *)
StaticPlatform ==
    [hart_count |-> MaxHartBits, hart_index2id |-> [i \in 1..MaxHartBits |-> 0],
     ops |-> "generic", firmware_context |-> FALSE,
     special |-> FALSE, selected |-> NoHart, reset |-> FALSE]

(* fw_platform_lookup_special and starfive_jh7110_fw_init.                  *)
LookupSpecial(p, dtb) ==
    LET found == dtb.compatible \in StarFiveMatch IN
    [p EXCEPT !.special  = found,
              !.selected = IF found THEN dtb.bootHart ELSE @]

(* The first cells of an array are overwritten, the others stay.            *)
Overwrite(array, prefix) ==
    [i \in DOMAIN array |-> IF i \in DOMAIN prefix THEN prefix[i] ELSE array[i]]

(* fw_platform_init: "wfi" stands for the endless loop at the label fail.   *)
InitFails(dtb) == ~dtb.root \/ ~dtb.cpus

(* The hart ids of the device tree that the platform can use.               *)
HartIds(dtb) == SelectSeq(dtb.harts, LAMBDA h : h # BadHart /\ h < MaxHartBits)

FwPlatformInit(p, dtb) ==
    [LookupSpecial(p, dtb) EXCEPT !.hart_index2id = Overwrite(@, HartIds(dtb)),
                                  !.hart_count    = Len(HartIds(dtb))]

(* Edk2PlatformHartIndex2Id: the board's own list of bootable harts.        *)
Edk2PlatformHartIndex2Id(p, bootable) ==
    IF bootable = <<>> THEN p
    ELSE [p EXCEPT !.hart_index2id = Overwrite(@, bootable),
                   !.hart_count    = Len(bootable)]

(* The harts of the table; sbi_platform_hart_invalid is its complement.     *)
PlatformHarts(p) == {p.hart_index2id[i] : i \in 1..p.hart_count}

(* starfive_jh7110_cold_boot_allowed behind generic_cold_boot_allowed       *)
(* behind the wrapper.                                                      *)
ColdBootAllowed(p, h) ==
    p.special /\ p.selected # NoHart => p.selected = h

(* pm_reset_init and starfive_jh7110_inst_init: the reset device is there   *)
(* when the bus of the power chip is found, and a bus without the name of   *)
(* an I2C controller is an error.                                           *)
ResetDevice(dtb)  == dtb.pmic # "none"
InstanceFails(dtb) == ~dtb.regs \/ (ResetDevice(dtb) /\ dtb.pmic # "i2c")

(* generic_final_init with starfive_jh7110_final_init and _fdt_fixup, in a  *)
(* cold boot; a missing /reserved-memory is an error of the fixup.          *)
GenericFinalInitFails(p, dtb) ==
    p.special /\ (InstanceFails(dtb) \/ ~dtb.reserved)

GenericFinalInit(p, dtb) ==
    [p EXCEPT !.reset = p.special /\ ResetDevice(dtb)]

===============================================================================
