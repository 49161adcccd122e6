------------------------------ MODULE MCSecBoot ------------------------------
(* Four harts as on the JH7110, with hart 0 the monitor core that the board *)
(* leaves out and hart 1 the boot hart; a machine with a table of its own   *)
(* order; and boards on which one thing is missing or different.            *)
EXTENDS SecBoot

Section(type) == [type |-> type, fits |-> TRUE]
File(type, sections) ==
    [type |-> type, sections |-> sections, tail |-> FALSE, fits |-> TRUE]
Volume(files) == [signature |-> TRUE, files |-> files, full |-> FALSE]

PeiCoreTe   == File("PEI_CORE", <<Section("UI"), Section("TE")>>)
PeiCorePe32 == File("PEI_CORE", <<Section("RAW"), Section("PE32")>>)
Peim        == File("PEIM", <<Section("PE32")>>)
Cut         == [File("PEIM", <<>>) EXCEPT !.fits = FALSE]
DeviceTree  == File("FREEFORM", <<Section("RAW")>>)

Tree == [root |-> TRUE, cpus |-> TRUE, harts |-> <<0, 1, 2, 3>>,
         compatible |-> "starfive,jh7110", bootHart |-> NoHart, reserved |-> TRUE,
         regs |-> TRUE, pmic |-> "i2c", i2c |-> TRUE, memory |-> TRUE]

Board == [dtb |-> Tree, dtbFv |-> Volume(<<DeviceTree>>),
          peiFv |-> Volume(<<Peim, PeiCorePe32>>), bootable |-> <<1, 2, 3>>,
          eeprom |-> [cells |-> <<"serial", "size", "mac", "crc">>, pointer |-> 0],
          regions |-> TRUE]

MCConfigs ==
    {Board,
     [Board EXCEPT !.bootable = <<>>, !.dtb.harts = <<2, BadHart, 1, 9>>,
                   !.peiFv = Volume(<<PeiCoreTe>>), !.eeprom.pointer = 1],
     [Board EXCEPT !.bootable = <<3, 1>>, !.dtb.bootHart = 1, !.dtb.pmic = "none"],
     [Board EXCEPT !.bootable = <<1>>, !.dtb.i2c = FALSE],   \* no controller
     [Board EXCEPT !.regions = FALSE],                   \* OpenSBI refuses the regions
     [Board EXCEPT !.dtb.compatible = "riscv,generic", !.dtb.bootHart = 2,
                   !.dtb.reserved = FALSE, !.bootable = <<2, 1>>],
     [Board EXCEPT !.dtb.bootHart = 2],                  \* nobody may boot cold
     [Board EXCEPT !.dtb.reserved = FALSE],              \* the fixup fails
     [Board EXCEPT !.dtb.pmic = "gpio"],                 \* the reset device fails
     [Board EXCEPT !.dtb.cpus = FALSE],                  \* no harts in the tree
     [Board EXCEPT !.dtbFv = [Volume(<<Peim>>) EXCEPT !.full = TRUE]],   \* no tree
     [Board EXCEPT !.peiFv = Volume(<<Cut, PeiCorePe32>>), !.dtb.memory = FALSE]}

===============================================================================
