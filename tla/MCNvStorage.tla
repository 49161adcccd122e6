---------------------------- MODULE MCNvStorage ----------------------------
(***************************************************************************)
(* A small flash: pages and sectors of two cells, blocks of four, one      *)
(* block in front of the volume, two in it and one behind.                 *)
(***************************************************************************)
EXTENDS NvStorage

DelayWindows == {{0}, {2}}
Blank        == [i \in 1..8 |-> 1]
OldContents  == {Blank, <<0, 1, 1, 0, 1, 0, 1, 1>>, <<1, 0, 0, 1, 0, 1, 1, 1>>}
Around       == <<0, 1, 0, 1,  1, 1, 1, 1,  1, 1, 1, 1,  0, 1, 1, 0>>
Written      == {<<0, 1, 0>>, <<0, 0>>}
EraseLists   ==
  {<< <<0, 1>> >>, << <<1, 2>> >>, << <<1, 0>> >>, << <<0, 1>>, <<3, 1>> >>,
   << <<1, 1>>, <<0, 1>> >>}
SomeReads    == {<<0, 4>>, <<1, 4>>}
FdImages     == {<<1, 1, 1, 1>>, <<0, 0, 1, 0>>, <<0, 1, 0, 1>>}
=============================================================================
