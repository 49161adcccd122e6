-------------------------- MODULE MCPciResources --------------------------
(***************************************************************************)
(* Small machines for PciResources.                                        *)
(***************************************************************************)
EXTENDS PciResources

LOCAL All == {"mem64"}
LOCAL D(t, s) == [type |-> t, sizes |-> {s}, upper |-> 4, answers |-> 0, needs |-> 0]
LOCAL Nothing == [type |-> "none", sizes |-> {0}, upper |-> 0, answers |-> 0, needs |-> 0]
LOCAL Prefetch(kind) == [nibbles |-> CASE kind = "none" -> <<0, 0>> [] kind = "odd" -> <<1, 0>> [] OTHER -> <<1, 1>>,
                         upper   |-> kind = "wide"]
LOCAL Function == [decoders |-> <<>>, virtual |-> <<>>, vfs |-> 0, page |-> 1, rom |-> 0,
                   prefetch |-> Prefetch("none"), ioGrain |-> 16, quirks |-> <<>>]
LOCAL Wide   == [io |-> [min |-> 16, max |-> 128], low |-> [min |-> 8, max |-> 200],
                 high |-> [min |-> 400, max |-> 600]]
LOCAL Narrow == [io |-> [min |-> 16, max |-> 32], low |-> [min |-> 8, max |-> 20],
                 high |-> [min |-> 400, max |-> 404]]
LOCAL Empty  == [io |-> [min |-> 0, max |-> 0], low |-> [min |-> 0, max |-> 0],
                 high |-> [min |-> 0, max |-> 0]]

LOCAL Plain(n) ==
  [children |-> (1 :> <<2, 3>> @@ 2 :> <<4>>), parent |-> (2 :> 1 @@ 3 :> 1 @@ 4 :> 2),
   upwards |-> <<2, 1>>,
   kind |-> <<"root", "bridge", "device", "device">>,
   hardware |-> [f \in 2 .. n |-> Function], attributes |-> (1 :> All), probe |-> FALSE,
   padding |-> (1 :> <<>> @@ 2 :> <<>>),
   aperture |-> (1 :> Wide), spared |-> {}, hotPlug |-> TRUE, isaAliases |-> FALSE,
   later |-> {}]

(* A function behind a bridge and one beside it, with BARs of every type.  *)
LOCAL BarLists ==
  {<<>>} \cup {<< D(t, 1) >> : t \in T} \cup {<< D(t, 8), D(u, 2) >> : t \in T, u \in T}
Mixed ==
  {[Plain(4) EXCEPT !.hardware[3].decoders = << D(t, 1) >>, !.hardware[4].decoders = list,
                    !.hardware[4].rom = rom, !.hardware[2].prefetch = Prefetch(bridge),
                    !.attributes[1] = attributes] :
     t \in {"io", "mem32", "pmem64"}, list \in BarLists, rom \in {0, 2},
     bridge \in {"none", "odd", "narrow", "wide"}, attributes \in {{}, All, All \cup {"combine"}}}

(* Registers that are hard to read: upper registers of few bits or none,   *)
(* I/O of 16 bits, gaps, BARs of 4 GB, and functions whose registers do    *)
(* not tell the truth.                                                     *)
LOCAL HighWide == [Wide EXCEPT !.high.min = 2 ^ 14, !.high.max = 2 ^ 17]
LOCAL Quirk(bar, space, granularity, align, length) ==
  [bar |-> bar, space |-> space, granularity |-> granularity, align |-> align, length |-> length]
LOCAL Liar(d, answers, needs) == [d EXCEPT !.answers = answers, !.needs = needs]
Odd ==
  {[Plain(4) EXCEPT !.hardware[4].decoders = list, !.hardware[2].decoders = own,
                    !.hardware[2].prefetch = Prefetch("wide"), !.aperture[1] = HighWide] :
     own \in {<<>>, <<Nothing, D("mem32", 1)>>, << D("pmem64", 1) >>},
     list \in {<<Nothing, D(t, s), D("mem32", 1)>> : t \in {"mem64", "pmem64"}, s \in {2}} \cup
              {<<[D("pmem64", s) EXCEPT !.upper = u], [D("io", 2) EXCEPT !.upper = v]>> :
                 s \in {4, 2 ^ 14, 2 ^ 15}, u \in {2, 3}, v \in {0, 16}} \cup
              {<<[D(t, 4) EXCEPT !.upper = 0], [D("mem32", 4) EXCEPT !.type = "reserved"], D("mem32", 2)>> :
                 t \in {"mem64", "pmem64"}}} \cup
  {[Plain(4) EXCEPT !.hardware[4].decoders = <<Liar(D("mem32", 4), 4, needs), Liar(D(t, 2), length, length)>>,
                    !.hardware[4].quirks = <<Quirk(1, "mem", 0, align, 0), Quirk(2, "mem", bits, length, length),
                                             Quirk(RomBar, "mem", 0, 0, 0)>>,
                    !.hardware[4].rom = 2, !.hardware[3].decoders = << D("pmem32", 4) >>,
                    !.hardware[2].prefetch = Prefetch("narrow")] :
     <<align, needs>> \in {<<0, 4>>, <<-1, 4>>, <<-2, 8>>, <<-3, 16>>, <<-4, 32>>, <<16, 16>>},
     length \in {8, 16}, t \in {"mem64", "pmem64"}, bits \in {32, 64}}

(* Slots with padding, little to give, and what is plugged in later.       *)
Slots ==
  {[Plain(4) EXCEPT !.hardware[3].decoders = << D(t, s) >>, !.hardware[4].decoders = list, !.later = later,
                    !.hardware[2].prefetch = Prefetch("wide"), !.aperture[1] = ap,
                    !.padding[2] = pad, !.spared = spared, !.hotPlug = hot] :
     t \in {"mem32", "pmem64"}, s \in {1, 8}, ap \in {Wide, Narrow, Empty},
     list \in {<< D(u, s2) >> : u \in {"io", "mem32", "pmem32", "pmem64"}, s2 \in {2, 8}},
     later \in {{}, {4}}, spared \in {{}, {3}}, hot \in BOOLEAN,
     pad \in {<<>>, << <<"mem32", 8, 8>> >>, << <<"mem32", 4, 4>>, <<"pmem64", 8, 8>>, <<"io", 16, 16>> >>}}

(* Two bridges, one behind the other, the slot behind both; I/O windows of *)
(* every grain.                                                            *)
Nested ==
  {[Plain(5) EXCEPT !.kind = <<"root", "bridge", "bridge", "device", "device">>,
      !.children = (1 :> <<2, 5>> @@ 2 :> <<3>> @@ 3 :> <<4>>),
      !.parent = (2 :> 1 @@ 3 :> 2 @@ 4 :> 3 @@ 5 :> 1), !.upwards = <<3, 2, 1>>,
      !.hardware[4].decoders = << D(t, 4), D(u, 1) >>,
      !.hardware[5].decoders = << D("mem32", 2), D("io", 1) >>,
      !.hardware[3].decoders = << D("mem32", 1) >>,
      !.hardware[2].prefetch = Prefetch(outer), !.hardware[3].prefetch = Prefetch(inner),
      !.probe = (grain < 16), !.hardware[2].ioGrain = grain, !.hardware[3].ioGrain = IF grain = 16 THEN 16 ELSE 16 \div grain,
      !.padding = (1 :> <<>> @@ 2 :> <<>> @@ 3 :> pad)] :
     t \in T, u \in T, outer \in {"none", "narrow", "wide"}, inner \in {"none", "wide"},
     grain \in {2, 4, 8, 16}, pad \in {<<>>, << <<"pmem64", 8, 4>>, <<"io", 16, 16>> >>}}

(* Two root bridges, resizable BARs behind one or both.                    *)
ResizableBars ==
  {[Plain(4) EXCEPT !.kind = <<"root", "root", "device", "device">>,
      !.children = (1 :> <<3>> @@ 2 :> <<4>>), !.parent = (3 :> 1 @@ 4 :> 2), !.upwards = <<1, 2>>,
      !.hardware = [f \in {3, 4} |-> [Function EXCEPT !.decoders =
                      <<[D(t, 16) EXCEPT !.sizes = IF f \in R THEN {2, 4, 16} ELSE {16}]>>]],
      !.attributes = (1 :> All @@ 2 :> All), !.aperture = (1 :> one @@ 2 :> two)] :
     t \in {"mem32", "pmem64"}, R \in SUBSET {3, 4}, one \in {Wide, Narrow}, two \in {Wide, Narrow}}

(* A CardBus bridge, SR-IOV, a bridge with BARs of its own and ISA         *)
(* aliases.                                                                *)
Special ==
  {[Plain(6) EXCEPT !.kind = <<"root", "bridge", "device", "device", "cardbus", "device">>,
      !.children = (1 :> <<2, 3, 6>> @@ 2 :> <<4, 5>>),
      !.parent = (2 :> 1 @@ 3 :> 1 @@ 4 :> 2 @@ 5 :> 2 @@ 6 :> 1),
      !.hardware[2].decoders = << D("mem64", 1) >>, !.hardware[3].decoders = << D("io", 2) >>,
      !.hardware[4].decoders = << D("io", 1), D(t, 2) >>, !.hardware[5].decoders = << D("mem32", 1) >>,
      !.hardware[6].decoders = << D("io", 1), D("mem32", 1) >>,
      !.hardware[4].virtual = << D(u, 2), D("mem32", 1) >>, !.hardware[4].vfs = 3, !.hardware[4].page = page,
      !.isaAliases = isa, !.aperture[1] = [Wide EXCEPT !.low.max = 800],
      !.hardware[4].quirks = quirks, !.hardware[4].rom = rom] :
     t \in {"mem32", "pmem64"}, u \in {"mem64", "pmem64"}, isa \in BOOLEAN, page \in {1, 4},
     quirks \in {<<>>, <<Quirk(2, "mem", 64, 0, 0)>>}, rom \in {0, 1}}

(* Option ROMs behind two bridges side by side, of the bridges too, and of *)
(* a function between them.                                                *)
OptionRoms ==
  {[Plain(6) EXCEPT !.kind = <<"root", "bridge", "device", "bridge", "device", "device">>,
      !.children = (1 :> <<2, 5, 4>> @@ 2 :> <<3>> @@ 4 :> <<6>>),
      !.parent = (2 :> 1 @@ 3 :> 2 @@ 4 :> 1 @@ 5 :> 1 @@ 6 :> 4), !.upwards = <<2, 4, 1>>,
      !.hardware[3].decoders = first, !.hardware[6].decoders = second,
      !.hardware[4].decoders = << D("mem32", 1) >>, !.hardware[5].decoders = << D("mem32", 4) >>,
      !.hardware[2].prefetch = Prefetch("wide"), !.hardware[4].prefetch = Prefetch("narrow"),
      !.padding = (1 :> <<>> @@ 2 :> <<>> @@ 4 :> <<>>),
      !.hardware[3].rom = rom, !.hardware[4].rom = own, !.hardware[5].rom = 1, !.hardware[6].rom = 2] :
     first \in {<<>>, << D("mem32", 2) >>, << D("io", 1), D("pmem64", 8) >>},
     second \in {<<>>, << D("mem64", 2), D("pmem32", 4) >>}, rom \in {1, 8}, own \in {0, 2}}

MCMachines == OptionRoms \cup Mixed \cup Odd \cup Slots \cup Nested \cup ResizableBars \cup Special
=============================================================================
