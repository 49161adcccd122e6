------------------------- MODULE MCFirmwareVolumes -------------------------
(****************************************************************************)
(* Nine volumes.  Volume 1 is the boot volume; volume 2 lies two            *)
(* encapsulations deep beside volume 3, volume 4 in volume 1 with a status  *)
(* of its own.  Volumes 5 and 9 (both in 2, 5 not aligned), 6 (in place in  *)
(* 5) and 7 have the foreign format A, volume 8 the foreign format B; 7 and *)
(* 8 are reported by PEIMs, and volume 9 is corrupt.                        *)
(****************************************************************************)
EXTENDS FirmwareVolumes, TLC

Leaf(id, type, what) ==
    [id |-> id, kind |-> "leaf", type |-> type, what |-> what, big |-> FALSE,
     guid |-> NoPpi, processing |-> FALSE, auth |-> {}, sound |-> TRUE, content |-> <<>>,
     aligned |-> TRUE]
Image(id, volume) == Leaf(id, "image", volume)
Pe32(id) == Leaf(id, "pe32", 0)
Codes(id, codes) == Leaf(id, "depex", codes)
Guided(id, guid, processing, auth, content) ==
    [Leaf(id, "guided", 0) EXCEPT !.kind = "guided", !.guid = guid,
        !.processing = processing, !.auth = auth, !.content = content]
Compressed(id, content) ==
    [Leaf(id, "compressed", 0) EXCEPT !.kind = "compressed", !.content = content]

\* A dependency on two PPIs that may be written in two ways.
OnDAndLzma == <<Push("d"), Push("lzma"), Op("AND"), Op("END")>>
Malformed  == <<Push("d"), Op("AND"), Op("END")>>

Image2 == Image("image2", 2)
Pack2  == Compressed("pack2", <<Image2, Pe32("bait2")>>)
Image3 == Image("image3", 3)
Pack23 == Guided("pack23", "lzma", TRUE, {Signed}, <<Pack2, Image3>>)
Depex2 == Codes("depex2", OnDAndLzma)
Depex9 == Codes("depex9", Malformed)
Image4 == Image("image4", 4)
Pack4  == Guided("pack4", "crc", FALSE, {Signed}, <<Image4>>)
Peim5  == Pe32("peim5")
Pack5  == Compressed("pack5", <<Peim5>>)
Peim7  == Pe32("peim7")
Pack7  == Guided("pack7", "sha", FALSE, {}, <<Peim7>>)
Image5 == [Image("image5", 5) EXCEPT !.aligned = FALSE, !.big = TRUE]
Image6 == Image("image6", 6)
Image9 == Image("image9", 9)
Broken == [Compressed("broken", <<Pe32("inbroken")>>) EXCEPT !.sound = FALSE]

AllSections ==
    {Image2, Pack2, Pe32("bait2"), Image3, Pack23, Depex2, Depex9, Image4, Pack4, Peim5, Pack5, Peim7, Pack7,
     Image5, Image6, Image9, Broken, Pe32("inbroken")} \cup {Pe32(id) : id \in {"p1", "p2", "p3", "p4", "p6"}}
MCSectionOf == [id \in {s.id : s \in AllSections} |-> CHOOSE s \in AllSections : s.id = id]

File(type, name, sections) ==
    [type |-> type, name |-> name, state |-> "data valid", big |-> FALSE, header |-> TRUE,
     data |-> TRUE, sections |-> sections]
InState(file, state) == [file EXCEPT !.state = state]

Volume(format, ffs3, files) == [format |-> format, ffs3 |-> ffs3, files |-> files]

MCVolumes == <<
  Volume("ffs", FALSE, <<
     File("peim", "a", <<Pe32("p1")>>),
     File("volume image", "n1", <<Depex2, Pack23>>),
     InState(File("peim", "b", <<Pe32("p2")>>), "header construction"),
     InState(File("peim", "c", <<Pe32("p2")>>), "deleted"),
     [File("peim", "d", <<Pe32("p2")>>) EXCEPT !.big = TRUE, !.data = FALSE],
     File("volume image", "n2", <<Pack4>>),
     File("peim", "e", <<Pack5>>),
     InState(File("peim", "f", <<Pack7>>), "marked for update"),
     InState(File("peim", "g", <<Pe32("p2")>>), "free"),
     File("peim", "h", <<Pe32("p2")>>)>>),
  Volume("ffs", TRUE, <<
     [File("volume image", "n3", <<Image5, Image9>>) EXCEPT !.big = TRUE]>>),
  Volume("ffs", FALSE, <<
     File("pad", "i", <<>>), File("peim", "o", <<Pe32("p3")>>), File("peim", "j", <<Depex9, Pe32("p3")>>),
     File("peim", "k", <<Broken>>)>>),
  Volume("ffs", FALSE, <<File("peim", "l", <<Pe32("p4")>>)>>),
  Volume("A", TRUE, <<File("volume image", "n4", <<Image6>>)>>),
  Volume("A", TRUE, <<File("peim", "m", <<Pe32("p6")>>)>>),
  Volume("A", TRUE, <<>>), Volume("B", TRUE, <<>>), Volume("A", TRUE, <<>>) >>

MCReports == (7 :> {Signed}) @@ (8 :> {})
MCInstalls == {"A", "B", "lzma", "crc", "d", Decompress}

Atoms == {[op |-> "PUSH", ppi |-> p] : p \in {"d", "lzma"}} \cup {[op |-> "TRUE"]}
Compound(L, R) ==
    {[op |-> "NOT", left |-> x] : x \in L}
      \cup {[op |-> o, left |-> x, right |-> y] : o \in {"AND", "OR"}, x \in L, y \in R}
MCExpressions == Compound(Compound(Atoms, Atoms), {[op |-> "PUSH", ppi |-> "lzma"]})
=============================================================================
