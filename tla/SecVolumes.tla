------------------------------ MODULE SecVolumes ------------------------------
(****************************************************************************)
(* How SEC walks a firmware volume before any PEI service exists: the files *)
(* in order, and the sections of a file of the wanted type in order         *)
(* (SecMain.c).  A file or a section is described by what the walk tells    *)
(* apart: its type, and whether its size field keeps it inside its          *)
(* container ("fits").  "full" says that the last file ends exactly at the  *)
(* end of the volume; otherwise erased bytes follow, whose size field of    *)
(* all ones never fits.                                                     *)
(*                                                                          *)
(*   Section == [type, fits]                                                *)
(*   File    == [type, sections : Seq(Section), tail : BOOLEAN, fits]       *)
(*   Volume  == [signature : BOOLEAN, files : Seq(File), full : BOOLEAN]    *)
(*                                                                          *)
(* "tail" says that bytes are left behind the last section of the file.     *)
(****************************************************************************)
EXTENDS Naturals, Sequences, FiniteSetsExt

NotFound  == <<"not_found">>
Corrupted == <<"corrupted">>
Beyond    == <<"beyond">>       \* the walk read a header behind the volume
Found(f, s) == <<"found", f, s>>

\* The first position of seq that Test holds at, 0 if none does.
FirstAt(seq, Test(_)) ==
    LET hits == {i \in DOMAIN seq : Test(seq[i])} IN
    IF hits = {} THEN 0 ELSE Min(hits)

(* FindFfsSectionInstance for instance 0, and FindFfsSectionInSections: the *)
(* walk stops at the first section that has the type or does not fit; if    *)
(* there is none, bytes behind the last section make the file corrupt.      *)
FindFfsSectionInSections(file, type) ==
    LET stop == FirstAt(file.sections, LAMBDA s : s.type = type \/ ~s.fits) IN
    CASE stop = 0 /\ file.tail                     -> Corrupted
      [] stop = 0 /\ ~file.tail                    -> NotFound
      [] stop # 0 /\ ~file.sections[stop].fits     -> Corrupted
      [] OTHER                                     -> <<"found", stop>>

(* FindFfsFileAndSection: a file of the type without the section is passed  *)
(* over, a corrupt one ends the walk.  The loop has no other end than an    *)
(* error: it leaves when the next header lies beyond the end, and a header  *)
(* exactly at the end is read.                                              *)
FindFfsFileAndSection(fv, fileType, sectionType) ==
    LET Stops(f) == \/ ~f.fits
                    \/ /\ f.type = fileType
                       /\ FindFfsSectionInSections(f, sectionType) # NotFound
        stop     == FirstAt(fv.files, Stops)
        section  == FindFfsSectionInSections(fv.files[stop], sectionType)
    IN CASE ~fv.signature                             -> Corrupted
         [] fv.signature /\ stop = 0 /\ fv.full       -> Beyond
         [] fv.signature /\ stop = 0 /\ ~fv.full      -> Corrupted
         [] OTHER -> IF ~fv.files[stop].fits \/ section = Corrupted
                     THEN Corrupted
                     ELSE Found(stop, section[2])

IsFound(result) == result[1] = "found"

(* FindPeiCoreImageBaseInFv: the PE32 section, else the TE section.         *)
FindPeiCoreImageBaseInFv(fv) ==
    LET pe32 == FindFfsFileAndSection(fv, "PEI_CORE", "PE32") IN
    IF IsFound(pe32) THEN pe32 ELSE FindFfsFileAndSection(fv, "PEI_CORE", "TE")

(* FindAndReportEntryPoints: the status of the search is dropped, and the   *)
(* loader finds no entry point in an image at address 0.                    *)
NoEntry == <<"zero">>
FindAndReportEntryPoints(fv) ==
    LET image == FindPeiCoreImageBaseInFv(fv) IN
    IF IsFound(image) THEN image ELSE NoEntry

===============================================================================
