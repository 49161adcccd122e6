------------------------------ MODULE FfsFiles ------------------------------
(****************************************************************************)
(* Finding files in a volume and sections in a file: FindFileEx and         *)
(* ProcessSection (FwVol.c), with the cache of extracted sections.          *)
(*                                                                          *)
(* A volume is [format, ffs3, files].  A file is [type, name, state, big,   *)
(* header, data, sections]: big if it has the header of FFS3, header and    *)
(* data tell whether the two checksums are right.  A section is [id, kind,  *)
(* type, big, guid, processing, auth, sound, content, what]: a leaf, or     *)
(* guided or compressed sections; what is the volume or the dependency      *)
(* expression in a leaf.                                                    *)
(*                                                                          *)
(* An address is <<at, id>>: the buffer a section lies in and which it is;  *)
(* buffer 0 is the flash, every extraction makes another.                   *)
(****************************************************************************)
EXTENDS Integers, Sequences, FiniteSets, SequencesExt, FiniteSetsExt

CONSTANTS CACHE_SETION_MAX_NUMBER,
          SectionOf      \* id -> section, of every section there is

IsValid(f)   == f.state \in {"data valid", "marked for update"}
CanBeRead(f, v) == IsValid(f) /\ (f.big => v.ffs3)

(* Free space or a bad checksum; a file that was never completed and a      *)
(* deleted one are passed over, and so is one of FFS3 in another volume.    *)
EndsVolume(f, v) ==
    \/ f.state \notin {"data valid", "marked for update", "deleted",
                       "header construction", "header invalid"}
    \/ IsValid(f) /\ ~ f.header
    \/ CanBeRead(f, v) /\ ~ f.data

(* The next file after number from whose type is one of types, or 0. *)
FindFileEx(v, from, types) ==
    LET Reached(k) == \A j \in (from + 1) .. k : ~ EndsVolume(v.files[j], v)
        found == {k \in (from + 1) .. Len(v.files) :
                    Reached(k) /\ CanBeRead(v.files[k], v) /\ v.files[k].type \in types}
    IN  IF found = {} THEN 0 ELSE Min(found)

FindImageFile(v, from)    == FindFileEx(v, from, {"volume image"})
FindDispatchFile(v, from) == FindFileEx(v, from, {"volume image", "peim"})

-----------------------------------------------------------------------------
NotTested == "not tested"
Signed    == "signed"
Decompress == "decompress"     \* gEfiPeiDecompressPpiGuid

EmptyCache == [sections |-> <<>>, index |-> 1]

(* The oldest entry gives way. *)
Cached(cache, entry) ==
    IF NotTested \in entry.auth THEN cache
    ELSE [sections |-> IF cache.index > Len(cache.sections) THEN Append(cache.sections, entry)
                       ELSE [cache.sections EXCEPT ![cache.index] = entry],
          index    |-> (cache.index % CACHE_SETION_MAX_NUMBER) + 1]

InCache(cache, address) ==
    {k \in DOMAIN cache.sections : cache.sections[k].section = address}

(* Can the data of a section be had: by a PPI, which makes a new buffer, or *)
(* in place.                                                                *)
ByPpi(sec, installed) ==
    (IF sec.kind = "guided" THEN sec.guid ELSE Decompress) \in installed
InPlace(sec, installed) ==
    sec.kind = "guided" /\ ~ ByPpi(sec, installed) /\ ~ sec.processing

(* s is [left, found, auth, cache, fresh]: how many instances are still to  *)
(* pass, the address of the section found, its authentication status, and   *)
(* the number of the last buffer.                                           *)
NotFound == <<0, "none">>

RECURSIVE ProcessSection(_, _, _, _, _, _)

WithinData(s, type, data, auth, ffs3, installed) ==
    LET r == ProcessSection(s, type, SectionOf[data[2]].content, data[1], ffs3, installed)
    IN  IF r.found # NotFound THEN [r EXCEPT !.auth = @ \cup auth] ELSE r

Extracted(s, type, sec, at, ffs3, installed) ==
    LET new  == IF ByPpi(sec, installed) THEN s.fresh + 1 ELSE at
        auth == IF sec.kind = "compressed" THEN {}
                ELSE IF ByPpi(sec, installed) THEN sec.auth
                ELSE IF Signed \in sec.auth THEN {Signed, NotTested} ELSE {}
        data == <<new, sec.id>>
        entry == [section |-> <<at, sec.id>>, data |-> data, auth |-> auth]
    IN  WithinData([s EXCEPT !.cache = Cached(@, entry),
                             !.fresh = IF ByPpi(sec, installed) THEN new ELSE @],
                   type, data, auth, ffs3, installed)

\* Mutant: the instances found inside do not count.
ThroughAlone(s, type, sec, at, ffs3, installed) ==
    LET hits == InCache(s.cache, <<at, sec.id>>)
        e    == s.cache.sections[Min(hits)]
        r    == IF hits # {} THEN WithinData(s, type, e.data, e.auth, ffs3, installed)
                ELSE IF InPlace(sec, installed) \/ (ByPpi(sec, installed) /\ sec.sound)
                THEN Extracted(s, type, sec, at, ffs3, installed)
                ELSE s
    IN  IF r.found # NotFound THEN r ELSE [r EXCEPT !.left = s.left]

(* An encapsulation section: its data is searched if it can be had. *)
Through(s, type, sec, at, ffs3, installed) ==
    LET hits == InCache(s.cache, <<at, sec.id>>)
        e    == s.cache.sections[Min(hits)]
    IN  IF hits # {} THEN WithinData(s, type, e.data, e.auth, ffs3, installed)
        ELSE IF InPlace(sec, installed) \/ (ByPpi(sec, installed) /\ sec.sound)
        THEN Extracted(s, type, sec, at, ffs3, installed)
        ELSE s

ProcessSection(s, type, sections, at, ffs3, installed) ==
    LET Visit(t, sec) ==
          IF t.found # NotFound \/ (sec.big /\ ~ ffs3) THEN t
          ELSE IF sec.kind # "leaf" THEN Through(t, type, sec, at, ffs3, installed)
          ELSE IF sec.type # type THEN t
          ELSE IF t.left = 1 THEN [t EXCEPT !.left = 0, !.found = <<at, sec.id>>]
          ELSE [t EXCEPT !.left = @ - 1]
    IN  FoldLeft(Visit, s, sections)

(* FindSectionByType2: instance number k, counted from 0. *)
FindSection(v, file, at, type, k, cache, fresh, installed) ==
    ProcessSection([left |-> k + 1, found |-> NotFound, auth |-> {},
                    cache |-> cache, fresh |-> fresh],
                   type, v.files[file].sections, at, v.ffs3, installed)

(* What a caller may expect: the sections of the type, in order, in all     *)
(* encapsulations whose data can be had, each with its status.              *)
RECURSIVE Reachable(_, _, _, _)
Reachable(type, sections, ffs3, installed) ==
    LET Of(sec) ==
          IF sec.big /\ ~ ffs3 THEN <<>>
          ELSE IF sec.kind = "leaf"
          THEN IF sec.type = type THEN <<[id |-> sec.id, auth |-> {}]>> ELSE <<>>
          ELSE IF ~ (InPlace(sec, installed) \/ (ByPpi(sec, installed) /\ sec.sound)) THEN <<>>
          ELSE LET inner == Reachable(type, sec.content, ffs3, installed)
                   auth  == IF sec.kind = "compressed" THEN {}
                            ELSE IF ByPpi(sec, installed) THEN sec.auth
                            ELSE IF Signed \in sec.auth THEN {Signed, NotTested} ELSE {}
               IN  [k \in DOMAIN inner |-> [inner[k] EXCEPT !.auth = @ \cup auth]]
    IN  FlattenSeq([k \in DOMAIN sections |-> Of(sections[k])])
=============================================================================
