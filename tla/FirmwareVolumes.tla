-------------------------- MODULE FirmwareVolumes --------------------------
(****************************************************************************)
(* The firmware volumes of PEI (FwVol.c) with the part of the dispatcher    *)
(* that opens volume images and loads PEIMs from them (Dispatcher.c).       *)
(*                                                                          *)
(* A volume is reported by a PEIM, or found in an image file of another     *)
(* volume.  If the core has no EFI_PEI_FIRMWARE_VOLUME_PPI for its format,  *)
(* it waits in UnknownFvInfo[]; the descriptor of the notification that     *)
(* will fetch it lies in the same array element, and the PPI database holds *)
(* the address of the element, whatever is copied over it afterwards.       *)
(*                                                                          *)
(* The header of a volume has the address [at, path]: the buffer it lies in *)
(* and the volumes it lies inside of in this buffer, itself the last.       *)
(****************************************************************************)
EXTENDS Depex, FfsFiles

CONSTANTS
    Volumes,        \* volume -> its contents, see FfsFiles
    Corrupt,        \* volumes that the PPI of their (foreign) format refuses
    Installs,       \* the PPIs that PEIMs may install
    Reports,        \* volume -> the status it may be reported with
    OwnFormats,     \* formats with a PPI from the beginning: FFS2 and FFS3
    FV_GROWTH_STEP,
    Expressions     \* dependency expressions, as trees

VARIABLES
    buffers,        \* every UnknownFvInfo[] there was, with what is left in it
    count,          \* UnknownFvInfoCount
    registered,     \* NotifyPtrs[]: the addresses of the descriptors
    installed,      \* the PPIs there are
    fvs,            \* Fv[]: [fv, auth, states], states: files whose PeimState moved
    cache,          \* CacheSection
    fresh,          \* the number of the last buffer
    named,          \* the file names in FV2 HOBs
    pass,           \* PeiDispatcher: the volume and file it is at, its two flags
    calls,          \* the functions that are under way, the innermost last
    reported,       \* history: the addresses of volumes that were reported
    displaced       \* history: those whose descriptor or volume was mixed up, see TakeOut

history == <<reported, displaced>>
vars == <<buffers, count, registered, installed, fvs, cache, fresh, named, pass,
          calls, history>>

Header(at, path) == [at |-> at, path |-> path]
VolumeOf(fv)     == Volumes[Last(fv.path)]
FormatOf(fv)     == VolumeOf(fv).format
Elements(s)      == {s[i] : i \in DOMAIN s}
First(S)         == Min(S)

(* A frame: at is where the function is, fv and file what it looks at. *)
Frame(at, fv, file) ==
    [at |-> at, fv |-> fv, file |-> file, new |-> fv, index |-> 0, stop |-> 0, ppi |-> NoPpi]

Top      == Last(calls)
In(at)   == calls # <<>> /\ Top.at = at
Return   == Front(calls)
Goto(at) == [calls EXCEPT ![Len(calls)].at = at]
Idle     == calls = <<>>
Finished == Idle /\ pass.fv = 0

NewPass == [fv |-> 1, file |-> 0, needing |-> FALSE, again |-> FALSE]
NewEntry(fv, auth) == [fv |-> fv, auth |-> auth, states |-> {}]

Init ==
    /\ buffers = <<>> /\ count = 0 /\ registered = <<>>
    /\ installed = OwnFormats
    /\ fvs = <<NewEntry(Header(0, <<1>>), {})>>
    /\ cache = EmptyCache /\ fresh = 0 /\ named = {}
    /\ pass = NewPass /\ calls = <<>>
    /\ reported = {Header(0, <<1>>)} /\ displaced = {}

-----------------------------------------------------------------------------
(* UnknownFvInfo[].  The address of an element is the number of the array   *)
(* (it moves when it grows) and the place in it.                            *)

UnknownFvInfo == buffers[Len(buffers)]
MaxUnknownFvInfoCount == FV_GROWTH_STEP * Len(buffers)
EntryAt(a) == buffers[a[1]][a[2]]
GuidOf(a)  == EntryAt(EntryAt(a).guid).format

Put(s, i, e) == IF i \in DOMAIN s THEN [s EXCEPT ![i] = e] ELSE Append(s, e)

(* A full array is copied to a larger buffer; its elements keep the         *)
(* pointers they have.                                                      *)
AddUnknownFormatFvInfo(fv, auth) ==
    LET grown == IF count < MaxUnknownFvInfoCount THEN buffers
                 ELSE Append(buffers, IF buffers = <<>> THEN <<>> ELSE UnknownFvInfo)
        new   == <<Len(grown), count + 1>>
        entry == [format |-> FormatOf(fv), fv |-> fv, auth |-> auth, guid |-> new]
    IN  /\ buffers' = [grown EXCEPT ![new[1]] = Put(@, new[2], entry)]
        /\ count' = count + 1
        /\ registered' = Append(registered, new)

Waiting       == 1 .. count
Matches(guid) == {i \in Waiting : UnknownFvInfo[i].format = guid}

\* Mutant: the loop that copies stops one element early.
TakeOutShort(i) ==
    /\ buffers' = [buffers EXCEPT ![Len(buffers)] =
         [k \in DOMAIN @ |-> IF k \in i .. count - 2 THEN @[k + 1] ELSE @[k]]]
    /\ count' = count - 1

(* FindUnknownFormatFvInfo: the elements behind the one found are copied    *)
(* down one place, with the descriptors in them.  A descriptor that is      *)
(* registered there is copied over: if the formats differ, it now answers   *)
(* to another PPI than that of its volume.                                  *)
TakeOut(i) ==
    /\ buffers' = [buffers EXCEPT ![Len(buffers)] =
         [k \in DOMAIN @ |-> IF k \in i .. count - 1 THEN @[k + 1] ELSE @[k]]]
    /\ count' = count - 1

(* What a turn of the callback for ppi mixes up: the volumes copied down    *)
(* among others of another format, and the volume taken out if it has not   *)
(* the format of ppi, which will refuse it.                                 *)
Displaced(i, ppi) ==
    LET mixed == Cardinality({UnknownFvInfo[k].format : k \in i .. count}) > 1
    IN  {UnknownFvInfo[k].fv : k \in IF mixed THEN i + 1 .. count ELSE {}}
          \cup (IF UnknownFvInfo[i].format = ppi THEN {} ELSE {UnknownFvInfo[i].fv})

-----------------------------------------------------------------------------
(* Fv[] *)

Known(fv)   == \E k \in DOMAIN fvs : fvs[k].fv = fv
PlaceOf(fv) == CHOOSE k \in DOMAIN fvs : fvs[k].fv = fv

(* The innermost volume that the file lies in. *)
FileHandleToVolume(fv) ==
    LET around == {k \in DOMAIN fvs : fvs[k].fv.at = fv.at /\ IsPrefix(fvs[k].fv.path, fv.path)}
    IN  CHOOSE k \in around : \A j \in around : Len(fvs[j].fv.path) <= Len(fvs[k].fv.path)

(* The search in a file of fv: [found, auth, cache, fresh, left]. *)
Search(fv, file, type, k) ==
    LET r == FindSection(VolumeOf(fv), file, fv.at, type, k, cache, fresh, installed)
    IN  [r EXCEPT !.auth = @ \cup fvs[FileHandleToVolume(fv)].auth]

Searched(r) == cache' = r.cache /\ fresh' = r.fresh
NotSearched == UNCHANGED <<cache, fresh>>

Succeeds(ppi, fv) == FormatOf(fv) = ppi /\ Last(fv.path) \notin Corrupt

(* FirmwareVolumeInfoPpiNotifyCallback, for FvInfo2 if it has a status; the *)
(* calls under way when it is over are rest.                                *)
VolumeReported(fv, auth, info2, rest) ==
    /\ reported' = reported \cup {fv} /\ UNCHANGED displaced
    /\ IF FormatOf(fv) \notin installed
         THEN AddUnknownFormatFvInfo(fv, auth) /\ calls' = rest /\ UNCHANGED fvs
         ELSE /\ UNCHANGED <<buffers, count, registered>>
              /\ IF ~ Succeeds(FormatOf(fv), fv)
                   THEN calls' = rest /\ UNCHANGED fvs
                 ELSE IF Known(fv)
                   THEN /\ fvs' = [fvs EXCEPT ![PlaceOf(fv)].auth = IF info2 THEN auth ELSE @]
                        /\ calls' = rest
                 ELSE /\ fvs' = Append(fvs, NewEntry(fv, auth))
                      /\ calls' = Append(rest, Frame("scan", fv, 0))

-----------------------------------------------------------------------------
(* The scan of a new volume for image files *)

Ready(fv, r) ==
    r.found = NotFound \/ PeimDispatchReadiness(SectionOf[r.found[2]].what, installed)

Scan ==
    /\ In("scan")
    /\ LET next == FindImageFile(VolumeOf(Top.fv), Top.file)
           at   == [calls EXCEPT ![Len(calls)].file = next]
       IN  IF next = 0 THEN calls' = Return /\ NotSearched
           ELSE \E r \in {Search(Top.fv, next, "depex", 0)} :
                  /\ Searched(r)
                  /\ calls' = IF Ready(Top.fv, r) THEN Append(at, Frame("open", Top.fv, next))
                              ELSE at
    /\ UNCHANGED <<buffers, count, registered, installed, fvs, named, pass, history>>

(* ProcessFvFile ends; if the dispatcher called it, it goes on.  Success    *)
(* moves PeimState, failure leaves the file for another pass.               *)
Finish(success) ==
    /\ calls' = Return
    /\ IF Len(calls) > 1 THEN UNCHANGED <<fvs, pass>>
       ELSE IF success
       THEN /\ fvs' = [fvs EXCEPT ![pass.fv].states = @ \cup {Top.file}]
            /\ pass' = [pass EXCEPT !.again = TRUE]
       ELSE /\ pass' = [pass EXCEPT !.needing = TRUE]
            /\ UNCHANGED fvs

NameOf(fv, file) == VolumeOf(fv).files[file].name

(* A file whose name is in an FV2 HOB was processed before. *)
OpenImage ==
    /\ In("open")
    /\ IF NameOf(Top.fv, Top.file) \in named THEN Finish(TRUE)
       ELSE calls' = Goto("find") /\ UNCHANGED <<fvs, pass>>
    /\ UNCHANGED <<buffers, count, registered, installed, cache, fresh, named, history>>

(* VerifyPeim without a security PPI. *)
Violation(auth) == Signed \in auth /\ NotTested \in auth

(* The volume in a section: where it lies, or a copy on pages of its own if *)
(* the section is not aligned as its header wants.                          *)
HeaderIn(fv, r) ==
    LET sec == SectionOf[r.found[2]]
    IN  IF ~ sec.aligned THEN Header(r.fresh + 1, <<sec.what>>)
        ELSE IF r.found[1] = fv.at THEN Header(fv.at, Append(fv.path, sec.what))
        ELSE Header(r.found[1], <<sec.what>>)

(* The next image of the file is reported by FvInfo2, which may make the    *)
(* callback scan the volume first.                                          *)
FindImage ==
    /\ In("find")
    /\ \E r \in {Search(Top.fv, Top.file, "image", Top.index)} :
         IF r.found = NotFound \/ Violation(r.auth)
           THEN /\ Finish(Top.index > 0) /\ Searched(r)
                /\ UNCHANGED <<buffers, count, registered, history>>
           ELSE LET new  == HeaderIn(Top.fv, r)
                    rest == [Goto("reported") EXCEPT ![Len(calls)].new = new]
                IN  /\ VolumeReported(new, r.auth, TRUE, rest)
                    /\ cache' = r.cache
                    /\ fresh' = IF new.at > r.fresh THEN new.at ELSE r.fresh
                    /\ UNCHANGED pass
    /\ UNCHANGED <<installed, named>>

(* Then by FvInfo, and by HOBs; then the next one. *)
ReportAgain ==
    /\ In("reported")
    /\ VolumeReported(Top.new, {}, FALSE, Goto("hobs"))
    /\ UNCHANGED <<installed, cache, fresh, named, pass>>

\* Mutant: no FV2 HOB is built.
BuildHobsNone ==
    /\ In("hobs")
    /\ calls' = [Goto("find") EXCEPT ![Len(calls)].index = @ + 1]
    /\ UNCHANGED <<named, buffers, count, registered, installed, fvs, cache, fresh, pass, history>>

BuildHobs ==
    /\ In("hobs")
    /\ named' = named \cup {NameOf(Top.fv, Top.file)}
    /\ calls' = [Goto("find") EXCEPT ![Len(calls)].index = @ + 1]
    /\ UNCHANGED <<buffers, count, registered, installed, fvs, cache, fresh, pass, history>>

-----------------------------------------------------------------------------
(* PeiDispatcher *)

Entry == fvs[pass.fv]
NextFile == FindDispatchFile(VolumeOf(Entry.fv), pass.file)
At(file) == [pass EXCEPT !.file = file]

NextVolume ==
    /\ Idle /\ pass.fv \in DOMAIN fvs /\ NextFile = 0
    /\ pass' = [pass EXCEPT !.fv = @ + 1, !.file = 0]
    /\ UNCHANGED <<buffers, count, registered, installed, fvs, cache, fresh, named, calls, history>>

(* A pass in which somebody was dispatched and somebody was not is followed *)
(* by another.                                                              *)
EndOfPass ==
    /\ Idle /\ pass.fv = Len(fvs) + 1
    /\ pass' = IF pass.needing /\ pass.again THEN NewPass ELSE [NewPass EXCEPT !.fv = 0]
    /\ UNCHANGED <<buffers, count, registered, installed, fvs, cache, fresh, named, calls, history>>

(* The next file, if it was not dispatched, and DepexSatisfied: an image is *)
(* opened.                                                                  *)
Undispatched(type) ==
    /\ Idle /\ pass.fv \in DOMAIN fvs /\ NextFile # 0
    /\ NextFile \notin Entry.states
    /\ VolumeOf(Entry.fv).files[NextFile].type = type

DispatchImage ==
    /\ Undispatched("volume image")
    /\ \E r \in {Search(Entry.fv, NextFile, "depex", 0)} :
         /\ Searched(r)
         /\ IF Ready(Entry.fv, r)
              THEN pass' = At(NextFile) /\ calls' = <<Frame("open", Entry.fv, NextFile)>>
              ELSE pass' = [At(NextFile) EXCEPT !.needing = TRUE] /\ UNCHANGED calls
    /\ UNCHANGED <<buffers, count, registered, installed, fvs, named, history>>

(* A PEIM is loaded and entered; a PEIM whose image cannot be read is       *)
(* passed over and no flag is set.                                          *)
DispatchPeim ==
    /\ Undispatched("peim")
    /\ \E d \in {Search(Entry.fv, NextFile, "depex", 0)} :
         IF ~ Ready(Entry.fv, d)
           THEN /\ Searched(d) /\ pass' = [At(NextFile) EXCEPT !.needing = TRUE]
                /\ UNCHANGED <<fvs, calls>>
           ELSE \E r \in {FindSection(VolumeOf(Entry.fv), NextFile, Entry.fv.at, "pe32", 0,
                                      d.cache, d.fresh, installed)} :
                  /\ Searched(r)
                  /\ IF r.found = NotFound
                       THEN pass' = At(NextFile) /\ UNCHANGED <<fvs, calls>>
                     ELSE IF Violation(r.auth \cup fvs[FileHandleToVolume(Entry.fv)].auth)
                       THEN /\ pass' = [At(NextFile) EXCEPT !.needing = TRUE]
                            /\ UNCHANGED <<fvs, calls>>
                     ELSE /\ fvs' = [fvs EXCEPT ![pass.fv].states = @ \cup {NextFile}]
                          /\ calls' = <<Frame("peim", Entry.fv, NextFile)>>
                          /\ pass' = [At(NextFile) EXCEPT !.again = TRUE]
    /\ UNCHANGED <<buffers, count, registered, installed, named, history>>

SkipDispatched ==
    /\ Idle /\ pass.fv \in DOMAIN fvs /\ NextFile # 0
    /\ NextFile \in Entry.states
    /\ pass' = At(NextFile)
    /\ UNCHANGED <<buffers, count, registered, installed, fvs, cache, fresh, named, calls, history>>

(* What a PEIM may do: report volumes, and at last install a PPI, for which *)
(* ProcessNotify goes through the notifications registered by now.          *)
PeimReturns ==
    /\ In("peim") /\ calls' = Return
    /\ UNCHANGED <<buffers, count, registered, installed, fvs, cache, fresh, named, pass, history>>

PublishFv(v) ==
    /\ In("peim") /\ Header(0, <<v>>) \notin reported
    /\ VolumeReported(Header(0, <<v>>), Reports[v], TRUE, calls)
    /\ UNCHANGED <<installed, cache, fresh, named, pass>>

InstallPpi(p) ==
    /\ In("peim") /\ p \notin installed
    /\ installed' = installed \cup {p}
    /\ calls' = IF registered = <<>> THEN Return
                ELSE <<[Top EXCEPT !.at = "notify", !.ppi = p, !.index = 1,
                                   !.stop = Len(registered)]>>
    /\ UNCHANGED <<buffers, count, registered, fvs, cache, fresh, named, pass, history>>

NextNotify ==
    calls' = IF Top.index = Top.stop THEN Return
             ELSE [Goto("notify") EXCEPT ![Len(calls)].index = @ + 1]

(* The GUID is read where the descriptor points to at this moment. *)
ProcessNotify ==
    /\ In("notify")
    /\ IF GuidOf(registered[Top.index]) = Top.ppi THEN calls' = Goto("callback") ELSE NextNotify
    /\ UNCHANGED <<buffers, count, registered, installed, fvs, cache, fresh, named, pass, history>>

(* ThirdPartyFvPpiNotifyCallback: each turn takes one volume out, also one  *)
(* that ProcessVolume refuses, and scans it if it is new.                   *)
Matching == Matches(GuidOf(registered[Top.index]))

FetchVolume ==
    /\ In("callback") /\ Matching # {}
    /\ LET e == UnknownFvInfo[First(Matching)]
       IN  /\ TakeOut(First(Matching))
           /\ displaced' = displaced \cup Displaced(First(Matching), Top.ppi)
           /\ IF Succeeds(Top.ppi, e.fv) /\ ~ Known(e.fv)
                THEN /\ fvs' = Append(fvs, NewEntry(e.fv, e.auth))
                     /\ calls' = Append(calls, Frame("scan", e.fv, 0))
                ELSE UNCHANGED <<fvs, calls>>
    /\ UNCHANGED <<registered, installed, cache, fresh, named, pass, reported>>

CallbackReturns ==
    /\ In("callback") /\ Matching = {}
    /\ NextNotify
    /\ UNCHANGED <<buffers, count, registered, installed, fvs, cache, fresh, named, pass, history>>

Core ==
    \/ Scan \/ OpenImage \/ FindImage \/ ReportAgain \/ BuildHobs
    \/ NextVolume \/ EndOfPass \/ DispatchImage \/ DispatchPeim \/ SkipDispatched
    \/ ProcessNotify \/ FetchVolume \/ CallbackReturns

Peim ==
    \/ PeimReturns
    \/ \E v \in DOMAIN Reports : PublishFv(v)
    \/ \E p \in Installs : InstallPpi(p)

Next == Core \/ Peim

Spec == Init /\ [][Next]_vars

-----------------------------------------------------------------------------
(* Properties *)

Entered(fv) == \E k \in DOMAIN fvs : fvs[k].fv = fv
Usable(fv)  == Last(fv.path) \notin Corrupt /\ FormatOf(fv) \in installed

(* A volume that was reported is in Fv[] once the PPI of its format is      *)
(* there and the calls are over, whichever came first and however often the *)
(* array of those that wait was moved and closed up; only the volumes that  *)
(* FindUnknownFormatFvInfo copied down among volumes of another format, and *)
(* those a descriptor copied over handed to the PPI of another format, may  *)
(* be lost: the notification registered for them is not theirs any more.    *)
ProcessedLater ==
    Idle => \A fv \in reported \ displaced : Usable(fv) => Entered(fv)

Types == {"image", "depex", "pe32"}
Expected(v, own, file, type, k) ==
    LET all == Reachable(type, v.files[file].sections, v.ffs3, installed)
    IN  IF k < Len(all) THEN <<all[k + 1].id, all[k + 1].auth \cup own>> ELSE <<"none", {}>>

(* Whoever asks for a section gets the one he would get without a cache:    *)
(* the same instance, wherever it is nested, with the status of what it was *)
(* extracted from and of the volume that it lies in, not of one around it.  *)
SearchIsExact ==
    \A e \in Elements(fvs) : \A file \in DOMAIN VolumeOf(e.fv).files, type \in Types, k \in 0 .. 2 :
        LET r == Search(e.fv, file, type, k)
        IN  <<r.found[2], IF r.found = NotFound THEN {} ELSE r.auth>>
              = Expected(VolumeOf(e.fv), e.auth, file, type, k)

Handles(v) == {fv \in reported : Last(fv.path) = v}
ImageSections(v, file) == Reachable("image", v.files[file].sections, v.ffs3, installed)
VolumesIn(v, file) == {SectionOf[s.id].what : s \in Elements(ImageSections(v, file))}
Openable(e, file) ==
    /\ FindImageFile(VolumeOf(e.fv), file - 1) = file
    /\ ImageSections(VolumeOf(e.fv), file) # <<>>
    /\ ~ Violation(ImageSections(VolumeOf(e.fv), file)[1].auth \cup e.auth)
    /\ Ready(e.fv, Search(e.fv, file, "depex", 0))

(* When the dispatcher is done, every image file it could open was opened,  *)
(* whatever order the PPIs came in, and each of its images once: the volume *)
(* in it is known or waits by one address.  (Not all images of a file are   *)
(* opened: those whose encapsulation could not be read when the first was   *)
(* are never looked for again.)                                             *)
ImagesOpened ==
    Finished => \A e \in Elements(fvs) : \A file \in DOMAIN VolumeOf(e.fv).files :
        /\ Openable(e, file) => \E v \in VolumesIn(VolumeOf(e.fv), file) : Handles(v) # {}
        /\ \A v \in VolumesIn(VolumeOf(e.fv), file) : Cardinality(Handles(v)) <= 1

RECURSIVE Holds(_), Postfix(_)
Holds(x) ==
    CASE x.op = "PUSH" -> x.ppi \in installed
      [] x.op = "AND"  -> Holds(x.left) /\ Holds(x.right)
      [] x.op = "OR"   -> Holds(x.left) \/ Holds(x.right)
      [] x.op = "NOT"  -> ~ Holds(x.left)
      [] x.op = "TRUE" -> TRUE

Postfix(x) ==
    CASE x.op = "PUSH" -> <<Push(x.ppi)>>
      [] x.op \in {"AND", "OR"} -> Postfix(x.left) \o Postfix(x.right) \o <<Op(x.op)>>
      [] x.op = "NOT"  -> Append(Postfix(x.left), Op("NOT"))
      [] x.op = "TRUE" -> <<Op("TRUE")>>

(* The evaluation on the stack agrees with the expression it was compiled   *)
(* from, for every expression and whatever is installed.                    *)
ReadinessIsExact ==
    \A x \in Expressions :
        PeimDispatchReadiness(Append(Postfix(x), Op("END")), installed) = Holds(x)
=============================================================================
