------------------------ MODULE PeiDispatcherProofs ------------------------
(***************************************************************************)
(* Theorems about the PEI dispatcher: the types of its state, that a file  *)
(* named in an Apriori file never waits for its dependency expression, and *)
(* that no file is left behind that could be dispatched.                   *)
(***************************************************************************)
EXTENDS PeiDispatcher, FiniteSetTheorems, FunctionTheorems, SequenceTheorems,
        TLAPS

-----------------------------------------------------------------------------
(* The invariants.                                                         *)

\* Where ProcessDispatchNotifyList and a shadow entry may return to.
Return == {"start", "switch2", "shadowed", "delayed", "next"}

TypeOK ==
  /\ fvs \in Seq(Fv) /\ scanned \subseteq Fv /\ hobs \subseteq File
  /\ opening \in Seq({f \in File : IsImage(f)})
  /\ peimState \in [File -> Nat]
  /\ ppis \subseteq Ppi /\ notified \subseteq Ppi
  /\ delayed \in [Delayed -> {"free", "refused", "waiting", "early", "gone"}]
  /\ ran \subseteq Delayed
  /\ currentFv \in Nat /\ currentPeim \in Nat /\ saved \in Nat \X Nat
  /\ aprioriCount \in Nat
  /\ needingDispatch \in BOOLEAN /\ dispatchOnThisPass \in BOOLEAN
  /\ reenter \in BOOLEAN
  /\ switchStackSignal \in BOOLEAN /\ memoryInstalled \in BOOLEAN
  /\ pc \in Place /\ after \in Return
  /\ running \in Code \cup {NoCode} /\ (pc = "code" => running \in Code)

\* The place the main loop or the shadow loop is at while notifications and
\* code it called run.
Where ==
  IF pc = "code" /\ running[1] = "peim" THEN "switch1"
  ELSE IF pc = "code" /\ running[1] = "delayed" THEN "delayed"
  ELSE IF pc \in {"code", "notify"} THEN after ELSE pc

\* The position of the main loop: the shadow loop keeps it aside.
Base == IF Where \in {"shadow", "shadowed"} THEN saved
        ELSE <<currentFv, currentPeim>>

\* The main loop is through with the current file, or it is in its volume.
Inside == {"switch1", "switch2", "inline", "delayed", "next"}
InVolume == Inside \cup {"peim"}

\* The main loop has not left the volumes it knows, those before its position
\* are scanned, and the file it is through with is one of the volume.
PositionOK ==
  /\ Base[1] <= Len(fvs)
  /\ (Where \in InVolume \/ Base[2] # 0) =>
        Base[1] < Len(fvs) /\ fvs[Base[1] + 1] \in scanned
  /\ Where \in Inside => Base[2] < Len(Order(fvs[Base[1] + 1]))
  /\ \A i \in 1 .. Len(fvs) : i <= Base[1] => fvs[i] \in scanned
  /\ pc = "end" => opening = <<>> /\ \A i \in 1 .. Len(fvs) : fvs[i] \in scanned

\* The first n files of v that are named in its Apriori file have been
\* dispatched.
DoneUpTo(v, n) ==
  \A i \in 1 .. Len(AprioriPart(v)) :
    i <= n => peimState[AprioriPart(v)[i]] # NOT_DISPATCHED

AprioriDone(v) == DoneUpTo(v, Len(AprioriPart(v)))

\* A volume that is scanned is the one at the position, and its Apriori files
\* up to there are dispatched, or all its Apriori files are.
AprioriOK ==
  \A v \in scanned :
    \/ AprioriDone(v)
    \/ /\ pc # "end"
       /\ Base[1] < Len(fvs) /\ v = fvs[Base[1] + 1]
       /\ Len(AprioriPart(v)) <= aprioriCount
       /\ DoneUpTo(v, IF Where \in Inside THEN Base[2] + 1 ELSE Base[2])

\* SEC's PPIs stay.
SecStays == SecPpis \subseteq ppis

AInv == TypeOK /\ PositionOK /\ SecStays /\ AprioriOK

\* What the files named in Apriori files need to be read and verified, SEC
\* has installed.
AprioriReady ==
  \A v \in Fv : \A f \in Elements(AprioriPart(v)) :
    NeedsToLoad[f] \cup NeedsToVerify[f] \subseteq SecPpis
-----------------------------------------------------------------------------
(* Lists.                                                                  *)

\* The positions in a set of positions, counted from 0.
Rank(S, i) == Cardinality({j \in S : j < i})

\* The ranks are exactly the numbers below the size of the set.
LEMMA RankTaken ==
  ASSUME NEW n \in Nat, NEW S \in SUBSET (1 .. n)
  PROVE  /\ IsFiniteSet(S) /\ Cardinality(S) \in Nat
         /\ \A i \in S : Rank(S, i) \in 0 .. Cardinality(S) - 1
         /\ \A i, k \in S : Rank(S, i) = Rank(S, k) => i = k
         /\ \A r \in 0 .. Cardinality(S) - 1 : \E i \in S : Rank(S, i) = r
PROOF
<1> DEFINE below(i) == {j \in S : j < i}
           m == Cardinality(S)
<1>1. IsFiniteSet(S) /\ m \in Nat
  <2>1. IsFiniteSet(1 .. n)
    BY FS_Interval
  <2>2. IsFiniteSet(S)
    BY <2>1, FS_Subset
  <2> QED
    BY <2>2, FS_CardinalityType
<1>2. \A i : IsFiniteSet(below(i)) /\ Cardinality(below(i)) \in Nat
  BY <1>1, FS_Subset, FS_CardinalityType
<1>3. ASSUME NEW i \in S, NEW T \in SUBSET S, i \in T, below(i) \subseteq T
      PROVE  Cardinality(below(i)) < Cardinality(T)
  <2>1. IsFiniteSet(T)
    BY <1>1, FS_Subset
  <2>2. i \notin below(i) /\ Cardinality(below(i)) <= Cardinality(T)
        /\ Cardinality(T) # Cardinality(below(i))
    BY <1>3, <2>1, FS_Subset
  <2> QED
    BY <1>2, <2>1, <2>2, FS_CardinalityType
<1>4. \A i \in S : Cardinality(below(i)) < m
  BY <1>3
<1>5. ASSUME NEW i \in S, NEW k \in S, i < k
      PROVE  Cardinality(below(i)) < Cardinality(below(k))
  <2>1. i \in below(k) /\ below(i) \subseteq below(k) /\ below(k) \in SUBSET S
    <3>1. \A j \in S : j < i => j < k
      BY <1>5
    <3> QED
      BY <1>5, <3>1
  <2> QED
    BY <1>3, <2>1
<1>6. \A i, k \in S : Cardinality(below(i)) = Cardinality(below(k)) => i = k
  <2> SUFFICES ASSUME NEW i \in S, NEW k \in S, i < k
               PROVE  Cardinality(below(i)) # Cardinality(below(k))
    OBVIOUS
  <2> QED
    BY <1>2, <1>5
<1>7. \A i \in S : Cardinality(below(i)) \in 0 .. m - 1
  BY <1>1, <1>2, <1>4
<1> HIDE DEF below, m
<1> DEFINE f == [i \in S |-> Cardinality(below(i))]
<1>8. f \in Injection(S, 0 .. m - 1)
  BY <1>6, <1>7 DEF Injection, IsInjective
<1>9. IsFiniteSet(0 .. m - 1) /\ Cardinality(0 .. m - 1) = m
  BY <1>1, FS_Interval
<1>10. f \in Surjection(S, 0 .. m - 1)
  BY <1>1, <1>8, <1>9, FS_Injection DEF m
<1>11. \A r \in 0 .. m - 1 : \E i \in S : f[i] = r
  BY <1>10 DEF Surjection
<1> QED
  BY <1>1, <1>6, <1>7, <1>11 DEF Rank, below, m

\* Select gives a list of what is at the positions, and nothing else.
LEMMA SelectList ==
  ASSUME NEW T, NEW s \in Seq(T), NEW K \in SUBSET DOMAIN s
  PROVE  /\ Select(s, K) \in Seq(T)
         /\ Elements(Select(s, K)) = {s[k] : k \in K}
PROOF
<1> DEFINE at(i) == CHOOSE k \in K : Rank(K, k) = i - 1
           n == Cardinality(K)
<1>1. Len(s) \in Nat /\ DOMAIN s = 1 .. Len(s)
  OBVIOUS
<1>2. /\ n \in Nat
      /\ \A k \in K : Rank(K, k) \in 0 .. n - 1
      /\ \A i, k \in K : Rank(K, i) = Rank(K, k) => i = k
      /\ \A r \in 0 .. n - 1 : \E k \in K : Rank(K, k) = r
  BY <1>1, RankTaken
<1>3. \A i \in 1 .. n : at(i) \in K /\ Rank(K, at(i)) = i - 1
  <2> SUFFICES ASSUME NEW i \in 1 .. n
               PROVE  at(i) \in K /\ Rank(K, at(i)) = i - 1
    OBVIOUS
  <2>1. \E k \in K : Rank(K, k) = i - 1
    BY <1>2
  <2> QED
    BY <2>1
<1>4. Select(s, K) = [i \in 1 .. n |-> s[at(i)]]
  BY DEF Select, Rank
<1>5. \A k \in K : s[k] \in T
  BY <1>1
<1>6. Select(s, K) \in Seq(T)
  <2>1. \A i \in 1 .. n : s[at(i)] \in T
    BY <1>3, <1>5
  <2> HIDE DEF at, n
  <2> QED
    BY <1>2, <1>4, <2>1
<1>7. ASSUME NEW k \in K
      PROVE  \E i \in 1 .. n : at(i) = k
  <2> DEFINE i == Rank(K, k) + 1
  <2>1. i \in 1 .. n /\ i - 1 = Rank(K, k)
    BY <1>2
  <2>2. at(i) \in K /\ Rank(K, at(i)) = Rank(K, k)
    BY <1>3, <2>1
  <2>3. at(i) = k
    BY <1>2, <2>2
  <2> QED
    BY <2>1, <2>3
<1>8. \A k \in K : \E i \in 1 .. n : Select(s, K)[i] = s[k]
  BY <1>4, <1>7
<1>9. DOMAIN Select(s, K) = 1 .. n /\ \A i \in 1 .. n : Select(s, K)[i] = s[at(i)]
  BY <1>4
<1> HIDE DEF at, n
<1> QED
  <2>1. \A x \in Elements(Select(s, K)) : \E k \in K : x = s[k]
    BY <1>3, <1>9 DEF Elements
  <2>2. \A k \in K : s[k] \in Elements(Select(s, K))
    BY <1>8, <1>9 DEF Elements
  <2> QED
    BY <1>6, <2>1, <2>2

\* Two lists joined have the elements of both.
LEMMA ElementsOfJoin ==
  ASSUME NEW T, NEW s \in Seq(T), NEW t \in Seq(T)
  PROVE  Elements(s \o t) = Elements(s) \cup Elements(t)
PROOF
<1>1. DOMAIN (s \o t) = 1 .. Len(s) + Len(t)
  OBVIOUS
<1>2. \A i \in 1 .. Len(s) : (s \o t)[i] = s[i]
  OBVIOUS
<1>3. \A i \in 1 .. Len(t) : (s \o t)[Len(s) + i] = t[i]
  OBVIOUS
<1>4. ASSUME NEW i \in DOMAIN (s \o t)
      PROVE  (s \o t)[i] \in Elements(s) \cup Elements(t)
  <2>1. CASE i <= Len(s)
    BY <1>1, <1>2, <2>1 DEF Elements
  <2>2. CASE i > Len(s)
    <3>1. i - Len(s) \in 1 .. Len(t) /\ i = Len(s) + (i - Len(s))
      BY <1>1, <2>2
    <3> QED
      BY <1>3, <3>1 DEF Elements
  <2> QED
    BY <1>1, <2>1, <2>2
<1>5. ASSUME NEW i \in 1 .. Len(s)
      PROVE  s[i] \in Elements(s \o t)
  BY <1>1, <1>2 DEF Elements
<1>6. ASSUME NEW i \in 1 .. Len(t)
      PROVE  t[i] \in Elements(s \o t)
  <2>1. Len(s) + i \in DOMAIN (s \o t)
    BY <1>1
  <2> QED
    BY <1>3, <2>1 DEF Elements
<1>7. \A x \in Elements(s \o t) : x \in Elements(s) \cup Elements(t)
  BY <1>4 DEF Elements
<1>8. \A x \in Elements(s) : x \in Elements(s \o t)
  BY <1>5 DEF Elements
<1>9. \A x \in Elements(t) : x \in Elements(s \o t)
  BY <1>6 DEF Elements
<1> QED
  BY <1>7, <1>8, <1>9

\* What AprioriPart and Order list are files, the Apriori files first, and
\* every file of the volume is among them.
LEMMA OrderLists ==
  ASSUME NEW v \in Fv
  PROVE  /\ AprioriPart(v) \in Seq(File)
         /\ Order(v) \in Seq(File)
         /\ Len(AprioriPart(v)) <= Len(Order(v))
         /\ \A i \in 1 .. Len(AprioriPart(v)) : Order(v)[i] = AprioriPart(v)[i]
         /\ Elements(Order(v)) = Elements(FilesOf[v])
PROOF
<1> DEFINE named == AprioriFile[v]
           stored == FilesOf[v]
           K == {i \in DOMAIN named : named[i] \in Elements(stored)}
           J == {i \in DOMAIN stored : stored[i] \notin Elements(named)}
           first == Select(named, K)
           others == Select(stored, J)
<1>1. named \in Seq(File) /\ stored \in Seq(File)
  BY PlatformAssumption
<1>2. first \in Seq(File) /\ Elements(first) = {named[k] : k \in K}
  BY <1>1, SelectList
<1>3. others \in Seq(File) /\ Elements(others) = {stored[k] : k \in J}
  BY <1>1, SelectList
<1>4. AprioriPart(v) = first /\ Order(v) = first \o others
  BY DEF AprioriPart, Order
<1>5. Elements(first) \cup Elements(others) = Elements(stored)
  <2>1. \A x \in Elements(first) : x \in Elements(stored)
    BY <1>2
  <2>2. \A x \in Elements(others) : x \in Elements(stored)
    BY <1>3 DEF Elements
  <2>3. ASSUME NEW i \in DOMAIN stored, stored[i] \in Elements(named)
        PROVE  stored[i] \in Elements(first)
    <3>1. PICK k \in DOMAIN named : named[k] = stored[i]
      BY <2>3 DEF Elements
    <3>2. k \in K
      BY <3>1 DEF Elements
    <3> QED
      BY <1>2, <3>1, <3>2
  <2>4. ASSUME NEW i \in DOMAIN stored, stored[i] \notin Elements(named)
        PROVE  stored[i] \in Elements(others)
    BY <1>3, <2>4
  <2>5. \A x \in Elements(stored) : x \in Elements(first) \cup Elements(others)
    BY <2>3, <2>4 DEF Elements
  <2> QED
    BY <2>1, <2>2, <2>5
<1> HIDE DEF first, others, named, stored
<1>6. /\ first \o others \in Seq(File) /\ Len(first) <= Len(first \o others)
      /\ \A i \in 1 .. Len(first) : (first \o others)[i] = first[i]
  BY <1>2, <1>3
<1>7. Elements(first \o others) = Elements(first) \cup Elements(others)
  BY <1>2, <1>3, ElementsOfJoin
<1> QED
  BY <1>2, <1>4, <1>5, <1>6, <1>7 DEF stored

\* The images of a volume are image files.
LEMMA ImagesList ==
  ASSUME NEW v \in Fv
  PROVE  Images(v) \in Seq({f \in File : IsImage(f)})
PROOF
<1> DEFINE stored == FilesOf[v]
           K == {i \in DOMAIN stored : IsImage(stored[i])}
<1>1. stored \in Seq(File)
  BY PlatformAssumption
<1>2. Select(stored, K) \in Seq(File)
      /\ Elements(Select(stored, K)) = {stored[k] : k \in K}
  BY <1>1, SelectList
<1>3. Images(v) = Select(stored, K)
  BY DEF Images
<1>4. \A f \in Elements(Images(v)) : IsImage(f)
  BY <1>2, <1>3
<1>5. Images(v) \in Seq(File)
  BY <1>2, <1>3
<1>6. \A i \in 1 .. Len(Images(v)) : Images(v)[i] \in {f \in File : IsImage(f)}
  BY <1>4, <1>5 DEF Elements
<1> QED
  BY <1>5, <1>6
-----------------------------------------------------------------------------
(* The types.                                                              *)

LEMMA InitType == Init => TypeOK
PROOF
<1>1. [f \in File |-> NOT_DISPATCHED] \in [File -> Nat]
  BY DEF NOT_DISPATCHED
<1>2. <<BootFv>> \in Seq(Fv) /\ <<>> \in Seq({f \in File : IsImage(f)})
  BY PlatformAssumption
<1> QED
  <2> SUFFICES ASSUME Init
               PROVE  TypeOK
    OBVIOUS
  <2>1. fvs \in Seq(Fv) /\ opening \in Seq({f \in File : IsImage(f)})
    BY <1>2 DEF Init
  <2>2. peimState \in [File -> Nat]
    BY <1>1 DEF Init
  <2> QED
    BY <2>1, <2>2, PlatformAssumption DEF Init, TypeOK, Place, Return

\* The file the main loop or the shadow loop looks at.
LEMMA CurrentFileType ==
  ASSUME TypeOK, currentPeim < PeimCount(CurrentVolume)
  PROVE  /\ CurrentVolume \in scanned /\ CurrentVolume \in Fv
         /\ CurrentFile \in File
         /\ currentPeim + 1 \in 1 .. Len(Order(CurrentVolume))
PROOF
<1>1. currentPeim \in Nat
  BY DEF TypeOK
<1>2. CurrentVolume \in scanned
  BY <1>1 DEF PeimCount
<1>3. CurrentVolume \in Fv
  BY <1>2 DEF TypeOK
<1>4. Order(CurrentVolume) \in Seq(File)
  BY <1>3, OrderLists
<1>5. currentPeim < Len(Order(CurrentVolume))
  BY <1>2 DEF PeimCount
<1>6. currentPeim + 1 \in 1 .. Len(Order(CurrentVolume))
  BY <1>1, <1>4, <1>5
<1> QED
  BY <1>2, <1>3, <1>4, <1>6 DEF CurrentFile

\* The file the main loop is through with.
LEMMA InsideFileType ==
  ASSUME TypeOK, PositionOK, Where \in Inside, Base = <<currentFv, currentPeim>>
  PROVE  /\ CurrentVolume \in scanned /\ CurrentVolume \in Fv
         /\ CurrentFile \in File
         /\ currentPeim + 1 \in 1 .. Len(Order(CurrentVolume))
PROOF
<1>1. currentPeim \in Nat /\ scanned \subseteq Fv
  BY DEF TypeOK
<1>2. Base[1] = currentFv /\ Base[2] = currentPeim
  OBVIOUS
<1>3. CurrentVolume \in scanned /\ currentPeim < Len(Order(CurrentVolume))
  BY <1>2 DEF PositionOK, InVolume, CurrentVolume
<1>4. Order(CurrentVolume) \in Seq(File)
  BY <1>1, <1>3, OrderLists
<1>5. currentPeim + 1 \in 1 .. Len(Order(CurrentVolume))
  BY <1>1, <1>3, <1>4
<1> QED
  BY <1>1, <1>3, <1>4, <1>5 DEF CurrentFile

\* Register keeps the volumes known and the images to look at.
LEMMA RegisterType ==
  ASSUME TypeOK, NEW v \in Fv,
         NEW rest \in Seq({f \in File : IsImage(f)}), Register(v, rest)
  PROVE  /\ fvs' \in Seq(Fv) /\ opening' \in Seq({f \in File : IsImage(f)})
         /\ Len(fvs) <= Len(fvs') /\ \A i \in 1 .. Len(fvs) : fvs'[i] = fvs[i]
PROOF
<1>1. fvs \in Seq(Fv)
  BY DEF TypeOK
<1>2. CASE v \in Elements(fvs)
  BY <1>1, <1>2 DEF Register
<1>3. CASE v \notin Elements(fvs)
  <2>1. Images(v) \in Seq({f \in File : IsImage(f)})
    BY ImagesList
  <2>2. fvs' = Append(fvs, v) /\ opening' = Images(v) \o rest
    BY <1>3 DEF Register
  <2> QED
    BY <1>1, <2>1, <2>2
<1> QED
  BY <1>2, <1>3

LEMMA ProcessFvFileType ==
  ASSUME TypeOK, NEW f \in File, IsImage(f),
         NEW rest \in Seq({g \in File : IsImage(g)}), ProcessFvFile(f, rest)
  PROVE  /\ fvs' \in Seq(Fv) /\ hobs' \subseteq File
         /\ opening' \in Seq({g \in File : IsImage(g)})
         /\ Len(fvs) <= Len(fvs') /\ \A i \in 1 .. Len(fvs) : fvs'[i] = fvs[i]
PROOF
<1>1. fvs \in Seq(Fv) /\ hobs \subseteq File
  BY DEF TypeOK
<1>2. CASE f \in hobs \/ ~Extractable(f)
  BY <1>1, <1>2 DEF ProcessFvFile
<1>3. CASE ~(f \in hobs \/ ~Extractable(f))
  <2>1. Contains[f] \in Fv
    BY PlatformAssumption DEF IsImage
  <2>2. Register(Contains[f], rest) /\ hobs' = hobs \cup {f}
    BY <1>3 DEF ProcessFvFile
  <2> QED
    BY <1>1, <2>1, <2>2, RegisterType
<1> QED
  BY <1>2, <1>3

\* Whoever opens an image adds to the volumes known and moves nothing.
LEMMA OpenImageType ==
  ASSUME TypeOK, OpenImage
  PROVE  /\ fvs' \in Seq(Fv) /\ hobs' \subseteq File
         /\ opening' \in Seq({g \in File : IsImage(g)})
         /\ Len(fvs) <= Len(fvs') /\ \A i \in 1 .. Len(fvs) : fvs'[i] = fvs[i]
PROOF
<1> DEFINE S == {g \in File : IsImage(g)}
<1>1. opening \in Seq(S) /\ opening # <<>> /\ fvs \in Seq(Fv) /\ hobs \subseteq File
  BY DEF TypeOK, OpenImage
<1>2. Head(opening) \in S /\ Tail(opening) \in Seq(S)
  BY <1>1
<1>3. Head(opening) \in File /\ IsImage(Head(opening))
  BY <1>2
<1>4. CASE ppis \in Depex[Head(opening)]
  <2>1. ProcessFvFile(Head(opening), Tail(opening))
    BY <1>4 DEF OpenImage
  <2> QED
    BY <1>2, <1>3, <2>1, ProcessFvFileType
<1>5. CASE ppis \notin Depex[Head(opening)]
  <2>1. opening' = Tail(opening) /\ UNCHANGED <<fvs, hobs>>
    BY <1>5 DEF OpenImage
  <2> QED
    BY <1>1, <1>2, <2>1
<1> QED
  BY <1>4, <1>5

\* Every step keeps the types.
LEMMA TypeStep == TypeOK /\ PositionOK /\ [Next]_vars => TypeOK'
PROOF
<1> SUFFICES ASSUME TypeOK, PositionOK, [Next]_vars
             PROVE  TypeOK'
  OBVIOUS
<1> USE DEF TypeOK, volumes, database, functions, position, flags, memory, history
<1>1. CASE OpenImage
  BY <1>1, OpenImageType DEF OpenImage
<1>2. CASE \E p \in Ppi : InstallPpi(p)
  BY <1>2 DEF InstallPpi
<1>3. CASE \E v \in Fv : PublishFv(v)
  <2>1. PICK v \in Fv : PublishFv(v)
    BY <1>3
  <2>2. <<>> \in Seq({f \in File : IsImage(f)})
    OBVIOUS
  <2>3. Register(v, <<>>)
    BY <2>1 DEF PublishFv
  <2>4. fvs' \in Seq(Fv) /\ opening' \in Seq({f \in File : IsImage(f)})
    BY <2>2, <2>3, RegisterType
  <2> QED
    BY <2>1, <2>4 DEF PublishFv
<1>4. CASE PeiInstallPeiMemory
  BY <1>4 DEF PeiInstallPeiMemory
<1>5. CASE \E f \in File : PeiRegisterForShadow(f)
  BY <1>5 DEF PeiRegisterForShadow, REGISTER_FOR_SHADOW
<1>6. CASE \E d \in Delayed : PeiDelayedDispatchRegister(d)
  BY <1>6 DEF PeiDelayedDispatchRegister
<1>7. CASE Start
  BY <1>7 DEF Start, GoTo, Place
<1>8. CASE ShadowPass
  BY <1>8 DEF ShadowPass, GoTo, Place
<1>9. CASE ShadowPeim
  <2>1. CurrentFile \in File
    BY <1>9, CurrentFileType DEF ShadowPeim, InShadowLoop
  <2>2. <<"shadow", CurrentFile>> \in Code
    BY <2>1 DEF Code
  <2>3. peimState' \in [File -> Nat]
    <3> HIDE DEF TypeOK
    <3>1. peimState \in [File -> Nat]
      BY DEF TypeOK
    <3>2. peimState' = peimState
            \/ peimState' = [peimState EXCEPT ![CurrentFile] = DONE]
      BY <1>9 DEF ShadowPeim
    <3> QED
      BY <3>1, <3>2 DEF DONE
  <2>4. pc' \in Place /\ after' \in Return /\ running' \in Code \cup {NoCode}
        /\ (pc' = "code" => running' \in Code)
    BY <1>9, <2>2 DEF ShadowPeim, ProcessDispatchNotifyList, Call, Place, Return
  <2>5. UNCHANGED <<volumes, database, functions, position, flags, memory>>
    BY <1>9 DEF ShadowPeim
  <2> QED
    BY <2>3, <2>4, <2>5
<1>10. CASE ShadowNext
  BY <1>10 DEF ShadowNext, GoTo, Place
<1>11. CASE ShadowNextFv
  BY <1>11 DEF ShadowNextFv, At
<1>12. CASE ShadowEnd
  BY <1>12 DEF ShadowEnd, GoTo, Place
<1>13. CASE PassStart
  BY <1>13 DEF PassStart, GoTo, Place
<1>14. CASE FvStart
  <2>1. CurrentVolume \in Fv
    BY <1>14 DEF FvStart, CurrentVolume
  <2>2. Len(AprioriPart(CurrentVolume)) \in Nat
    BY <2>1, OrderLists
  <2>3. scanned' \subseteq Fv /\ aprioriCount' \in Nat
    BY <1>14, <2>1, <2>2 DEF FvStart, DiscoverPeimsAndOrderWithApriori
  <2> QED
    BY <1>14, <2>3 DEF FvStart, GoTo, Place
<1>15. CASE PeimPassed
  BY <1>15 DEF PeimPassed, GoTo, Place
<1>16. CASE DepexFalse
  BY <1>16 DEF DepexFalse, GoTo, Place
<1>17. CASE DispatchImage
  <2>1. CurrentFile \in File /\ IsImage(CurrentFile)
    BY <1>17, CurrentFileType DEF DispatchImage, Undispatched, InPeimLoop
  <2>2. ProcessFvFile(CurrentFile, <<>>) /\ <<>> \in Seq({f \in File : IsImage(f)})
    BY <1>17 DEF DispatchImage
  <2>3. /\ fvs' \in Seq(Fv) /\ hobs' \subseteq File
        /\ opening' \in Seq({f \in File : IsImage(f)})
    BY <2>1, <2>2, ProcessFvFileType
  <2>4. peimState' \in [File -> Nat]
    <3>1. peimState' = peimState
            \/ peimState' = [peimState EXCEPT ![CurrentFile] = DISPATCHED]
      BY <1>17 DEF DispatchImage
    <3> HIDE DEF TypeOK
    <3>2. peimState \in [File -> Nat]
      BY DEF TypeOK
    <3> QED
      BY <3>1, <3>2 DEF DISPATCHED
  <2>5. needingDispatch' \in BOOLEAN /\ dispatchOnThisPass' \in BOOLEAN
    BY <1>17 DEF DispatchImage
  <2>6. /\ UNCHANGED <<scanned, database, functions, position, reenter, memory,
                       after, running>>
        /\ pc' = "switch1"
    BY <1>17 DEF DispatchImage, GoTo
  <2> QED
    BY <2>3, <2>4, <2>5, <2>6 DEF Place
<1>18. CASE LoadFails
  BY <1>18 DEF LoadFails, GoTo, Place
<1>19. CASE SecurityViolation
  BY <1>19 DEF SecurityViolation, GoTo, Place
<1>20. CASE DispatchPeim
  <2>1. CurrentFile \in File
    BY <1>20, CurrentFileType DEF DispatchPeim, PeimReady, Undispatched, InPeimLoop
  <2>2. <<"peim", CurrentFile>> \in Code
    BY <2>1 DEF Code
  <2> QED
    BY <1>20, <2>2 DEF DispatchPeim, Call, Place, DISPATCHED
<1>21. CASE PeiCheckAndSwitchStack
  BY <1>21, PlatformAssumption
  DEF PeiCheckAndSwitchStack, SwitchStack, ProcessDispatchNotifyList, GoTo,
      Place, Return
<1>22. CASE InlineShadow
  <2>1. CurrentFile \in File
    BY <1>22, InsideFileType DEF InlineShadow, At, Where, Base, Inside
  <2>2. <<"shadow", CurrentFile>> \in Code
    BY <2>1 DEF Code
  <2> QED
    BY <1>22, <2>2 DEF InlineShadow, Call, GoTo, Place, Return
<1>23. CASE PeimNext
  BY <1>23 DEF PeimNext, GoTo, Place
<1>24. CASE FvNext
  BY <1>24 DEF FvNext, GoTo, Place
<1>25. CASE PassEnd
  BY <1>25 DEF PassEnd, GoTo, Place
<1>26. CASE \E p \in Ppi : DispatchNotify(p)
  BY <1>26 DEF DispatchNotify, Call, Code, Place
<1>27. CASE NotifyListReturns
  BY <1>27 DEF NotifyListReturns, GoTo, Place, Return
<1>28. CASE DelayedCycleEnds
  BY <1>28 DEF DelayedCycleEnds, ProcessDispatchNotifyList, GoTo, Place, Return
<1>29. CASE PeimReturns
  BY <1>29 DEF PeimReturns, Returns, GoTo, Place
<1>30. CASE ShadowReturns
  <2>1. peimState' \in [File -> Nat]
    <3>1. peimState' = peimState
            \/ peimState' = [peimState EXCEPT ![CurrentFile] = @ + 1]
      BY <1>30 DEF ShadowReturns
    <3> HIDE DEF TypeOK
    <3>2. peimState \in [File -> Nat]
      BY DEF TypeOK
    <3>3. \A f \in File : peimState[f] + 1 \in Nat
      BY <3>2
    <3> QED
      BY <3>1, <3>2, <3>3
  <2>2. pc' = "notify" /\ after' = after /\ running' = NoCode
    BY <1>30 DEF ShadowReturns, Returns, ProcessDispatchNotifyList
  <2>3. UNCHANGED <<volumes, database, functions, position, flags, memory>>
    BY <1>30 DEF ShadowReturns
  <2> QED
    BY <2>1, <2>2, <2>3 DEF Place
<1>31. CASE NotifyReturns
  BY <1>31 DEF NotifyReturns, Returns, GoTo, Place
<1>32. CASE \E d \in Delayed : DelayedExpires(d)
  BY <1>32 DEF DelayedExpires, Call, Code, Place
<1>33. CASE \E state \in {"waiting", "gone"} : DelayedReturns(state) \/ EarlyReturns(state)
  <2>1. PICK state \in {"waiting", "gone"} : DelayedReturns(state) \/ EarlyReturns(state)
    BY <1>33
  <2>2. CASE DelayedReturns(state)
    BY <2>2 DEF DelayedReturns, Returns, GoTo, Place
  <2>3. CASE EarlyReturns(state)
    BY <2>3 DEF EarlyReturns
  <2> QED
    BY <2>1, <2>2, <2>3
<1>34. CASE UNCHANGED vars
  BY <1>34 DEF vars
<1> QED
  BY <1>1, <1>2, <1>3, <1>4, <1>5, <1>6, <1>7, <1>8, <1>9, <1>10, <1>11, <1>12,
     <1>13, <1>14, <1>15, <1>16, <1>17, <1>18, <1>19, <1>20, <1>21, <1>22, <1>23,
     <1>24, <1>25, <1>26, <1>27, <1>28, <1>29, <1>30, <1>31, <1>32, <1>33, <1>34
  DEF Next, Services, Dispatcher, DelayedWork, DelayedDone, DxeIpl
-----------------------------------------------------------------------------
(* The position of the main loop.                                          *)

\* Volumes are only added, and no file becomes undispatched.
Extended == /\ Len(fvs) <= Len(fvs')
            /\ \A i \in 1 .. Len(fvs) : fvs'[i] = fvs[i]
NothingUndone ==
  \A f \in File : peimState[f] # NOT_DISPATCHED => peimState'[f] # NOT_DISPATCHED

\* A step that does not move the main loop, but may leave the volume it is in
\* until the core is reentered.
Quiet ==
  /\ Base' = Base /\ scanned' = scanned /\ aprioriCount' = aprioriCount
  /\ pc' # "end"
  /\ Where' \in InVolume => Where \in InVolume
  /\ Where' \in Inside => Where \in Inside

\* The services that the code called uses, and the callbacks.
LEMMA ServiceQuiet ==
  ASSUME TypeOK, PositionOK, OpenImage \/ Services
  PROVE  Quiet
PROOF
<1>1. /\ UNCHANGED <<scanned, aprioriCount, currentFv, currentPeim, saved, pc,
                     after, running>>
      /\ pc # "end"
  <2>1. CASE OpenImage
    BY <2>1 DEF OpenImage, PositionOK, position
  <2>2. CASE Services
    BY <2>2
    DEF Services, InstallPpi, PublishFv, PeiInstallPeiMemory,
        PeiRegisterForShadow, PeiDelayedDispatchRegister, May, At, position,
        volumes
  <2> QED
    BY <2>1, <2>2
<1>2. Where' = Where /\ Base' = Base
  BY <1>1 DEF Where, Base
<1> QED
  BY <1>1, <1>2 DEF Quiet

\* The shadow loop and the way into it and out of it.
LEMMA ShadowQuiet ==
  ASSUME TypeOK,
         \/ Start \/ ShadowPass \/ ShadowPeim \/ ShadowNext \/ ShadowNextFv
         \/ ShadowEnd \/ PassStart
  PROVE  Quiet
PROOF
<1> USE DEF At, GoTo, position, volumes, Quiet, Where, Base, InVolume, Inside
<1>1. CASE Start
  BY <1>1 DEF Start
<1>2. CASE ShadowPass
  BY <1>2 DEF ShadowPass, InShadowLoop
<1>3. CASE ShadowPeim
  BY <1>3 DEF ShadowPeim, InShadowLoop, Call, ProcessDispatchNotifyList
<1>4. CASE ShadowNext
  BY <1>4 DEF ShadowNext
<1>5. CASE ShadowNextFv
  BY <1>5 DEF ShadowNextFv
<1>6. CASE ShadowEnd
  <2>1. saved \in Nat \X Nat
    BY DEF TypeOK
  <2> QED
    BY <1>6, <2>1 DEF ShadowEnd
<1>7. CASE PassStart
  BY <1>7 DEF PassStart
<1> QED
  BY <1>1, <1>2, <1>3, <1>4, <1>5, <1>6, <1>7

\* From the first check of the stack to the end of the loop over the PEIMs.
LEMMA InsideQuiet ==
  ASSUME TypeOK,
         \/ PeiCheckAndSwitchStack \/ InlineShadow \/ DelayedCycleEnds
         \/ PeimReturns \/ ShadowReturns \/ NotifyReturns \/ NotifyListReturns
         \/ \E p \in Ppi : DispatchNotify(p)
         \/ \E d \in Delayed : DelayedExpires(d)
         \/ \E state \in {"waiting", "gone"} : DelayedReturns(state) \/ EarlyReturns(state)
  PROVE  Quiet
PROOF
<1> USE DEF At, GoTo, Call, ProcessDispatchNotifyList, Returns, position, volumes,
            Quiet, Where, Base, InVolume, Inside
<1>1. after \in Return
  BY DEF TypeOK
<1>2. CASE PeiCheckAndSwitchStack
  BY <1>2 DEF PeiCheckAndSwitchStack, SwitchStack
<1>3. CASE InlineShadow
  BY <1>3 DEF InlineShadow
<1>4. CASE DelayedCycleEnds
  BY <1>4 DEF DelayedCycleEnds
<1>5. CASE PeimReturns
  BY <1>5 DEF PeimReturns
<1>6. CASE ShadowReturns
  BY <1>1, <1>6 DEF ShadowReturns, Return
<1>7. CASE NotifyReturns
  BY <1>1, <1>7 DEF NotifyReturns, Return
<1>8. CASE NotifyListReturns
  BY <1>1, <1>8 DEF NotifyListReturns, Return
<1>9. CASE \E p \in Ppi : DispatchNotify(p)
  BY <1>1, <1>9 DEF DispatchNotify, Return
<1>10. CASE \E d \in Delayed : DelayedExpires(d)
  BY <1>10 DEF DelayedExpires
<1>11. CASE \E state \in {"waiting", "gone"} : DelayedReturns(state) \/ EarlyReturns(state)
  BY <1>11 DEF DelayedReturns, EarlyReturns
<1> QED
  BY <1>2, <1>3, <1>4, <1>5, <1>6, <1>7, <1>8, <1>9, <1>10, <1>11

\* The steps that look at a file: the main loop is through with it then.
Look == \/ PeimPassed \/ DepexFalse \/ DispatchImage \/ LoadFails
        \/ SecurityViolation \/ DispatchPeim

LEMMA LookMoves ==
  ASSUME TypeOK, Look
  PROVE  /\ Where = "peim" /\ Where' \in Inside /\ pc' # "end"
         /\ Base = <<currentFv, currentPeim>> /\ Base' = Base
         /\ currentPeim < PeimCount(CurrentVolume)
         /\ scanned' = scanned /\ aprioriCount' = aprioriCount
PROOF
<1> USE DEF At, GoTo, Call, position, volumes, Where, Base, Inside,
            Undispatched, InPeimLoop
<1>1. CASE PeimPassed
  BY <1>1 DEF PeimPassed
<1>2. CASE DepexFalse
  BY <1>2 DEF DepexFalse
<1>3. CASE DispatchImage
  BY <1>3 DEF DispatchImage
<1>4. CASE LoadFails
  BY <1>4 DEF LoadFails, PeimReady
<1>5. CASE SecurityViolation
  BY <1>5 DEF SecurityViolation, PeimReady
<1>6. CASE DispatchPeim
  BY <1>6 DEF DispatchPeim, PeimReady
<1> QED
  BY <1>1, <1>2, <1>3, <1>4, <1>5, <1>6 DEF Look

\* The other steps of the two loops.
LEMMA LoopMoves ==
  ASSUME TypeOK
  PROVE  /\ FvStart => /\ Where = "fv" /\ Where' = "peim"
                       /\ Base = <<currentFv, currentPeim>> /\ Base' = Base
         /\ PeimNext => /\ Where = "next" /\ Where' = "peim"
                        /\ Base = <<currentFv, currentPeim>>
                        /\ Base' = <<currentFv, currentPeim + 1>>
         /\ FvNext => /\ Where = "peim" /\ Where' = "fv"
                      /\ Base = <<currentFv, currentPeim>>
                      /\ Base' = <<currentFv + 1, 0>>
         /\ PassEnd => /\ Where = "fv" /\ Where' \in {"pass", "end"}
                       /\ Base = <<currentFv, currentPeim>>
                       /\ Base' = <<0, currentPeim>>
PROOF
BY DEF At, GoTo, position, volumes, Where, Base, FvStart, PeimNext, FvNext, PassEnd

\* What steps do to the volumes known and to the states of the files.
LEMMA OnlyForward ==
  ASSUME TypeOK, [Next]_vars
  PROVE  Extended /\ NothingUndone
PROOF
<1>1. fvs \in Seq(Fv) /\ peimState \in [File -> Nat]
  BY DEF TypeOK
<1>2. Extended
  <2>1. CASE fvs' = fvs
    BY <1>1, <2>1 DEF Extended
  <2>2. CASE OpenImage
    BY <2>2, OpenImageType DEF Extended
  <2>3. CASE \E v \in Fv : PublishFv(v)
    <3>1. PICK v \in Fv : PublishFv(v)
      BY <2>3
    <3>2. <<>> \in Seq({f \in File : IsImage(f)}) /\ Register(v, <<>>)
      BY <3>1 DEF PublishFv
    <3> QED
      BY <3>2, RegisterType DEF Extended
  <2>4. CASE DispatchImage
    <3>1. CurrentFile \in File /\ IsImage(CurrentFile)
      BY <2>4, CurrentFileType DEF DispatchImage, Undispatched, InPeimLoop
    <3>2. ProcessFvFile(CurrentFile, <<>>) /\ <<>> \in Seq({f \in File : IsImage(f)})
      BY <2>4 DEF DispatchImage
    <3> QED
      BY <3>1, <3>2, ProcessFvFileType DEF Extended
  <2>5. CASE ~OpenImage /\ ~(\E v \in Fv : PublishFv(v)) /\ ~DispatchImage
    <3>1. fvs' = fvs
      BY <2>5
      DEF Next, Services, Dispatcher, DelayedWork, DelayedDone, DxeIpl, vars,
          volumes, InstallPpi, PeiInstallPeiMemory, PeiRegisterForShadow,
          PeiDelayedDispatchRegister, Start, ShadowPass, ShadowPeim, ShadowNext,
          ShadowNextFv, ShadowEnd, PassStart, FvStart, PeimPassed, DepexFalse,
          LoadFails, SecurityViolation, DispatchPeim, PeiCheckAndSwitchStack,
          InlineShadow, PeimNext, FvNext, PassEnd, DispatchNotify,
          NotifyListReturns, DelayedCycleEnds, PeimReturns, ShadowReturns,
          NotifyReturns, DelayedExpires, DelayedReturns, EarlyReturns
    <3> QED
      BY <2>1, <3>1
  <2> QED
    BY <2>2, <2>3, <2>4, <2>5
<1>3. NothingUndone
  <2>1. \/ peimState' = peimState
        \/ \E g : \/ peimState' = [peimState EXCEPT ![g] = REGISTER_FOR_SHADOW]
                  \/ peimState' = [peimState EXCEPT ![g] = DISPATCHED]
                  \/ peimState' = [peimState EXCEPT ![g] = DONE]
                  \/ peimState' = [peimState EXCEPT ![g] = @ + 1]
    BY DEF Next, Services, Dispatcher, DelayedWork, DelayedDone, DxeIpl, vars,
          volumes, InstallPpi, PeiInstallPeiMemory, PeiRegisterForShadow,
          PeiDelayedDispatchRegister, Start, ShadowPass, ShadowPeim, ShadowNext,
          ShadowNextFv, ShadowEnd, PassStart, FvStart, PeimPassed, DepexFalse,
          LoadFails, SecurityViolation, DispatchPeim, PeiCheckAndSwitchStack,
          InlineShadow, PeimNext, FvNext, PassEnd, DispatchNotify,
          NotifyListReturns, DelayedCycleEnds, PeimReturns, ShadowReturns,
          NotifyReturns, DelayedExpires, DelayedReturns, EarlyReturns, OpenImage, PublishFv,
          DispatchImage
  <2>2. \A f \in File : peimState[f] \in Nat /\ peimState[f] + 1 # 0
    BY <1>1
  <2> QED
    BY <1>1, <2>1, <2>2
    DEF NothingUndone, NOT_DISPATCHED, REGISTER_FOR_SHADOW, DISPATCHED, DONE
<1> QED
  BY <1>2, <1>3
LEMMA QuietPosition ==
  ASSUME TypeOK, PositionOK, TypeOK', Extended, Quiet
  PROVE  PositionOK'
PROOF
<1>1. fvs \in Seq(Fv) /\ fvs' \in Seq(Fv) /\ Len(fvs) \in Nat /\ Len(fvs') \in Nat
  BY DEF TypeOK
<1>2. Base \in Nat \X Nat
  BY DEF TypeOK, Base
<1>3. Base' = Base /\ scanned' = scanned /\ pc' # "end"
  BY DEF Quiet
<1>4. Base[1] < Len(fvs) =>
        Base[1] + 1 \in 1 .. Len(fvs) /\ Base[1] < Len(fvs')
        /\ fvs'[Base[1] + 1] = fvs[Base[1] + 1]
  BY <1>1, <1>2 DEF Extended
<1>5. (Where' \in InVolume \/ Base'[2] # 0) =>
        Base'[1] < Len(fvs') /\ fvs'[Base'[1] + 1] \in scanned'
  BY <1>3, <1>4 DEF PositionOK, Quiet
<1>6. Where' \in Inside => Base'[2] < Len(Order(fvs'[Base'[1] + 1]))
  <2>1. Where' \in Inside => Where \in Inside /\ Where \in InVolume
    BY DEF Quiet, InVolume
  <2> QED
    BY <1>3, <1>4, <2>1 DEF PositionOK
<1>7. \A i \in 1 .. Len(fvs') : i <= Base'[1] => fvs'[i] \in scanned'
  <2> SUFFICES ASSUME NEW i \in 1 .. Len(fvs'), i <= Base[1]
               PROVE  fvs'[i] \in scanned
    BY <1>3
  <2>1. CASE i \in 1 .. Len(fvs)
    BY <2>1 DEF PositionOK, Extended
  <2>2. CASE i > Len(fvs)
    BY <1>1, <1>2, <2>2 DEF PositionOK
  <2> QED
    BY <1>1, <2>1, <2>2
<1>8. Base'[1] <= Len(fvs')
  BY <1>1, <1>2, <1>3 DEF PositionOK, Extended
<1> QED
  BY <1>8, <1>3, <1>5, <1>6, <1>7 DEF PositionOK

\* Every step leaves the main loop within the volumes it knows.
LEMMA PositionStep ==
  TypeOK /\ PositionOK /\ TypeOK' /\ [Next]_vars => PositionOK'
PROOF
<1> SUFFICES ASSUME TypeOK, PositionOK, TypeOK', [Next]_vars
             PROVE  PositionOK'
  OBVIOUS
<1>1. fvs \in Seq(Fv) /\ fvs' \in Seq(Fv) /\ Len(fvs) \in Nat /\ Len(fvs') \in Nat
      /\ currentFv \in Nat /\ currentPeim \in Nat
  BY DEF TypeOK
<1>2. Extended
  BY OnlyForward
<1>3. CASE OpenImage \/ Services
  BY <1>2, <1>3, ServiceQuiet, QuietPosition
<1>4. CASE \/ Start \/ ShadowPass \/ ShadowPeim \/ ShadowNext \/ ShadowNextFv
           \/ ShadowEnd \/ PassStart
  BY <1>2, <1>4, ShadowQuiet, QuietPosition
<1>5. CASE \/ PeiCheckAndSwitchStack \/ InlineShadow \/ DelayedCycleEnds
           \/ PeimReturns \/ ShadowReturns \/ NotifyReturns \/ NotifyListReturns
           \/ \E p \in Ppi : DispatchNotify(p)
           \/ \E d \in Delayed : DelayedExpires(d)
           \/ \E state \in {"waiting", "gone"} : DelayedReturns(state) \/ EarlyReturns(state)
  BY <1>2, <1>5, InsideQuiet, QuietPosition
<1>6. CASE Look
  <2>1. /\ Where = "peim" /\ pc' # "end"
        /\ Base = <<currentFv, currentPeim>> /\ Base' = Base
        /\ currentPeim < PeimCount(CurrentVolume)
        /\ scanned' = scanned
    BY <1>6, LookMoves
  <2>2. Base[1] = currentFv /\ Base[2] = currentPeim
        /\ Base'[1] = currentFv /\ Base'[2] = currentPeim
    BY <2>1
  <2>3. currentFv < Len(fvs) /\ CurrentVolume \in scanned
    BY <2>1, <2>2 DEF PositionOK, InVolume, CurrentVolume
  <2>4. currentFv + 1 \in 1 .. Len(fvs) /\ currentFv < Len(fvs')
        /\ fvs'[currentFv + 1] = CurrentVolume
    BY <1>1, <1>2, <2>3 DEF Extended, CurrentVolume
  <2>5. currentPeim < Len(Order(CurrentVolume))
    BY <2>1, <2>3 DEF PeimCount
  <2>6. \A i \in 1 .. Len(fvs') : i <= currentFv => fvs'[i] \in scanned
    <3>1. \A i \in 1 .. Len(fvs') : i <= currentFv => i \in 1 .. Len(fvs)
      BY <1>1, <2>3
    <3>2. \A i \in 1 .. Len(fvs) : i <= currentFv => fvs[i] \in scanned
      BY <2>2 DEF PositionOK
    <3> QED
      BY <1>2, <3>1, <3>2 DEF Extended
  <2>7. currentFv <= Len(fvs')
    BY <1>1, <2>4
  <2> QED
    BY <2>1, <2>2, <2>3, <2>4, <2>5, <2>6, <2>7 DEF PositionOK
<1>7. CASE FvStart
  <2>1. /\ Where = "fv" /\ Where' = "peim"
        /\ Base = <<currentFv, currentPeim>> /\ Base' = Base
    BY <1>7, LoopMoves
  <2>2. Base[1] = currentFv /\ Base[2] = currentPeim
        /\ Base'[1] = currentFv /\ Base'[2] = currentPeim
    BY <2>1
  <2>3. fvs' = fvs /\ currentFv < Len(fvs) /\ pc' # "end" /\ scanned \subseteq scanned'
        /\ (currentPeim = 0 => CurrentVolume \in scanned')
    BY <1>7 DEF FvStart, DiscoverPeimsAndOrderWithApriori, GoTo
  <2>4. fvs[currentFv + 1] \in scanned'
    BY <2>2, <2>3 DEF PositionOK, CurrentVolume
  <2> QED
    BY <1>1, <2>1, <2>2, <2>3, <2>4 DEF PositionOK, Inside
<1>8. CASE PeimNext
  <2>1. /\ Where = "next" /\ Where' = "peim"
        /\ Base = <<currentFv, currentPeim>>
        /\ Base' = <<currentFv, currentPeim + 1>>
    BY <1>8, LoopMoves
  <2>2. Base[1] = currentFv /\ Base'[1] = currentFv
    BY <2>1
  <2>3. fvs' = fvs /\ scanned' = scanned /\ pc' # "end"
    BY <1>8 DEF PeimNext, GoTo, volumes
  <2> QED
    BY <1>1, <2>1, <2>2, <2>3 DEF PositionOK, Inside, InVolume
<1>9. CASE FvNext
  <2>1. /\ Where = "peim" /\ Where' = "fv"
        /\ Base = <<currentFv, currentPeim>>
        /\ Base' = <<currentFv + 1, 0>>
    BY <1>9, LoopMoves
  <2>2. Base[1] = currentFv /\ Base'[1] = currentFv + 1 /\ Base'[2] = 0
    BY <2>1
  <2>3. fvs' = fvs /\ scanned' = scanned /\ pc' # "end"
    BY <1>9 DEF FvNext, GoTo, volumes
  <2>4. currentFv < Len(fvs) /\ fvs[currentFv + 1] \in scanned
    BY <2>1, <2>2 DEF PositionOK, InVolume
  <2>5. \A i \in 1 .. Len(fvs) : i <= currentFv + 1 => fvs[i] \in scanned
    BY <1>1, <2>2, <2>4 DEF PositionOK
  <2> QED
    BY <1>1, <2>1, <2>2, <2>3, <2>4, <2>5 DEF PositionOK, Inside, InVolume
<1>10. CASE PassEnd
  <2>1. /\ Where = "fv" /\ Where' \in {"pass", "end"}
        /\ Base = <<currentFv, currentPeim>>
        /\ Base' = <<0, currentPeim>>
    BY <1>10, LoopMoves
  <2>2. Base[1] = currentFv /\ Base[2] = currentPeim
        /\ Base'[1] = 0 /\ Base'[2] = currentPeim
    BY <2>1
  <2>3. /\ fvs' = fvs /\ scanned' = scanned /\ opening' = <<>>
        /\ currentFv >= Len(fvs)
    BY <1>10 DEF PassEnd, At, volumes
  <2>4. currentPeim = 0
    BY <1>1, <2>2, <2>3 DEF PositionOK
  <2>5. \A i \in 1 .. Len(fvs) : fvs[i] \in scanned
    BY <1>1, <2>2, <2>3 DEF PositionOK
  <2> QED
    BY <1>1, <2>1, <2>2, <2>3, <2>4, <2>5 DEF PositionOK, Inside, InVolume
<1>11. CASE UNCHANGED vars
  BY <1>11
  DEF PositionOK, Where, Base, vars, volumes, position
<1> QED
  BY <1>3, <1>4, <1>5, <1>6, <1>7, <1>8, <1>9, <1>10, <1>11
  DEF Next, Dispatcher, DelayedWork, DelayedDone, DxeIpl, Look

LEMMA InitPosition == Init => PositionOK /\ Base = <<0, 0>>
PROOF
<1> SUFFICES ASSUME Init
             PROVE  PositionOK /\ Base = <<0, 0>>
  OBVIOUS
<1>1. Where = "start" /\ Base = <<0, 0>>
  BY DEF Init, Where, Base
<1>2. Len(fvs) = 1 /\ pc # "end"
  BY DEF Init
<1> QED
  BY <1>1, <1>2 DEF PositionOK, InVolume, Inside

\* The dispatcher's state is always of its types.
THEOREM TypeCorrect == Spec => [](TypeOK /\ PositionOK)
PROOF
<1>1. Init => TypeOK /\ PositionOK
  BY InitType, InitPosition
<1>2. TypeOK /\ PositionOK /\ [Next]_vars => TypeOK' /\ PositionOK'
  BY TypeStep, PositionStep
<1> QED
  BY <1>1, <1>2, PTL DEF Spec
-----------------------------------------------------------------------------
(* The Apriori files.                                                      *)

\* SEC's PPIs are not lost.
LEMMA SecStep == TypeOK /\ SecStays /\ [Next]_vars => SecStays'
PROOF
<1>1. ASSUME [Next]_vars
      PROVE  ppis \subseteq ppis'
  BY <1>1
  DEF Next, Services, Dispatcher, DelayedWork, DelayedDone, DxeIpl, vars,
      database, InstallPpi, PeiInstallPeiMemory, PeiRegisterForShadow,
      PeiDelayedDispatchRegister, Start, ShadowPass, ShadowPeim, ShadowNext,
      ShadowNextFv, ShadowEnd, PassStart, FvStart, PeimPassed, DepexFalse,
      LoadFails, SecurityViolation, DispatchPeim, PeiCheckAndSwitchStack,
      SwitchStack, InlineShadow, PeimNext, FvNext, PassEnd, DispatchNotify,
      NotifyListReturns, DelayedCycleEnds, PeimReturns, ShadowReturns,
      NotifyReturns, DelayedExpires, DelayedReturns, EarlyReturns, OpenImage, PublishFv,
      DispatchImage
<1> QED
  BY <1>1 DEF SecStays

LEMMA DoneStays ==
  ASSUME NothingUndone, NEW v \in Fv
  PROVE  /\ \A i \in 1 .. Len(AprioriPart(v)) :
              peimState[AprioriPart(v)[i]] # NOT_DISPATCHED
                => peimState'[AprioriPart(v)[i]] # NOT_DISPATCHED
         /\ AprioriDone(v) => AprioriDone(v)'
PROOF
<1>1. \A i \in 1 .. Len(AprioriPart(v)) : AprioriPart(v)[i] \in File
  BY OrderLists
<1> QED
  BY <1>1 DEF AprioriDone, DoneUpTo, NothingUndone

LEMMA QuietApriori ==
  ASSUME TypeOK, AprioriOK, NothingUndone, Extended, Quiet
  PROVE  AprioriOK'
PROOF
<1>1. fvs \in Seq(Fv) /\ scanned \subseteq Fv /\ Base \in Nat \X Nat
  BY DEF TypeOK, Base
<1>2. Base' = Base /\ scanned' = scanned /\ aprioriCount' = aprioriCount
      /\ pc' # "end" /\ (Where' \in Inside => Where \in Inside)
  BY DEF Quiet
<1>3. SUFFICES ASSUME NEW v \in scanned, ~AprioriDone(v)'
               PROVE  /\ Base'[1] < Len(fvs') /\ v = fvs'[Base'[1] + 1]
                      /\ Len(AprioriPart(v)) <= aprioriCount'
                      /\ DoneUpTo(v, IF Where \in Inside THEN Base[2] + 1
                                     ELSE Base[2])'
  BY <1>2 DEF AprioriOK
<1>4. v \in Fv /\ ~AprioriDone(v)
  BY <1>1, <1>3, DoneStays
<1>5. /\ Base[1] < Len(fvs) /\ v = fvs[Base[1] + 1]
      /\ Len(AprioriPart(v)) <= aprioriCount
      /\ DoneUpTo(v, IF Where \in Inside THEN Base[2] + 1 ELSE Base[2])
  BY <1>4 DEF AprioriOK
<1>6. Base[1] + 1 \in 1 .. Len(fvs) /\ Base[1] < Len(fvs')
  BY <1>1, <1>5 DEF Extended
<1>7. DoneUpTo(v, IF Where \in Inside THEN Base[2] + 1 ELSE Base[2])'
  <2> SUFFICES ASSUME NEW i \in 1 .. Len(AprioriPart(v)),
                      i <= IF Where' \in Inside THEN Base[2] + 1 ELSE Base[2]
               PROVE  peimState'[AprioriPart(v)[i]] # NOT_DISPATCHED
    BY <1>2 DEF DoneUpTo
  <2>1. i \in Nat /\ i <= IF Where \in Inside THEN Base[2] + 1 ELSE Base[2]
    BY <1>1, <1>2
  <2>2. peimState[AprioriPart(v)[i]] # NOT_DISPATCHED
    BY <1>5, <2>1 DEF DoneUpTo
  <2> QED
    BY <1>4, <2>2, DoneStays
<1> QED
  BY <1>2, <1>5, <1>6, <1>7 DEF Extended

\* A file of the Apriori part of the current volume that the main loop looks
\* at is dispatched by then, or it is now.
LEMMA AprioriLook ==
  ASSUME AInv, AprioriReady, [Next]_vars, Look,
         currentPeim < Len(AprioriPart(CurrentVolume))
  PROVE  peimState'[CurrentFile] # NOT_DISPATCHED
PROOF
<1>1. /\ Base = <<currentFv, currentPeim>>
      /\ currentPeim < PeimCount(CurrentVolume)
      /\ TypeOK /\ pc # "end" /\ Where = "peim"
  BY LookMoves DEF AInv, Where
<1>2. /\ CurrentVolume \in scanned /\ CurrentVolume \in Fv
      /\ CurrentFile \in File /\ currentPeim \in Nat
  BY <1>1, CurrentFileType DEF TypeOK
<1>3. Len(AprioriPart(CurrentVolume)) \in Nat
      /\ currentPeim + 1 \in 1 .. Len(AprioriPart(CurrentVolume))
  BY <1>2, OrderLists
<1>4. CurrentFile = AprioriPart(CurrentVolume)[currentPeim + 1]
  BY <1>2, <1>3, OrderLists DEF CurrentFile
<1>5. CASE peimState[CurrentFile] # NOT_DISPATCHED
  BY <1>1, <1>2, <1>5, OnlyForward DEF NothingUndone
<1>6. CASE peimState[CurrentFile] = NOT_DISPATCHED
  <2>1. ~AprioriDone(CurrentVolume)
    BY <1>3, <1>4, <1>6 DEF AprioriDone, DoneUpTo
  <2>2. Len(AprioriPart(CurrentVolume)) <= aprioriCount
    BY <1>2, <2>1 DEF AInv, AprioriOK
  <2>3. currentPeim < aprioriCount
    BY <1>1, <1>2, <1>3, <2>2 DEF TypeOK
  <2>4. CurrentFile \in Elements(AprioriPart(CurrentVolume))
    BY <1>2, <1>3, <1>4, OrderLists DEF Elements
  <2>5. NeedsToLoad[CurrentFile] \cup NeedsToVerify[CurrentFile] \subseteq ppis
    BY <1>2, <2>4 DEF AprioriReady, AInv, SecStays
  <2>6. /\ DepexSatisfied(CurrentFile)
        /\ Readable(CurrentFile) /\ Trusted(CurrentFile)
        /\ Extractable(CurrentFile)
    BY <2>3, <2>5 DEF DepexSatisfied, Readable, Trusted, Extractable
  <2>7. DispatchImage \/ DispatchPeim
    BY <1>6, <2>6
    DEF Look, PeimPassed, DepexFalse, LoadFails, SecurityViolation
  <2>8. peimState' = [peimState EXCEPT ![CurrentFile] = DISPATCHED]
    BY <2>6, <2>7 DEF DispatchImage, DispatchPeim, ProcessFvFileSucceeds
  <2> QED
    BY <1>1, <1>2, <2>8 DEF TypeOK, DISPATCHED, NOT_DISPATCHED
<1> QED
  BY <1>5, <1>6

LEMMA AprioriStep ==
  ASSUME AprioriReady
  PROVE  AInv /\ TypeOK' /\ [Next]_vars => AprioriOK'
PROOF
<1> SUFFICES ASSUME AInv, TypeOK', [Next]_vars
             PROVE  AprioriOK'
  OBVIOUS
<1>1. /\ fvs \in Seq(Fv) /\ fvs' \in Seq(Fv) /\ scanned \subseteq Fv
      /\ currentFv \in Nat /\ currentPeim \in Nat /\ aprioriCount \in Nat
  BY DEF AInv, TypeOK
<1>2. TypeOK /\ PositionOK /\ AprioriOK /\ Extended /\ NothingUndone
  BY OnlyForward DEF AInv
<1>3. CASE OpenImage \/ Services
  BY <1>2, <1>3, ServiceQuiet, QuietApriori
<1>4. CASE \/ Start \/ ShadowPass \/ ShadowPeim \/ ShadowNext \/ ShadowNextFv
           \/ ShadowEnd \/ PassStart
  BY <1>2, <1>4, ShadowQuiet, QuietApriori
<1>5. CASE \/ PeiCheckAndSwitchStack \/ InlineShadow \/ DelayedCycleEnds
           \/ PeimReturns \/ ShadowReturns \/ NotifyReturns \/ NotifyListReturns
           \/ \E p \in Ppi : DispatchNotify(p)
           \/ \E d \in Delayed : DelayedExpires(d)
           \/ \E state \in {"waiting", "gone"} : DelayedReturns(state) \/ EarlyReturns(state)
  BY <1>2, <1>5, InsideQuiet, QuietApriori
<1>6. CASE Look
  <2>1. /\ Where = "peim" /\ Where' \in Inside /\ pc' # "end"
        /\ Base = <<currentFv, currentPeim>> /\ Base' = Base
        /\ currentPeim < PeimCount(CurrentVolume)
        /\ scanned' = scanned /\ aprioriCount' = aprioriCount
    BY <1>2, <1>6, LookMoves
  <2>2. Base[1] = currentFv /\ Base[2] = currentPeim
        /\ Base'[1] = currentFv /\ Base'[2] = currentPeim
    BY <2>1
  <2>3. SUFFICES ASSUME NEW v \in scanned, ~AprioriDone(v)'
                 PROVE  /\ currentFv < Len(fvs') /\ v = fvs'[currentFv + 1]
                        /\ Len(AprioriPart(v)) <= aprioriCount
                        /\ DoneUpTo(v, IF Where \in Inside THEN Base[2] + 1
                                       ELSE Base[2])'
    BY <2>1, <2>2 DEF AprioriOK
  <2>4. v \in Fv /\ ~AprioriDone(v)
    BY <1>1, <1>2, <2>3, DoneStays
  <2>5. /\ currentFv < Len(fvs) /\ v = CurrentVolume
        /\ Len(AprioriPart(v)) <= aprioriCount
        /\ DoneUpTo(v, currentPeim)
    BY <1>2, <2>1, <2>2, <2>4 DEF AprioriOK, Inside, CurrentVolume
  <2>6. currentFv + 1 \in 1 .. Len(fvs) /\ currentFv < Len(fvs')
        /\ fvs'[currentFv + 1] = CurrentVolume
    BY <1>1, <1>2, <2>5 DEF Extended, CurrentVolume
  <2>7. ASSUME NEW i \in 1 .. Len(AprioriPart(v)), i <= currentPeim + 1
        PROVE  peimState'[AprioriPart(v)[i]] # NOT_DISPATCHED
    <3>1. CASE i <= currentPeim
      BY <1>2, <2>4, <2>5, <3>1, DoneStays DEF DoneUpTo
    <3>2. CASE i > currentPeim
      <4>1. i = currentPeim + 1 /\ Len(AprioriPart(v)) \in Nat
        BY <1>1, <2>4, <2>7, <3>2, OrderLists
      <4>2. currentPeim < Len(AprioriPart(v))
        BY <1>1, <4>1
      <4>3. peimState'[CurrentFile] # NOT_DISPATCHED
        BY <1>6, <2>5, <4>2, AprioriLook
      <4>4. CurrentFile = AprioriPart(v)[i]
        BY <2>4, <2>5, <4>1, OrderLists DEF CurrentFile
      <4> QED
        BY <4>3, <4>4
    <3> QED
      BY <1>1, <3>1, <3>2
  <2>8. DoneUpTo(v, IF Where \in Inside THEN Base[2] + 1 ELSE Base[2])'
    BY <2>1, <2>2, <2>7 DEF DoneUpTo
  <2> QED
    BY <2>5, <2>6, <2>8
<1>7. CASE FvStart
  <2>1. /\ Where = "fv" /\ Where' = "peim"
        /\ Base = <<currentFv, currentPeim>> /\ Base' = Base
    BY <1>2, <1>7, LoopMoves
  <2>2. Base[1] = currentFv /\ Base[2] = currentPeim
        /\ Base'[1] = currentFv /\ Base'[2] = currentPeim
    BY <2>1
  <2>3. /\ fvs' = fvs /\ currentFv < Len(fvs) /\ pc' # "end"
        /\ peimState' = peimState /\ currentPeim' = currentPeim
    BY <1>7 DEF FvStart, GoTo
  <2>4. SUFFICES ASSUME NEW v \in scanned', ~AprioriDone(v)'
                 PROVE  /\ v = CurrentVolume
                        /\ Len(AprioriPart(v)) <= aprioriCount'
                        /\ DoneUpTo(v, currentPeim)'
    BY <2>1, <2>2, <2>3 DEF AprioriOK, Inside, CurrentVolume
  <2>5. CASE v \in scanned
    <3>1. v \in Fv /\ ~AprioriDone(v)
      BY <1>1, <1>2, <2>4, <2>5, DoneStays
    <3>2. /\ v = CurrentVolume
          /\ Len(AprioriPart(v)) <= aprioriCount
          /\ DoneUpTo(v, currentPeim)
      BY <1>2, <2>1, <2>2, <2>5, <3>1 DEF AprioriOK, Inside, CurrentVolume
    <3>3. aprioriCount' = aprioriCount
      BY <1>7, <2>5, <3>2 DEF FvStart, DiscoverPeimsAndOrderWithApriori
    <3> QED
      BY <2>3, <3>2, <3>3 DEF DoneUpTo, CurrentVolume
  <2>6. CASE v \notin scanned
    <3>1. currentPeim = 0 /\ v = CurrentVolume
          /\ DiscoverPeimsAndOrderWithApriori(CurrentVolume)
      BY <1>7, <2>4, <2>6 DEF FvStart, DiscoverPeimsAndOrderWithApriori
    <3>2. v \in Fv
      BY <1>1, <2>3, <3>1 DEF CurrentVolume
    <3>3. AprioriPart(v) \in Seq(File) /\ Len(AprioriPart(v)) \in Nat
          /\ Len(AprioriPart(v)) <= Len(Order(v))
      BY <3>2, OrderLists
    <3>4. Order(v) # <<>>
      <4>1. SUFFICES ASSUME Order(v) = <<>>
                     PROVE  FALSE
        OBVIOUS
      <4>2. Len(AprioriPart(v)) = 0
        BY <3>3, <4>1
      <4> QED
        BY <2>4, <4>2 DEF AprioriDone, DoneUpTo
    <3>5. aprioriCount' = Len(AprioriPart(v))
      BY <2>6, <3>1, <3>4 DEF DiscoverPeimsAndOrderWithApriori
    <3> QED
      BY <2>3, <3>1, <3>3, <3>5 DEF DoneUpTo
  <2> QED
    BY <2>5, <2>6
<1>8. CASE PeimNext
  <2>1. /\ Where = "next" /\ Where' = "peim"
        /\ Base = <<currentFv, currentPeim>>
        /\ Base' = <<currentFv, currentPeim + 1>>
    BY <1>2, <1>8, LoopMoves
  <2>2. Base[1] = currentFv /\ Base[2] = currentPeim
        /\ Base'[1] = currentFv /\ Base'[2] = currentPeim + 1
    BY <2>1
  <2>3. /\ fvs' = fvs /\ scanned' = scanned /\ pc' # "end"
        /\ peimState' = peimState /\ aprioriCount' = aprioriCount
    BY <1>8 DEF PeimNext, GoTo, volumes
  <2> QED
    BY <1>2, <2>1, <2>2, <2>3 DEF AprioriOK, Inside, DoneUpTo, AprioriDone
<1>9. CASE FvNext
  <2>1. /\ Where = "peim" /\ Where' = "fv"
        /\ Base = <<currentFv, currentPeim>>
    BY <1>2, <1>9, LoopMoves
  <2>2. Base[1] = currentFv /\ Base[2] = currentPeim
    BY <2>1
  <2>3. /\ fvs' = fvs /\ scanned' = scanned /\ peimState' = peimState
        /\ currentPeim >= PeimCount(CurrentVolume)
    BY <1>9 DEF FvNext, volumes
  <2>4. ASSUME NEW v \in scanned
        PROVE  AprioriDone(v)
    <3>1. SUFFICES ASSUME ~AprioriDone(v)
                   PROVE  FALSE
      OBVIOUS
    <3>2. v = CurrentVolume /\ DoneUpTo(v, currentPeim)
      BY <1>2, <2>1, <2>2, <3>1 DEF AprioriOK, Inside, CurrentVolume
    <3>3. v \in Fv /\ currentPeim >= Len(Order(v))
      BY <1>1, <2>3, <3>2 DEF PeimCount
    <3>4. /\ Len(Order(v)) \in Nat /\ Len(AprioriPart(v)) \in Nat
          /\ Len(AprioriPart(v)) <= Len(Order(v))
      BY <3>3, OrderLists
    <3>5. \A i \in 1 .. Len(AprioriPart(v)) : i <= currentPeim
      BY <1>1, <3>3, <3>4
    <3> QED
      BY <3>1, <3>2, <3>5 DEF AprioriDone, DoneUpTo
  <2>5. \A v \in scanned : AprioriDone(v)'
    BY <2>3, <2>4 DEF AprioriDone, DoneUpTo
  <2> QED
    BY <2>3, <2>5 DEF AprioriOK
<1>10. CASE PassEnd
  <2>1. Where = "fv" /\ Base = <<currentFv, currentPeim>>
    BY <1>2, <1>10, LoopMoves
  <2>2. Base[1] = currentFv
    BY <2>1
  <2>3. /\ fvs' = fvs /\ scanned' = scanned /\ peimState' = peimState
        /\ currentFv >= Len(fvs)
    BY <1>10 DEF PassEnd, volumes
  <2>4. \A v \in scanned : AprioriDone(v)
    BY <1>1, <1>2, <2>2, <2>3 DEF AprioriOK
  <2>5. \A v \in scanned : AprioriDone(v)'
    BY <2>3, <2>4 DEF AprioriDone, DoneUpTo
  <2> QED
    BY <2>3, <2>5 DEF AprioriOK
<1>11. CASE UNCHANGED vars
  BY <1>2, <1>11
  DEF AprioriOK, AprioriDone, DoneUpTo, Where, Base, vars, volumes, position
<1> QED
  BY <1>3, <1>4, <1>5, <1>6, <1>7, <1>8, <1>9, <1>10, <1>11
  DEF Next, Dispatcher, DelayedWork, DelayedDone, DxeIpl, Look

\* When what the files named in Apriori files need to be read and verified
\* has been installed by SEC, all of them have been dispatched when the
\* dispatcher gives up, with a stack switch in between or without, and
\* whatever the code called does.
THEOREM AprioriAlwaysDispatched ==
  ASSUME AprioriReady
  PROVE  Spec => []AprioriDispatched
PROOF
<1>1. Init => AInv
  <2>1. Init => SecStays /\ AprioriOK
    BY DEF Init, SecStays, AprioriOK
  <2> QED
    BY <2>1, InitType, InitPosition DEF AInv
<1>2. AInv /\ [Next]_vars => AInv'
  <2>1. AInv /\ [Next]_vars => TypeOK' /\ PositionOK' /\ SecStays'
    BY TypeStep, PositionStep, SecStep DEF AInv
  <2>2. AInv /\ [Next]_vars => AprioriOK'
    BY <2>1, AprioriStep
  <2> QED
    BY <2>1, <2>2 DEF AInv
<1>3. AInv => AprioriDispatched
  <2> SUFFICES ASSUME AInv, pc = "end",
                      NEW v \in Elements(fvs), NEW f \in Elements(AprioriPart(v))
               PROVE  peimState[f] # NOT_DISPATCHED
    BY DEF AprioriDispatched
  <2>1. fvs \in Seq(Fv)
    BY DEF AInv, TypeOK
  <2>2. v \in scanned /\ v \in Fv
    BY <2>1 DEF AInv, PositionOK, Elements
  <2>3. AprioriDone(v)
    BY <2>2 DEF AInv, AprioriOK
  <2>4. AprioriPart(v) \in Seq(File)
    BY <2>2, OrderLists
  <2>5. PICK i \in 1 .. Len(AprioriPart(v)) : f = AprioriPart(v)[i]
    BY <2>4 DEF Elements
  <2>6. i <= Len(AprioriPart(v))
    BY <2>4
  <2> QED
    BY <2>3, <2>5, <2>6 DEF AprioriDone, DoneUpTo
<1> QED
  BY <1>1, <1>2, <1>3, PTL DEF Spec
-----------------------------------------------------------------------------
(* Nobody is left behind.                                                  *)

\* Code that installs only PPIs set aside, and neither discovers memory nor
\* registers a PEIM for shadow.
Harmless(c, Q) ==
  \A s \in Does[c] : s[1] \in {"publish", "delay"} \/ (s[1] = "install" /\ s[2] \in Q)

\* The PPIs in Q are set aside: SEC's, those that functions for delayed
\* dispatch install, and what follows from their notifications.
Aside(Q) ==
  /\ SecPpis \subseteq Q
  /\ \A d \in Delayed : Harmless(<<"delayed", d>>, Q)
  /\ \A p \in Q : Harmless(<<"notify", p>>, Q)

\* Whether f can be dispatched does not depend on the PPIs in Q, SEC's left out.
Independent(Q, f) ==
  /\ \A S \in SUBSET Ppi :
       SecPpis \subseteq S => (S \in Depex[f] <=> S \cup Q \in Depex[f])
  /\ (NeedsToLoad[f] \cup NeedsToVerify[f]) \cap Q \subseteq SecPpis

\* What is needed to read f, if it is a PEIM, is there as soon as its
\* dependency expression holds, and from the start if an Apriori file names it.
Loads(f) ==
  \A S \in SUBSET Ppi :
    /\ ~IsImage(f) /\ SecPpis \subseteq S
    /\ S \in Depex[f] \/ \E v \in Fv : f \in Elements(AprioriPart(v))
    => NeedsToLoad[f] \subseteq S

\* The files of which it can be said that they are not left behind.
Served(Q) == {f \in File : Independent(Q, f) /\ Loads(f)}

\* All that changed since the notifications were dispatched is set aside.
Settled(Q) == ppis \ notified \subseteq Q

\* The code that runs, if any does, is a delayed function or the notification
\* of a PPI set aside.
Tame(Q) == pc = "code" => \/ running[1] = "delayed"
                          \/ running[1] = "notify" /\ running[2] \in Q

\* Code that uses services is the code the dispatcher called, or a delayed
\* function, which is harmless.
LEMMA ActingHarmless ==
  ASSUME NEW Q \in SUBSET Ppi, Aside(Q), NEW c \in Acting
  PROVE  c = running \/ Harmless(c, Q)
BY DEF Acting, Early, Aside

\* Somebody was dispatched on this pass.
Moved == dispatchOnThisPass \/ (pc = "code" /\ running[1] = "peim")

SettledOK(Q) ==
  /\ pc \notin {"code", "notify", "switch1"} => Settled(Q)
  /\ pc = "code" /\ running[1] = "delayed" => Settled(Q)
  /\ Where = "next" => Settled(Q) /\ Tame(Q)
  /\ ~Moved => Settled(Q) /\ Tame(Q) /\ ~switchStackSignal

\* From the first check of the stack to the second entry of a PEIM that
\* registered for shadow: that PEIM was dispatched just now.
Checking == {"switch1", "switch2", "inline"}
LookedOK == Where \in Checking /\ ~Moved => peimState[CurrentFile] = NOT_DISPATCHED

\* Memory is discovered before the stack is checked, once; afterwards the
\* core is reentered with the record of the pass and the position kept.
SwitchOK ==
  /\ switchStackSignal => Where \in {"switch1", "switch2"} /\ ~memoryInstalled
  /\ Where \in {"shadow", "shadowed"} => memoryInstalled /\ reenter
  /\ pc \in {"notify", "code"} /\ Where = "start" => memoryInstalled /\ reenter
  /\ pc = "notify" /\ Where = "delayed" => memoryInstalled
  /\ pc = "code" /\ running[1] # "delayed" /\ Where = "delayed" => memoryInstalled
  /\ pc = "code" /\ running[1] = "shadow" =>
       memoryInstalled /\ Where \in {"shadowed", "delayed"}
  /\ Where = "start" /\ memoryInstalled => reenter
  /\ reenter => dispatchOnThisPass /\ Where \in {"start", "shadow", "shadowed", "pass"}
  /\ Where \in {"start", "pass"} /\ ~reenter => Base = <<0, 0>>

\* The dispatcher would not dispatch f whatever its state is.
Blocked(f) == ppis \notin Depex[f] \/ ~Extractable(f)

\* The main loop has looked at the file at position j of the volume i, in
\* this pass.
Visited(i, j) ==
  \/ i <= Base[1]
  \/ i = Base[1] + 1 /\ j <= IF Where \in Inside THEN Base[2] + 1 ELSE Base[2]

\* A file left undispatched makes another pass needed, and it is as blocked as
\* it was when the main loop looked at it, or somebody was dispatched.
Recorded(f) ==
  peimState[f] = NOT_DISPATCHED => needingDispatch /\ (Blocked(f) \/ Moved)

LookedAt(f) ==
  \E i \in 1 .. Len(fvs) : \E j \in 1 .. Len(Order(fvs[i])) :
    Visited(i, j) /\ f = Order(fvs[i])[j]

PassRecorded(Q) == \A f \in Served(Q) : LookedAt(f) => Recorded(f)

\* The count of Apriori files is that of the volume at the position, or zero.
CountOK ==
  aprioriCount # 0 =>
    /\ Base[1] < Len(fvs)
    /\ aprioriCount <= Len(AprioriPart(fvs[Base[1] + 1]))

\* No file of those served is left behind.
ServedAll(Q) == pc = "end" => \A f \in Served(Q) : ~Ready(f)

BInv(Q) == /\ TypeOK /\ PositionOK /\ SecStays /\ CountOK
           /\ SettledOK(Q) /\ LookedOK /\ SwitchOK /\ PassRecorded(Q)
           /\ ServedAll(Q)

\* What is left to notify about is left alone by steps that neither install a
\* PPI nor record a notification.
LEMMA SettledFrame ==
  ASSUME NEW Q, ppis' = ppis, notified' = notified, Settled(Q)
  PROVE  Settled(Q)'
BY DEF Settled

\* The discovery of memory.
LEMMA SwitchStep ==
  ASSUME NEW Q \in SUBSET Ppi, Aside(Q)
  PROVE  TypeOK /\ PositionOK /\ SettledOK(Q) /\ SwitchOK /\ [Next]_vars
           => SwitchOK'
PROOF
<1> SUFFICES ASSUME TypeOK, PositionOK, SettledOK(Q), SwitchOK, [Next]_vars
             PROVE  SwitchOK'
  OBVIOUS
<1>0. after \in Return /\ (pc = "code" => running \in Code)
      /\ saved \in Nat \X Nat
  BY DEF TypeOK
<1> USE DEF SwitchOK, Where, Base, position, flags, memory, volumes, database,
            At, GoTo
<1>1. CASE OpenImage
  BY <1>1 DEF OpenImage
<1>2. CASE Services /\ ~PeiInstallPeiMemory
  <2>1. UNCHANGED <<pc, after, running, currentFv, currentPeim, saved, reenter,
                    dispatchOnThisPass, switchStackSignal, memoryInstalled>>
    BY <1>2
    DEF Services, InstallPpi, PublishFv, PeiRegisterForShadow,
        PeiDelayedDispatchRegister
  <2> QED
    BY <2>1
<1>3. CASE PeiInstallPeiMemory
  <2>1. /\ pc = "code" /\ ~memoryInstalled
        /\ \E c \in Acting : <<"memory", NoFv>> \in Does[c]
    BY <1>3 DEF PeiInstallPeiMemory, May, At
  <2>2. ~Harmless(running, Q)
    BY <1>0, <2>1, ActingHarmless DEF Harmless
  <2>3. running[1] # "delayed" /\ ~Tame(Q)
    BY <1>0, <2>1, <2>2 DEF Aside, Tame, Code
  <2>4. Where \in {"switch1", "switch2"}
    BY <1>0, <2>1, <2>3 DEF SettledOK, Return
  <2>5. UNCHANGED <<pc, after, running, position, flags, memoryInstalled>>
    BY <1>3 DEF PeiInstallPeiMemory
  <2> QED
    BY <2>1, <2>4, <2>5
<1>4. CASE Start
  BY <1>4 DEF Start
<1>5. CASE ShadowPass
  BY <1>5 DEF ShadowPass, InShadowLoop
<1>6. CASE ShadowPeim
  BY <1>6 DEF ShadowPeim, InShadowLoop, Call, ProcessDispatchNotifyList
<1>7. CASE ShadowNext
  BY <1>7 DEF ShadowNext
<1>8. CASE ShadowNextFv
  BY <1>8 DEF ShadowNextFv
<1>9. CASE ShadowEnd
  BY <1>0, <1>9 DEF ShadowEnd
<1>10. CASE PassStart
  BY <1>10 DEF PassStart
<1>11. CASE FvStart
  BY <1>11 DEF FvStart
<1>12. CASE Look
  <2>1. CASE PeimPassed
    BY <2>1 DEF PeimPassed, InPeimLoop
  <2>2. CASE DepexFalse
    BY <2>2 DEF DepexFalse, Undispatched, InPeimLoop
  <2>3. CASE DispatchImage
    BY <2>3 DEF DispatchImage, Undispatched, InPeimLoop
  <2>4. CASE LoadFails
    BY <2>4 DEF LoadFails, PeimReady, Undispatched, InPeimLoop
  <2>5. CASE SecurityViolation
    BY <2>5 DEF SecurityViolation, PeimReady, Undispatched, InPeimLoop
  <2>6. CASE DispatchPeim
    BY <2>6 DEF DispatchPeim, Call, PeimReady, Undispatched, InPeimLoop
  <2> QED
    BY <1>12, <2>1, <2>2, <2>3, <2>4, <2>5, <2>6 DEF Look
<1>13. CASE PeiCheckAndSwitchStack
  <2>1. CASE switchStackSignal
    <3>1. dispatchOnThisPass
      BY <1>13, <2>1 DEF PeiCheckAndSwitchStack, SettledOK, Moved
    <3> QED
      BY <1>13, <2>1, <3>1
      DEF PeiCheckAndSwitchStack, SwitchStack, ProcessDispatchNotifyList
  <2>2. CASE ~switchStackSignal
    BY <1>13, <2>2 DEF PeiCheckAndSwitchStack, ProcessDispatchNotifyList
  <2> QED
    BY <2>1, <2>2
<1>14. CASE InlineShadow
  BY <1>14 DEF InlineShadow, Call
<1>15. CASE PeimNext
  BY <1>15 DEF PeimNext
<1>16. CASE FvNext
  BY <1>16 DEF FvNext
<1>17. CASE PassEnd
  <2>1. Where = "fv" /\ currentPeim \in Nat /\ currentFv >= Len(fvs)
        /\ fvs \in Seq(Fv) /\ currentFv \in Nat /\ Base = <<currentFv, currentPeim>>
    BY <1>17 DEF PassEnd, TypeOK
  <2>2. currentPeim = 0
    BY <2>1 DEF PositionOK
  <2> QED
    BY <1>17, <2>2 DEF PassEnd
<1>18. CASE \E p \in Ppi : DispatchNotify(p)
  BY <1>0, <1>18 DEF DispatchNotify, Call, Return
<1>19. CASE NotifyListReturns
  BY <1>0, <1>19 DEF NotifyListReturns, Return
<1>20. CASE DelayedCycleEnds
  BY <1>20 DEF DelayedCycleEnds, ProcessDispatchNotifyList
<1>21. CASE PeimReturns
  BY <1>21 DEF PeimReturns, Returns
<1>22. CASE ShadowReturns
  BY <1>0, <1>22 DEF ShadowReturns, Returns, ProcessDispatchNotifyList, Return
<1>23. CASE NotifyReturns
  BY <1>0, <1>23 DEF NotifyReturns, Returns, Return
<1>24. CASE \E d \in Delayed : DelayedExpires(d)
  BY <1>24 DEF DelayedExpires, Call
<1>25. CASE \E state \in {"waiting", "gone"} : DelayedReturns(state) \/ EarlyReturns(state)
  BY <1>25 DEF DelayedReturns, EarlyReturns, Returns
<1>26. CASE UNCHANGED vars
  BY <1>26 DEF vars
<1> QED
  BY <1>1, <1>2, <1>3, <1>4, <1>5, <1>6, <1>7, <1>8, <1>9, <1>10, <1>11, <1>12,
     <1>13, <1>14, <1>15, <1>16, <1>17, <1>18, <1>19, <1>20, <1>21, <1>22, <1>23,
     <1>24, <1>25, <1>26
  DEF Next, Dispatcher, DelayedWork, DelayedDone, DxeIpl, Look

\* What the code called may do while it is tame.
LEMMA TameServices ==
  ASSUME NEW Q \in SUBSET Ppi, Aside(Q), TypeOK, Tame(Q)
  PROVE  /\ \A p : May("install", p) => p \in Q
         /\ ~May("memory", NoFv)
         /\ \A f : ~May("shadow", f)
PROOF
<1>1. pc = "code" => Harmless(running, Q)
  BY DEF TypeOK, Tame, Aside, Code
<1>2. pc = "code" => \A c \in Acting : Harmless(c, Q)
  BY <1>1, ActingHarmless
<1> QED
  BY <1>2 DEF May, At, Harmless

\* The file whose PEIM is checked for shadow.
LEMMA LookedStep ==
  ASSUME NEW Q \in SUBSET Ppi, Aside(Q)
  PROVE  TypeOK /\ PositionOK /\ SettledOK(Q) /\ LookedOK /\ SwitchOK /\ [Next]_vars
           => LookedOK'
PROOF
<1> SUFFICES ASSUME TypeOK, PositionOK, SettledOK(Q), LookedOK, SwitchOK,
                    [Next]_vars, Where' \in Checking, ~Moved'
             PROVE  peimState'[CurrentFile'] = NOT_DISPATCHED
  BY DEF LookedOK
<1> USE DEF At, GoTo, position, flags, memory, volumes, Checking
<1>1. CASE /\ Where \in Checking /\ ~Moved /\ peimState' = peimState
           /\ UNCHANGED <<currentFv, currentPeim>>
  <2>1. currentFv < Len(fvs)
    BY <1>1 DEF PositionOK, Base, InVolume, Inside
  <2>2. fvs'[currentFv + 1] = fvs[currentFv + 1]
    <3>1. currentFv \in Nat /\ fvs \in Seq(Fv)
      BY DEF TypeOK
    <3>2. currentFv + 1 \in 1 .. Len(fvs)
      BY <2>1, <3>1
    <3> QED
      BY <3>2, OnlyForward DEF Extended
  <2>3. CurrentFile' = CurrentFile
    BY <1>1, <2>2 DEF CurrentFile, CurrentVolume
  <2> QED
    BY <1>1, <2>3 DEF LookedOK
<1>2. CASE OpenImage \/ Services
  <2>1. UNCHANGED <<pc, after, running, currentFv, currentPeim, dispatchOnThisPass>>
    BY <1>2
    DEF OpenImage, Services, InstallPpi, PublishFv, PeiInstallPeiMemory,
        PeiRegisterForShadow, PeiDelayedDispatchRegister
  <2>2. Where \in Checking /\ ~Moved
    BY <2>1 DEF Where, Moved
  <2>3. \A f : ~May("shadow", f)
    BY <2>2, TameServices DEF SettledOK
  <2>4. \A f \in File : ~PeiRegisterForShadow(f)
    BY <2>3 DEF PeiRegisterForShadow
  <2>5. peimState' = peimState
    BY <1>2, <2>4
    DEF OpenImage, Services, InstallPpi, PublishFv, PeiInstallPeiMemory,
        PeiDelayedDispatchRegister
  <2> QED
    BY <1>1, <2>1, <2>2, <2>5
<1>3. CASE DispatchImage \/ LoadFails \/ SecurityViolation
  <2>1. /\ pc = "peim" /\ pc' = "switch1" /\ Undispatched
        /\ UNCHANGED <<currentFv, currentPeim>>
    BY <1>3
    DEF DispatchImage, LoadFails, SecurityViolation, PeimReady, Undispatched,
        InPeimLoop
  <2>2. peimState' = peimState
    <3>1. DispatchImage => peimState' = peimState \/ dispatchOnThisPass'
      BY DEF DispatchImage
    <3> QED
      BY <1>3, <3>1 DEF LoadFails, SecurityViolation, Moved
  <2>3. currentFv < Len(fvs)
    BY <2>1 DEF PositionOK, Base, InVolume, Where
  <2>4. fvs'[currentFv + 1] = fvs[currentFv + 1]
    <3>1. currentFv \in Nat /\ fvs \in Seq(Fv)
      BY DEF TypeOK
    <3>2. currentFv + 1 \in 1 .. Len(fvs)
      BY <2>3, <3>1
    <3> QED
      BY <3>2, OnlyForward DEF Extended
  <2>5. CurrentFile' = CurrentFile
    BY <2>1, <2>4 DEF CurrentFile, CurrentVolume
  <2> QED
    BY <2>1, <2>2, <2>5 DEF Undispatched
<1>4. CASE PeiCheckAndSwitchStack \/ NotifyReturns \/ NotifyListReturns
           \/ \E p \in Ppi : DispatchNotify(p)
  <2>1. /\ pc # "code" \/ running[1] # "peim"
        /\ UNCHANGED <<peimState, currentFv, currentPeim>>
        /\ dispatchOnThisPass' = dispatchOnThisPass
    BY <1>4
    DEF PeiCheckAndSwitchStack, SwitchStack, NotifyReturns, NotifyListReturns,
        DispatchNotify, Returns
  <2>2. Where \in Checking
    <3>1. after \in Return
      BY DEF TypeOK
    <3>2. CASE PeiCheckAndSwitchStack
      BY <3>2 DEF PeiCheckAndSwitchStack, Where
    <3>3. CASE NotifyReturns
      BY <3>1, <3>3 DEF NotifyReturns, Returns, Where
    <3>4. CASE NotifyListReturns
      BY <3>1, <3>4 DEF NotifyListReturns, Where, Return
    <3>5. CASE \E p \in Ppi : DispatchNotify(p)
      BY <3>1, <3>5 DEF DispatchNotify, Call, Where
    <3> QED
      BY <1>4, <3>2, <3>3, <3>4, <3>5
  <2> QED
    BY <1>1, <2>1, <2>2 DEF Moved
<1>5. CASE ShadowReturns
  <2>1. pc = "code" /\ running[1] = "shadow" /\ pc' = "notify" /\ after' = after
    BY <1>5 DEF ShadowReturns, Returns, ProcessDispatchNotifyList
  <2>2. Where' = Where /\ Where \in {"shadowed", "delayed"}
    BY <2>1 DEF SwitchOK, Where
  <2> QED
    BY <2>2
<1>6. CASE DispatchPeim \/ PeimReturns
  BY <1>6 DEF DispatchPeim, PeimReturns, Call, Moved
<1>7. CASE UNCHANGED vars \/ \E state \in {"waiting", "gone"} : EarlyReturns(state)
  BY <1>1, <1>7 DEF vars, EarlyReturns, Where, Moved
<1>8. CASE Start \/ ShadowPass \/ ShadowPeim \/ ShadowNext \/ ShadowNextFv
           \/ ShadowEnd \/ PassStart
  BY <1>8
  DEF Start, ShadowPass, ShadowPeim, InShadowLoop, ShadowNext, ShadowNextFv,
      ShadowEnd, PassStart, Call, ProcessDispatchNotifyList, Where
<1>9. CASE \/ FvStart \/ FvNext \/ PassEnd \/ PeimNext \/ PeimPassed
           \/ DepexFalse \/ InlineShadow \/ DelayedCycleEnds
           \/ \E d \in Delayed : DelayedExpires(d)
           \/ \E state \in {"waiting", "gone"} : DelayedReturns(state)
  BY <1>9
  DEF FvStart, FvNext, PassEnd, PeimNext, PeimPassed, DepexFalse, InlineShadow,
      DelayedCycleEnds, DelayedExpires, DelayedReturns, Call,
      ProcessDispatchNotifyList, Where
<1> QED
  BY <1>2, <1>3, <1>4, <1>5, <1>6, <1>7, <1>8, <1>9
  DEF Next, Dispatcher, DelayedWork, DelayedDone, DxeIpl

\* The PPIs installed since notifications were dispatched.
LEMMA SettledStep ==
  ASSUME NEW Q \in SUBSET Ppi, Aside(Q)
  PROVE  TypeOK /\ SettledOK(Q) /\ LookedOK /\ SwitchOK /\ [Next]_vars
           => SettledOK(Q)'
PROOF
<1> SUFFICES ASSUME TypeOK, SettledOK(Q), LookedOK, SwitchOK, [Next]_vars
             PROVE  SettledOK(Q)'
  OBVIOUS
<1>0. after \in Return /\ (pc = "code" => running \in Code)
      /\ ppis \subseteq Ppi /\ pc \in Place
  BY DEF TypeOK
<1> DEFINE same == UNCHANGED <<ppis, notified, dispatchOnThisPass, switchStackSignal>>
<1>1. CASE OpenImage \/ Services
  <2>1. UNCHANGED <<pc, after, running, notified, dispatchOnThisPass>>
    BY <1>1
    DEF OpenImage, Services, InstallPpi, PublishFv, PeiInstallPeiMemory,
        PeiRegisterForShadow, PeiDelayedDispatchRegister, flags, database
  <2>2. (Tame(Q) <=> Tame(Q)') /\ (Moved <=> Moved') /\ Where' = Where
    BY <2>1 DEF Tame, Moved, Where
  <2>3. Tame(Q) => ppis' \ ppis \subseteq Q
    <3>1. ASSUME NEW p \in ppis', p \notin ppis
          PROVE  May("install", p)
      BY <1>1, <3>1
      DEF OpenImage, Services, InstallPpi, PublishFv, PeiInstallPeiMemory,
          PeiRegisterForShadow, PeiDelayedDispatchRegister, database
    <3> QED
      BY <3>1, TameServices
  <2>4. Tame(Q) => switchStackSignal' = switchStackSignal
    <3>1. PeiInstallPeiMemory => May("memory", NoFv)
      BY DEF PeiInstallPeiMemory
    <3>2. ~PeiInstallPeiMemory => switchStackSignal' = switchStackSignal
      BY <1>1
      DEF OpenImage, Services, InstallPpi, PublishFv, PeiRegisterForShadow,
          PeiDelayedDispatchRegister, memory
    <3> QED
      BY <3>1, <3>2, TameServices
  <2>5. Tame(Q) /\ Settled(Q) => Settled(Q)'
    BY <2>1, <2>3 DEF Settled
  <2>6. (pc = "code" /\ running[1] = "delayed") \/ pc # "code" => Tame(Q)
    BY DEF Tame
  <2> QED
    BY <2>1, <2>2, <2>4, <2>5, <2>6 DEF SettledOK
<1> USE DEF At, GoTo, position, flags, memory, volumes, database
<1>2. CASE /\ pc \notin {"code", "notify", "switch1"}
           /\ pc' \notin {"code", "switch1"}
           /\ UNCHANGED <<ppis, notified>>
           /\ ~switchStackSignal' \/ (dispatchOnThisPass' /\ Where' # "next")
  <2>1. Settled(Q)'
    BY <1>2, SettledFrame DEF SettledOK
  <2>2. Tame(Q)'
    BY <1>2 DEF Tame
  <2>3. Moved' \/ ~switchStackSignal'
    BY <1>2 DEF Moved
  <2> QED
    BY <1>2, <2>1, <2>2, <2>3 DEF SettledOK
<1>3. CASE Start \/ ShadowPass \/ ShadowNext \/ ShadowNextFv \/ ShadowEnd
  <2>1. /\ pc \in {"start", "shadow", "shadowed"}
        /\ pc' \in {"shadow", "shadowed", "pass"}
        /\ UNCHANGED <<ppis, notified, switchStackSignal>>
    BY <1>3
    DEF Start, ShadowPass, InShadowLoop, ShadowNext, ShadowNextFv, ShadowEnd
  <2>2. ~switchStackSignal
    BY <2>1 DEF SwitchOK, Where
  <2> QED
    BY <1>2, <2>1, <2>2
<1>4. CASE ShadowPeim
  <2>1. /\ pc = "shadow" /\ after' = "shadowed" /\ same
        /\ \/ pc' = "code" /\ running'[1] = "shadow"
           \/ pc' = "notify"
    BY <1>4 DEF ShadowPeim, InShadowLoop, Call, ProcessDispatchNotifyList
  <2>2. Where = "shadow" /\ Where' = "shadowed"
    BY <2>1 DEF Where
  <2>3. Moved'
    BY <2>1, <2>2 DEF SwitchOK, Moved
  <2> QED
    BY <2>1, <2>2, <2>3 DEF SettledOK
<1>5. CASE PassStart \/ FvStart \/ FvNext \/ PassEnd \/ PeimNext
  <2>1. /\ pc \in {"pass", "fv", "peim", "next"}
        /\ pc' \in {"fv", "peim", "pass", "end"}
        /\ UNCHANGED <<ppis, notified, switchStackSignal>>
    BY <1>5 DEF PassStart, FvStart, FvNext, PassEnd, PeimNext
  <2>2. ~switchStackSignal
    BY <2>1 DEF SwitchOK, Where
  <2> QED
    BY <1>2, <2>1, <2>2
<1>6. CASE PeimPassed \/ DepexFalse
  <2>1. /\ pc = "peim" /\ pc' = "delayed"
        /\ UNCHANGED <<ppis, notified, switchStackSignal>>
    BY <1>6 DEF PeimPassed, DepexFalse, Undispatched, InPeimLoop
  <2>2. ~switchStackSignal
    BY <2>1 DEF SwitchOK, Where
  <2> QED
    BY <1>2, <2>1, <2>2
<1>7. CASE DispatchImage \/ LoadFails \/ SecurityViolation
  <2>1. /\ pc = "peim" /\ pc' = "switch1"
        /\ UNCHANGED <<ppis, notified, switchStackSignal>>
    BY <1>7
    DEF DispatchImage, LoadFails, SecurityViolation, PeimReady, Undispatched,
        InPeimLoop
  <2>2. ~switchStackSignal
    BY <2>1 DEF SwitchOK, Where
  <2>3. Settled(Q)'
    BY <2>1, SettledFrame DEF SettledOK
  <2> QED
    BY <2>1, <2>2, <2>3 DEF SettledOK, Tame, Where
<1>8. CASE DispatchPeim
  <2>1. pc' = "code" /\ running'[1] = "peim"
    BY <1>8 DEF DispatchPeim, Call
  <2> QED
    BY <2>1 DEF SettledOK, Moved, Where
<1>9. CASE PeiCheckAndSwitchStack
  <2>1. CASE switchStackSignal
    <3>1. dispatchOnThisPass
      BY <1>9, <2>1 DEF PeiCheckAndSwitchStack, SettledOK, Moved
    <3>2. pc' = "notify" /\ after' = "start" /\ dispatchOnThisPass'
      BY <1>9, <2>1, <3>1
      DEF PeiCheckAndSwitchStack, SwitchStack, ProcessDispatchNotifyList
    <3> QED
      BY <3>2 DEF SettledOK, Moved, Where
  <2>2. CASE ~switchStackSignal /\ pc = "switch1"
    <3>1. /\ pc' = "notify" /\ after' = "switch2" /\ same
      BY <1>9, <2>2 DEF PeiCheckAndSwitchStack, ProcessDispatchNotifyList
    <3>2. ~Moved' => Settled(Q)'
      BY <2>2, <3>1, SettledFrame DEF SettledOK, Moved
    <3> QED
      BY <2>2, <3>1, <3>2 DEF SettledOK, Tame, Where
  <2>3. CASE ~switchStackSignal /\ pc # "switch1"
    <3>1. pc = "switch2" /\ pc' = "inline" /\ same
      BY <1>9, <2>3 DEF PeiCheckAndSwitchStack
    <3> QED
      BY <1>2, <2>3, <3>1
  <2> QED
    BY <2>1, <2>2, <2>3
<1>10. CASE InlineShadow
  <2>1. pc = "inline" /\ same
    BY <1>10 DEF InlineShadow
  <2>2. ~switchStackSignal
    BY <2>1 DEF SwitchOK, Where
  <2>3. CASE pc' = "delayed"
    BY <1>2, <2>1, <2>2, <2>3
  <2>4. CASE pc' # "delayed"
    <3>1. pc' = "code" /\ running'[1] = "shadow" /\ after' = "delayed"
          /\ peimState[CurrentFile] = REGISTER_FOR_SHADOW
      BY <1>10, <2>4 DEF InlineShadow, Call
    <3>2. Moved'
      BY <1>10, <2>1, <3>1
      DEF InlineShadow, LookedOK, Moved, Where, Checking, NOT_DISPATCHED, REGISTER_FOR_SHADOW
    <3> QED
      BY <3>1, <3>2 DEF SettledOK, Where
  <2> QED
    BY <2>3, <2>4
<1>11. CASE \E p \in Ppi : DispatchNotify(p)
  <2>1. PICK p \in ppis \ notified : DispatchNotify(p)
    BY <1>11 DEF DispatchNotify
  <2>2. /\ pc = "notify" /\ pc' = "code" /\ running' = <<"notify", p>>
        /\ after' = after /\ ppis' = ppis /\ notified' = notified \cup {p}
        /\ UNCHANGED <<dispatchOnThisPass, switchStackSignal>>
    BY <2>1 DEF DispatchNotify, Call
  <2>3. Settled(Q) => Settled(Q)' /\ Tame(Q)'
    BY <2>1, <2>2 DEF Settled, Tame
  <2>4. Where' = Where /\ (Moved <=> Moved')
    BY <2>2 DEF Where, Moved
  <2> QED
    BY <2>2, <2>3, <2>4 DEF SettledOK
<1>12. CASE NotifyListReturns
  <2>1. pc = "notify" /\ pc' = after /\ ppis = notified /\ same
    BY <1>12 DEF NotifyListReturns
  <2>2. Settled(Q)' /\ Tame(Q)'
    BY <1>0, <2>1 DEF Settled, Tame, Return
  <2>3. ~Moved' => ~switchStackSignal'
    BY <2>1 DEF SettledOK, Moved
  <2> QED
    BY <2>2, <2>3 DEF SettledOK
<1>13. CASE DelayedCycleEnds
  <2>1. /\ pc = "delayed" /\ same
        /\ \/ pc' = "next"
           \/ pc' = "notify" /\ after' = "next"
    BY <1>13 DEF DelayedCycleEnds, ProcessDispatchNotifyList
  <2>2. ~switchStackSignal
    BY <2>1 DEF SwitchOK, Where
  <2> QED
    BY <1>2, <2>1, <2>2
<1>14. CASE PeimReturns
  <2>1. pc' = "switch1" /\ dispatchOnThisPass'
    BY <1>14 DEF PeimReturns
  <2> QED
    BY <2>1 DEF SettledOK, Moved, Where
<1>15. CASE ShadowReturns
  <2>1. /\ pc = "code" /\ running[1] = "shadow" /\ pc' = "notify"
        /\ after' = after /\ same
    BY <1>15 DEF ShadowReturns, Returns, ProcessDispatchNotifyList
  <2>2. ~Tame(Q) /\ ~(running[1] = "peim")
    BY <2>1 DEF Tame
  <2>3. Moved' /\ Where' # "next"
    BY <2>1, <2>2 DEF SettledOK, Moved, Where
  <2> QED
    BY <2>1, <2>3 DEF SettledOK
<1>16. CASE NotifyReturns
  <2>1. /\ pc = "code" /\ running[1] = "notify" /\ pc' = "notify"
        /\ after' = after /\ same
    BY <1>16 DEF NotifyReturns, Returns
  <2>2. Where' = Where /\ (Moved <=> Moved') /\ (Settled(Q) => Settled(Q)')
    BY <2>1, SettledFrame DEF Moved, Where
  <2> QED
    BY <2>1, <2>2 DEF SettledOK, Tame
<1>17. CASE \E d \in Delayed : DelayedExpires(d)
  <2>1. PICK d \in Delayed : DelayedExpires(d)
    BY <1>17
  <2>2. pc = "delayed" /\ pc' = "code" /\ running' = <<"delayed", d>> /\ same
    BY <2>1 DEF DelayedExpires, Call
  <2>3. ~switchStackSignal
    BY <2>2 DEF SwitchOK, Where
  <2>4. Settled(Q)' /\ Tame(Q)'
    BY <2>2, SettledFrame DEF SettledOK, Tame
  <2> QED
    BY <2>2, <2>3, <2>4 DEF SettledOK
<1>18. CASE \E state \in {"waiting", "gone"} : DelayedReturns(state)
  <2>1. pc = "code" /\ running[1] = "delayed" /\ pc' = "delayed" /\ same
    BY <1>18 DEF DelayedReturns, Returns
  <2>2. ~switchStackSignal
    BY <2>1 DEF SwitchOK, Where
  <2>3. Settled(Q)' /\ Tame(Q)'
    BY <2>1, SettledFrame DEF SettledOK, Tame
  <2> QED
    BY <2>1, <2>2, <2>3 DEF SettledOK
<1>19. CASE UNCHANGED vars \/ \E state \in {"waiting", "gone"} : EarlyReturns(state)
  BY <1>19 DEF vars, EarlyReturns, SettledOK, Settled, Tame, Moved, Where
<1> QED
  BY <1>1, <1>3, <1>4, <1>5, <1>6, <1>7, <1>8, <1>9, <1>10, <1>11, <1>12,
     <1>13, <1>14, <1>15, <1>16, <1>17, <1>18, <1>19
  DEF Next, Dispatcher, DelayedWork, DelayedDone, DxeIpl

\* Before anybody was dispatched, only PPIs set aside are installed.
LEMMA PpisStill ==
  ASSUME NEW Q \in SUBSET Ppi, Aside(Q), TypeOK, SettledOK(Q), ~Moved, [Next]_vars
  PROVE  ppis \subseteq ppis' /\ ppis' \ ppis \subseteq Q
PROOF
<1> USE DEF database
<1>1. CASE Services
  <2>1. Tame(Q)
    BY DEF SettledOK
  <2>2. ASSUME NEW p \in ppis', p \notin ppis
        PROVE  May("install", p)
    BY <1>1, <2>2
    DEF Services, InstallPpi, PublishFv, PeiInstallPeiMemory,
        PeiRegisterForShadow, PeiDelayedDispatchRegister
  <2>3. ppis \subseteq ppis'
    BY <1>1
    DEF Services, InstallPpi, PublishFv, PeiInstallPeiMemory,
        PeiRegisterForShadow, PeiDelayedDispatchRegister
  <2> QED
    BY <2>1, <2>2, <2>3, TameServices
<1>2. CASE PeiCheckAndSwitchStack
  <2>1. ~switchStackSignal
    BY DEF SettledOK
  <2> QED
    BY <1>2, <2>1 DEF PeiCheckAndSwitchStack
<1>3. CASE ~Services /\ ~PeiCheckAndSwitchStack
  <2>1. ppis' = ppis
    BY <1>3
    DEF Next, Dispatcher, DelayedWork, DelayedDone, DxeIpl, vars, OpenImage,
        Start, ShadowPass, ShadowPeim, ShadowNext, ShadowNextFv, ShadowEnd,
        PassStart, FvStart, PeimPassed, DepexFalse, DispatchImage, LoadFails,
        SecurityViolation, DispatchPeim, InlineShadow, PeimNext, FvNext, PassEnd,
        DispatchNotify, NotifyListReturns, DelayedCycleEnds, PeimReturns,
        ShadowReturns, NotifyReturns, DelayedExpires, DelayedReturns, EarlyReturns
  <2> QED
    BY <2>1
<1> QED
  BY <1>1, <1>2, <1>3

\* What is set aside makes no file ready.
LEMMA BlockedStays ==
  ASSUME NEW Q \in SUBSET Ppi, Aside(Q), TypeOK, TypeOK', SecStays,
         ppis \subseteq ppis', ppis' \ ppis \subseteq Q,
         NEW f \in File, Independent(Q, f), Blocked(f)
  PROVE  Blocked(f)'
PROOF
<1>1. /\ ppis \in SUBSET Ppi /\ ppis' \in SUBSET Ppi
      /\ SecPpis \subseteq ppis /\ SecPpis \subseteq ppis'
  BY DEF TypeOK, SecStays
<1>2. /\ ppis \in Depex[f] <=> ppis \cup Q \in Depex[f]
      /\ ppis' \in Depex[f] <=> ppis' \cup Q \in Depex[f]
  BY <1>1 DEF Independent
<1>3. ppis \cup Q = ppis' \cup Q
  OBVIOUS
<1>4. ppis' \in Depex[f] => ppis \in Depex[f]
  BY <1>2, <1>3
<1>5. ASSUME NeedsToLoad[f] \cup NeedsToVerify[f] \subseteq ppis'
      PROVE  NeedsToLoad[f] \cup NeedsToVerify[f] \subseteq ppis
  <2>1. (NeedsToLoad[f] \cup NeedsToVerify[f]) \cap Q \subseteq SecPpis
    BY DEF Independent
  <2> QED
    BY <1>1, <1>5, <2>1
<1> QED
  BY <1>4, <1>5 DEF Blocked, Extractable, Readable, Trusted

LEMMA RecordedStays ==
  ASSUME NEW Q \in SUBSET Ppi, Aside(Q), TypeOK, TypeOK', SecStays, SettledOK(Q),
         [Next]_vars, needingDispatch => needingDispatch', Moved => Moved',
         NEW f \in File, Independent(Q, f), Recorded(f)
  PROVE  Recorded(f)'
PROOF
<1>1. peimState'[f] = NOT_DISPATCHED => peimState[f] = NOT_DISPATCHED
  BY OnlyForward DEF NothingUndone
<1>2. ~Moved /\ Blocked(f) => Blocked(f)'
  BY PpisStill, BlockedStays
<1> QED
  BY <1>1, <1>2 DEF Recorded

\* What the main loop has looked at after a step, it had looked at before.
NoneNew == \A f \in File : LookedAt(f)' => LookedAt(f)

LEMMA RecordFrame ==
  ASSUME NEW Q \in SUBSET Ppi, Aside(Q), TypeOK, TypeOK', SecStays, SettledOK(Q),
         [Next]_vars, needingDispatch => needingDispatch', Moved => Moved',
         PassRecorded(Q), NoneNew
  PROVE  PassRecorded(Q)'
PROOF
<1>1. \A f \in Served(Q) : Recorded(f) => Recorded(f)'
  BY RecordedStays DEF Served
<1> QED
  BY <1>1 DEF PassRecorded, NoneNew, Served

\* A quiet step looks at nothing.
LEMMA QuietNoneNew ==
  ASSUME TypeOK, TypeOK', PositionOK, Extended, Quiet
  PROVE  NoneNew
PROOF
<1>1. /\ fvs \in Seq(Fv) /\ Base \in Nat \X Nat /\ Base' = Base
      /\ (Where' \in Inside => Where \in Inside) /\ fvs' \in Seq(Fv)
  BY DEF TypeOK, Base, Quiet
<1> SUFFICES ASSUME NEW f \in File, LookedAt(f)'
             PROVE  LookedAt(f)
  BY DEF NoneNew
<1> PICK i \in 1 .. Len(fvs') :
      \E j \in 1 .. Len(Order(fvs'[i])) : Visited(i, j)' /\ f = Order(fvs'[i])[j]
  BY DEF LookedAt
<1>2. PICK j \in 1 .. Len(Order(fvs'[i])) : Visited(i, j)' /\ f = Order(fvs'[i])[j]
  OBVIOUS
<1>3. \/ i <= Base[1]
      \/ i = Base[1] + 1 /\ j <= IF Where' \in Inside THEN Base[2] + 1 ELSE Base[2]
  BY <1>1, <1>2 DEF Visited
<1>4. j \in Nat /\ j >= 1 /\ i \in Nat /\ i >= 1
  <2>1. fvs'[i] \in Fv
    BY <1>1
  <2>2. Len(Order(fvs'[i])) \in Nat
    BY <2>1, OrderLists
  <2> QED
    BY <1>1, <2>2
<1>5. Visited(i, j)
  BY <1>1, <1>3, <1>4 DEF Visited
<1>6. Base[1] <= Len(fvs) /\ (Where \in Inside \/ Base[2] # 0 => Base[1] < Len(fvs))
  BY DEF PositionOK, InVolume
<1>7. i \in 1 .. Len(fvs)
  BY <1>1, <1>3, <1>4, <1>6
<1>8. fvs'[i] = fvs[i]
  BY <1>7 DEF Extended
<1> QED
  BY <1>2, <1>5, <1>7, <1>8 DEF LookedAt

\* At the beginning of a pass the main loop has looked at nothing.
LEMMA NothingVisited ==
  ASSUME NEW Q, TypeOK, Base = <<0, 0>>, Where \notin Inside
  PROVE  PassRecorded(Q)
PROOF
<1> SUFFICES ASSUME NEW i \in 1 .. Len(fvs), NEW j \in 1 .. Len(Order(fvs[i])),
                    Visited(i, j)
             PROVE  FALSE
  BY DEF PassRecorded, LookedAt
<1>1. fvs[i] \in Fv /\ i \in Nat /\ i >= 1
  BY DEF TypeOK
<1>2. Len(Order(fvs[i])) \in Nat
  BY <1>1, OrderLists
<1>3. j \in Nat /\ j >= 1
  BY <1>2
<1> QED
  BY <1>1, <1>3 DEF Visited

LEMMA NothingVisitedNext ==
  ASSUME NEW Q
  PROVE  (TypeOK /\ Base = <<0, 0>> /\ Where \notin Inside => PassRecorded(Q))'
PROOF
<1>1. TypeOK /\ Base = <<0, 0>> /\ Where \notin Inside => PassRecorded(Q)
  BY NothingVisited
<1> QED
  BY <1>1, PTL

\* The record of the pass is only dropped when a pass begins.
LEMMA FlagsStay ==
  ASSUME TypeOK, [Next]_vars, ~PassStart
  PROVE  (needingDispatch => needingDispatch') /\ (Moved => Moved')
PROOF
<1> USE DEF flags, Moved, At, GoTo, Call
<1>1. needingDispatch => needingDispatch'
  BY DEF Next, Services, Dispatcher, DelayedWork, DelayedDone, DxeIpl, vars,
      InstallPpi, PublishFv, PeiInstallPeiMemory, PeiRegisterForShadow,
      PeiDelayedDispatchRegister, OpenImage, Start, ShadowPass, ShadowPeim,
      ShadowNext, ShadowNextFv, ShadowEnd, FvStart, PeimPassed, DepexFalse,
      DispatchImage, LoadFails, SecurityViolation, DispatchPeim,
      PeiCheckAndSwitchStack, SwitchStack, InlineShadow, PeimNext, FvNext,
      PassEnd, DispatchNotify, NotifyListReturns, DelayedCycleEnds, PeimReturns,
      ShadowReturns, NotifyReturns, DelayedExpires, DelayedReturns, EarlyReturns
<1>2. dispatchOnThisPass => dispatchOnThisPass'
  BY DEF Next, Services, Dispatcher, DelayedWork, DelayedDone, DxeIpl, vars,
      InstallPpi, PublishFv, PeiInstallPeiMemory, PeiRegisterForShadow,
      PeiDelayedDispatchRegister, OpenImage, Start, ShadowPass, ShadowPeim,
      ShadowNext, ShadowNextFv, ShadowEnd, FvStart, PeimPassed, DepexFalse,
      DispatchImage, LoadFails, SecurityViolation, DispatchPeim,
      PeiCheckAndSwitchStack, SwitchStack, InlineShadow, PeimNext, FvNext,
      PassEnd, DispatchNotify, NotifyListReturns, DelayedCycleEnds, PeimReturns,
      ShadowReturns, NotifyReturns, DelayedExpires, DelayedReturns, EarlyReturns
<1>3. ASSUME pc = "code", running[1] = "peim"
      PROVE  Moved'
  <2>1. \/ dispatchOnThisPass'
        \/ UNCHANGED <<pc, running>>
    BY <1>3
    DEF Next, Services, Dispatcher, DelayedWork, DelayedDone, DxeIpl, vars,
      InstallPpi, PublishFv, PeiInstallPeiMemory, PeiRegisterForShadow,
      PeiDelayedDispatchRegister, OpenImage, Start, ShadowPass, ShadowPeim,
      InShadowLoop, ShadowNext, ShadowNextFv, ShadowEnd, PassStart, FvStart,
      PeimPassed, InPeimLoop, DepexFalse, Undispatched, DispatchImage, LoadFails,
      PeimReady, SecurityViolation, DispatchPeim, PeiCheckAndSwitchStack,
      InlineShadow, PeimNext, FvNext, PassEnd, DispatchNotify,
      NotifyListReturns, DelayedCycleEnds, Returns, PeimReturns, ShadowReturns,
      NotifyReturns, DelayedExpires, DelayedReturns, EarlyReturns
  <2> QED
    BY <1>3, <2>1
<1> QED
  BY <1>1, <1>2, <1>3

\* The count of Apriori files, step by step.
LEMMA CountStep ==
  TypeOK /\ TypeOK' /\ PositionOK /\ CountOK /\ [Next]_vars => CountOK'
PROOF
<1> SUFFICES ASSUME TypeOK, TypeOK', PositionOK, CountOK, [Next]_vars
             PROVE  CountOK'
  OBVIOUS
<1>1. /\ fvs \in Seq(Fv) /\ Len(fvs') \in Nat /\ Base \in Nat \X Nat
      /\ currentFv \in Nat /\ currentPeim \in Nat
  BY DEF TypeOK, Base
<1>2. ASSUME Base' = Base, aprioriCount' = aprioriCount
      PROVE  CountOK'
  <2> SUFFICES ASSUME aprioriCount # 0
               PROVE  /\ Base[1] < Len(fvs')
                      /\ aprioriCount <= Len(AprioriPart(fvs'[Base[1] + 1]))
    BY <1>2 DEF CountOK
  <2>1. Base[1] < Len(fvs) /\ Base[1] + 1 \in 1 .. Len(fvs)
    BY <1>1 DEF CountOK
  <2>2. fvs'[Base[1] + 1] = fvs[Base[1] + 1] /\ Len(fvs) <= Len(fvs')
    BY <2>1, OnlyForward DEF Extended
  <2> QED
    BY <1>1, <2>1, <2>2 DEF CountOK
<1>3. Quiet => CountOK'
  BY <1>2 DEF Quiet
<1>4. CASE OpenImage \/ Services
  BY <1>3, <1>4, ServiceQuiet
<1>5. CASE \/ Start \/ ShadowPass \/ ShadowPeim \/ ShadowNext \/ ShadowNextFv
           \/ ShadowEnd \/ PassStart
  BY <1>3, <1>5, ShadowQuiet
<1>6. CASE \/ PeiCheckAndSwitchStack \/ InlineShadow \/ DelayedCycleEnds
           \/ PeimReturns \/ ShadowReturns \/ NotifyReturns \/ NotifyListReturns
           \/ \E p \in Ppi : DispatchNotify(p)
           \/ \E d \in Delayed : DelayedExpires(d)
           \/ \E state \in {"waiting", "gone"} : DelayedReturns(state) \/ EarlyReturns(state)
  BY <1>3, <1>6, InsideQuiet
<1>7. CASE Look
  BY <1>2, <1>7, LookMoves
<1>8. CASE FvStart
  <2>1. /\ Base = <<currentFv, currentPeim>> /\ Base' = Base
        /\ currentFv < Len(fvs) /\ fvs' = fvs
    BY <1>8, LoopMoves DEF FvStart
  <2>2. Base[1] = currentFv /\ Base'[1] = currentFv
    BY <2>1
  <2>3. CurrentVolume \in Fv
    BY <1>1, <2>1 DEF CurrentVolume
  <2>4. Len(AprioriPart(CurrentVolume)) \in Nat
    BY <2>3, OrderLists
  <2>5. \/ aprioriCount' = aprioriCount
        \/ aprioriCount' = Len(AprioriPart(CurrentVolume))
    BY <1>8 DEF FvStart, DiscoverPeimsAndOrderWithApriori
  <2> QED
    BY <1>2, <2>1, <2>2, <2>4, <2>5 DEF CountOK, CurrentVolume
<1>9. CASE PeimNext
  <2>1. /\ Base = <<currentFv, currentPeim>>
        /\ Base' = <<currentFv, currentPeim + 1>>
        /\ fvs' = fvs /\ aprioriCount' = aprioriCount
    BY <1>9, LoopMoves DEF PeimNext, volumes
  <2>2. Base[1] = currentFv /\ Base'[1] = currentFv
    BY <2>1
  <2> QED
    BY <2>1, <2>2 DEF CountOK
<1>10. CASE FvNext
  BY <1>10 DEF FvNext, CountOK
<1>11. CASE PassEnd
  <2>1. /\ Base = <<currentFv, currentPeim>> /\ currentFv >= Len(fvs)
        /\ aprioriCount' = aprioriCount
    BY <1>11, LoopMoves DEF PassEnd
  <2>2. Base[1] = currentFv /\ Len(fvs) \in Nat
    BY <1>1, <2>1
  <2>3. aprioriCount = 0
    BY <1>1, <2>1, <2>2 DEF CountOK
  <2> QED
    BY <2>1, <2>3 DEF CountOK
<1>12. CASE UNCHANGED vars
  BY <1>12 DEF CountOK, Base, Where, vars, volumes, position
<1> QED
  BY <1>4, <1>5, <1>6, <1>7, <1>8, <1>9, <1>10, <1>11, <1>12
  DEF Next, Dispatcher, DelayedWork, DelayedDone, DxeIpl, Look

\* A file the main loop looks at is dispatched by then, or now, or it is
\* recorded.
LEMMA LookRecords ==
  ASSUME TypeOK, PositionOK, SecStays, CountOK, [Next]_vars, Look,
         NEW f \in File, Loads(f), f = CurrentFile
  PROVE  Recorded(f)'
PROOF
<1>1. peimState \in [File -> Nat]
  BY DEF TypeOK
<1>2. CASE PeimPassed
  <2>1. peimState[f] # NOT_DISPATCHED
    BY <1>2 DEF PeimPassed
  <2> QED
    BY <2>1, OnlyForward DEF NothingUndone, Recorded
<1>3. CASE DepexFalse
  <2>1. ppis \notin Depex[f] /\ ppis' = ppis /\ needingDispatch'
    BY <1>3 DEF DepexFalse, DepexSatisfied, database
  <2> QED
    BY <2>1 DEF Recorded, Blocked
<1>4. CASE DispatchImage
  <2>1. CASE ProcessFvFileSucceeds(f)
    <3>1. peimState' = [peimState EXCEPT ![f] = DISPATCHED]
      BY <1>4, <2>1 DEF DispatchImage
    <3> QED
      BY <1>1, <3>1 DEF Recorded, DISPATCHED, NOT_DISPATCHED
  <2>2. CASE ~ProcessFvFileSucceeds(f)
    <3>1. ppis' = ppis /\ needingDispatch' /\ ~Extractable(f)
      BY <1>4, <2>2 DEF DispatchImage, ProcessFvFileSucceeds, database
    <3> QED
      BY <3>1 DEF Recorded, Blocked, Extractable, Readable, Trusted
  <2> QED
    BY <2>1, <2>2
<1>5. CASE LoadFails
  <2>1. ~IsImage(f) /\ DepexSatisfied(f) /\ ~Readable(f)
    BY <1>5 DEF LoadFails, PeimReady
  <2>2. ppis \in SUBSET Ppi /\ SecPpis \subseteq ppis
    BY DEF TypeOK, SecStays
  <2>3. ppis \notin Depex[f] /\ ~(\E v \in Fv : f \in Elements(AprioriPart(v)))
    BY <2>1, <2>2 DEF Loads, Readable
  <2>4. currentPeim < aprioriCount
    BY <2>1, <2>3 DEF DepexSatisfied
  <2>5. /\ currentPeim < PeimCount(CurrentVolume)
        /\ Base = <<currentFv, currentPeim>>
    BY LookMoves
  <2>6. CurrentVolume \in Fv /\ currentPeim \in Nat /\ aprioriCount \in Nat
    BY <2>5, CurrentFileType DEF TypeOK
  <2>7. AprioriPart(CurrentVolume) \in Seq(File)
        /\ Len(AprioriPart(CurrentVolume)) \in Nat
    BY <2>6, OrderLists
  <2>8. Base[1] = currentFv /\ aprioriCount # 0
    BY <2>4, <2>5, <2>6
  <2>9. aprioriCount <= Len(AprioriPart(CurrentVolume))
    BY <2>8 DEF CountOK, CurrentVolume
  <2>10. currentPeim + 1 \in 1 .. Len(AprioriPart(CurrentVolume))
    BY <2>4, <2>6, <2>7, <2>9
  <2>11. f = AprioriPart(CurrentVolume)[currentPeim + 1]
    BY <2>6, <2>10, OrderLists DEF CurrentFile
  <2> QED
    BY <2>3, <2>6, <2>7, <2>10, <2>11 DEF Elements
<1>6. CASE SecurityViolation
  <2>1. ppis' = ppis /\ needingDispatch' /\ ~Trusted(f)
    BY <1>6 DEF SecurityViolation, database
  <2> QED
    BY <2>1 DEF Recorded, Blocked, Extractable, Trusted
<1>7. CASE DispatchPeim
  <2>1. peimState' = [peimState EXCEPT ![f] = DISPATCHED]
    BY <1>7 DEF DispatchPeim
  <2> QED
    BY <1>1, <2>1 DEF Recorded, DISPATCHED, NOT_DISPATCHED
<1> QED
  BY <1>2, <1>3, <1>4, <1>5, <1>6, <1>7 DEF Look

\* The record of the pass, step by step.
LEMMA RecordStep ==
  ASSUME NEW Q \in SUBSET Ppi, Aside(Q)
  PROVE  BInv(Q) /\ TypeOK' /\ [Next]_vars => PassRecorded(Q)'
PROOF
<1> SUFFICES ASSUME BInv(Q), TypeOK', [Next]_vars
             PROVE  PassRecorded(Q)'
  OBVIOUS
<1>1. /\ TypeOK /\ PositionOK /\ SecStays /\ SettledOK(Q) /\ SwitchOK
      /\ PassRecorded(Q) /\ CountOK /\ Extended
  BY OnlyForward DEF BInv
<1>2. /\ fvs \in Seq(Fv) /\ fvs' \in Seq(Fv) /\ scanned \subseteq Fv
      /\ currentFv \in Nat /\ currentPeim \in Nat
  BY <1>1 DEF TypeOK
<1>3. /\ ~PassStart => (needingDispatch => needingDispatch')
      /\ ~PassStart => (Moved => Moved')
  BY <1>1, FlagsStay
<1>4. ~PassStart /\ NoneNew => PassRecorded(Q)'
  BY <1>1, <1>3, RecordFrame
<1>5. ~PassStart /\ Quiet => PassRecorded(Q)'
  BY <1>1, <1>4, QuietNoneNew
<1>6. CASE OpenImage \/ Services
  <2>1. Quiet
    BY <1>1, <1>6, ServiceQuiet
  <2>2. pc = "pass" => OpenImage
    BY <1>6
    DEF Services, InstallPpi, PublishFv, PeiInstallPeiMemory,
        PeiRegisterForShadow, PeiDelayedDispatchRegister, May, At
  <2>3. ~PassStart
    BY <2>2 DEF PassStart, At, OpenImage
  <2> QED
    BY <1>5, <2>1, <2>3
<1>7. CASE Start \/ ShadowPass \/ ShadowPeim \/ ShadowNext \/ ShadowNextFv
           \/ ShadowEnd
  <2>1. Quiet
    BY <1>1, <1>7, ShadowQuiet
  <2>2. ~PassStart
    BY <1>7
    DEF PassStart, At, Start, ShadowPass, ShadowPeim, InShadowLoop, ShadowNext,
        ShadowNextFv, ShadowEnd
  <2> QED
    BY <1>5, <2>1, <2>2
<1>8. CASE PassStart
  <2>1. Quiet
    BY <1>1, <1>8, ShadowQuiet
  <2>2. CASE reenter
    <3>1. UNCHANGED <<needingDispatch, dispatchOnThisPass>> /\ pc = "pass"
      BY <1>8, <2>2 DEF PassStart, At
    <3>2. needingDispatch => needingDispatch'
      BY <3>1
    <3>3. Moved => Moved'
      BY <3>1 DEF Moved
    <3>4. NoneNew
      BY <1>1, <2>1, QuietNoneNew
    <3> QED
      BY <1>1, <3>2, <3>3, <3>4, RecordFrame
  <2>3. CASE ~reenter
    <3>1. Base = <<0, 0>>
      BY <1>1, <1>8, <2>3 DEF PassStart, At, SwitchOK, Where
    <3>2. Base' = <<0, 0>> /\ Where' \notin Inside
      BY <1>8, <2>1, <3>1 DEF Quiet, PassStart, GoTo, Where, Inside
    <3> QED
      BY <3>2, NothingVisitedNext
  <2> QED
    BY <2>2, <2>3
<1>9. CASE \/ PeiCheckAndSwitchStack \/ InlineShadow \/ DelayedCycleEnds
           \/ PeimReturns \/ ShadowReturns \/ NotifyReturns \/ NotifyListReturns
           \/ \E p \in Ppi : DispatchNotify(p)
           \/ \E d \in Delayed : DelayedExpires(d)
           \/ \E state \in {"waiting", "gone"} : DelayedReturns(state) \/ EarlyReturns(state)
  <2>1. Quiet
    BY <1>1, <1>9, InsideQuiet
  <2>2. ~PassStart
    BY <1>9
    DEF PassStart, At, PeiCheckAndSwitchStack, InlineShadow, DelayedCycleEnds,
        PeimReturns, ShadowReturns, NotifyReturns, NotifyListReturns, Returns,
        DispatchNotify, DelayedExpires, DelayedReturns, EarlyReturns
  <2> QED
    BY <1>5, <2>1, <2>2
<1>10. CASE Look
  <2>1. /\ Where = "peim" /\ Base = <<currentFv, currentPeim>> /\ Base' = Base
        /\ currentPeim < PeimCount(CurrentVolume)
    BY <1>1, <1>10, LookMoves
  <2>2. Base[1] = currentFv /\ Base[2] = currentPeim
        /\ Base'[1] = currentFv /\ Base'[2] = currentPeim
    BY <2>1
  <2>3. CurrentFile \in File
    BY <1>1, <2>1, CurrentFileType
  <2>4. currentFv < Len(fvs) /\ currentFv + 1 \in 1 .. Len(fvs)
    BY <1>1, <1>2, <2>1, <2>2 DEF PositionOK, InVolume
  <2>5. ASSUME NEW f \in File, LookedAt(f)', f # CurrentFile
        PROVE  LookedAt(f)
    <3> PICK i \in 1 .. Len(fvs') :
          \E j \in 1 .. Len(Order(fvs'[i])) : Visited(i, j)' /\ f = Order(fvs'[i])[j]
      BY <2>5 DEF LookedAt
    <3>1. PICK j \in 1 .. Len(Order(fvs'[i])) :
            Visited(i, j)' /\ f = Order(fvs'[i])[j]
      OBVIOUS
    <3>2. Len(Order(fvs'[i])) \in Nat /\ i \in Nat /\ i >= 1
      BY <1>2, OrderLists
    <3>3. j \in Nat
      BY <3>2
    <3>4. i <= currentFv \/ (i = currentFv + 1 /\ j <= currentPeim + 1)
      BY <1>2, <2>2, <3>1, <3>2, <3>3 DEF Visited
    <3>5. i \in 1 .. Len(fvs) /\ fvs'[i] = fvs[i]
      BY <1>1, <1>2, <2>4, <3>2, <3>4, SMTT(30) DEF Extended
    <3>6. ~(i = currentFv + 1 /\ j = currentPeim + 1)
      BY <2>5, <3>1, <3>5 DEF CurrentFile, CurrentVolume
    <3>7. Visited(i, j)
      BY <1>2, <2>1, <2>2, <3>2, <3>3, <3>4, <3>6 DEF Visited, Inside
    <3> QED
      BY <3>1, <3>5, <3>7 DEF LookedAt
  <2>6. ~PassStart
    BY <2>1 DEF PassStart, At, Where
  <2>7. \A f \in Served(Q) : Recorded(f) => Recorded(f)'
    BY <1>1, <1>3, <2>6, RecordedStays DEF Served
  <2>8. \A f \in Served(Q) : f = CurrentFile => Recorded(f)'
    BY <1>1, <1>10, LookRecords DEF Served
  <2> QED
    BY <1>1, <2>5, <2>7, <2>8 DEF PassRecorded, Served
<1>11. CASE FvStart
  <2>1. Where = "fv" /\ Where' = "peim" /\ Base' = Base /\ fvs' = fvs
    BY <1>1, <1>11, LoopMoves DEF FvStart
  <2>2. NoneNew
    BY <2>1 DEF NoneNew, LookedAt, Visited, Inside
  <2> QED
    BY <1>4, <2>1, <2>2 DEF PassStart, At, Where
<1>12. CASE PeimNext
  <2>1. /\ Where = "next" /\ Where' = "peim" /\ fvs' = fvs
        /\ Base = <<currentFv, currentPeim>>
        /\ Base' = <<currentFv, currentPeim + 1>>
    BY <1>1, <1>12, LoopMoves DEF PeimNext, volumes
  <2>2. NoneNew
    BY <2>1 DEF NoneNew, LookedAt, Visited, Inside
  <2> QED
    BY <1>4, <2>1, <2>2 DEF PassStart, At, Where
<1>13. CASE FvNext
  <2>1. /\ Where = "peim" /\ Where' = "fv" /\ fvs' = fvs
        /\ Base = <<currentFv, currentPeim>>
        /\ Base' = <<currentFv + 1, 0>>
        /\ currentPeim >= PeimCount(CurrentVolume)
    BY <1>1, <1>13, LoopMoves DEF FvNext, volumes
  <2>2. Base[1] = currentFv /\ Base[2] = currentPeim
        /\ Base'[1] = currentFv + 1 /\ Base'[2] = 0
    BY <2>1
  <2>3. CurrentVolume \in scanned
    BY <1>1, <2>1, <2>2 DEF PositionOK, InVolume, CurrentVolume
  <2>4. currentPeim >= Len(Order(CurrentVolume)) /\ Len(Order(CurrentVolume)) \in Nat
    BY <1>2, <2>1, <2>3, OrderLists DEF PeimCount
  <2>5. ASSUME NEW i \in 1 .. Len(fvs), NEW j \in 1 .. Len(Order(fvs[i])),
               Visited(i, j)'
        PROVE  Visited(i, j)
    <3>1. Len(Order(fvs[i])) \in Nat /\ i \in Nat
      BY <1>2, OrderLists
    <3>2. i <= currentFv + 1 \/ j <= 0
      BY <1>2, <2>1, <2>2, <2>5, <3>1 DEF Visited, Inside
    <3>3. i = currentFv + 1 => j <= currentPeim
      BY <1>2, <2>4, <3>1 DEF CurrentVolume
    <3> QED
      BY <1>2, <2>1, <2>2, <3>1, <3>2, <3>3 DEF Visited, Inside
  <2>6. NoneNew
    BY <2>1, <2>5 DEF NoneNew, LookedAt
  <2> QED
    BY <1>4, <2>1, <2>6 DEF PassStart, At, Where
<1>14. CASE PassEnd
  <2>1. /\ Where = "fv" /\ Where' \in {"pass", "end"}
        /\ Base = <<currentFv, currentPeim>>
        /\ Base' = <<0, currentPeim>> /\ currentFv >= Len(fvs)
    BY <1>1, <1>14, LoopMoves DEF PassEnd
  <2>2. Base[1] = currentFv /\ Base[2] = currentPeim
    BY <2>1
  <2>3. currentPeim = 0
    BY <1>1, <1>2, <2>1, <2>2 DEF PositionOK
  <2>4. Base' = <<0, 0>> /\ Where' \notin Inside
    BY <2>1, <2>3 DEF Inside
  <2> QED
    BY <2>4, NothingVisitedNext
<1>15. CASE UNCHANGED vars
  BY <1>1, <1>15
  DEF vars, volumes, position, flags, database, PassRecorded, LookedAt, Visited,
      Base, Where, Recorded, Blocked, Moved, Extractable, Readable, Trusted
<1> QED
  BY <1>6, <1>7, <1>8, <1>9, <1>10, <1>11, <1>12, <1>13, <1>14, <1>15
  DEF Next, Dispatcher, DelayedWork, DelayedDone, DxeIpl, Look

\* Giving up.
LEMMA EndStep ==
  ASSUME NEW Q \in SUBSET Ppi
  PROVE  BInv(Q) /\ TypeOK' /\ [Next]_vars => ServedAll(Q)'
PROOF
<1> SUFFICES ASSUME BInv(Q), TypeOK', [Next]_vars, pc' = "end"
             PROVE  \A f \in Served(Q) : ~Ready(f)'
  BY DEF ServedAll
<1>1. TypeOK /\ PositionOK /\ PassRecorded(Q) /\ ServedAll(Q)
  BY DEF BInv
<1>2. PassEnd \/ UNCHANGED vars
  <2>1. ~(OpenImage \/ Services)
    BY <1>1, ServiceQuiet DEF Quiet
  <2>2. ~(\/ Start \/ ShadowPass \/ ShadowPeim \/ ShadowNext \/ ShadowNextFv
          \/ ShadowEnd \/ PassStart)
    BY <1>1, ShadowQuiet DEF Quiet
  <2>3. ~(\/ PeiCheckAndSwitchStack \/ InlineShadow \/ DelayedCycleEnds
          \/ PeimReturns \/ ShadowReturns \/ NotifyReturns \/ NotifyListReturns
          \/ \E p \in Ppi : DispatchNotify(p)
          \/ \E d \in Delayed : DelayedExpires(d)
          \/ \E state \in {"waiting", "gone"} : DelayedReturns(state) \/ EarlyReturns(state))
    BY <1>1, InsideQuiet DEF Quiet
  <2>4. ~Look
    BY <1>1, LookMoves
  <2>5. ~FvStart /\ ~PeimNext /\ ~FvNext
    BY DEF FvStart, PeimNext, FvNext, GoTo
  <2> QED
    BY <2>1, <2>2, <2>3, <2>4, <2>5
    DEF Next, Dispatcher, DelayedWork, DelayedDone, DxeIpl, Look
<1>3. CASE UNCHANGED vars
  BY <1>1, <1>3
  DEF vars, volumes, database, ServedAll, Ready, Known, Extractable,
      Readable, Trusted
<1>4. CASE PassEnd
  <2>1. /\ pc = "fv" /\ currentFv >= Len(fvs)
        /\ fvs' = fvs /\ peimState' = peimState /\ ppis' = ppis
        /\ ~(needingDispatch /\ dispatchOnThisPass)
    BY <1>4 DEF PassEnd, At, GoTo, volumes, database
  <2>2. fvs \in Seq(Fv) /\ currentFv \in Nat /\ Base[1] = currentFv /\ ~(pc = "code")
    BY <1>1, <2>1 DEF TypeOK, Base, Where
  <2>3. SUFFICES ASSUME NEW f \in Served(Q), Ready(f)
                 PROVE  FALSE
    BY <2>1 DEF Ready, Known, Extractable, Readable, Trusted
  <2>4. PICK v \in Elements(fvs) : f \in Elements(FilesOf[v])
    BY <2>3 DEF Ready, Known
  <2>5. PICK i \in 1 .. Len(fvs) : v = fvs[i]
    BY <2>2, <2>4 DEF Elements
  <2>6. v \in Fv
    BY <2>2, <2>5
  <2>7. Order(v) \in Seq(File) /\ f \in Elements(Order(v))
    BY <2>4, <2>6, OrderLists
  <2>8. PICK j \in 1 .. Len(Order(v)) : f = Order(v)[j]
    BY <2>7 DEF Elements
  <2>9. Visited(i, j)
    BY <2>1, <2>2 DEF Visited
  <2>10. Recorded(f)
    BY <1>1, <2>5, <2>8, <2>9 DEF PassRecorded, LookedAt
  <2> QED
    BY <2>1, <2>2, <2>3, <2>10 DEF Ready, Recorded, Blocked, Moved
<1> QED
  BY <1>2, <1>3, <1>4

\* No file is left behind that neither waits for a PPI set aside nor is to be
\* read with one that comes later than its dependency expression holds: it
\* could not be dispatched when the dispatcher gives up, whatever else the code
\* called does: volumes found late, PPIs installed by PEIMs, by shadow entries
\* and by notifications, memory discovered at any point.
THEOREM ServedAreNotLeftBehind ==
  ASSUME NEW Q \in SUBSET Ppi, Aside(Q)
  PROVE  Spec => []ServedAll(Q)
PROOF
<1>1. Init => BInv(Q)
  <2> SUFFICES ASSUME Init
               PROVE  BInv(Q)
    OBVIOUS
  <2>1. TypeOK /\ PositionOK /\ Base = <<0, 0>>
    BY InitType, InitPosition
  <2>2. /\ pc = "start" /\ ppis = SecPpis /\ ~switchStackSignal
        /\ ~memoryInstalled /\ ~reenter
    BY DEF Init
  <2>3. Where = "start"
    BY <2>2 DEF Where
  <2>4. SettledOK(Q)
    BY <2>2, <2>3 DEF SettledOK, Settled, Tame, Aside
  <2>5. LookedOK /\ SwitchOK /\ CountOK
    BY <2>1, <2>2, <2>3 DEF LookedOK, Checking, SwitchOK, CountOK, Init
  <2>6. PassRecorded(Q)
    BY <2>1, <2>3, NothingVisited DEF Inside
  <2> QED
    BY <2>1, <2>2, <2>4, <2>5, <2>6 DEF BInv, SecStays, ServedAll
<1>2. BInv(Q) /\ [Next]_vars => BInv(Q)'
  <2>1. BInv(Q) /\ [Next]_vars => TypeOK' /\ PositionOK' /\ SecStays'
    BY TypeStep, PositionStep, SecStep DEF BInv
  <2>2. BInv(Q) /\ [Next]_vars => SettledOK(Q)' /\ LookedOK' /\ SwitchOK'
    BY SettledStep, LookedStep, SwitchStep DEF BInv
  <2>3. BInv(Q) /\ [Next]_vars => CountOK' /\ PassRecorded(Q)' /\ ServedAll(Q)'
    BY <2>1, CountStep, RecordStep, EndStep DEF BInv
  <2> QED
    BY <2>1, <2>2, <2>3 DEF BInv
<1>3. BInv(Q) => ServedAll(Q)
  BY DEF BInv
<1> QED
  BY <1>1, <1>2, <1>3, PTL DEF Spec

\* If every file is of that kind, nobody is left behind.
THEOREM NobodyIsLeftBehind ==
  ASSUME NEW Q \in SUBSET Ppi, Aside(Q), Served(Q) = File
  PROVE  Spec => []NobodyLeftBehind
PROOF
<1>1. ServedAll(Q) => NobodyLeftBehind
  BY DEF ServedAll, NobodyLeftBehind
<1> QED
  BY <1>1, ServedAreNotLeftBehind, PTL
=============================================================================
