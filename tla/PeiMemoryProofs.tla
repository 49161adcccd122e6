-------------------------- MODULE PeiMemoryProofs --------------------------
(***************************************************************************)
(* Proofs about PeiMemory for memories of any size, any requests and any   *)
(* bounds: no two memory allocation HOBs overlap, every page above the     *)
(* tops is accounted for, and the services implement PageStore.            *)
(***************************************************************************)
EXTENDS PeiMemory, WellFoundedInduction, FiniteSetTheorems, TLAPS

-----------------------------------------------------------------------------
(* HOB lists.                                                              *)

HobRecord == [base : Int, pages : Nat, type : AllocTypes \cup {"unused", "other"}]

AllPages(hs)   == HobPages(hs, Allocation(hs))
TakenPages(hs) == HobPages(hs, Taken(hs))

Disjoint(hs) == \A j, k \in Allocation(hs) : j # k => ~ Meet(hs[j], hs[k])

\* hs is changed to new by adding HOB h in a place of no allocation, or not
\* at all.
Adds(hs, new, h) ==
  \/ new = hs
  \/ \E n \in DOMAIN new :
       /\ n \notin Allocation(hs) /\ new[n] = h
       /\ DOMAIN new = DOMAIN hs \cup {n}
       /\ \A j \in DOMAIN hs \ {n} : new[j] = hs[j]

\* The first of some positions is one of them.
LEMMA FirstIn ==
  ASSUME NEW S \in SUBSET Nat, S # {}
  PROVE  First(S) \in S /\ \A j \in S : First(S) <= j
PROOF
<1> DEFINE less == {ss \in Nat \X Nat : ss[1] < ss[2]}
<1>1. IsWellFoundedOn(less, Nat)
  BY NatLessThanWellFounded DEF OpToRel
<1>2. PICK x \in S : \A y \in S : ~ (<<y, x>> \in less)
  BY <1>1, WFMin
<1>3. \A y \in Nat : y < x => <<y, x>> \in less
  OBVIOUS
<1>4. \A y \in S : ~ (y < x)
  BY <1>2, <1>3
<1>5. \A y \in S : x <= y
  BY <1>4
<1> QED
  BY <1>5 DEF First

\* InternalBuildMemoryAllocationHob adds the HOB or does nothing.
LEMMA BuildAdds ==
  ASSUME NEW hs \in Seq(HobRecord), NEW t, NEW h \in HobRecord
  PROVE  /\ BuildHob(hs, t, h) \in Seq(HobRecord)
         /\ Adds(hs, BuildHob(hs, t, h), h)
PROOF
<1> DEFINE U == {k \in DOMAIN hs : hs[k].type = "unused"}
           new == BuildHob(hs, t, h)
<1>1. CASE U # {}
  <2>1. First(U) \in U
    <3>1. U \in SUBSET Nat
      OBVIOUS
    <3> QED
      BY <1>1, <3>1, FirstIn
  <2>2. new = [hs EXCEPT ![First(U)] = h]
    BY <1>1 DEF BuildHob
  <2> DEFINE n == First(U)
  <2> HIDE DEF n
  <2>3. n \in DOMAIN hs /\ n \notin Allocation(hs) /\ new = [hs EXCEPT ![n] = h]
    BY <2>1, <2>2 DEF Allocation, AllocTypes, n
  <2> HIDE DEF new, U
  <2>4. new \in Seq(HobRecord) /\ DOMAIN new = DOMAIN hs
    BY <2>3
  <2>5. Adds(hs, new, h)
    BY <2>3, <2>4 DEF Adds
  <2> QED
    BY <2>4, <2>5 DEF new
<1>2. CASE U = {} /\ HobRoom(hs, t) > 0
  <2>1. new = Append(hs, h)
    BY <1>2 DEF BuildHob
  <2> DEFINE n == Len(hs) + 1
  <2>2. /\ new \in Seq(HobRecord) /\ DOMAIN new = DOMAIN hs \cup {n}
        /\ n \notin DOMAIN hs /\ new[n] = h
        /\ \A j \in DOMAIN hs : new[j] = hs[j]
    BY <2>1
  <2> HIDE DEF new, n
  <2>3. Adds(hs, new, h)
    BY <2>2 DEF Adds, Allocation
  <2> QED
    BY <2>2, <2>3 DEF new
<1>3. CASE U = {} /\ ~ (HobRoom(hs, t) > 0)
  <2>1. new = hs
    BY <1>3 DEF BuildHob
  <2> QED
    BY <2>1 DEF Adds
<1> QED
  BY <1>1, <1>2, <1>3

\* What adding a HOB of pages no other HOB has does to the pages.
LEMMA AddsPages ==
  ASSUME NEW hs \in Seq(HobRecord), NEW new \in Seq(HobRecord),
         NEW h \in HobRecord, Adds(hs, new, h), h.type \in AllocTypes,
         Disjoint(hs), PagesOf(h) \cap AllPages(hs) = {}
  PROVE  /\ Disjoint(new)
         /\ \/ /\ AllPages(new) = AllPages(hs)
               /\ TakenPages(new) = TakenPages(hs)
            \/ /\ AllPages(new) = AllPages(hs) \cup PagesOf(h)
               /\ TakenPages(new) = TakenPages(hs)
                    \cup (IF h.type = "conventional" THEN {} ELSE PagesOf(h))
PROOF
<1>1. CASE new = hs
  BY <1>1
<1>2. CASE new # hs
  <2>1. PICK n \in DOMAIN new :
          /\ n \notin Allocation(hs) /\ new[n] = h
          /\ DOMAIN new = DOMAIN hs \cup {n}
          /\ \A j \in DOMAIN hs \ {n} : new[j] = hs[j]
    BY <1>2 DEF Adds
  <2>2. Allocation(new) = Allocation(hs) \cup {n}
    BY <2>1 DEF Allocation
  <2>3. \A j \in Allocation(hs) : new[j] = hs[j] /\ j # n
    BY <2>1 DEF Allocation
  <2>4. Taken(new) = Taken(hs) \cup (IF h.type = "conventional" THEN {} ELSE {n})
    BY <2>1, <2>3 DEF Taken, Allocation, AllocTypes
  <2>5. Taken(hs) \subseteq Allocation(hs)
    BY DEF Taken, Allocation, AllocTypes
  <2>6. \A j \in Allocation(hs) : PagesOf(hs[j]) \subseteq AllPages(hs)
    BY DEF AllPages, HobPages
  <2>7. Disjoint(new)
    BY <2>1, <2>2, <2>3, <2>6 DEF Disjoint, Meet
  <2>8. AllPages(new) = AllPages(hs) \cup PagesOf(h)
    BY <2>1, <2>2, <2>3 DEF AllPages, HobPages
  <2>9. TakenPages(new) = TakenPages(hs)
          \cup (IF h.type = "conventional" THEN {} ELSE PagesOf(h))
    BY <2>1, <2>3, <2>4, <2>5 DEF TakenPages, HobPages
  <2> QED
    BY <2>7, <2>8, <2>9
<1> QED
  BY <1>1, <1>2

\* What changing allocation HOB k to g does to the pages.
IsReplaced(hs, k, g, new) ==
  /\ new \in Seq(HobRecord) /\ Disjoint(new)
  /\ new[k] = g /\ Len(new) = Len(hs)
  /\ AllPages(new) = (AllPages(hs) \ PagesOf(hs[k]))
       \cup (IF g.type \in AllocTypes THEN PagesOf(g) ELSE {})
  /\ TakenPages(new) = (TakenPages(hs) \ PagesOf(hs[k]))
       \cup (IF g.type \in {"boot", "runtime"} THEN PagesOf(g) ELSE {})

\* It does that when the new range takes nothing from the other HOBs.
LEMMA ReplacePages ==
  ASSUME NEW hs \in Seq(HobRecord), NEW k \in Allocation(hs),
         NEW g \in HobRecord, Disjoint(hs),
         PagesOf(g) \cap (AllPages(hs) \ PagesOf(hs[k])) = {}
  PROVE  IsReplaced(hs, k, g, [hs EXCEPT ![k] = g])
PROOF
<1> DEFINE new == [hs EXCEPT ![k] = g]
<1>0. k \in DOMAIN hs
  BY DEF Allocation
<1>1. /\ new \in Seq(HobRecord) /\ DOMAIN new = DOMAIN hs /\ new[k] = g
      /\ Len(new) = Len(hs) /\ \A j \in DOMAIN hs \ {k} : new[j] = hs[j]
  BY <1>0
<1> HIDE DEF new
<1>2. Allocation(new) = (Allocation(hs) \ {k})
                          \cup (IF g.type \in AllocTypes THEN {k} ELSE {})
  BY <1>0, <1>1 DEF Allocation
<1>3. Taken(new) = (Taken(hs) \ {k})
                     \cup (IF g.type \in {"boot", "runtime"} THEN {k} ELSE {})
  BY <1>0, <1>1 DEF Taken
<1>4. Taken(hs) \subseteq Allocation(hs) /\ Allocation(hs) \subseteq DOMAIN hs
  BY DEF Taken, Allocation, AllocTypes
<1>5. \A j \in Allocation(hs) \ {k} :
        /\ PagesOf(hs[j]) \cap PagesOf(hs[k]) = {}
        /\ PagesOf(hs[j]) \subseteq AllPages(hs) \ PagesOf(hs[k])
        /\ new[j] = hs[j]
  <2>1. \A j \in Allocation(hs) \ {k} : PagesOf(hs[j]) \cap PagesOf(hs[k]) = {}
    BY DEF Disjoint, Meet
  <2>2. \A j \in Allocation(hs) : PagesOf(hs[j]) \subseteq AllPages(hs)
    BY DEF AllPages, HobPages
  <2> QED
    BY <1>1, <1>4, <2>1, <2>2
<1>6. Disjoint(new)
  BY <1>1, <1>2, <1>5 DEF Disjoint, Meet
<1>7. \A p : p \in AllPages(hs) \ PagesOf(hs[k])
               <=> \E j \in Allocation(hs) \ {k} : p \in PagesOf(hs[j])
  BY <1>5 DEF AllPages, HobPages
<1>8. \A p : p \in TakenPages(hs) \ PagesOf(hs[k])
               <=> \E j \in Taken(hs) \ {k} : p \in PagesOf(hs[j])
  BY <1>4, <1>5 DEF TakenPages, HobPages
<1>9. AllPages(new) = (AllPages(hs) \ PagesOf(hs[k]))
        \cup (IF g.type \in AllocTypes THEN PagesOf(g) ELSE {})
  <2>1. \A p : p \in AllPages(new) <=> \E j \in Allocation(new) : p \in PagesOf(new[j])
    BY DEF AllPages, HobPages
  <2> QED
    BY <1>1, <1>2, <1>5, <1>7, <2>1
<1>10. TakenPages(new) = (TakenPages(hs) \ PagesOf(hs[k]))
         \cup (IF g.type \in {"boot", "runtime"} THEN PagesOf(g) ELSE {})
  <2>1. \A p : p \in TakenPages(new) <=> \E j \in Taken(new) : p \in PagesOf(new[j])
    BY DEF TakenPages, HobPages
  <2> QED
    BY <1>1, <1>3, <1>4, <1>5, <1>8, <2>1
<1> QED
  BY <1>1, <1>6, <1>9, <1>10 DEF IsReplaced, new

\* A HOB added before another one is changed may as well be added after it.
LEMMA AddsCommute ==
  ASSUME NEW hs \in Seq(HobRecord), NEW new \in Seq(HobRecord),
         NEW h \in HobRecord, NEW g \in HobRecord, Adds(hs, new, h),
         NEW k \in Allocation(hs), g.type \in AllocTypes
  PROVE  /\ k \in DOMAIN hs /\ k \in Allocation(new) /\ new[k] = hs[k]
         /\ [new EXCEPT ![k] = g] \in Seq(HobRecord)
         /\ Adds([hs EXCEPT ![k] = g], [new EXCEPT ![k] = g], h)
PROOF
<1>1. CASE new = hs
  BY <1>1 DEF Adds, Allocation
<1>2. CASE new # hs
  <2>1. PICK n \in DOMAIN new :
          /\ n \notin Allocation(hs) /\ new[n] = h
          /\ DOMAIN new = DOMAIN hs \cup {n}
          /\ \A j \in DOMAIN hs \ {n} : new[j] = hs[j]
    BY <1>2 DEF Adds
  <2>2. k \in DOMAIN hs /\ k # n /\ k \in DOMAIN new /\ new[k] = hs[k]
    BY <2>1 DEF Allocation
  <2> DEFINE a == [hs EXCEPT ![k] = g]
             b == [new EXCEPT ![k] = g]
  <2>3. /\ DOMAIN a = DOMAIN hs /\ DOMAIN b = DOMAIN new
        /\ b \in Seq(HobRecord) /\ a[k] = g /\ b[k] = g
        /\ \A j \in DOMAIN hs \ {k} : a[j] = hs[j]
        /\ \A j \in DOMAIN new \ {k} : b[j] = new[j]
    BY <2>2
  <2> HIDE DEF a, b
  <2>4. n \notin Allocation(a) /\ b[n] = h
    BY <2>1, <2>2, <2>3 DEF Allocation
  <2>5. \A j \in DOMAIN a \ {n} : b[j] = a[j]
    BY <2>1, <2>2, <2>3
  <2>6. Adds(a, b, h)
    BY <2>1, <2>3, <2>4, <2>5 DEF Adds
  <2> QED
    BY <2>2, <2>3, <2>6 DEF a, b, Allocation
<1> QED
  BY <1>1, <1>2

RangeRecord == [base : Int, pages : Nat]

\* The pages of a range given by its base and its end.
LEMMA RangePages ==
  ASSUME NEW b \in Int, NEW e \in Int, NEW t
  PROVE  /\ PagesOf(Hob(b, e - b, t)) = b .. e - 1
         /\ e <= b => PagesOf(Hob(b, e - b, t)) = {}
PROOF
<1>1. /\ Hob(b, e - b, t).base = b /\ Hob(b, e - b, t).pages = e - b
      /\ b + (e - b) - 1 = e - 1
  BY DEF Hob
<1>2. PagesOf(Hob(b, e - b, t)) = b .. e - 1
  BY <1>1 DEF PagesOf, Top
<1>3. e <= b => (b .. e - 1) = {}
  OBVIOUS
<1> QED
  BY <1>2, <1>3

\* A range within a HOB cuts its pages in three.
LEMMA CutPages ==
  ASSUME NEW h \in HobRecord, NEW r \in RangeRecord, Within(r, h)
  PROVE  LET behind == Top(r) .. Top(h) - 1
             before == h.base .. r.base - 1
         IN  /\ PagesOf(h) = before \cup PagesOf(r) \cup behind
             /\ before \cap PagesOf(r) = {} /\ behind \cap PagesOf(r) = {}
             /\ before \cap behind = {}
             /\ Top(r) \in Int /\ Top(h) - Top(r) \in Nat /\ r.base - h.base \in Nat
             /\ PagesOf(Hob(Top(r), Top(h) - Top(r), h.type)) = behind
             /\ PagesOf(Hob(h.base, r.base - h.base, h.type)) = before
PROOF
<1>1. /\ h.base \in Int /\ h.pages \in Nat /\ r.base \in Int /\ r.pages \in Nat
      /\ h.base <= r.base /\ r.base + r.pages <= h.base + h.pages
  BY DEF HobRecord, RangeRecord, Within, Top
<1>2. /\ Top(r) \in Int /\ Top(h) - Top(r) \in Nat /\ r.base - h.base \in Nat
      /\ Top(r) = r.base + r.pages /\ Top(h) = h.base + h.pages
  BY <1>1 DEF Top
<1>3. /\ PagesOf(Hob(Top(r), Top(h) - Top(r), h.type)) = Top(r) .. Top(h) - 1
      /\ PagesOf(Hob(h.base, r.base - h.base, h.type)) = h.base .. r.base - 1
  <2>1. Top(h) \in Int
    BY <1>1, <1>2
  <2> QED
    BY <1>1, <1>2, <2>1, RangePages
<1>4. PagesOf(h) = h.base .. Top(h) - 1 /\ PagesOf(r) = r.base .. Top(r) - 1
  BY DEF PagesOf
<1>5. /\ h.base .. Top(h) - 1 = (h.base .. r.base - 1) \cup (r.base .. Top(r) - 1)
                                  \cup (Top(r) .. Top(h) - 1)
      /\ (h.base .. r.base - 1) \cap (r.base .. Top(r) - 1) = {}
      /\ (Top(r) .. Top(h) - 1) \cap (r.base .. Top(r) - 1) = {}
      /\ (h.base .. r.base - 1) \cap (Top(r) .. Top(h) - 1) = {}
  BY <1>1, <1>2
<1> QED
  BY <1>2, <1>3, <1>4, <1>5

\* What cutting the range r, of a new type, out of HOB k does: the rest of
\* the HOB keeps its type, but for the pages L that find no HOB.
IsSplit(hs, k, r, ty, new) ==
  LET old  == PagesOf(hs[k])
      rest == old \ PagesOf(r)
  IN  /\ new \in Seq(HobRecord) /\ Disjoint(new)
      /\ k \in Allocation(new) /\ new[k] = Hob(r.base, r.pages, ty)
      /\ PagesOf(r) \subseteq old /\ old \subseteq AllPages(hs)
      /\ \E L \in SUBSET rest :
           /\ AllPages(new) = AllPages(hs) \ L
           /\ TakenPages(new) = (TakenPages(hs) \ old)
                \cup (IF ty = "conventional" THEN {} ELSE PagesOf(r))
                \cup (IF hs[k].type = "conventional" THEN {} ELSE rest \ L)

\* UpdateOrSplitMemoryAllocationHob does that.
LEMMA SplitPages ==
  ASSUME NEW hs \in Seq(HobRecord), Disjoint(hs), NEW k \in Allocation(hs),
         NEW r \in RangeRecord, Within(r, hs[k]), NEW ty \in AllocTypes
  PROVE  IsSplit(hs, k, r, ty, SplitHob(hs, k, r, ty))
PROOF
<1> DEFINE h == hs[k]
           g == Hob(r.base, r.pages, ty)
           tt == HobTop(FreeTop)
           hb == Hob(Top(r), Top(h) - Top(r), h.type)
           ha == Hob(h.base, r.base - h.base, h.type)
           b1 == IF Top(r) < Top(h) THEN BuildHob(hs, tt, hb) ELSE hs
           b2 == IF r.base > h.base THEN BuildHob(b1, tt, ha) ELSE b1
           a0 == [hs EXCEPT ![k] = g]
           a1 == [b1 EXCEPT ![k] = g]
           a2 == [b2 EXCEPT ![k] = g]
           part(p) == IF h.type = "conventional" THEN {} ELSE p
<1>1. SplitHob(hs, k, r, ty) = a2
  BY DEF SplitHob
<1>2. /\ k \in DOMAIN hs /\ h \in HobRecord /\ h.type \in AllocTypes
      /\ h.base \in Int /\ h.pages \in Nat /\ r.base \in Int /\ r.pages \in Nat
  <2>1. k \in DOMAIN hs /\ h.type \in AllocTypes
    BY DEF Allocation
  <2>2. h \in HobRecord
    BY <2>1
  <2> QED
    BY <2>1, <2>2 DEF HobRecord, RangeRecord
<1>3. /\ Top(r) \in Int /\ Top(h) - Top(r) \in Nat /\ r.base - h.base \in Nat
      /\ PagesOf(h) = PagesOf(ha) \cup PagesOf(r) \cup PagesOf(hb)
      /\ PagesOf(ha) \cap PagesOf(r) = {} /\ PagesOf(hb) \cap PagesOf(r) = {}
      /\ PagesOf(ha) \cap PagesOf(hb) = {}
  <2> HIDE DEF h
  <2> QED
    BY <1>2, CutPages, ZenonT(30) DEF h
<1>4. /\ g \in HobRecord /\ hb \in HobRecord /\ ha \in HobRecord
      /\ hb.type = h.type /\ ha.type = h.type /\ g.type = ty
      /\ PagesOf(g) = PagesOf(r)
  BY <1>2, <1>3 DEF Hob, HobRecord, PagesOf, Top
<1>5. PagesOf(h) \subseteq AllPages(hs)
  BY DEF AllPages, HobPages
<1> HIDE DEF g, ha, hb, h, tt
<1>6. /\ a0 \in Seq(HobRecord) /\ Disjoint(a0) /\ a0[k] = g
      /\ AllPages(a0) = (AllPages(hs) \ PagesOf(h)) \cup PagesOf(r)
      /\ TakenPages(a0) = (TakenPages(hs) \ PagesOf(h))
           \cup (IF ty = "conventional" THEN {} ELSE PagesOf(r))
  <2>1. PagesOf(g) \cap (AllPages(hs) \ PagesOf(h)) = {}
    BY <1>3, <1>4
  <2>2. /\ a0 \in Seq(HobRecord) /\ Disjoint(a0) /\ a0[k] = g
        /\ AllPages(a0) = (AllPages(hs) \ PagesOf(h))
             \cup (IF g.type \in AllocTypes THEN PagesOf(g) ELSE {})
        /\ TakenPages(a0) = (TakenPages(hs) \ PagesOf(h))
             \cup (IF g.type \in {"boot", "runtime"} THEN PagesOf(g) ELSE {})
    <3>1. IsReplaced(hs, k, g, a0)
      BY <1>4, <2>1, ReplacePages DEF h
    <3> QED
      BY <3>1 DEF IsReplaced, h
  <2> HIDE DEF a0
  <2> QED
    BY <1>4, <2>2 DEF AllocTypes
<1> HIDE DEF a0, a1, a2
<1>7. /\ b1 \in Seq(HobRecord) /\ k \in Allocation(b1) /\ b1[k] = h
      /\ a1 \in Seq(HobRecord) /\ Disjoint(a1)
      /\ \E L \in SUBSET PagesOf(hb) :
           /\ AllPages(a1) = AllPages(a0) \cup (PagesOf(hb) \ L)
           /\ TakenPages(a1) = TakenPages(a0) \cup part(PagesOf(hb) \ L)
  <2>1. CASE Top(r) < Top(h)
    <3>1. b1 = BuildHob(hs, tt, hb)
      BY <2>1
    <3>2. b1 \in Seq(HobRecord) /\ Adds(hs, b1, hb)
      BY <1>4, <3>1, BuildAdds
    <3> HIDE DEF b1
    <3>3. /\ k \in Allocation(b1) /\ b1[k] = h /\ a1 \in Seq(HobRecord)
          /\ Adds(a0, a1, hb)
      <4>1. h = hs[k]
        BY DEF h
      <4>2. /\ k \in Allocation(b1) /\ b1[k] = hs[k]
            /\ [b1 EXCEPT ![k] = g] \in Seq(HobRecord)
            /\ Adds([hs EXCEPT ![k] = g], [b1 EXCEPT ![k] = g], hb)
        BY <1>4, <3>2, AddsCommute
      <4> QED
        BY <4>1, <4>2 DEF a0, a1
    <3>4. PagesOf(hb) \cap AllPages(a0) = {}
      BY <1>3, <1>6
    <3>5. /\ Disjoint(a1)
          /\ \/ /\ AllPages(a1) = AllPages(a0)
                /\ TakenPages(a1) = TakenPages(a0)
             \/ /\ AllPages(a1) = AllPages(a0) \cup PagesOf(hb)
                /\ TakenPages(a1) = TakenPages(a0) \cup part(PagesOf(hb))
      BY <1>2, <1>4, <1>6, <3>3, <3>4, AddsPages
    <3>6. CASE AllPages(a1) = AllPages(a0) /\ TakenPages(a1) = TakenPages(a0)
      <4>1. \E L \in SUBSET PagesOf(hb) :
              /\ AllPages(a1) = AllPages(a0) \cup (PagesOf(hb) \ L)
              /\ TakenPages(a1) = TakenPages(a0) \cup part(PagesOf(hb) \ L)
        <5>1. PagesOf(hb) \in SUBSET PagesOf(hb) /\ part(PagesOf(hb) \ PagesOf(hb)) = {}
              /\ PagesOf(hb) \ PagesOf(hb) = {}
          OBVIOUS
        <5> QED
          BY <3>6, <5>1
      <4> QED
        BY <3>2, <3>3, <3>5, <4>1
    <3>7. CASE /\ AllPages(a1) = AllPages(a0) \cup PagesOf(hb)
               /\ TakenPages(a1) = TakenPages(a0) \cup part(PagesOf(hb))
      <4>1. \E L \in SUBSET PagesOf(hb) :
              /\ AllPages(a1) = AllPages(a0) \cup (PagesOf(hb) \ L)
              /\ TakenPages(a1) = TakenPages(a0) \cup part(PagesOf(hb) \ L)
        <5>1. {} \in SUBSET PagesOf(hb) /\ part(PagesOf(hb) \ {}) = part(PagesOf(hb))
              /\ PagesOf(hb) \ {} = PagesOf(hb)
          OBVIOUS
        <5> QED
          BY <3>7, <5>1
      <4> QED
        BY <3>2, <3>3, <3>5, <4>1
    <3> QED
      BY <3>5, <3>6, <3>7
  <2>2. CASE ~ (Top(r) < Top(h))
    <3>1. b1 = hs /\ a1 = a0
      BY <2>2 DEF a0, a1
    <3>2. PagesOf(hb) = {}
      <4>1. Top(h) \in Int /\ Top(r) \in Int /\ Top(h) <= Top(r)
        BY <1>2, <2>2 DEF HobRecord, RangeRecord, Top
      <4> QED
        BY <4>1, RangePages DEF hb
    <3> HIDE DEF b1
    <3>3. \E L \in SUBSET PagesOf(hb) :
            /\ AllPages(a1) = AllPages(a0) \cup (PagesOf(hb) \ L)
            /\ TakenPages(a1) = TakenPages(a0) \cup part(PagesOf(hb) \ L)
      BY <3>1, <3>2
    <3> QED
      BY <1>6, <3>1, <3>3 DEF h
  <2> QED
    BY <2>1, <2>2
<1>8. PICK L1 \in SUBSET PagesOf(hb) :
        /\ AllPages(a1) = AllPages(a0) \cup (PagesOf(hb) \ L1)
        /\ TakenPages(a1) = TakenPages(a0) \cup part(PagesOf(hb) \ L1)
  BY <1>7
<1> HIDE DEF b1
<1>9. /\ b2 \in Seq(HobRecord) /\ k \in Allocation(b2)
      /\ a2 \in Seq(HobRecord) /\ Disjoint(a2)
      /\ \E L \in SUBSET PagesOf(ha) :
           /\ AllPages(a2) = AllPages(a1) \cup (PagesOf(ha) \ L)
           /\ TakenPages(a2) = TakenPages(a1) \cup part(PagesOf(ha) \ L)
  <2>1. CASE r.base > h.base
    <3>1. b2 = BuildHob(b1, tt, ha)
      BY <2>1
    <3>2. b2 \in Seq(HobRecord) /\ Adds(b1, b2, ha)
      BY <1>4, <1>7, <3>1, BuildAdds
    <3> HIDE DEF b2
    <3>3. /\ k \in Allocation(b2) /\ a2 \in Seq(HobRecord) /\ Adds(a1, a2, ha)
      BY <1>4, <1>7, <3>2, AddsCommute DEF a1, a2
    <3>4. PagesOf(ha) \cap AllPages(a1) = {}
      BY <1>3, <1>6, <1>8
    <3>5. /\ Disjoint(a2)
          /\ \/ /\ AllPages(a2) = AllPages(a1)
                /\ TakenPages(a2) = TakenPages(a1)
             \/ /\ AllPages(a2) = AllPages(a1) \cup PagesOf(ha)
                /\ TakenPages(a2) = TakenPages(a1) \cup part(PagesOf(ha))
      BY <1>2, <1>4, <1>7, <3>3, <3>4, AddsPages
    <3>6. CASE AllPages(a2) = AllPages(a1) /\ TakenPages(a2) = TakenPages(a1)
      <4>1. \E L \in SUBSET PagesOf(ha) :
              /\ AllPages(a2) = AllPages(a1) \cup (PagesOf(ha) \ L)
              /\ TakenPages(a2) = TakenPages(a1) \cup part(PagesOf(ha) \ L)
        <5>1. PagesOf(ha) \in SUBSET PagesOf(ha) /\ part(PagesOf(ha) \ PagesOf(ha)) = {}
              /\ PagesOf(ha) \ PagesOf(ha) = {}
          OBVIOUS
        <5> QED
          BY <3>6, <5>1
      <4> QED
        BY <1>7, <3>2, <3>3, <3>5, <4>1
    <3>7. CASE /\ AllPages(a2) = AllPages(a1) \cup PagesOf(ha)
               /\ TakenPages(a2) = TakenPages(a1) \cup part(PagesOf(ha))
      <4>1. \E L \in SUBSET PagesOf(ha) :
              /\ AllPages(a2) = AllPages(a1) \cup (PagesOf(ha) \ L)
              /\ TakenPages(a2) = TakenPages(a1) \cup part(PagesOf(ha) \ L)
        <5>1. {} \in SUBSET PagesOf(ha) /\ part(PagesOf(ha) \ {}) = part(PagesOf(ha))
              /\ PagesOf(ha) \ {} = PagesOf(ha)
          OBVIOUS
        <5> QED
          BY <3>7, <5>1
      <4> QED
        BY <1>7, <3>2, <3>3, <3>5, <4>1
    <3> QED
      BY <3>5, <3>6, <3>7
  <2>2. CASE ~ (r.base > h.base)
    <3>1. b2 = b1 /\ a2 = a1
      BY <2>2 DEF a1, a2
    <3>2. PagesOf(ha) = {}
      <4>1. h.base \in Int /\ r.base \in Int /\ r.base <= h.base
        BY <1>2, <2>2 DEF HobRecord, RangeRecord
      <4> QED
        BY <4>1, RangePages DEF ha
    <3> HIDE DEF b2
    <3>3. \E L \in SUBSET PagesOf(ha) :
            /\ AllPages(a2) = AllPages(a1) \cup (PagesOf(ha) \ L)
            /\ TakenPages(a2) = TakenPages(a1) \cup part(PagesOf(ha) \ L)
      BY <3>1, <3>2
    <3> QED
      BY <1>7, <3>1, <3>3
  <2> QED
    BY <2>1, <2>2
<1>10. PICK L2 \in SUBSET PagesOf(ha) :
         /\ AllPages(a2) = AllPages(a1) \cup (PagesOf(ha) \ L2)
         /\ TakenPages(a2) = TakenPages(a1) \cup part(PagesOf(ha) \ L2)
  BY <1>9
<1> HIDE DEF b2
<1>11. k \in Allocation(a2) /\ a2[k] = g
  <2>1. k \in DOMAIN b2
    BY <1>9 DEF Allocation
  <2>2. a2[k] = g /\ DOMAIN a2 = DOMAIN b2
    BY <1>9, <2>1 DEF a2
  <2> QED
    BY <1>4, <2>1, <2>2 DEF Allocation
<1>12. PagesOf(r) \subseteq PagesOf(h)
  BY <1>3
<1>13. AllPages(a2) = AllPages(hs) \ (L1 \cup L2)
  BY <1>3, <1>5, <1>6, <1>8, <1>10
<1>14. TakenPages(a2) = (TakenPages(hs) \ PagesOf(h))
         \cup (IF ty = "conventional" THEN {} ELSE PagesOf(r))
         \cup part((PagesOf(h) \ PagesOf(r)) \ (L1 \cup L2))
  <2>1. (PagesOf(h) \ PagesOf(r)) \ (L1 \cup L2)
          = (PagesOf(hb) \ L1) \cup (PagesOf(ha) \ L2)
    BY <1>3
  <2> QED
    BY <1>6, <1>8, <1>10, <2>1
<1>15. L1 \cup L2 \in SUBSET (PagesOf(h) \ PagesOf(r))
  BY <1>3
<1> QED
  BY <1>1, <1>5, <1>9, <1>11, <1>12, <1>13, <1>14, <1>15 DEF IsSplit, g, h

-----------------------------------------------------------------------------
(* The inductive invariant.                                                *)

TypeOK ==
  /\ hobs \in Seq(HobRecord)
  /\ freeMemoryTop \in Int /\ freePhysicalTop \in Int
  /\ switchStackSignal \in BOOLEAN /\ peiMemoryInstalled \in BOOLEAN
  /\ pc \in {Idle, "find", "merge", "join"}
  /\ request \in Requests \cup {NoRequest}
  /\ pc \in {"find", "merge"} => request \in Requests
  /\ cursor \in Nat /\ merged \in BOOLEAN
  /\ held \subseteq [base : Nat, pages : Nat \ {0}]
  /\ slack \subseteq Nat /\ lost \subseteq Nat

\* Between what the free memory that the services work on lies.
LowBound  == IF UsesPhysical THEN PhysicalBegin ELSE HobBase
HighBound == IF switchStackSignal THEN PhysicalEnd ELSE TempTop

TopsOK ==
  /\ peiMemoryInstalled => switchStackSignal
  /\ LowBound <= FreeTop /\ FreeTop <= HighBound
  /\ ~ peiMemoryInstalled => 0 <= freeMemoryTop /\ freeMemoryTop <= TempTop

\* A page is in one allocation HOB or lost, and never both.
PagesOnce ==
  /\ Disjoint(hobs)
  /\ AboveTop = AllPages(hobs) \cup lost
  /\ AllPages(hobs) \cap lost = {}

\* The HOBs that are not free are what callers hold.
HeldIsTaken ==
  /\ TakenPages(hobs) \subseteq PagesIn(held) \cup slack
  /\ PagesIn(held) \cup slack \subseteq TakenPages(hobs) \cup lost

HeldApart == \A r, s \in held : r # s => ~ Meet(r, s)

Inv == TypeOK /\ TopsOK /\ PagesOnce /\ HeldIsTaken /\ HeldApart

LEMMA Sizes ==
  /\ TempTop \in Nat \ {0} /\ HobsPerPage \in Nat \ {0} /\ RuntimePages \in Nat \ {0}
  /\ PhysicalBegin \in Nat /\ PhysicalEnd \in Nat /\ StackPages \in Nat
  /\ TempTop < PhysicalBegin /\ PhysicalBegin + StackPages < PhysicalEnd
BY MemoryAssumption

LEMMA RequestType ==
  ASSUME NEW q \in Requests
  PROVE  /\ q.type \in {"boot", "runtime"} /\ q.pages \in Nat \ {0}
         /\ Granularity(q) \in Nat \ {0}
BY MemoryAssumption DEF Granularity

\* Rounding gives no less than was asked for.
LEMMA RoundedBound ==
  ASSUME NEW q \in Requests
  PROVE  Rounded(q) \in Nat /\ Rounded(q) >= q.pages
PROOF
<1>1. q.pages \in Nat \ {0} /\ Granularity(q) \in Nat \ {0}
  BY RequestType
<1> DEFINE n == q.pages
           g == Granularity(q)
<1>2. Rounded(q) = (n + g - 1) - ((n + g - 1) % g)
  BY DEF Rounded, AlignUp, AlignDown
<1> HIDE DEF n, g
<1>3. n \in Nat \ {0} /\ g \in Nat \ {0}
  BY <1>1 DEF n, g
<1>4. (n + g - 1) % g \in 0 .. g - 1
  BY <1>3
<1> QED
  BY <1>2, <1>3, <1>4 DEF n

LEMMA AlignedBound ==
  ASSUME NEW p \in Int, NEW g \in Nat \ {0}
  PROVE  AlignDown(p, g) \in Int /\ AlignDown(p, g) <= p
BY DEF AlignDown

LEMMA TopTypes ==
  ASSUME TypeOK
  PROVE  FreeTop \in Int /\ LowBound \in Nat /\ HighBound \in Nat
BY Sizes DEF TypeOK, FreeTop, LowBound, HighBound, HobBase

\* More HOBs per page times fewer pages.
LEMMA RoomBound ==
  ASSUME NEW a \in Int, NEW b \in Int, a * HobsPerPage >= b * HobsPerPage
  PROVE  a >= b
BY Sizes

\* Pages taken below the top, and given back to it.
LEMMA TopDown ==
  ASSUME TypeOK, TopsOK, NEW t \in Int, LowBound <= t, t <= FreeTop,
         SetFreeTop(t), UNCHANGED phases
  PROVE  /\ freeMemoryTop' \in Int /\ freePhysicalTop' \in Int
         /\ switchStackSignal' \in BOOLEAN /\ peiMemoryInstalled' \in BOOLEAN
         /\ TopsOK'
         /\ AboveTop' = AboveTop \cup (t .. FreeTop - 1)
         /\ AboveTop \cap (t .. FreeTop - 1) = {}
         /\ FreeTop' = t
PROOF
<1>1. /\ switchStackSignal' = switchStackSignal
      /\ peiMemoryInstalled' = peiMemoryInstalled
      /\ switchStackSignal \in BOOLEAN /\ peiMemoryInstalled \in BOOLEAN
      /\ freeMemoryTop \in Int /\ freePhysicalTop \in Int
  BY DEF phases, TypeOK
<1>2. CASE UsesPhysical
  <2>1. /\ ~ peiMemoryInstalled /\ switchStackSignal /\ FreeTop = freePhysicalTop
        /\ freePhysicalTop' = t /\ freeMemoryTop' = freeMemoryTop
        /\ LowBound = PhysicalBegin /\ UsesPhysical'
    BY <1>1, <1>2 DEF UsesPhysical, FreeTop, SetFreeTop, LowBound
  <2>2. PhysicalBegin <= t /\ t <= freePhysicalTop /\ freePhysicalTop <= PhysicalEnd
        /\ 0 <= freeMemoryTop /\ freeMemoryTop <= TempTop
    BY <2>1 DEF TopsOK, HighBound
  <2>3. TopsOK'
    BY <1>1, <2>1, <2>2, Sizes DEF TopsOK, LowBound, HighBound, FreeTop
  <2>4. /\ AboveTop' = (freeMemoryTop .. TempTop - 1) \cup (t .. PhysicalEnd - 1)
        /\ AboveTop = (freeMemoryTop .. TempTop - 1)
                        \cup (freePhysicalTop .. PhysicalEnd - 1)
    BY <1>1, <2>1 DEF AboveTop
  <2>5. /\ AboveTop' = AboveTop \cup (t .. freePhysicalTop - 1)
        /\ AboveTop \cap (t .. freePhysicalTop - 1) = {}
    BY <1>1, <2>2, <2>4, Sizes
  <2> QED
    BY <1>1, <2>1, <2>3, <2>5 DEF FreeTop
<1>3. CASE ~ UsesPhysical
  <2>1. /\ FreeTop = freeMemoryTop /\ FreeTop' = freeMemoryTop'
        /\ freeMemoryTop' = t /\ freePhysicalTop' = freePhysicalTop
        /\ LowBound = HobBase /\ ~ UsesPhysical' /\ HobBase' = HobBase
    BY <1>1, <1>3 DEF UsesPhysical, FreeTop, SetFreeTop, LowBound, HobBase
  <2>2. HobBase <= t /\ t <= freeMemoryTop /\ freeMemoryTop <= HighBound
        /\ (~ peiMemoryInstalled => HobBase = 0 /\ ~ switchStackSignal)
        /\ (peiMemoryInstalled => HobBase = PhysicalBegin + StackPages)
    BY <1>1, <1>3, <2>1 DEF TopsOK, HobBase, UsesPhysical
  <2>3. TopsOK'
    BY <1>1, <2>1, <2>2, Sizes DEF TopsOK, LowBound, HighBound
  <2>4. CASE peiMemoryInstalled
    <3>1. /\ AboveTop' = (t .. PhysicalEnd - 1) \cup StackRange
          /\ AboveTop = (freeMemoryTop .. PhysicalEnd - 1) \cup StackRange
      BY <1>1, <2>1, <2>4 DEF AboveTop, StackRange
    <3>2. StackRange \subseteq Int /\ \A p \in StackRange : p < t
      BY <2>2, <2>4, Sizes DEF StackRange
    <3>3. freeMemoryTop <= PhysicalEnd
      BY <2>2, <2>4 DEF TopsOK, HighBound
    <3>4. /\ AboveTop' = AboveTop \cup (t .. freeMemoryTop - 1)
          /\ AboveTop \cap (t .. freeMemoryTop - 1) = {}
      BY <1>1, <2>2, <3>1, <3>2, <3>3, Sizes
    <3> QED
      BY <1>1, <2>1, <2>3, <3>4
  <2>5. CASE ~ peiMemoryInstalled
    <3>1. /\ AboveTop' = t .. TempTop - 1
          /\ AboveTop = freeMemoryTop .. TempTop - 1
      BY <1>1, <2>1, <2>2, <2>5 DEF AboveTop
    <3>2. freeMemoryTop <= TempTop
      BY <2>5 DEF TopsOK
    <3>3. /\ AboveTop' = AboveTop \cup (t .. freeMemoryTop - 1)
          /\ AboveTop \cap (t .. freeMemoryTop - 1) = {}
      BY <1>1, <2>2, <3>1, <3>2, Sizes
    <3> QED
      BY <1>1, <2>1, <2>3, <3>3
  <2> QED
    BY <2>4, <2>5
<1> QED
  BY <1>2, <1>3

LEMMA TopUp ==
  ASSUME TypeOK, TopsOK, NEW n \in Nat,
         FreeTop .. FreeTop + n - 1 \subseteq AboveTop,
         SetFreeTop(FreeTop + n), UNCHANGED phases
  PROVE  /\ freeMemoryTop' \in Int /\ freePhysicalTop' \in Int
         /\ switchStackSignal' \in BOOLEAN /\ peiMemoryInstalled' \in BOOLEAN
         /\ TopsOK'
         /\ AboveTop' = AboveTop \ (FreeTop .. FreeTop + n - 1)
PROOF
<1>1. /\ switchStackSignal' = switchStackSignal
      /\ peiMemoryInstalled' = peiMemoryInstalled
      /\ switchStackSignal \in BOOLEAN /\ peiMemoryInstalled \in BOOLEAN
      /\ freeMemoryTop \in Int /\ freePhysicalTop \in Int
  BY DEF phases, TypeOK
<1>2. FreeTop \in Int /\ (n > 0 => FreeTop + n - 1 \in AboveTop)
  BY TopTypes
<1>3. CASE UsesPhysical
  <2>1. /\ ~ peiMemoryInstalled /\ switchStackSignal /\ FreeTop = freePhysicalTop
        /\ freePhysicalTop' = FreeTop + n /\ freeMemoryTop' = freeMemoryTop
        /\ LowBound = PhysicalBegin /\ UsesPhysical'
    BY <1>1, <1>3 DEF UsesPhysical, FreeTop, SetFreeTop, LowBound
  <2>2. PhysicalBegin <= freePhysicalTop /\ freePhysicalTop <= PhysicalEnd
        /\ 0 <= freeMemoryTop /\ freeMemoryTop <= TempTop
    BY <2>1 DEF TopsOK, HighBound
  <2>3. /\ AboveTop' = (freeMemoryTop .. TempTop - 1)
                         \cup (freePhysicalTop + n .. PhysicalEnd - 1)
        /\ AboveTop = (freeMemoryTop .. TempTop - 1)
                        \cup (freePhysicalTop .. PhysicalEnd - 1)
    BY <1>1, <2>1 DEF AboveTop
  <2>4. freePhysicalTop + n <= PhysicalEnd
    BY <1>1, <1>2, <2>1, <2>2, <2>3, Sizes
  <2>5. TopsOK'
    BY <1>1, <2>1, <2>2, <2>4, Sizes DEF TopsOK, LowBound, HighBound, FreeTop
  <2>6. AboveTop' = AboveTop \ (freePhysicalTop .. freePhysicalTop + n - 1)
    BY <1>1, <2>2, <2>3, <2>4, Sizes
  <2> QED
    BY <1>1, <2>1, <2>5, <2>6
<1>4. CASE ~ UsesPhysical
  <2>1. /\ FreeTop = freeMemoryTop /\ FreeTop' = freeMemoryTop'
        /\ freeMemoryTop' = freeMemoryTop + n /\ freePhysicalTop' = freePhysicalTop
        /\ LowBound = HobBase /\ ~ UsesPhysical' /\ HobBase' = HobBase
    BY <1>1, <1>4 DEF UsesPhysical, FreeTop, SetFreeTop, LowBound, HobBase
  <2>2. HobBase <= freeMemoryTop /\ freeMemoryTop <= HighBound
        /\ (~ peiMemoryInstalled => HobBase = 0 /\ ~ switchStackSignal)
        /\ (peiMemoryInstalled => HobBase = PhysicalBegin + StackPages)
    BY <1>1, <1>4, <2>1 DEF TopsOK, HobBase, UsesPhysical
  <2>4. CASE peiMemoryInstalled
    <3>1. /\ AboveTop' = (freeMemoryTop + n .. PhysicalEnd - 1) \cup StackRange
          /\ AboveTop = (freeMemoryTop .. PhysicalEnd - 1) \cup StackRange
      BY <1>1, <2>1, <2>4 DEF AboveTop, StackRange
    <3>2. StackRange \subseteq Int /\ \A p \in StackRange : p < freeMemoryTop
      BY <1>1, <2>2, <2>4, Sizes DEF StackRange
    <3>3. freeMemoryTop <= PhysicalEnd /\ switchStackSignal
      BY <2>2, <2>4 DEF TopsOK, HighBound
    <3>4. freeMemoryTop + n <= PhysicalEnd
      <4>1. CASE n > 0
        <5>1. freeMemoryTop + n - 1 \in AboveTop
          BY <1>2, <2>1, <4>1
        <5>2. freeMemoryTop + n - 1 \notin StackRange
          BY <1>1, <3>2, <4>1
        <5> QED
          BY <1>1, <3>1, <5>1, <5>2, Sizes
      <4> QED
        BY <3>3, <4>1, <1>1
    <3>5. AboveTop' = AboveTop \ (freeMemoryTop .. freeMemoryTop + n - 1)
      BY <1>1, <2>2, <3>1, <3>2, <3>4, Sizes
    <3>6. TopsOK'
      BY <1>1, <2>1, <2>2, <2>4, <3>3, <3>4, Sizes DEF TopsOK, LowBound, HighBound
    <3> QED
      BY <1>1, <2>1, <3>5, <3>6
  <2>5. CASE ~ peiMemoryInstalled
    <3>1. /\ AboveTop' = freeMemoryTop + n .. TempTop - 1
          /\ AboveTop = freeMemoryTop .. TempTop - 1
      BY <1>1, <2>1, <2>2, <2>5 DEF AboveTop
    <3>2. freeMemoryTop <= TempTop
      BY <2>5 DEF TopsOK
    <3>3. freeMemoryTop + n <= TempTop
      BY <1>1, <1>2, <2>1, <3>1, <3>2, Sizes
    <3>4. AboveTop' = AboveTop \ (freeMemoryTop .. freeMemoryTop + n - 1)
      BY <1>1, <2>2, <3>1, <3>3, Sizes
    <3>5. TopsOK'
      BY <1>1, <2>1, <2>2, <2>5, <3>3, Sizes DEF TopsOK, LowBound, HighBound
    <3> QED
      BY <1>1, <2>1, <3>4, <3>5
  <2> QED
    BY <2>4, <2>5
<1> QED
  BY <1>3, <1>4

-----------------------------------------------------------------------------
(* PeiAllocatePages preserves the invariant.                               *)

\* What padding does: a HOB of free memory for the pages it loses, or pages
\* that are lost.
LEMMA Padding ==
  ASSUME TypeOK, TopsOK, PagesOnce, NEW q \in Requests, RoomForPadding(q)
  PROVE  /\ PaddedTop(q) \in Int /\ LowBound <= PaddedTop(q) /\ PaddedTop(q) <= FreeTop
         /\ PaddedHobs(q) \in Seq(HobRecord) /\ Disjoint(PaddedHobs(q))
         /\ TakenPages(PaddedHobs(q)) = TakenPages(hobs)
         /\ AllPages(hobs) \subseteq AllPages(PaddedHobs(q))
         /\ AllPages(PaddedHobs(q)) \subseteq
              AllPages(hobs) \cup (PaddedTop(q) .. FreeTop - 1)
         /\ LostToPadding(q) =
              (PaddedTop(q) .. FreeTop - 1) \ AllPages(PaddedHobs(q))
PROOF
<1> DEFINE p == PaddedTop(q)
           h == Hob(p, FreeTop - p, "conventional")
           new == PaddedHobs(q)
<1>1. FreeTop \in Int /\ LowBound \in Nat /\ hobs \in Seq(HobRecord) /\ Len(hobs) \in Nat
  BY TopTypes DEF TypeOK
<1>2. p \in Int /\ p <= FreeTop
  BY <1>1, RequestType, AlignedBound DEF PaddedTop
<1>3. LowBound <= p
  <2>1. CASE UsesPhysical
    <3>1. (FreeTop - PhysicalBegin) * HobsPerPage >= (FreeTop - p) * HobsPerPage
      BY <2>1 DEF RoomForPadding, RemainingMemory
    <3> QED
      BY <1>1, <1>2, <2>1, <3>1, RoomBound, Sizes DEF LowBound
  <2>2. CASE ~ UsesPhysical
    <3>1. (FreeTop - HobBase) * HobsPerPage - Len(hobs)
            >= (FreeTop - p) * HobsPerPage
      BY <2>2 DEF RoomForPadding, RemainingMemory, HobRoom
    <3>2. HobBase \in Int
      BY Sizes DEF HobBase
    <3> HIDE DEF p
    <3>3. (FreeTop - HobBase) * HobsPerPage >= (FreeTop - p) * HobsPerPage
      <4>1. (FreeTop - HobBase) * HobsPerPage \in Int
            /\ (FreeTop - p) * HobsPerPage \in Int
        BY <1>1, <1>2, <3>2, Sizes
      <4> QED
        BY <1>1, <3>1, <4>1
    <3> QED
      BY <1>1, <1>2, <2>2, <3>2, <3>3, RoomBound DEF LowBound
  <2> QED
    BY <2>1, <2>2
<1>4. /\ new \in Seq(HobRecord) /\ Disjoint(new)
      /\ TakenPages(new) = TakenPages(hobs)
      /\ AllPages(new) = AllPages(hobs)
           \/ AllPages(new) = AllPages(hobs) \cup (p .. FreeTop - 1)
  <2>1. CASE p < FreeTop
    <3>1. new = BuildHob(hobs, HobTop(p), h)
      BY <2>1 DEF PaddedHobs
    <3>2. /\ h \in HobRecord /\ h.type = "conventional"
          /\ PagesOf(h) = p .. FreeTop - 1
      BY <1>1, <1>2, <2>1 DEF h, Hob, HobRecord, PagesOf, Top, AllocTypes
    <3>3. AllPages(hobs) \cap (p .. FreeTop - 1) = {}
      <4>1. AllPages(hobs) \subseteq AboveTop
        BY DEF PagesOnce
      <4>2. AboveTop \cap (p .. FreeTop - 1) = {}
        <5>1. FreeTop <= HighBound
          BY DEF TopsOK
        <5> QED
          BY <1>1, <1>2, <1>3, Sizes
          DEF AboveTop, FreeTop, UsesPhysical, LowBound, HobBase, StackRange,
              TopsOK, TypeOK
      <4> QED
        BY <4>1, <4>2
    <3> HIDE DEF p, h, new
    <3>4. new \in Seq(HobRecord) /\ Adds(hobs, new, h)
      BY <1>1, <3>1, <3>2, BuildAdds
    <3>5. /\ Disjoint(new)
          /\ \/ /\ AllPages(new) = AllPages(hobs)
                /\ TakenPages(new) = TakenPages(hobs)
             \/ /\ AllPages(new) = AllPages(hobs) \cup PagesOf(h)
                /\ TakenPages(new) = TakenPages(hobs)
                     \cup (IF h.type = "conventional" THEN {} ELSE PagesOf(h))
      <4>1. Disjoint(hobs) /\ h.type \in AllocTypes
            /\ PagesOf(h) \cap AllPages(hobs) = {}
        BY <3>2, <3>3 DEF PagesOnce, AllocTypes
      <4> QED
        BY <1>1, <3>2, <3>4, <4>1, AddsPages, ZenonT(30)
    <3> QED
      BY <3>2, <3>4, <3>5
  <2>2. CASE ~ (p < FreeTop)
    BY <1>1, <2>2 DEF PaddedHobs, PagesOnce
  <2> QED
    BY <2>1, <2>2
<1>5. LostToPadding(q) = (p .. FreeTop - 1) \ AllPages(new)
  BY DEF LostToPadding, AllPages
<1> QED
  BY <1>2, <1>3, <1>4, <1>5

\* A request that fits below the top gets pages nobody has.
LEMMA FitsBound ==
  ASSUME TypeOK, TopsOK, PagesOnce, NEW q \in Requests, RoomForPadding(q),
         FitsBelowTop(q)
  PROVE  LowBound <= PaddedTop(q) - Rounded(q)
PROOF
<1> DEFINE p == PaddedTop(q)
           n == Rounded(q)
<1>1. p \in Int /\ n \in Nat /\ PaddedHobs(q) \in Seq(HobRecord)
  BY Padding, RoundedBound
<1>2. Len(PaddedHobs(q)) \in Nat /\ HobBase \in Int
  BY <1>1, Sizes DEF HobBase
<1>3. CASE UsesPhysical
  <2>1. (p - PhysicalBegin) * HobsPerPage > n * HobsPerPage
    BY <1>3 DEF FitsBelowTop, RemainingMemory
  <2> HIDE DEF p, n
  <2>2. p - PhysicalBegin >= n
    BY <1>1, <2>1, RoomBound, Sizes
  <2> QED
    BY <1>1, <1>3, <2>2, Sizes DEF LowBound, p, n
<1>4. CASE ~ UsesPhysical
  <2>1. (p - HobBase) * HobsPerPage - Len(PaddedHobs(q)) > n * HobsPerPage
    BY <1>4 DEF FitsBelowTop, RemainingMemory, HobRoom
  <2> HIDE DEF p, n
  <2>2. (p - HobBase) * HobsPerPage >= n * HobsPerPage
    <3>1. (p - HobBase) * HobsPerPage \in Int /\ n * HobsPerPage \in Int
      BY <1>1, <1>2, Sizes
    <3> QED
      BY <1>2, <2>1, <3>1
  <2>3. p - HobBase >= n
    BY <1>1, <1>2, <2>2, RoomBound
  <2> QED
    BY <1>1, <1>2, <1>4, <2>3 DEF LowBound, p, n
<1> QED
  BY <1>3, <1>4

\* What a caller gets at b is held and slack, and nothing else changes there.
LEMMA GivePages ==
  ASSUME TypeOK, HeldApart, NEW q \in Requests, NEW b \in Nat, Give(b, q),
         (b .. b + Rounded(q) - 1) \cap (PagesIn(held) \cup slack) = {}
  PROVE  /\ held' \subseteq [base : Nat, pages : Nat \ {0}] /\ slack' \subseteq Nat
         /\ HeldApart'
         /\ PagesIn(held') \cup slack' =
              PagesIn(held) \cup slack \cup (b .. b + Rounded(q) - 1)
PROOF
<1> DEFINE new == Block(b, q.pages)
<1>1. q.pages \in Nat \ {0} /\ Rounded(q) \in Nat /\ Rounded(q) >= q.pages
  BY RequestType, RoundedBound
<1>2. new \in [base : Nat, pages : Nat \ {0}] /\ PagesOf(new) = b .. b + q.pages - 1
  BY <1>1 DEF Block, PagesOf, Top
<1>3. held' = held \cup {new} /\ slack' = slack \cup (b + q.pages .. b + Rounded(q) - 1)
  BY DEF Give
<1> HIDE DEF new
<1>4. PagesIn(held') = PagesIn(held) \cup PagesOf(new)
  BY <1>3 DEF PagesIn
<1>5. b .. b + Rounded(q) - 1 = (b .. b + q.pages - 1)
                                 \cup (b + q.pages .. b + Rounded(q) - 1)
  BY <1>1
<1>6. \A r \in held : PagesOf(r) \subseteq PagesIn(held)
  BY DEF PagesIn
<1>7. \A r \in held : ~ Meet(r, new) /\ ~ Meet(new, r)
  BY <1>2, <1>5, <1>6 DEF Meet
<1>8. HeldApart'
  BY <1>3, <1>7 DEF HeldApart
<1>9. slack' \subseteq Nat
  <2>1. b + q.pages .. b + Rounded(q) - 1 \subseteq Nat
    BY <1>1
  <2>2. slack \subseteq Nat
    BY DEF TypeOK
  <2> QED
    BY <1>3, <2>1, <2>2
<1> QED
  BY <1>2, <1>3, <1>4, <1>5, <1>8, <1>9 DEF TypeOK

\* A request is served with pages that nobody holds.
GivesNew(q) ==
  \E b \in Page : /\ held' = held \cup {Block(b, q.pages)}
                 /\ PagesOf(Block(b, q.pages)) \cap PagesIn(held) = {}

LEMMA AllocateBelowTopInv ==
  ASSUME Inv, NEW q \in Requests, AllocateBelowTop(q)
  PROVE  Inv' /\ GivesNew(q)
PROOF
<1> DEFINE p == PaddedTop(q)
           n == Rounded(q)
           b == p - n
           h == Hob(b, n, q.type)
           hs == PaddedHobs(q)
           new == BuildHob(hs, HobTop(b), h)
<1>0. TypeOK /\ TopsOK /\ PagesOnce /\ HeldIsTaken /\ HeldApart
  BY DEF Inv
<1>1. /\ RoomForPadding(q) /\ FitsBelowTop(q) /\ SetFreeTop(b)
      /\ hobs' = new /\ Give(b, q)
      /\ lost' = lost \cup LostToPadding(q)
                   \cup ((b .. b + n - 1) \ AllPages(new))
      /\ UNCHANGED <<phases, pc, request, cursor, merged>>
  BY DEF AllocateBelowTop, AllPages
<1>2. /\ p \in Int /\ p <= FreeTop /\ n \in Nat /\ n >= q.pages /\ LowBound <= b
      /\ FreeTop \in Int /\ LowBound \in Nat
      /\ hs \in Seq(HobRecord) /\ Disjoint(hs)
      /\ TakenPages(hs) = TakenPages(hobs)
      /\ AllPages(hobs) \subseteq AllPages(hs)
      /\ AllPages(hs) \subseteq AllPages(hobs) \cup (p .. FreeTop - 1)
      /\ LostToPadding(q) = (p .. FreeTop - 1) \ AllPages(hs)
  BY <1>0, <1>1, Padding, FitsBound, RoundedBound, TopTypes
<1>3. /\ h \in HobRecord /\ h.type \in {"boot", "runtime"}
      /\ PagesOf(h) = b .. p - 1
  BY <1>2, RequestType DEF Hob, HobRecord, PagesOf, Top, AllocTypes
<1>4. b \in Nat /\ b <= p /\ b <= FreeTop /\ b + n = p
  BY <1>2
<1> HIDE DEF h, hs, n, p, b, new
<1>5. /\ freeMemoryTop' \in Int /\ freePhysicalTop' \in Int
      /\ switchStackSignal' \in BOOLEAN /\ peiMemoryInstalled' \in BOOLEAN
      /\ TopsOK'
      /\ AboveTop' = AboveTop \cup (b .. FreeTop - 1)
      /\ AboveTop \cap (b .. FreeTop - 1) = {}
  BY <1>0, <1>1, <1>2, <1>4, TopDown
<1>6. /\ b .. FreeTop - 1 = (b .. p - 1) \cup (p .. FreeTop - 1)
      /\ (b .. p - 1) \cap (p .. FreeTop - 1) = {}
      /\ b .. FreeTop - 1 \subseteq Nat
  BY <1>2, <1>4
<1>7. AllPages(hobs) \subseteq AboveTop /\ lost \subseteq AboveTop
  BY <1>0 DEF PagesOnce
<1>8. PagesOf(h) \cap AllPages(hs) = {}
  BY <1>2, <1>3, <1>5, <1>6, <1>7
<1>9. /\ new \in Seq(HobRecord) /\ Disjoint(new)
      /\ \/ AllPages(new) = AllPages(hs) /\ TakenPages(new) = TakenPages(hs)
         \/ /\ AllPages(new) = AllPages(hs) \cup (b .. p - 1)
            /\ TakenPages(new) = TakenPages(hs) \cup (b .. p - 1)
  <2>1. new \in Seq(HobRecord) /\ Adds(hs, new, h)
    BY <1>2, <1>3, BuildAdds DEF new
  <2>2. h.type \in AllocTypes /\ h.type # "conventional"
    BY <1>3 DEF AllocTypes
  <2>3. /\ Disjoint(new)
        /\ \/ /\ AllPages(new) = AllPages(hs)
              /\ TakenPages(new) = TakenPages(hs)
           \/ /\ AllPages(new) = AllPages(hs) \cup PagesOf(h)
              /\ TakenPages(new) = TakenPages(hs)
                   \cup (IF h.type = "conventional" THEN {} ELSE PagesOf(h))
    BY <1>2, <1>3, <1>8, <2>1, <2>2, AddsPages, ZenonT(30)
  <2> QED
    BY <1>3, <2>1, <2>2, <2>3
<1>10. lost' = lost \cup ((p .. FreeTop - 1) \ AllPages(hs))
                 \cup ((b .. p - 1) \ AllPages(new))
  BY <1>1, <1>2, <1>4
<1>11. PagesOnce'
  <2>1. Disjoint(hobs')
    BY <1>1, <1>9
  <2>2. AboveTop' = AllPages(hobs') \cup lost'
    BY <1>0, <1>1, <1>2, <1>5, <1>6, <1>9, <1>10 DEF PagesOnce
  <2>3. AllPages(hobs') \cap lost' = {}
    BY <1>0, <1>1, <1>2, <1>5, <1>6, <1>7, <1>9, <1>10 DEF PagesOnce
  <2> QED
    BY <2>1, <2>2, <2>3 DEF PagesOnce
<1>12. PagesIn(held) \cup slack \subseteq AboveTop
  <2>1. TakenPages(hobs) \subseteq AllPages(hobs)
    BY DEF TakenPages, AllPages, HobPages, Taken, Allocation, AllocTypes
  <2> QED
    BY <1>0, <1>7, <2>1 DEF HeldIsTaken
<1>13. /\ held' \subseteq [base : Nat, pages : Nat \ {0}] /\ slack' \subseteq Nat
       /\ HeldApart'
       /\ PagesIn(held') \cup slack' = PagesIn(held) \cup slack \cup (b .. p - 1)
  <2>1. b .. b + Rounded(q) - 1 = b .. p - 1
    BY <1>2, <1>4 DEF n
  <2>2. (b .. b + Rounded(q) - 1) \cap (PagesIn(held) \cup slack) = {}
    BY <1>5, <1>6, <1>12, <2>1
  <2> QED
    BY <1>0, <1>1, <1>4, <2>1, <2>2, GivePages
<1>14. HeldIsTaken'
  <2>1. TakenPages(hobs') \subseteq PagesIn(held') \cup slack'
    BY <1>0, <1>1, <1>2, <1>9, <1>13 DEF HeldIsTaken
  <2>2. PagesIn(held') \cup slack' \subseteq TakenPages(hobs') \cup lost'
    <3>1. (b .. p - 1) \cap AllPages(hs) = {}
      BY <1>3, <1>8
    <3> QED
      BY <1>0, <1>1, <1>2, <1>9, <1>10, <1>13, <3>1 DEF HeldIsTaken
  <2> QED
    BY <2>1, <2>2 DEF HeldIsTaken
<1>15. lost' \subseteq Nat
  BY <1>0, <1>6, <1>10 DEF TypeOK
<1>16. TypeOK'
  BY <1>0, <1>1, <1>5, <1>9, <1>13, <1>15 DEF TypeOK
<1>17. GivesNew(q)
  <2>1. b \in Page
    <3>1. b \in Nat /\ b <= FreeTop /\ FreeTop <= HighBound /\ HighBound <= PhysicalEnd
      BY <1>0, <1>4, Sizes DEF TopsOK, HighBound
    <3> QED
      BY <1>2, <3>1, TopTypes, <1>0, Sizes DEF Page
  <2>2. PagesOf(Block(b, q.pages)) \subseteq b .. p - 1
    BY <1>2, <1>4, RequestType DEF PagesOf, Block, Top
  <2>3. (b .. p - 1) \cap PagesIn(held) = {}
    BY <1>5, <1>6, <1>12
  <2> QED
    BY <1>1, <2>1, <2>2, <2>3 DEF GivesNew, Give
<1> QED
  BY <1>5, <1>11, <1>13, <1>14, <1>16, <1>17 DEF Inv

\* Taken pages are pages of HOBs.
LEMMA TakenInAll ==
  ASSUME NEW hs
  PROVE  TakenPages(hs) \subseteq AllPages(hs)
BY DEF TakenPages, AllPages, HobPages, Taken, Allocation, AllocTypes

\* No page of a free HOB is taken.
LEMMA TakenApart ==
  ASSUME NEW hs, Disjoint(hs), NEW k \in Conventional(hs)
  PROVE  /\ k \in Allocation(hs)
         /\ TakenPages(hs) \cap PagesOf(hs[k]) = {}
PROOF
<1>1. k \in Allocation(hs)
  BY DEF Conventional, Allocation, AllocTypes
<1>2. \A j \in Taken(hs) : PagesOf(hs[j]) \cap PagesOf(hs[k]) = {}
  <2> SUFFICES ASSUME NEW j \in Taken(hs) PROVE PagesOf(hs[j]) \cap PagesOf(hs[k]) = {}
    OBVIOUS
  <2>1. j \in Allocation(hs) /\ j # k
    BY DEF Conventional, Taken, Allocation, AllocTypes
  <2> QED
    BY <1>1, <2>1 DEF Disjoint, Meet
<1> QED
  BY <1>1, <1>2 DEF TakenPages, HobPages

LEMMA SearchHobsInv ==
  ASSUME Inv, NEW q \in Requests, SearchHobs(q)
  PROVE  Inv'
PROOF
<1> DEFINE p == PaddedTop(q)
           hs == PaddedHobs(q)
<1>0. TypeOK /\ TopsOK /\ PagesOnce /\ HeldIsTaken /\ HeldApart
  BY DEF Inv
<1>1. /\ RoomForPadding(q) /\ SetFreeTop(p) /\ hobs' = hs
      /\ lost' = lost \cup LostToPadding(q)
      /\ pc' = "find" /\ request' = q
      /\ UNCHANGED <<phases, cursor, merged, held, slack>>
  BY DEF SearchHobs
<1>2. /\ p \in Int /\ p <= FreeTop /\ LowBound <= p
      /\ FreeTop \in Int /\ LowBound \in Nat
      /\ hs \in Seq(HobRecord) /\ Disjoint(hs)
      /\ TakenPages(hs) = TakenPages(hobs)
      /\ AllPages(hobs) \subseteq AllPages(hs)
      /\ AllPages(hs) \subseteq AllPages(hobs) \cup (p .. FreeTop - 1)
      /\ LostToPadding(q) = (p .. FreeTop - 1) \ AllPages(hs)
  BY <1>0, <1>1, Padding, TopTypes
<1> HIDE DEF p, hs
<1>3. /\ freeMemoryTop' \in Int /\ freePhysicalTop' \in Int
      /\ switchStackSignal' \in BOOLEAN /\ peiMemoryInstalled' \in BOOLEAN
      /\ TopsOK'
      /\ AboveTop' = AboveTop \cup (p .. FreeTop - 1)
      /\ AboveTop \cap (p .. FreeTop - 1) = {}
  BY <1>0, <1>1, <1>2, TopDown
<1>4. PagesOnce'
  BY <1>0, <1>1, <1>2, <1>3 DEF PagesOnce
<1>5. HeldIsTaken' /\ HeldApart'
  BY <1>0, <1>1, <1>2 DEF HeldIsTaken, HeldApart
<1>6. p .. FreeTop - 1 \subseteq Nat
  BY <1>2
<1>7. lost' \subseteq Nat
  BY <1>0, <1>1, <1>2, <1>6 DEF TypeOK
<1>8. TypeOK'
  BY <1>0, <1>1, <1>2, <1>3, <1>7 DEF TypeOK
<1> QED
  BY <1>3, <1>4, <1>5, <1>8 DEF Inv

\* Steps that leave the HOBs, the tops and the callers alone.
LEMMA QuietStep ==
  ASSUME Inv, TypeOK',
         UNCHANGED <<hobs, freeMemoryTop, freePhysicalTop, phases, held, slack, lost>>
  PROVE  Inv'
PROOF
<1>1. TopsOK'
  BY DEF Inv, TopsOK, FreeTop, LowBound, HighBound, UsesPhysical, HobBase, phases
<1>2. PagesOnce'
  BY DEF Inv, PagesOnce, AboveTop, StackRange, phases
<1>3. HeldIsTaken' /\ HeldApart'
  BY DEF Inv, HeldIsTaken, HeldApart
<1> QED
  BY <1>1, <1>2, <1>3 DEF Inv

\* Steps that leave the tops alone.
LEMMA TopsStay ==
  ASSUME TypeOK, TopsOK, UNCHANGED <<freeMemoryTop, freePhysicalTop, phases>>
  PROVE  TopsOK' /\ AboveTop' = AboveTop
BY DEF TopsOK, FreeTop, LowBound, HighBound, UsesPhysical, HobBase, phases,
       AboveTop, StackRange

LEMMA AboveTopNat ==
  ASSUME TypeOK, TopsOK
  PROVE  AboveTop \subseteq Nat
PROOF
<1>1. LowBound \in Nat /\ LowBound <= FreeTop /\ FreeTop \in Int
  BY TopTypes DEF TopsOK
<1> QED
  BY <1>1, Sizes
  DEF AboveTop, StackRange, TopsOK, TypeOK, FreeTop, LowBound, HobBase, UsesPhysical

\* A fitting HOB holds the range that is taken from it.
LEMMA BaseFits ==
  ASSUME TypeOK, PagesOnce, NEW q \in Requests, NEW k \in Fitting(hobs, q)
  PROVE  LET r == Block(BaseIn(hobs[k], q), Rounded(q))
         IN  /\ k \in Allocation(hobs) /\ hobs[k].type = "conventional"
             /\ r \in RangeRecord /\ Within(r, hobs[k])
             /\ PagesOf(r) = BaseIn(hobs[k], q)
                               .. BaseIn(hobs[k], q) + Rounded(q) - 1
PROOF
<1> DEFINE h == hobs[k]
           b == BaseIn(h, q)
<1>1. /\ k \in DOMAIN hobs /\ h.type = "conventional" /\ h.pages >= Rounded(q)
      /\ b >= h.base
  BY DEF Fitting, Conventional
<1>2. h \in HobRecord /\ k \in Allocation(hobs)
  BY <1>1 DEF TypeOK, Allocation, AllocTypes
<1>3. h.base \in Int /\ h.pages \in Nat /\ Rounded(q) \in Nat
      /\ Granularity(q) \in Nat \ {0}
  BY <1>2, RoundedBound, RequestType DEF HobRecord
<1>4. b \in Int /\ b <= h.base + h.pages - Rounded(q)
  BY <1>3, AlignedBound DEF BaseIn, Top
<1> HIDE DEF b, h
<1>5. LET r == Block(b, Rounded(q))
      IN  /\ r \in RangeRecord /\ Within(r, h)
          /\ PagesOf(r) = b .. b + Rounded(q) - 1
  BY <1>1, <1>3, <1>4 DEF Block, RangeRecord, Within, Top, PagesOf
<1> QED
  BY <1>1, <1>2, <1>5 DEF h, b

LEMMA FindFreeMemoryInv ==
  ASSUME Inv, FindFreeMemory
  PROVE  Inv' /\ request \in Requests /\ GivesNew(request)
PROOF
<1>0. TypeOK /\ TopsOK /\ PagesOnce /\ HeldIsTaken /\ HeldApart
  BY DEF Inv
<1>1. request \in Requests /\ pc' = Idle /\ request' = NoRequest
      /\ UNCHANGED <<phases, freeMemoryTop, freePhysicalTop, cursor, merged>>
  BY <1>0 DEF FindFreeMemory, TypeOK
<1>2. PICK k \in Fitting(hobs, request) : TakeFrom(k, BaseIn(hobs[k], request))
  BY DEF FindFreeMemory
<1> DEFINE b == BaseIn(hobs[k], request)
           n == Rounded(request)
           r == Block(b, n)
           new == SplitHob(hobs, k, r, request.type)
           old == PagesOf(hobs[k])
<1>3. /\ hobs' = new /\ Give(b, request)
      /\ lost' = lost \cup (AllPages(hobs) \ AllPages(new))
  BY <1>2 DEF TakeFrom, LostBy, AllPages
<1>4. /\ k \in Allocation(hobs) /\ hobs[k].type = "conventional"
      /\ r \in RangeRecord /\ Within(r, hobs[k]) /\ PagesOf(r) = b .. b + n - 1
  BY <1>0, <1>1, BaseFits
<1>5. request.type \in AllocTypes /\ request.type # "conventional"
  BY <1>1, RequestType DEF AllocTypes
<1> HIDE DEF r, new, b, n
<1>6. /\ new \in Seq(HobRecord) /\ Disjoint(new)
      /\ PagesOf(r) \subseteq old /\ old \subseteq AllPages(hobs)
      /\ \E L \in SUBSET (old \ PagesOf(r)) :
           /\ AllPages(new) = AllPages(hobs) \ L
           /\ TakenPages(new) = (TakenPages(hobs) \ old) \cup PagesOf(r)
  <2>1. hobs \in Seq(HobRecord) /\ Disjoint(hobs)
    BY <1>0 DEF TypeOK, PagesOnce
  <2>2. /\ new \in Seq(HobRecord) /\ Disjoint(new)
        /\ PagesOf(r) \subseteq old /\ old \subseteq AllPages(hobs)
        /\ \E L \in SUBSET (old \ PagesOf(r)) :
             /\ AllPages(new) = AllPages(hobs) \ L
             /\ TakenPages(new) = (TakenPages(hobs) \ old)
                  \cup (IF request.type = "conventional" THEN {} ELSE PagesOf(r))
                  \cup (IF hobs[k].type = "conventional" THEN {}
                        ELSE (old \ PagesOf(r)) \ L)
    <3>1. IsSplit(hobs, k, r, request.type, new)
      BY <1>4, <1>5, <2>1, SplitPages DEF new
    <3> QED
      BY <3>1 DEF IsSplit
  <2> QED
    BY <1>4, <1>5, <2>2
<1>7. TakenPages(hobs) \cap old = {}
  BY <1>0, <1>4, TakenApart DEF PagesOnce, Allocation, Conventional
<1>8. PICK L \in SUBSET (old \ PagesOf(r)) :
           /\ AllPages(new) = AllPages(hobs) \ L
           /\ TakenPages(new) = TakenPages(hobs) \cup PagesOf(r)
  BY <1>6, <1>7
<1>9. lost' = lost \cup L
  BY <1>3, <1>6, <1>8
<1> HIDE DEF old
<1>10. TopsOK' /\ AboveTop' = AboveTop
  BY <1>0, <1>1, TopsStay
<1>11. PagesOnce'
  BY <1>0, <1>3, <1>6, <1>8, <1>9, <1>10 DEF PagesOnce
<1>12. (PagesIn(held) \cup slack) \cap PagesOf(r) = {}
  BY <1>0, <1>6, <1>7 DEF HeldIsTaken, PagesOnce
<1>13. AllPages(hobs) \subseteq Nat
  BY <1>0, AboveTopNat DEF PagesOnce
<1>14. b \in Nat
  <2>1. n \in Nat \ {0} /\ b \in Int
    BY <1>1, <1>4, RoundedBound, RequestType DEF n, r, Block, RangeRecord
  <2>2. b \in PagesOf(r)
    BY <1>4, <2>1
  <2> QED
    BY <1>6, <1>13, <2>2
<1>15. /\ held' \subseteq [base : Nat, pages : Nat \ {0}] /\ slack' \subseteq Nat
       /\ HeldApart'
       /\ PagesIn(held') \cup slack' = PagesIn(held) \cup slack \cup PagesOf(r)
  BY <1>0, <1>1, <1>3, <1>4, <1>12, <1>14, GivePages DEF n
<1>16. HeldIsTaken'
  BY <1>0, <1>3, <1>8, <1>9, <1>15 DEF HeldIsTaken
<1>17. lost' \subseteq Nat
  BY <1>0, <1>6, <1>9, <1>13 DEF TypeOK
<1>18. TypeOK'
  BY <1>0, <1>1, <1>3, <1>6, <1>15, <1>17 DEF TypeOK, phases, Idle
<1>19. GivesNew(request)
  <2>1. b \in Page
    <3>1. n \in Nat \ {0}
      BY <1>1, RoundedBound, RequestType DEF n
    <3>2. b \in PagesOf(r)
      BY <1>4, <1>14, <3>1
    <3>3. b \in AboveTop
      BY <1>0, <1>6, <3>2 DEF PagesOnce
    <3> QED
      BY <1>0, <1>14, <3>3, Sizes DEF AboveTop, StackRange, Page, TypeOK
  <2>2. PagesOf(Block(b, request.pages)) \subseteq b .. b + n - 1
    BY <1>1, <1>14, RoundedBound, RequestType DEF PagesOf, Block, Top, n
  <2> QED
    BY <1>3, <1>4, <1>12, <2>1, <2>2 DEF GivesNew, Give
<1> QED
  BY <1>1, <1>10, <1>11, <1>15, <1>16, <1>18, <1>19 DEF Inv

-----------------------------------------------------------------------------
(* Merging preserves the invariant.                                        *)

\* The pages of two adjacent HOBs joined are those of both.
LEMMA JoinedPages ==
  ASSUME NEW h \in HobRecord, NEW i \in HobRecord, Adjacent(h, i)
  PROVE  /\ Joined(h, i) \in HobRecord /\ Joined(h, i).type = "conventional"
         /\ PagesOf(Joined(h, i)) = PagesOf(h) \cup PagesOf(i)
PROOF
<1>1. /\ h.base \in Int /\ h.pages \in Nat /\ i.base \in Int /\ i.pages \in Nat
  BY DEF HobRecord
<1>2. /\ PagesOf(h) = h.base .. h.base + h.pages - 1
      /\ PagesOf(i) = i.base .. i.base + i.pages - 1
  BY <1>1 DEF PagesOf, Top
<1>3. CASE i.base + i.pages = h.base
  <2>1. Joined(h, i) = Hob(i.base, h.pages + i.pages, "conventional")
    BY <1>3 DEF Joined, Top
  <2>2. PagesOf(Joined(h, i)) = i.base .. i.base + (h.pages + i.pages) - 1
    BY <1>1, <2>1 DEF Hob, PagesOf, Top
  <2> QED
    BY <1>1, <1>2, <1>3, <2>1, <2>2, SMTT(30) DEF Hob, HobRecord, AllocTypes
<1>4. CASE i.base + i.pages # h.base
  <2>1. /\ Joined(h, i) = Hob(h.base, h.pages + i.pages, "conventional")
        /\ h.base + h.pages = i.base
    BY <1>4 DEF Joined, Top, Adjacent
  <2>2. PagesOf(Joined(h, i)) = h.base .. h.base + (h.pages + i.pages) - 1
    BY <1>1, <2>1 DEF Hob, PagesOf, Top
  <2> QED
    BY <1>1, <1>2, <2>1, <2>2 DEF Hob, HobRecord, AllocTypes
<1> QED
  BY <1>3, <1>4

LEMMA UnusedFacts ==
  /\ UnusedHob \in HobRecord /\ PagesOf(UnusedHob) = {}
  /\ UnusedHob.type \notin AllocTypes
BY DEF UnusedHob, Hob, HobRecord, PagesOf, Top, AllocTypes

LEMMA MergePages ==
  ASSUME NEW hs \in Seq(HobRecord), Disjoint(hs), NEW k \in Conventional(hs),
         NEW j \in Conventional(hs), j # k, Adjacent(hs[k], hs[j])
  PROVE  LET new == [hs EXCEPT ![j] = Joined(hs[k], hs[j]), ![k] = UnusedHob]
         IN  /\ new \in Seq(HobRecord) /\ Disjoint(new)
             /\ AllPages(new) = AllPages(hs) /\ TakenPages(new) = TakenPages(hs)
PROOF
<1> DEFINE g == Joined(hs[k], hs[j])
           one == [hs EXCEPT ![k] = UnusedHob]
           two == [one EXCEPT ![j] = g]
           Pk == PagesOf(hs[k])
           Pj == PagesOf(hs[j])
<1>1. /\ k \in Allocation(hs) /\ j \in Allocation(hs)
      /\ TakenPages(hs) \cap Pk = {} /\ TakenPages(hs) \cap Pj = {}
  BY TakenApart
<1>2. k \in DOMAIN hs /\ j \in DOMAIN hs /\ hs[k] \in HobRecord /\ hs[j] \in HobRecord
  BY <1>1 DEF Allocation
<1>3. g \in HobRecord /\ g.type = "conventional" /\ PagesOf(g) = Pk \cup Pj
  BY <1>2, JoinedPages
<1>4. Pk \cap Pj = {} /\ Pk \subseteq AllPages(hs) /\ Pj \subseteq AllPages(hs)
  BY <1>1 DEF Disjoint, Meet, AllPages, HobPages
<1> HIDE DEF g
<1>5. /\ one \in Seq(HobRecord) /\ Disjoint(one) /\ Len(one) = Len(hs)
      /\ AllPages(one) = AllPages(hs) \ Pk
      /\ TakenPages(one) = TakenPages(hs) \ Pk
  <2>1. PagesOf(UnusedHob) \cap (AllPages(hs) \ PagesOf(hs[k])) = {}
    BY UnusedFacts
  <2>2. /\ one \in Seq(HobRecord) /\ Disjoint(one) /\ Len(one) = Len(hs)
        /\ AllPages(one) = (AllPages(hs) \ PagesOf(hs[k]))
             \cup (IF UnusedHob.type \in AllocTypes THEN PagesOf(UnusedHob) ELSE {})
        /\ TakenPages(one) = (TakenPages(hs) \ PagesOf(hs[k]))
             \cup (IF UnusedHob.type \in {"boot", "runtime"}
                     THEN PagesOf(UnusedHob) ELSE {})
    <3>1. IsReplaced(hs, k, UnusedHob, one)
      BY <1>1, <2>1, UnusedFacts, ReplacePages
    <3> QED
      BY <3>1 DEF IsReplaced
  <2> HIDE DEF one
  <2> QED
    BY <2>2, UnusedFacts
<1>6. one[j] = hs[j] /\ j \in DOMAIN one
  BY <1>2
<1>7. j \in Allocation(one)
  BY <1>1, <1>6 DEF Allocation
<1> HIDE DEF one
<1>8. /\ two \in Seq(HobRecord) /\ Disjoint(two)
      /\ AllPages(two) = (AllPages(one) \ Pj) \cup PagesOf(g)
      /\ TakenPages(two) = TakenPages(one) \ Pj
  <2>1. PagesOf(g) \cap (AllPages(one) \ PagesOf(one[j])) = {}
    BY <1>3, <1>5, <1>6
  <2>2. /\ two \in Seq(HobRecord) /\ Disjoint(two)
        /\ AllPages(two) = (AllPages(one) \ PagesOf(one[j]))
             \cup (IF g.type \in AllocTypes THEN PagesOf(g) ELSE {})
        /\ TakenPages(two) = (TakenPages(one) \ PagesOf(one[j]))
             \cup (IF g.type \in {"boot", "runtime"} THEN PagesOf(g) ELSE {})
    <3>1. IsReplaced(one, j, g, two)
      BY <1>3, <1>5, <1>7, <2>1, ReplacePages
    <3> QED
      BY <3>1 DEF IsReplaced
  <2> HIDE DEF two
  <2> QED
    BY <1>3, <1>6, <2>2 DEF AllocTypes
<1>9. two = [hs EXCEPT ![j] = g, ![k] = UnusedHob]
  BY <1>2 DEF one
<1>10. AllPages(two) = AllPages(hs) /\ TakenPages(two) = TakenPages(hs)
  BY <1>1, <1>3, <1>4, <1>5, <1>8
<1> QED
  BY <1>8, <1>9, <1>10 DEF g

LEMMA MergeStepInv ==
  ASSUME Inv, MergeStep
  PROVE  Inv'
PROOF
<1>0. TypeOK /\ TopsOK /\ PagesOnce /\ HeldIsTaken /\ HeldApart
  BY DEF Inv
<1>1. /\ cursor' = cursor + 1
      /\ UNCHANGED <<phases, freeMemoryTop, freePhysicalTop, pc, request, held,
                     slack, lost>>
  BY DEF MergeStep
<1>2. CASE UNCHANGED <<hobs, merged>>
  <2>1. TypeOK'
    BY <1>0, <1>1, <1>2 DEF TypeOK, phases
  <2> QED
    BY <1>1, <1>2, <2>1, QuietStep
<1>3. ASSUME NEW j \in Neighbours(cursor), MergeWith(j)
      PROVE  Inv'
  <2>1. /\ j \in Conventional(hobs) /\ cursor \in Conventional(hobs) /\ j # cursor
        /\ Adjacent(hobs[cursor], hobs[j])
    BY <1>0 DEF Neighbours, TypeOK, Conventional
  <2>2. /\ hobs' \in Seq(HobRecord) /\ Disjoint(hobs')
        /\ AllPages(hobs') = AllPages(hobs) /\ TakenPages(hobs') = TakenPages(hobs)
    BY <1>0, <1>3, <2>1, MergePages DEF MergeWith, TypeOK, PagesOnce
  <2>3. merged' = TRUE
    BY <1>3 DEF MergeWith
  <2>4. TypeOK'
    BY <1>0, <1>1, <2>2, <2>3 DEF TypeOK, phases
  <2>5. TopsOK' /\ AboveTop' = AboveTop
    BY <1>0, <1>1, TopsStay
  <2>6. PagesOnce' /\ HeldIsTaken' /\ HeldApart'
    BY <1>0, <1>1, <2>2, <2>5 DEF PagesOnce, HeldIsTaken, HeldApart
  <2> QED
    BY <2>4, <2>5, <2>6 DEF Inv
<1> QED
  BY <1>2, <1>3 DEF MergeStep

LEMMA SearchStepsInv ==
  ASSUME Inv, NothingFits \/ FindAgain \/ OutOfResources
  PROVE  Inv'
PROOF
<1>0. TypeOK
  BY DEF Inv
<1>1. UNCHANGED <<hobs, freeMemoryTop, freePhysicalTop, phases, held, slack, lost>>
  BY DEF NothingFits, FindAgain, OutOfResources, MergeEnds
<1>2. CASE NothingFits
  BY <1>0, <1>1, <1>2, QuietStep DEF NothingFits, TypeOK, phases
<1>3. CASE FindAgain
  BY <1>0, <1>1, <1>3, QuietStep DEF FindAgain, MergeEnds, TypeOK, phases
<1>4. CASE OutOfResources
  BY <1>0, <1>1, <1>4, QuietStep DEF OutOfResources, MergeEnds, TypeOK, phases, Idle
<1> QED
  BY <1>2, <1>3, <1>4

-----------------------------------------------------------------------------
(* PeiFreePages preserves the invariant.                                   *)

\* What remains of a range that is given back in part.
LEMMA RemainsFacts ==
  ASSUME NEW h \in [base : Nat, pages : Nat \ {0}], NEW r \in RangeRecord,
         r.pages > 0, Within(r, h)
  PROVE  /\ Remains(h, r) \subseteq [base : Nat, pages : Nat \ {0}]
         /\ PagesIn(Remains(h, r)) = PagesOf(h) \ PagesOf(r)
         /\ \A i, j \in Remains(h, r) : i # j => ~ Meet(i, j)
PROOF
<1> DEFINE u == Block(h.base, r.base - h.base)
           v == Block(Top(r), Top(h) - Top(r))
<1>1. /\ h.base \in Nat /\ h.pages \in Nat /\ r.base \in Int /\ r.pages \in Nat
      /\ r.pages > 0
      /\ h.base <= r.base /\ r.base + r.pages <= h.base + h.pages
      /\ Top(r) = r.base + r.pages /\ Top(h) = h.base + h.pages
  BY DEF RangeRecord, Within, Top
<1>2. /\ u.pages = r.base - h.base /\ v.pages = Top(h) - Top(r)
      /\ u \in [base : Nat, pages : Nat] /\ v \in [base : Nat, pages : Nat]
  BY <1>1 DEF Block
<1>3. /\ PagesOf(u) = h.base .. r.base - 1 /\ PagesOf(v) = Top(r) .. Top(h) - 1
      /\ PagesOf(h) = h.base .. Top(h) - 1 /\ PagesOf(r) = r.base .. Top(r) - 1
  BY <1>1 DEF Block, PagesOf, Top
<1>4. /\ PagesOf(u) \cup PagesOf(v) = PagesOf(h) \ PagesOf(r)
      /\ PagesOf(u) \cap PagesOf(v) = {}
  <2>1. ASSUME NEW b \in Int, NEW c \in Int, NEW d \in Int, NEW e \in Int,
               b <= c, c <= d, d <= e
        PROVE  /\ (b .. c - 1) \cup (d .. e - 1) = (b .. e - 1) \ (c .. d - 1)
               /\ (b .. c - 1) \cap (d .. e - 1) = {}
    BY <2>1
  <2>2. /\ h.base \in Int /\ r.base \in Int /\ Top(r) \in Int /\ Top(h) \in Int
        /\ h.base <= r.base /\ r.base <= Top(r) /\ Top(r) <= Top(h)
    BY <1>1
  <2> HIDE DEF u, v
  <2> QED
    BY <1>3, <2>1, <2>2
<1>5. (u.pages = 0 => PagesOf(u) = {}) /\ (v.pages = 0 => PagesOf(v) = {})
  <2>1. /\ r.base - h.base = 0 => (h.base .. r.base - 1) = {}
        /\ Top(h) - Top(r) = 0 => (Top(r) .. Top(h) - 1) = {}
    BY <1>1
  <2> HIDE DEF u, v
  <2> QED
    BY <1>2, <1>3, <2>1
<1>6. Remains(h, r) = {q \in {u, v} : q.pages > 0}
  BY DEF Remains
<1> HIDE DEF u, v
<1>7. PagesIn(Remains(h, r)) = PagesOf(u) \cup PagesOf(v)
  <2>1. \A p : p \in PagesIn(Remains(h, r)) <=>
                 (p \in PagesOf(u) /\ u.pages > 0) \/ (p \in PagesOf(v) /\ v.pages > 0)
    BY <1>6 DEF PagesIn
  <2>2. u.pages \in Nat /\ v.pages \in Nat
    BY <1>2
  <2> QED
    BY <1>5, <2>1, <2>2
<1>8. Remains(h, r) \subseteq [base : Nat, pages : Nat \ {0}]
  BY <1>2, <1>6
<1>9. \A i, j \in Remains(h, r) : i # j => ~ Meet(i, j)
  BY <1>4, <1>6 DEF Meet
<1> QED
  BY <1>4, <1>7, <1>8, <1>9

\* Giving back a range somebody holds takes just its pages from the holders.
LEMMA GiveBackPages ==
  ASSUME TypeOK, HeldApart, NEW r \in RangeRecord, r.pages > 0,
         NEW h \in held, Within(r, h),
         held' = {i \in held : ~ Within(r, i)}
                   \cup UNION {Remains(j, r) : j \in {i \in held : Within(r, i)}},
         slack' = slack \ PagesOf(r)
  PROVE  /\ held' \subseteq [base : Nat, pages : Nat \ {0}] /\ slack' \subseteq Nat
         /\ HeldApart'
         /\ held' = (held \ {h}) \cup Remains(h, r)
         /\ PagesIn(held') \cup slack' = (PagesIn(held) \cup slack) \ PagesOf(r)
PROOF
<1>0. held \subseteq [base : Nat, pages : Nat \ {0}] /\ slack \subseteq Nat
  BY DEF TypeOK
<1>1. ASSUME NEW i \in held, Within(r, i)
      PROVE  PagesOf(r) \subseteq PagesOf(i) /\ r.base \in PagesOf(r)
  <2>1. /\ i.base \in Nat /\ i.pages \in Nat /\ r.base \in Int /\ r.pages \in Nat
        /\ i.base <= r.base /\ r.base + r.pages <= i.base + i.pages
    BY <1>0, <1>1 DEF RangeRecord, Within, Top
  <2> QED
    BY <2>1 DEF PagesOf, Top
<1>2. \A i \in held : Within(r, i) => i = h
  BY <1>1 DEF HeldApart, Meet
<1>3. held' = (held \ {h}) \cup Remains(h, r)
  BY <1>2
<1>4. /\ Remains(h, r) \subseteq [base : Nat, pages : Nat \ {0}]
      /\ PagesIn(Remains(h, r)) = PagesOf(h) \ PagesOf(r)
      /\ \A i, j \in Remains(h, r) : i # j => ~ Meet(i, j)
  BY <1>0, RemainsFacts
<1>5. \A i \in held \ {h} : PagesOf(i) \cap PagesOf(h) = {}
  BY DEF HeldApart, Meet
<1>6. PagesOf(r) \subseteq PagesOf(h)
  BY <1>1
<1>7. PagesIn(held') = PagesIn(held) \ PagesOf(r)
  <2>1. PagesIn(held) = PagesIn(held \ {h}) \cup PagesOf(h)
    BY DEF PagesIn
  <2>2. PagesIn(held') = PagesIn(held \ {h}) \cup PagesIn(Remains(h, r))
    BY <1>3 DEF PagesIn
  <2>3. PagesIn(held \ {h}) \cap PagesOf(h) = {}
    BY <1>5 DEF PagesIn
  <2> QED
    BY <1>4, <1>6, <2>1, <2>2, <2>3
<1>8. HeldApart'
  <2> SUFFICES ASSUME NEW i \in held', NEW j \in held', i # j PROVE ~ Meet(i, j)
    BY DEF HeldApart
  <2>1. \A q \in Remains(h, r) : PagesOf(q) \subseteq PagesOf(h)
    <3>1. \A q \in Remains(h, r) : PagesOf(q) \subseteq PagesIn(Remains(h, r))
      BY DEF PagesIn
    <3> QED
      BY <1>4, <3>1
  <2>2. CASE i \in held \ {h} /\ j \in held \ {h}
    BY <2>2 DEF HeldApart
  <2>3. CASE i \in Remains(h, r) /\ j \in Remains(h, r)
    BY <1>4, <2>3
  <2>4. CASE i \in held \ {h} /\ j \in Remains(h, r)
    BY <1>5, <2>1, <2>4 DEF Meet
  <2>5. CASE i \in Remains(h, r) /\ j \in held \ {h}
    BY <1>5, <2>1, <2>5 DEF Meet
  <2> QED
    BY <1>3, <2>2, <2>3, <2>4, <2>5
<1> QED
  BY <1>0, <1>3, <1>4, <1>7, <1>8

\* The free HOB at the top joins the free memory.
LEMMA JoinTopPages ==
  ASSUME TypeOK, TopsOK, NEW hs \in Seq(HobRecord), Disjoint(hs),
         AllPages(hs) \subseteq AboveTop, NEW k \in Conventional(hs),
         hs[k].base = FreeTop, JoinTop(hs, k), UNCHANGED phases
  PROVE  /\ hobs' \in Seq(HobRecord) /\ Disjoint(hobs')
         /\ AllPages(hobs') = AllPages(hs) \ PagesOf(hs[k])
         /\ TakenPages(hobs') = TakenPages(hs)
         /\ freeMemoryTop' \in Int /\ freePhysicalTop' \in Int
         /\ switchStackSignal' \in BOOLEAN /\ peiMemoryInstalled' \in BOOLEAN
         /\ TopsOK' /\ AboveTop' = AboveTop \ PagesOf(hs[k])
PROOF
<1>1. k \in Allocation(hs) /\ TakenPages(hs) \cap PagesOf(hs[k]) = {}
  BY TakenApart
<1>2. hs[k] \in HobRecord /\ hs[k].pages \in Nat /\ FreeTop \in Int
  <2>1. k \in DOMAIN hs
    BY <1>1 DEF Allocation
  <2>2. hs[k] \in HobRecord
    BY <2>1
  <2> QED
    BY <2>2, TopTypes DEF HobRecord
<1>3. PagesOf(hs[k]) = FreeTop .. FreeTop + hs[k].pages - 1
  BY <1>2 DEF PagesOf, Top
<1>4. PagesOf(hs[k]) \subseteq AllPages(hs)
  BY <1>1 DEF AllPages, HobPages
<1>5. IsReplaced(hs, k, UnusedHob, hobs')
  <2>1. hobs' = [hs EXCEPT ![k] = UnusedHob]
    BY DEF JoinTop
  <2> QED
    BY <1>1, <2>1, UnusedFacts, ReplacePages
<1>6. /\ freeMemoryTop' \in Int /\ freePhysicalTop' \in Int
      /\ switchStackSignal' \in BOOLEAN /\ peiMemoryInstalled' \in BOOLEAN
      /\ TopsOK'
      /\ AboveTop' = AboveTop \ (FreeTop .. FreeTop + hs[k].pages - 1)
  <2>1. SetFreeTop(FreeTop + hs[k].pages)
    BY DEF JoinTop
  <2> QED
    BY <1>2, <1>3, <1>4, <2>1, TopUp
<1>7. /\ hobs' \in Seq(HobRecord) /\ Disjoint(hobs')
      /\ AllPages(hobs') = AllPages(hs) \ PagesOf(hs[k])
      /\ TakenPages(hobs') = TakenPages(hs)
  BY <1>1, <1>5, UnusedFacts DEF IsReplaced, UnusedHob, Hob, AllocTypes
<1> QED
  BY <1>3, <1>6, <1>7

\* A range given back is part of a range somebody holds, who keeps the rest.
TakesBack(r) ==
  \E h \in held : Within(r, h) /\ held' = (held \ {h}) \cup Remains(h, r)

LEMMA FreeFoundInv ==
  ASSUME Inv, NEW b \in Page, NEW n \in 1 .. MaxFreed,
         MayGiveBack(Block(b, n)), FreeFound(Block(b, n))
  PROVE  Inv' /\ TakesBack(Block(b, n))
PROOF
<1> DEFINE r == Block(b, n)
<1>0. TypeOK /\ TopsOK /\ PagesOnce /\ HeldIsTaken /\ HeldApart
  BY DEF Inv
<1>1. /\ r \in RangeRecord /\ r.pages > 0 /\ b \in PagesOf(r) /\ r.base \in Int
      /\ r.base = b /\ r.pages = n
  BY MemoryAssumption DEF Page, Block, RangeRecord, PagesOf, Top
<1>2. MayGiveBack(r) /\ FreeFound(r)
  OBVIOUS
<1> HIDE DEF r
<1>3. PICK k \in Holding(r) :
        \E hs \in {SplitHob(hobs, k, r, "conventional")} :
          /\ lost' = lost \cup LostBy(hs)
          /\ IF r.base = FreeTop
               THEN JoinTop(hs, k) /\ pc' = "join"
               ELSE hobs' = hs /\ UNCHANGED <<pc, freeMemoryTop, freePhysicalTop>>
  BY <1>2 DEF FreeFound
<1> DEFINE hs == SplitHob(hobs, k, r, "conventional")
           old == PagesOf(hobs[k])
<1>4. /\ lost' = lost \cup (AllPages(hobs) \ AllPages(hs))
      /\ IF r.base = FreeTop
           THEN JoinTop(hs, k) /\ pc' = "join"
           ELSE hobs' = hs /\ UNCHANGED <<pc, freeMemoryTop, freePhysicalTop>>
  BY <1>3 DEF LostBy, AllPages
<1>5. /\ held' = {h \in held : ~ Within(r, h)}
                  \cup UNION {Remains(h, r) : h \in {i \in held : Within(r, i)}}
      /\ slack' = slack \ PagesOf(r)
      /\ UNCHANGED <<phases, request, cursor, merged>>
  BY <1>2 DEF FreeFound
<1>6. /\ k \in Taken(hobs) /\ k \in Allocation(hobs) /\ Within(r, hobs[k])
      /\ hobs[k].type # "conventional"
  BY DEF Holding, Taken, Allocation, AllocTypes
<1> HIDE DEF hs
<1>7. /\ IsSplit(hobs, k, r, "conventional", hs)
  BY <1>0, <1>1, <1>6, SplitPages DEF TypeOK, PagesOnce, AllocTypes, hs
<1>8. /\ hs \in Seq(HobRecord) /\ Disjoint(hs)
      /\ k \in Conventional(hs) /\ hs[k].base = r.base /\ PagesOf(hs[k]) = PagesOf(r)
  <2>1. /\ hs \in Seq(HobRecord) /\ Disjoint(hs) /\ k \in Allocation(hs)
        /\ hs[k] = Hob(r.base, r.pages, "conventional")
    BY <1>7 DEF IsSplit
  <2> QED
    BY <2>1 DEF Allocation, Conventional, Hob, PagesOf, Top
<1>9. PagesOf(r) \subseteq old /\ old \subseteq TakenPages(hobs)
  <2>1. old \subseteq TakenPages(hobs)
    BY <1>6 DEF TakenPages, HobPages
  <2> QED
    BY <1>7, <2>1 DEF IsSplit
<1>10. PICK L \in SUBSET (old \ PagesOf(r)) :
         /\ AllPages(hs) = AllPages(hobs) \ L
         /\ TakenPages(hs) = (TakenPages(hobs) \ old) \cup ((old \ PagesOf(r)) \ L)
  BY <1>6, <1>7 DEF IsSplit
<1> HIDE DEF old
<1>11. TakenPages(hobs) \subseteq AllPages(hobs)
  BY TakenInAll
<1>12. /\ TakenPages(hs) = (TakenPages(hobs) \ PagesOf(r)) \ L
       /\ lost' = lost \cup L
       /\ PagesOf(r) \subseteq AllPages(hobs)
       /\ L \cap PagesOf(r) = {} /\ L \subseteq AllPages(hobs)
  BY <1>4, <1>9, <1>10, <1>11
<1>13. PICK h \in held : Within(r, h)
  <2>1. b \in PagesIn(held) \cup slack
    BY <1>0, <1>1, <1>9 DEF HeldIsTaken
  <2> QED
    BY <1>1, <1>2, <2>1 DEF MayGiveBack
<1>14. /\ held' \subseteq [base : Nat, pages : Nat \ {0}] /\ slack' \subseteq Nat
       /\ HeldApart'
       /\ held' = (held \ {h}) \cup Remains(h, r)
       /\ PagesIn(held') \cup slack' = (PagesIn(held) \cup slack) \ PagesOf(r)
  BY <1>0, <1>1, <1>5, <1>13, GiveBackPages
<1>15. AllPages(hobs) \subseteq AboveTop /\ lost \cap AllPages(hobs) = {}
       /\ AboveTop = AllPages(hobs) \cup lost
  BY <1>0 DEF PagesOnce
<1>16. AboveTop \subseteq Nat
  BY <1>0, AboveTopNat
<1>17. lost' \subseteq Nat
  BY <1>12, <1>15, <1>16
<1>18. ASSUME r.base = FreeTop
       PROVE  Inv'
  <2>1. JoinTop(hs, k) /\ pc' = "join"
    BY <1>4, <1>18
  <2>2. AllPages(hs) \subseteq AboveTop /\ hs[k].base = FreeTop /\ UNCHANGED phases
    BY <1>5, <1>8, <1>10, <1>15, <1>18
  <2>3. /\ hobs' \in Seq(HobRecord) /\ Disjoint(hobs')
        /\ AllPages(hobs') = AllPages(hs) \ PagesOf(r)
        /\ TakenPages(hobs') = TakenPages(hs)
        /\ freeMemoryTop' \in Int /\ freePhysicalTop' \in Int
        /\ switchStackSignal' \in BOOLEAN /\ peiMemoryInstalled' \in BOOLEAN
        /\ TopsOK' /\ AboveTop' = AboveTop \ PagesOf(r)
    BY <1>0, <1>8, <2>1, <2>2, JoinTopPages
  <2>4. PagesOnce'
    BY <1>10, <1>12, <1>15, <2>3 DEF PagesOnce
  <2>5. HeldIsTaken'
    BY <1>0, <1>12, <1>14, <2>3 DEF HeldIsTaken
  <2>6. TypeOK'
    BY <1>0, <1>5, <1>14, <1>17, <2>1, <2>3 DEF TypeOK
  <2> QED
    BY <1>14, <2>3, <2>4, <2>5, <2>6 DEF Inv
<1>19. TakesBack(r)
  BY <1>13, <1>14 DEF TakesBack
<1>20. ASSUME r.base # FreeTop
       PROVE  Inv'
  <2>1. hobs' = hs /\ UNCHANGED <<pc, freeMemoryTop, freePhysicalTop, phases>>
    BY <1>4, <1>5, <1>20
  <2>2. TopsOK' /\ AboveTop' = AboveTop
    BY <1>0, <2>1, TopsStay
  <2>3. PagesOnce'
    BY <1>8, <1>10, <1>12, <1>15, <2>1, <2>2 DEF PagesOnce
  <2>4. HeldIsTaken'
    BY <1>0, <1>12, <1>14, <2>1 DEF HeldIsTaken
  <2>5. TypeOK'
    BY <1>0, <1>5, <1>8, <1>14, <1>17, <2>1 DEF TypeOK, phases
  <2> QED
    BY <1>14, <2>2, <2>3, <2>4, <2>5 DEF Inv
<1> QED
  BY <1>18, <1>19, <1>20 DEF r

LEMMA JoinNextInv ==
  ASSUME Inv, JoinNext
  PROVE  Inv'
PROOF
<1>0. TypeOK /\ TopsOK /\ PagesOnce /\ HeldIsTaken /\ HeldApart
  BY DEF Inv
<1>1. UNCHANGED <<phases, pc, request, cursor, merged, held, slack, lost>>
  BY DEF JoinNext
<1>2. PICK k \in AtTop : JoinTop(hobs, k)
  BY DEF JoinNext
<1>3. k \in Conventional(hobs) /\ hobs[k].base = FreeTop
  BY DEF AtTop
<1>4. hobs \in Seq(HobRecord) /\ Disjoint(hobs) /\ AllPages(hobs) \subseteq AboveTop
  BY <1>0 DEF TypeOK, PagesOnce
<1>5. /\ hobs' \in Seq(HobRecord) /\ Disjoint(hobs')
      /\ AllPages(hobs') = AllPages(hobs) \ PagesOf(hobs[k])
      /\ TakenPages(hobs') = TakenPages(hobs)
      /\ freeMemoryTop' \in Int /\ freePhysicalTop' \in Int
      /\ switchStackSignal' \in BOOLEAN /\ peiMemoryInstalled' \in BOOLEAN
      /\ TopsOK' /\ AboveTop' = AboveTop \ PagesOf(hobs[k])
  BY <1>0, <1>1, <1>2, <1>3, <1>4, JoinTopPages
<1>6. PagesOf(hobs[k]) \subseteq AllPages(hobs)
  BY <1>3, <1>4, TakenApart DEF AllPages, HobPages
<1>7. PagesOnce'
  BY <1>0, <1>1, <1>5, <1>6 DEF PagesOnce
<1>8. HeldIsTaken' /\ HeldApart'
  BY <1>0, <1>1, <1>5 DEF HeldIsTaken, HeldApart
<1>9. TypeOK'
  BY <1>0, <1>1, <1>5 DEF TypeOK
<1> QED
  BY <1>5, <1>7, <1>8, <1>9 DEF Inv

LEMMA QuietStepsInv ==
  ASSUME Inv, JoinEnds \/ PeiInstallPeiMemory
  PROVE  Inv'
PROOF
<1>0. TypeOK /\ TopsOK /\ PagesOnce /\ HeldIsTaken /\ HeldApart
  BY DEF Inv
<1>1. CASE JoinEnds
  BY <1>0, <1>1, QuietStep DEF JoinEnds, TypeOK, phases, Idle
<1>2. CASE PeiInstallPeiMemory
  <2>1. /\ ~ peiMemoryInstalled /\ ~ switchStackSignal
        /\ freePhysicalTop' = PhysicalEnd /\ switchStackSignal' = TRUE
        /\ UNCHANGED <<hobs, freeMemoryTop, peiMemoryInstalled, pc, request,
                       cursor, merged, held, slack, lost>>
    BY <1>2 DEF PeiInstallPeiMemory
  <2>2. TypeOK'
    BY <1>0, <2>1, Sizes DEF TypeOK
  <2>3. TopsOK'
    BY <1>0, <2>1, Sizes
    DEF TopsOK, FreeTop, LowBound, HighBound, UsesPhysical, TypeOK
  <2>4. AboveTop' = AboveTop
    <3>1. (PhysicalEnd .. PhysicalEnd - 1) = {}
      BY Sizes
    <3> QED
      BY <2>1, <3>1 DEF AboveTop
  <2>5. PagesOnce' /\ HeldIsTaken' /\ HeldApart'
    BY <1>0, <2>1, <2>4 DEF PagesOnce, HeldIsTaken, HeldApart
  <2> QED
    BY <2>2, <2>3, <2>5 DEF Inv
<1> QED
  BY <1>1, <1>2

LEMMA PeiAllocatePoolInv ==
  ASSUME Inv, PeiAllocatePool
  PROVE  Inv'
PROOF
<1>0. TypeOK /\ TopsOK /\ PagesOnce /\ HeldIsTaken /\ HeldApart
  BY DEF Inv
<1>1. /\ hobs' = Append(hobs, OtherHob)
      /\ UNCHANGED <<freeMemoryTop, freePhysicalTop, phases, pc, request, cursor,
                     merged, held, slack, lost>>
  BY DEF PeiAllocatePool
<1>2. OtherHob \in HobRecord /\ OtherHob.type = "other"
  BY DEF OtherHob, Hob, HobRecord
<1>3. hobs \in Seq(HobRecord)
  BY <1>0 DEF TypeOK
<1>4. /\ hobs' \in Seq(HobRecord) /\ DOMAIN hobs' = DOMAIN hobs \cup {Len(hobs) + 1}
      /\ hobs'[Len(hobs) + 1] = OtherHob
      /\ \A k \in DOMAIN hobs : hobs'[k] = hobs[k]
  BY <1>1, <1>2, <1>3
<1>5. Allocation(hobs') = Allocation(hobs) /\ Taken(hobs') = Taken(hobs)
  BY <1>2, <1>4 DEF Allocation, Taken, AllocTypes
<1>6. \A k \in Allocation(hobs) : hobs'[k] = hobs[k]
  BY <1>4 DEF Allocation
<1>7. Taken(hobs) \subseteq Allocation(hobs)
  BY DEF Taken, Allocation, AllocTypes
<1>8. /\ Disjoint(hobs) => Disjoint(hobs')
      /\ AllPages(hobs') = AllPages(hobs) /\ TakenPages(hobs') = TakenPages(hobs)
  BY <1>5, <1>6, <1>7 DEF Disjoint, Meet, AllPages, TakenPages, HobPages
<1>9. TopsOK' /\ AboveTop' = AboveTop
  BY <1>0, <1>1, TopsStay
<1>10. PagesOnce' /\ HeldIsTaken' /\ HeldApart'
  BY <1>0, <1>1, <1>8, <1>9 DEF PagesOnce, HeldIsTaken, HeldApart
<1>11. TypeOK'
  BY <1>0, <1>1, <1>4 DEF TypeOK, phases
<1> QED
  BY <1>9, <1>10, <1>11 DEF Inv

-----------------------------------------------------------------------------
(* The change to permanent memory preserves the invariant.                 *)

MovedPages(S) == {Moved(p) : p \in S}

\* How far the pages taken from temporary memory move.
Distance == freePhysicalTop - TempTop

\* Where pages move, and that there is room for them above the new stack.
LEMMA MovedFacts ==
  ASSUME TypeOK, TopsOK, SwitchStack
  PROVE  /\ Distance \in Nat \ {0}
         /\ PhysicalBegin + StackPages <= NewBase /\ NewBase <= freePhysicalTop
         /\ NewBase = freeMemoryTop + Distance
         /\ 0 <= freeMemoryTop /\ freeMemoryTop <= TempTop
         /\ freePhysicalTop <= PhysicalEnd
         /\ AboveTop = (freeMemoryTop .. TempTop - 1)
                         \cup (freePhysicalTop .. PhysicalEnd - 1)
         /\ \A p \in AboveTop : Moved(p) = IF p < TempTop THEN p + Distance ELSE p
PROOF
<1>1. /\ ~ peiMemoryInstalled /\ switchStackSignal /\ UsesPhysical
      /\ freeMemoryTop \in Int /\ freePhysicalTop \in Int
      /\ (NewBase - PhysicalBegin - StackPages) * HobsPerPage >= Len(WithStack)
  BY DEF SwitchStack, UsesPhysical, TypeOK
<1>2. /\ PhysicalBegin <= freePhysicalTop /\ freePhysicalTop <= PhysicalEnd
      /\ 0 <= freeMemoryTop /\ freeMemoryTop <= TempTop
  BY <1>1 DEF TopsOK, FreeTop, LowBound, HighBound
<1>3. NewBase = freeMemoryTop + Distance /\ NewBase \in Int
  BY <1>1, Sizes DEF NewBase, Pages, Distance
<1>4. Len(WithStack) \in Nat
  <2>1. WithStack \in Seq(HobRecord)
    <3>1. Hob(PhysicalBegin, StackPages, "boot") \in HobRecord
      BY Sizes DEF Hob, HobRecord, AllocTypes
    <3> QED
      BY <3>1 DEF WithStack, TypeOK
  <2> QED
    BY <2>1
<1>5. NewBase - PhysicalBegin - StackPages >= 0
  <2> DEFINE a == NewBase - PhysicalBegin - StackPages
  <2>1. a \in Int /\ a * HobsPerPage >= Len(WithStack)
    BY <1>1, <1>3, Sizes
  <2> HIDE DEF a
  <2>2. a * HobsPerPage >= 0 * HobsPerPage
    <3>1. a * HobsPerPage \in Int /\ 0 * HobsPerPage = 0
      BY <2>1, Sizes
    <3> QED
      BY <1>4, <2>1, <3>1
  <2>3. a >= 0
    BY <2>1, <2>2, RoomBound
  <2> QED
    BY <2>3 DEF a
<1>6. AboveTop = (freeMemoryTop .. TempTop - 1)
                   \cup (freePhysicalTop .. PhysicalEnd - 1)
  BY <1>1 DEF AboveTop
<1>7. Distance \in Nat \ {0}
  BY <1>1, <1>2, Sizes DEF Distance
<1>8. ASSUME NEW p \in AboveTop
      PROVE  Moved(p) = IF p < TempTop THEN p + Distance ELSE p
  <2>1. p \in Int /\ p >= freeMemoryTop
    BY <1>1, <1>2, <1>6, Sizes
  <2>2. Moved(p) = IF p < TempTop THEN p - freeMemoryTop + NewBase ELSE p
    BY <2>1 DEF Moved, InTemporary
  <2>3. p - freeMemoryTop + NewBase = p + Distance
    BY <1>1, <1>3, <1>7, <2>1
  <2> QED
    BY <2>2, <2>3
<1>9. NewBase <= freePhysicalTop
  BY <1>1, <1>2, <1>3, Sizes DEF Distance
<1>10. PhysicalBegin + StackPages <= NewBase
  BY <1>3, <1>5, Sizes
<1> QED
  BY <1>2, <1>3, <1>6, <1>7, <1>8, <1>9, <1>10

\* The pages above the tops move to all that is above the new one, each to a
\* page of its own.
LEMMA MovedAbove ==
  ASSUME TypeOK, TopsOK, SwitchStack
  PROVE  /\ MovedPages(AboveTop) = NewBase .. PhysicalEnd - 1
         /\ \A p, q \in AboveTop : Moved(p) = Moved(q) => p = q
         /\ StackRange \cap AboveTop = {}
         /\ StackRange \cap (NewBase .. PhysicalEnd - 1) = {}
         /\ AboveTop' = (NewBase .. PhysicalEnd - 1) \cup StackRange
         /\ NewBase \in Nat /\ StackRange \subseteq Nat
PROOF
<1> DEFINE d == Distance
<1>1. /\ d \in Nat \ {0} /\ d = freePhysicalTop - TempTop
      /\ PhysicalBegin + StackPages <= NewBase /\ NewBase <= freePhysicalTop
      /\ NewBase = freeMemoryTop + d
      /\ 0 <= freeMemoryTop /\ freeMemoryTop <= TempTop
      /\ freePhysicalTop <= PhysicalEnd
      /\ AboveTop = (freeMemoryTop .. TempTop - 1)
                      \cup (freePhysicalTop .. PhysicalEnd - 1)
      /\ freeMemoryTop \in Int /\ freePhysicalTop \in Int
  BY MovedFacts DEF TypeOK, Distance
<1>2. \A p \in AboveTop : Moved(p) = IF p < TempTop THEN p + d ELSE p
  BY MovedFacts
<1> HIDE DEF d
<1>3. NewBase \in Nat
  BY <1>1, Sizes
<1>4. ASSUME NEW p \in AboveTop PROVE Moved(p) \in NewBase .. PhysicalEnd - 1
  <2>1. p \in Int /\ freeMemoryTop <= p
        /\ (p < TempTop \/ (freePhysicalTop <= p /\ p < PhysicalEnd))
    BY <1>1, Sizes
  <2>2. CASE p < TempTop
    BY <1>1, <1>2, <1>3, <2>1, <2>2, Sizes
  <2>3. CASE ~ (p < TempTop)
    BY <1>1, <1>2, <1>3, <2>1, <2>3, Sizes
  <2> QED
    BY <2>2, <2>3
<1>5. ASSUME NEW p \in NewBase .. PhysicalEnd - 1
      PROVE  \E q \in AboveTop : Moved(q) = p
  <2>1. CASE p < freePhysicalTop
    <3>1. p - d \in AboveTop /\ p - d < TempTop /\ (p - d) + d = p
      BY <1>1, <1>3, <2>1, Sizes
    <3> QED
      BY <1>2, <3>1
  <2>2. CASE ~ (p < freePhysicalTop)
    <3>1. p \in AboveTop /\ ~ (p < TempTop)
      BY <1>1, <1>3, <2>2, Sizes
    <3> QED
      BY <1>2, <3>1
  <2> QED
    BY <2>1, <2>2
<1>6. MovedPages(AboveTop) = NewBase .. PhysicalEnd - 1
  BY <1>4, <1>5 DEF MovedPages
<1>7. ASSUME NEW p \in AboveTop, NEW q \in AboveTop, Moved(p) = Moved(q)
      PROVE  p = q
  <2>1. /\ p \in Int /\ q \in Int
        /\ p < TempTop \/ freePhysicalTop <= p
        /\ q < TempTop \/ freePhysicalTop <= q
    BY <1>1, Sizes
  <2>2. /\ Moved(p) = IF p < TempTop THEN p + d ELSE p
        /\ Moved(q) = IF q < TempTop THEN q + d ELSE q
    BY <1>2
  <2>3. Moved(p) = Moved(q)
    BY <1>7
  <2>4. d \in Nat \ {0} /\ d = freePhysicalTop - TempTop /\ freePhysicalTop \in Int
    BY <1>1
  <2> DEFINE m == Moved(p)
  <2> HIDE DEF m
  <2>5. /\ m = IF p < TempTop THEN p + d ELSE p
        /\ m = IF q < TempTop THEN q + d ELSE q
    BY <2>2, <2>3 DEF m
  <2> QED
    BY <2>1, <2>4, <2>5, Sizes
<1>8. /\ StackRange \subseteq Nat
      /\ \A p \in StackRange : TempTop <= p /\ p < NewBase /\ p < freePhysicalTop
  BY <1>1, <1>3, Sizes DEF StackRange
<1>9. StackRange \cap AboveTop = {} /\ StackRange \cap (NewBase .. PhysicalEnd - 1) = {}
  BY <1>1, <1>3, <1>8, Sizes
<1>10. AboveTop' = (NewBase .. PhysicalEnd - 1) \cup StackRange
  BY DEF SwitchStack, AboveTop, StackRange
<1> QED
  BY <1>3, <1>6, <1>7, <1>8, <1>9, <1>10

\* A range above the tops lies in one memory, and moves as a whole.
LEMMA MovedRange ==
  ASSUME TypeOK, TopsOK, SwitchStack, NEW b \in Int, NEW n \in Nat,
         b .. b + n - 1 \subseteq AboveTop
  PROVE  /\ Moved(b) \in Int
         /\ Moved(b) .. Moved(b) + n - 1 = MovedPages(b .. b + n - 1)
PROOF
<1>0. /\ freeMemoryTop \in Int /\ freePhysicalTop \in Int /\ NewBase \in Nat
      /\ Distance \in Nat \ {0} /\ Distance = freePhysicalTop - TempTop
      /\ AboveTop = (freeMemoryTop .. TempTop - 1)
                      \cup (freePhysicalTop .. PhysicalEnd - 1)
  BY MovedFacts, MovedAbove DEF TypeOK, Distance
<1>1. \A p \in AboveTop : Moved(p) = IF p < TempTop THEN p + Distance ELSE p
  BY MovedFacts
<1>2. Moved(b) \in Int
  BY <1>0, Sizes DEF Moved
<1> DEFINE d == Distance
           R == b .. b + n - 1
<1>3. CASE n = 0
  <2>1. R = {} /\ (Moved(b) .. Moved(b) + n - 1) = {}
    BY <1>2, <1>3
  <2> QED
    BY <1>2, <2>1 DEF MovedPages
<1>4. CASE n > 0 /\ b < TempTop
  <2>1. \A p \in R : p < TempTop
    <3>1. TempTop \notin AboveTop
      BY <1>0, Sizes
    <3>2. TempTop \notin R
      BY <3>1
    <3> QED
      BY <1>4, <3>2, Sizes
  <2>2. \A p \in R : Moved(p) = p + d
    BY <1>1, <2>1
  <2>3. b \in R
    BY <1>4
  <2>4. Moved(b) = b + d
    BY <2>2, <2>3
  <2> HIDE DEF R, d
  <2>5. MovedPages(R) = {p + d : p \in R}
    BY <2>2 DEF MovedPages
  <2>6. d \in Nat
    BY <1>0 DEF d
  <2>7. {p + d : p \in b .. b + n - 1} = b + d .. b + d + n - 1
    <3>1. \A q \in b + d .. b + d + n - 1 : q - d \in b .. b + n - 1 /\ q = (q - d) + d
      BY <2>6
    <3>2. \A p \in b .. b + n - 1 : p + d \in b + d .. b + d + n - 1
      BY <2>6
    <3> QED
      BY <3>1, <3>2
  <2> QED
    BY <1>2, <2>4, <2>5, <2>7 DEF R
<1>5. CASE n > 0 /\ ~ (b < TempTop)
  <2>1. \A p \in R : ~ (p < TempTop)
    BY <1>5, Sizes
  <2>2. \A p \in R : Moved(p) = p
    BY <1>1, <2>1
  <2>3. b \in R
    BY <1>5
  <2>4. MovedPages(R) = R
    BY <2>2 DEF MovedPages
  <2> QED
    BY <1>2, <2>2, <2>3, <2>4
<1> QED
  BY <1>3, <1>4, <1>5

\* The HOB for the stack.
StackHob == Hob(PhysicalBegin, StackPages, "boot")

\* What becomes of the HOBs: each moves with its pages, and there is one for
\* the stack, in a new place, unless there was no room for it.
IsConverted(new, N) ==
  /\ new \in Seq(HobRecord)
  /\ N \cap Allocation(hobs) = {} /\ (\A j, k \in N : j = k)
  /\ Allocation(new) = Allocation(hobs) \cup N
  /\ Taken(new) = Taken(hobs) \cup N
  /\ \A k \in Allocation(hobs) : PagesOf(new[k]) = MovedPages(PagesOf(hobs[k]))
  /\ \A k \in N : PagesOf(new[k]) = StackRange
  /\ AllPages(WithStack) = AllPages(hobs) \cup (IF N = {} THEN {} ELSE StackRange)

LEMMA ConvertedHobs ==
  ASSUME Inv, SwitchStack
  PROVE  \E N \in SUBSET Nat : IsConverted(hobs', N)
PROOF
<1> DEFINE ws == WithStack
           new == ConvertMemoryAllocationHobs(ws)
           n == Len(hobs) + 1
           N == IF ws = hobs THEN {} ELSE {n}
<1>0. TypeOK /\ TopsOK /\ PagesOnce
  BY DEF Inv
<1>1. hobs' = new /\ hobs \in Seq(HobRecord) /\ freeMemoryTop \in Int /\ NewBase \in Nat
      /\ PhysicalBegin >= TempTop /\ PhysicalBegin \in Nat
  BY <1>0, MovedAbove, Sizes DEF SwitchStack, TypeOK
<1>2. StackHob \in HobRecord /\ StackHob.type = "boot" /\ PagesOf(StackHob) = StackRange
      /\ StackHob.base = PhysicalBegin /\ StackHob.pages = StackPages
  BY Sizes DEF StackHob, Hob, HobRecord, AllocTypes, PagesOf, Top, StackRange
<1>3. \/ ws = hobs
      \/ ws = Append(hobs, StackHob)
  BY DEF WithStack, StackHob
<1>4. /\ ws \in Seq(HobRecord) /\ N \in SUBSET Nat /\ N \cap DOMAIN hobs = {}
      /\ DOMAIN ws = DOMAIN hobs \cup N
      /\ \A k \in DOMAIN hobs : ws[k] = hobs[k]
      /\ \A k \in N : ws[k] = StackHob
  <2>1. CASE ws = hobs
    BY <1>1, <2>1
  <2>2. CASE ws # hobs
    <3>1. ws = Append(hobs, StackHob) /\ N = {n}
      BY <1>3, <2>2
    <3> HIDE DEF ws, N
    <3> QED
      BY <1>1, <1>2, <3>1
  <2> QED
    BY <2>1, <2>2
<1>5. \A j, k \in N : j = k
  OBVIOUS
<1> HIDE DEF ws, N, n
<1>6. ASSUME NEW k \in DOMAIN ws
      PROVE  /\ ws[k] \in HobRecord /\ new[k] \in HobRecord
             /\ new[k].type = ws[k].type /\ new[k].pages = ws[k].pages
             /\ k \in Allocation(ws) => new[k].base = Moved(ws[k].base)
  <2>1. ws[k] \in HobRecord
    <3>1. ws \in Seq(HobRecord)
      BY <1>4
    <3> QED
      BY <3>1
  <2>2. ws[k].base \in Int
    BY <2>1 DEF HobRecord
  <2>3. Moved(ws[k].base) \in Int
    BY <1>1, <2>2 DEF Moved
  <2>4. new[k] = IF k \in Allocation(ws)
                   THEN [ws[k] EXCEPT !.base = Moved(ws[k].base)] ELSE ws[k]
    BY <1>6 DEF ConvertMemoryAllocationHobs
  <2> HIDE DEF new
  <2> QED
    BY <2>1, <2>3, <2>4 DEF HobRecord
<1>7. new \in Seq(HobRecord) /\ DOMAIN new = DOMAIN ws
  <2>1. new = [k \in DOMAIN ws |-> new[k]]
    BY DEF ConvertMemoryAllocationHobs
  <2>2. DOMAIN ws = 1 .. Len(ws) /\ Len(ws) \in Nat
    <3>1. ws \in Seq(HobRecord)
      BY <1>4
    <3> QED
      BY <3>1
  <2> HIDE DEF new
  <2>3. new \in [1 .. Len(ws) -> HobRecord]
    BY <1>6, <2>1, <2>2
  <2> QED
    BY <2>2, <2>3
<1> HIDE DEF new
<1>8. Allocation(new) = Allocation(ws) /\ Taken(new) = Taken(ws)
  BY <1>6, <1>7 DEF Allocation, Taken
<1>9. /\ Allocation(ws) = Allocation(hobs) \cup N
      /\ Taken(ws) = Taken(hobs) \cup N
      /\ N \cap Allocation(hobs) = {}
  BY <1>2, <1>4 DEF Allocation, Taken, AllocTypes
<1>10. ASSUME NEW k \in Allocation(hobs)
       PROVE  PagesOf(new[k]) = MovedPages(PagesOf(hobs[k]))
  <2>1. k \in DOMAIN hobs /\ k \in DOMAIN ws /\ ws[k] = hobs[k] /\ k \in Allocation(ws)
    BY <1>4, <1>9 DEF Allocation
  <2>2. hobs[k] \in HobRecord
    BY <1>1, <2>1
  <2> DEFINE b == hobs[k].base
             m == hobs[k].pages
  <2>3. b \in Int /\ m \in Nat /\ PagesOf(hobs[k]) = b .. b + m - 1
    BY <2>2 DEF HobRecord, PagesOf, Top
  <2>4. PagesOf(hobs[k]) \subseteq AboveTop
    <3>1. PagesOf(hobs[k]) \subseteq AllPages(hobs)
      BY DEF AllPages, HobPages
    <3> QED
      BY <1>0, <3>1 DEF PagesOnce
  <2>5. new[k].base = Moved(b) /\ new[k].pages = m
    BY <1>6, <2>1
  <2>6. PagesOf(new[k]) = Moved(b) .. Moved(b) + m - 1
    <3>1. new[k] \in HobRecord
      BY <1>6, <2>1
    <3>2. PagesOf(new[k]) = new[k].base .. new[k].base + new[k].pages - 1
      BY <3>1 DEF PagesOf, Top, HobRecord
    <3> HIDE DEF b, m
    <3> QED
      BY <2>5, <3>2
  <2> HIDE DEF b, m
  <2>7. Moved(b) .. Moved(b) + m - 1 = MovedPages(b .. b + m - 1)
    BY <1>0, <2>3, <2>4, MovedRange
  <2> QED
    BY <2>3, <2>6, <2>7
<1>11. ASSUME NEW k \in N
       PROVE  PagesOf(new[k]) = StackRange
  <2>1. k \in DOMAIN ws /\ k \in Allocation(ws) /\ ws[k] = StackHob
    BY <1>4, <1>9
  <2>2. Moved(PhysicalBegin) = PhysicalBegin
    BY <1>1, Sizes DEF Moved, InTemporary
  <2>3. new[k].base = PhysicalBegin /\ new[k].pages = StackPages
    BY <1>2, <1>6, <2>1, <2>2
  <2>4. new[k] \in HobRecord
    BY <1>6, <2>1
  <2>5. PagesOf(new[k]) = new[k].base .. new[k].base + new[k].pages - 1
    BY <2>4 DEF PagesOf, Top, HobRecord
  <2> QED
    BY <2>3, <2>5 DEF StackRange
<1>12. AllPages(ws) = AllPages(hobs) \cup (IF N = {} THEN {} ELSE StackRange)
  <2>1. \A k \in Allocation(hobs) : ws[k] = hobs[k]
    BY <1>4 DEF Allocation
  <2>2. \A k \in N : PagesOf(ws[k]) = StackRange
    BY <1>2, <1>4
  <2> QED
    BY <1>9, <2>1, <2>2 DEF AllPages, HobPages
<1>13. IsConverted(new, N)
  BY <1>5, <1>7, <1>8, <1>9, <1>10, <1>11, <1>12 DEF IsConverted, ws
<1> QED
  BY <1>1, <1>4, <1>13

LEMMA SwitchStackInv ==
  ASSUME Inv, SwitchStack
  PROVE  /\ Inv'
         /\ \A r, s \in held : r # s => ~ Meet(Block(Moved(r.base), r.pages),
                                           Block(Moved(s.base), s.pages))
PROOF
<1>0. TypeOK /\ TopsOK /\ PagesOnce /\ HeldIsTaken /\ HeldApart
  BY DEF Inv
<1>1. /\ freeMemoryTop' = NewBase /\ freePhysicalTop' = NewBase
      /\ ~ peiMemoryInstalled /\ switchStackSignal /\ peiMemoryInstalled' = TRUE
      /\ held' = {Block(Moved(r.base), r.pages) : r \in held}
      /\ slack' = MovedPages(slack) \cup StackRange
      /\ lost' = MovedPages(lost) \cup (StackRange \ AllPages(WithStack))
      /\ UNCHANGED <<switchStackSignal, pc, request, cursor, merged>>
  BY DEF SwitchStack, UsesPhysical, MovedPages, AllPages
<1>2. /\ MovedPages(AboveTop) = NewBase .. PhysicalEnd - 1
      /\ \A p, q \in AboveTop : Moved(p) = Moved(q) => p = q
      /\ StackRange \cap AboveTop = {}
      /\ StackRange \cap MovedPages(AboveTop) = {}
      /\ AboveTop' = MovedPages(AboveTop) \cup StackRange
      /\ NewBase \in Nat /\ StackRange \subseteq Nat /\ MovedPages(AboveTop) \subseteq Nat
  BY <1>0, MovedAbove, Sizes
<1>3. PICK N \in SUBSET Nat : IsConverted(hobs', N)
  BY ConvertedHobs
<1> DEFINE S == IF N = {} THEN {} ELSE StackRange
<1>4. /\ AllPages(hobs) \subseteq AboveTop /\ lost \subseteq AboveTop
      /\ AboveTop = AllPages(hobs) \cup lost /\ AllPages(hobs) \cap lost = {}
  BY <1>0 DEF PagesOnce
<1>5. /\ PagesIn(held) \subseteq AboveTop /\ slack \subseteq AboveTop
      /\ TakenPages(hobs) \subseteq AboveTop
  BY <1>0, <1>4, TakenInAll DEF HeldIsTaken
<1>6. \A A, B \in SUBSET AboveTop :
        A \cap B = {} => MovedPages(A) \cap MovedPages(B) = {}
  BY <1>2 DEF MovedPages
<1>7. \A A, B : MovedPages(A \cup B) = MovedPages(A) \cup MovedPages(B)
  BY DEF MovedPages
<1>8. \A A, B : A \subseteq B => MovedPages(A) \subseteq MovedPages(B)
  BY DEF MovedPages
<1>9. \A k \in Allocation(hobs) : PagesOf(hobs[k]) \in SUBSET AboveTop
  BY <1>4 DEF AllPages, HobPages
<1>10. AllPages(hobs') = MovedPages(AllPages(hobs)) \cup S
  <2>1. \A x : x \in AllPages(hobs') <=>
          \/ \E k \in Allocation(hobs) : x \in MovedPages(PagesOf(hobs[k]))
          \/ \E k \in N : x \in StackRange
    <3>1. \A x : x \in AllPages(hobs') <=>
                   \E k \in Allocation(hobs') : x \in PagesOf(hobs'[k])
      BY DEF AllPages, HobPages
    <3>2. /\ Allocation(hobs') = Allocation(hobs) \cup N
          /\ \A k \in Allocation(hobs) : PagesOf(hobs'[k]) = MovedPages(PagesOf(hobs[k]))
          /\ \A k \in N : PagesOf(hobs'[k]) = StackRange
      BY <1>3 DEF IsConverted
    <3> QED
      BY <3>1, <3>2, ZenonT(30)
  <2>2. \A x : x \in MovedPages(AllPages(hobs)) <=>
          \E k \in Allocation(hobs) : x \in MovedPages(PagesOf(hobs[k]))
    BY DEF AllPages, HobPages, MovedPages
  <2> QED
    BY <2>1, <2>2
<1>11. TakenPages(hobs') = MovedPages(TakenPages(hobs)) \cup S
  <2>1. Taken(hobs) \subseteq Allocation(hobs)
    BY DEF Taken, Allocation, AllocTypes
  <2>2. \A x : x \in TakenPages(hobs') <=>
          \/ \E k \in Taken(hobs) : x \in MovedPages(PagesOf(hobs[k]))
          \/ \E k \in N : x \in StackRange
    BY <1>3, <2>1 DEF TakenPages, HobPages, IsConverted
  <2>3. \A x : x \in MovedPages(TakenPages(hobs)) <=>
          \E k \in Taken(hobs) : x \in MovedPages(PagesOf(hobs[k]))
    BY DEF TakenPages, HobPages, MovedPages
  <2> QED
    BY <2>2, <2>3
<1>12. StackRange \ AllPages(WithStack) = StackRange \ S
  BY <1>2, <1>3, <1>4 DEF IsConverted
<1>13. Disjoint(hobs')
  <2> SUFFICES ASSUME NEW j \in Allocation(hobs'), NEW k \in Allocation(hobs'), j # k
               PROVE  PagesOf(hobs'[j]) \cap PagesOf(hobs'[k]) = {}
    BY DEF Disjoint, Meet
  <2>1. /\ \A i \in Allocation(hobs) : PagesOf(hobs'[i]) = MovedPages(PagesOf(hobs[i]))
        /\ \A i \in N : PagesOf(hobs'[i]) = StackRange
        /\ Allocation(hobs') = Allocation(hobs) \cup N
        /\ \A i, l \in N : i = l
    BY <1>3 DEF IsConverted
  <2>2. CASE j \in Allocation(hobs) /\ k \in Allocation(hobs)
    <3>1. PagesOf(hobs[j]) \cap PagesOf(hobs[k]) = {}
      BY <1>0, <2>2 DEF PagesOnce, Disjoint, Meet
    <3> QED
      BY <1>6, <1>9, <2>1, <2>2, <3>1
  <2>3. \A i \in Allocation(hobs) : MovedPages(PagesOf(hobs[i])) \cap StackRange = {}
    <3>1. \A i \in Allocation(hobs) :
            MovedPages(PagesOf(hobs[i])) \subseteq MovedPages(AboveTop)
      BY <1>8, <1>9
    <3> QED
      BY <1>2, <3>1
  <2>4. CASE j \in Allocation(hobs) /\ k \in N
    BY <2>1, <2>3, <2>4
  <2>5. CASE j \in N /\ k \in Allocation(hobs)
    BY <2>1, <2>3, <2>5
  <2> QED
    BY <2>1, <2>2, <2>4, <2>5
<1> HIDE DEF S
<1>14. S \subseteq StackRange
  BY DEF S
<1>15. PagesOnce'
  <2>1. AboveTop' = AllPages(hobs') \cup lost'
    <3>1. MovedPages(AboveTop) = MovedPages(AllPages(hobs)) \cup MovedPages(lost)
      BY <1>4, <1>7
    <3>2. lost' = MovedPages(lost) \cup (StackRange \ S)
      BY <1>1, <1>12
    <3> QED
      BY <1>2, <1>10, <1>14, <3>1, <3>2
  <2>2. AllPages(hobs') \cap lost' = {}
    <3>1. MovedPages(AllPages(hobs)) \cap MovedPages(lost) = {}
      BY <1>4, <1>6
    <3>2. /\ MovedPages(AllPages(hobs)) \cap StackRange = {}
          /\ MovedPages(lost) \cap StackRange = {}
      BY <1>2, <1>4, <1>8
    <3> QED
      BY <1>1, <1>10, <1>12, <1>14, <3>1, <3>2
  <2> QED
    BY <1>13, <2>1, <2>2 DEF PagesOnce
<1>16. \A r \in held : /\ PagesOf(r) \in SUBSET AboveTop
                       /\ Moved(r.base) \in Nat
                       /\ PagesOf(Block(Moved(r.base), r.pages)) = MovedPages(PagesOf(r))
  <2> SUFFICES ASSUME NEW r \in held
               PROVE  /\ PagesOf(r) \in SUBSET AboveTop
                      /\ Moved(r.base) \in Nat
                      /\ PagesOf(Block(Moved(r.base), r.pages))
                           = MovedPages(PagesOf(r))
    OBVIOUS
  <2>1. r.base \in Nat /\ r.pages \in Nat \ {0}
    BY <1>0 DEF TypeOK
  <2>2. PagesOf(r) = r.base .. r.base + r.pages - 1
    BY <2>1 DEF PagesOf, Top
  <2>3. PagesOf(r) \subseteq AboveTop
    BY <1>5 DEF PagesIn
  <2>4. /\ Moved(r.base) \in Int
        /\ Moved(r.base) .. Moved(r.base) + r.pages - 1
             = MovedPages(r.base .. r.base + r.pages - 1)
    <3>1. /\ r.base \in Int /\ r.pages \in Nat
          /\ r.base .. r.base + r.pages - 1 \subseteq AboveTop
      BY <2>1, <2>2, <2>3
    <3> QED
      BY <1>0, <3>1, MovedRange
  <2>5. PagesOf(Block(Moved(r.base), r.pages))
          = Moved(r.base) .. Moved(r.base) + r.pages - 1
    BY <2>1, <2>4 DEF Block, PagesOf, Top
  <2>6. Moved(r.base) \in MovedPages(AboveTop)
    <3>1. r.base \in PagesOf(r)
      BY <2>1, <2>2
    <3> QED
      BY <2>3, <3>1 DEF MovedPages
  <2> QED
    BY <1>2, <2>2, <2>3, <2>4, <2>5, <2>6
<1>17. PagesIn(held') = MovedPages(PagesIn(held))
  <2>1. \A x : x \in PagesIn(held') <=>
          \E r \in held : x \in PagesOf(Block(Moved(r.base), r.pages))
    BY <1>1 DEF PagesIn
  <2>2. \A x : x \in MovedPages(PagesIn(held)) <=>
          \E r \in held : x \in MovedPages(PagesOf(r))
    BY DEF PagesIn, MovedPages
  <2> QED
    BY <1>16, <2>1, <2>2
<1>18. HeldIsTaken'
  <2>1. /\ MovedPages(TakenPages(hobs)) \subseteq MovedPages(PagesIn(held)) \cup MovedPages(slack)
        /\ MovedPages(PagesIn(held)) \cup MovedPages(slack)
             \subseteq MovedPages(TakenPages(hobs)) \cup MovedPages(lost)
    BY <1>0 DEF HeldIsTaken, MovedPages
  <2> QED
    BY <1>1, <1>11, <1>12, <1>14, <1>17, <2>1 DEF HeldIsTaken
<1>19. ASSUME NEW r \in held, NEW s \in held, r # s
       PROVE  ~ Meet(Block(Moved(r.base), r.pages), Block(Moved(s.base), s.pages))
  <2>1. PagesOf(r) \cap PagesOf(s) = {}
    BY <1>0, <1>19 DEF HeldApart, Meet
  <2> QED
    BY <1>6, <1>16, <2>1 DEF Meet
<1>20. HeldApart'
  <2> SUFFICES ASSUME NEW u \in held', NEW v \in held', u # v
               PROVE  ~ Meet(u, v)
    BY DEF HeldApart
  <2>1. PICK r \in held : u = Block(Moved(r.base), r.pages)
    BY <1>1
  <2>2. PICK s \in held : v = Block(Moved(s.base), s.pages)
    BY <1>1
  <2> QED
    BY <1>19, <2>1, <2>2
<1>21. held' \subseteq [base : Nat, pages : Nat \ {0}]
  <2>1. \A r \in held : r.pages \in Nat \ {0}
    BY <1>0 DEF TypeOK
  <2> QED
    BY <1>1, <1>16, <2>1 DEF Block
<1>22. slack' \subseteq Nat /\ lost' \subseteq Nat
  <2>1. MovedPages(slack) \subseteq Nat /\ MovedPages(lost) \subseteq Nat
    BY <1>2, <1>4, <1>5, <1>8
  <2> QED
    BY <1>1, <1>2, <2>1
<1>23. TypeOK'
  <2>1. hobs' \in Seq(HobRecord)
    BY <1>3 DEF IsConverted
  <2> QED
    BY <1>0, <1>1, <1>2, <1>21, <1>22, <2>1 DEF TypeOK
<1>24. TopsOK'
  <2>1. PhysicalBegin + StackPages <= NewBase /\ NewBase <= PhysicalEnd
    <3>1. /\ PhysicalBegin + StackPages <= NewBase /\ NewBase <= freePhysicalTop
          /\ freePhysicalTop <= PhysicalEnd /\ freePhysicalTop \in Int
      BY <1>0, MovedFacts DEF TypeOK
    <3> QED
      BY <1>2, <3>1, Sizes
  <2> QED
    BY <1>1, <2>1
    DEF TopsOK, FreeTop, LowBound, HighBound, UsesPhysical, HobBase
<1> QED
  BY <1>15, <1>18, <1>19, <1>23, <1>24, <1>20 DEF Inv

-----------------------------------------------------------------------------
(* The theorems.                                                           *)

LEMMA InitInv == Init => Inv
PROOF
<1> SUFFICES ASSUME Init PROVE Inv
  OBVIOUS
<1>1. /\ hobs = <<OtherHob>> /\ freeMemoryTop = TempTop /\ freePhysicalTop = 0
      /\ switchStackSignal = FALSE /\ peiMemoryInstalled = FALSE
      /\ pc = Idle /\ request = NoRequest /\ cursor = 0 /\ merged = FALSE
      /\ held = {} /\ slack = {} /\ lost = {}
  BY DEF Init
<1>2. OtherHob \in HobRecord /\ OtherHob.type = "other"
  BY DEF OtherHob, Hob, HobRecord
<1>3. hobs \in Seq(HobRecord) /\ DOMAIN hobs = {1} /\ hobs[1] = OtherHob
  BY <1>1, <1>2
<1>4. Allocation(hobs) = {} /\ Taken(hobs) = {}
  BY <1>2, <1>3 DEF Allocation, Taken, AllocTypes
<1>5. AllPages(hobs) = {} /\ TakenPages(hobs) = {} /\ Disjoint(hobs)
  BY <1>4 DEF AllPages, TakenPages, HobPages, Disjoint
<1>6. TypeOK
  <2>1. pc = "idle" /\ hobs \in Seq(HobRecord) /\ TempTop \in Int
    BY <1>1, <1>3, Sizes DEF Idle
  <2>2. freeMemoryTop \in Int /\ freePhysicalTop \in Int /\ cursor \in Nat
    BY <1>1, <2>1
  <2> QED
    BY <1>1, <2>1, <2>2 DEF TypeOK, Idle
<1>7. TopsOK
  BY <1>1, Sizes DEF TopsOK, FreeTop, LowBound, HighBound, UsesPhysical, HobBase
<1>8. AboveTop = {}
  BY <1>1, Sizes DEF AboveTop
<1>9. PagesOnce /\ HeldIsTaken /\ HeldApart
  BY <1>1, <1>5, <1>8 DEF PagesOnce, HeldIsTaken, HeldApart, PagesIn
<1> QED
  BY <1>6, <1>7, <1>9 DEF Inv

LEMMA NextInv == Inv /\ [Next]_vars => Inv'
PROOF
<1> SUFFICES ASSUME Inv, [Next]_vars PROVE Inv'
  OBVIOUS
<1>1. CASE UNCHANGED vars
  <2>1. /\ TypeOK'
        /\ UNCHANGED <<hobs, freeMemoryTop, freePhysicalTop, phases, held, slack, lost>>
    BY <1>1 DEF vars, phases, Inv, TypeOK
  <2> QED
    BY <2>1, QuietStep
<1>2. CASE PeiAllocatePages
  BY <1>2, AllocateBelowTopInv, SearchHobsInv DEF PeiAllocatePages
<1>3. ASSUME NEW b \in Page, NEW n \in 1 .. MaxFreed, PeiFreePages(Block(b, n))
      PROVE  Inv'
  <2>1. CASE NotFound(Block(b, n))
    BY <1>1, <2>1 DEF NotFound
  <2>2. CASE FreeFound(Block(b, n))
    BY <1>3, <2>2, FreeFoundInv DEF PeiFreePages
  <2> QED
    BY <1>3, <2>1, <2>2 DEF PeiFreePages
<1>4. CASE PeiAllocatePool
  BY <1>4, PeiAllocatePoolInv
<1>5. CASE PeiInstallPeiMemory
  BY <1>5, QuietStepsInv
<1>6. CASE SwitchStack
  BY <1>6, SwitchStackInv
<1>7. CASE Core
  BY <1>7, FindFreeMemoryInv, SearchStepsInv, MergeStepInv, JoinNextInv,
     QuietStepsInv DEF Core
<1> QED
  BY <1>1, <1>2, <1>3, <1>4, <1>5, <1>6, <1>7 DEF Next

(* Whatever is allocated, freed, merged and moved, the tops stay within the *)
(* memory the services work on, a page above them is in just one allocation *)
(* HOB or lost, and the HOBs that are not free are what callers hold.       *)
THEOREM MemoryInvariant == Spec => []Inv
PROOF
<1>1. Init => Inv
  BY InitInv
<1>2. Inv /\ [Next]_vars => Inv'
  BY NextInv
<1> QED
  BY <1>1, <1>2, PTL DEF Spec

(* No two memory allocation HOBs ever overlap: splitting, merging, giving    *)
(* back and moving (UpdateOrSplitMemoryAllocationHob, FreeMemoryAllocation- *)
(* Hob, ConvertMemoryAllocationHobs) keep them apart.                        *)
THEOREM HobsAlwaysDisjoint == Spec => []HobsDisjoint
PROOF
<1>1. Inv => HobsDisjoint
  BY DEF Inv, PagesOnce, Disjoint, HobsDisjoint
<1> QED
  BY <1>1, MemoryInvariant, PTL

(* No page above the tops is forgotten, however often HOBs are split, freed *)
(* and merged: it lies in a HOB, or no HOB could be built for it.            *)
THEOREM AlwaysAccounted == Spec => []Accounted
PROOF
<1>1. Inv => Accounted
  BY DEF Inv, PagesOnce, HeldIsTaken, Accounted, AllPages, TakenPages
<1> QED
  BY <1>1, MemoryInvariant, PTL

-----------------------------------------------------------------------------
(* The refinement of PageStore, step by step.                              *)

\* The ranges of the two modules are the same.
LEMMA SamePages ==
  ASSUME NEW r \in [base : Nat, pages : Nat]
  PROVE  Store!PagesOf(r) = PagesOf(r)
BY DEF Store!PagesOf, PagesOf, Top

LEMMA GivesNewRefines ==
  ASSUME Inv, NEW q \in Requests, GivesNew(q), UNCHANGED phases
  PROVE  Store!Allocate
PROOF
<1>1. PICK b \in Page : /\ held' = held \cup {Block(b, q.pages)}
                        /\ PagesOf(Block(b, q.pages)) \cap PagesIn(held) = {}
  BY DEF GivesNew
<1>2. q.pages \in {p.pages : p \in Requests}
  OBVIOUS
<1>3. \A r \in held : PagesOf(r) \cap PagesOf(Block(b, q.pages)) = {}
  BY <1>1 DEF PagesIn
<1>4. \A r \in held : ~ Store!Meet(r, Store!Block(b, q.pages))
  <2>1. Store!Block(b, q.pages) = Block(b, q.pages)
    BY DEF Store!Block, Block
  <2>2. Block(b, q.pages) \in [base : Nat, pages : Nat]
    BY RequestType, Sizes DEF Block, Page
  <2>3. held \subseteq [base : Nat, pages : Nat]
    BY DEF Inv, TypeOK
  <2> QED
    BY <1>3, <2>1, <2>2, <2>3, SamePages DEF Store!Meet
<1>5. held' = held \cup {Store!Block(b, q.pages)}
  BY <1>1 DEF Store!Block, Block
<1> QED
  BY <1>2, <1>4, <1>5 DEF Store!Allocate, phases

LEMMA TakesBackRefines ==
  ASSUME Inv, NEW b \in Page, NEW n \in 1 .. MaxFreed, TakesBack(Block(b, n)),
         UNCHANGED phases
  PROVE  Store!Free
PROOF
<1>1. PICK h \in held : /\ Within(Block(b, n), h)
                        /\ held' = (held \ {h}) \cup Remains(h, Block(b, n))
  BY DEF TakesBack
<1>2. h.base \in Nat /\ h.pages \in Nat \ {0} /\ b \in Nat /\ n \in Nat \ {0}
  BY MemoryAssumption DEF Inv, TypeOK, Page
<1>3. h.base <= b /\ b + n <= h.base + h.pages
  BY <1>1, <1>2 DEF Within, Top, Block
<1>4. b \in Store!PagesOf(h) /\ n \in 1 .. h.pages
  BY <1>2, <1>3 DEF Store!PagesOf
<1>5. Store!Within(Store!Block(b, n), h)
  <2>1. Store!PagesOf(Store!Block(b, n)) = b .. b + n - 1
    BY <1>2 DEF Store!PagesOf, Store!Block
  <2>2. Store!PagesOf(h) = h.base .. h.base + h.pages - 1
    BY DEF Store!PagesOf
  <2> QED
    BY <1>2, <1>3, <2>1, <2>2 DEF Store!Within
<1>6. Remains(h, Block(b, n)) = Store!Remains(h, Store!Block(b, n))
  <2>1. /\ Block(b, n).base = b /\ Block(b, n).pages = n
        /\ Store!Block(b, n).base = b /\ Store!Block(b, n).pages = n
        /\ Top(h) - Top(Block(b, n)) = h.base + h.pages - b - n
    BY <1>2 DEF Block, Store!Block, Top
  <2>2. Top(Block(b, n)) = b + n
    BY <1>2 DEF Block, Top
  <2> QED
    BY <2>1, <2>2 DEF Remains, Store!Remains, Block, Store!Block
<1>7. held' = (held \ {h}) \cup Store!Remains(h, Store!Block(b, n))
  BY <1>1, <1>6
<1> QED
  BY <1>4, <1>5, <1>7 DEF Store!Free, phases

LEMMA SwitchStackRefines ==
  ASSUME Inv, SwitchStack
  PROVE  Store!Move
PROOF
<1>1. /\ ~ peiMemoryInstalled /\ peiMemoryInstalled' = TRUE
      /\ held' = {Block(Moved(r.base), r.pages) : r \in held}
  BY DEF SwitchStack, UsesPhysical
<1>2. TempTop \in Page /\ Distance \in Page
  BY MovedFacts, Sizes DEF Inv, Page, TypeOK, Distance
<1> DEFINE Placed(r) == IF r.base < TempTop
                          THEN Store!Block(r.base + Distance, r.pages) ELSE r
<1>3. ASSUME NEW r \in held
      PROVE  Placed(r) = Block(Moved(r.base), r.pages)
  <2>1. r \in [base : Nat, pages : Nat \ {0}]
    BY DEF Inv, TypeOK
  <2>2. r.base \in PagesOf(r)
    BY <2>1 DEF PagesOf, Top
  <2>3. r.base \in AboveTop
    <3>1. PagesOf(r) \subseteq PagesIn(held)
      BY DEF PagesIn
    <3>2. PagesIn(held) \subseteq AllPages(hobs) \cup lost
      BY TakenInAll DEF Inv, HeldIsTaken
    <3> QED
      BY <2>2, <3>1, <3>2 DEF Inv, PagesOnce
  <2>4. Moved(r.base) = IF r.base < TempTop THEN r.base + Distance ELSE r.base
    BY <2>3, MovedFacts DEF Inv
  <2>5. r = [base |-> r.base, pages |-> r.pages]
    BY <2>1
  <2> QED
    BY <2>4, <2>5 DEF Block, Store!Block
<1>4. \A r, s \in held : r # s => ~ Store!Meet(Placed(r), Placed(s))
  <2> SUFFICES ASSUME NEW r \in held, NEW s \in held, r # s
               PROVE  ~ Store!Meet(Placed(r), Placed(s))
    OBVIOUS
  <2>1. ~ Meet(Block(Moved(r.base), r.pages), Block(Moved(s.base), s.pages))
    BY SwitchStackInv
  <2>2. ~ Meet(Placed(r), Placed(s))
    BY <1>3, <2>1
  <2>3. \A i \in held : Placed(i) \in [base : Nat, pages : Nat]
    <3>1. held' \subseteq [base : Nat, pages : Nat]
      BY SwitchStackInv DEF Inv, TypeOK
    <3> HIDE DEF Placed
    <3> QED
      BY <1>1, <1>3, <3>1
  <2> HIDE DEF Placed
  <2>4. Store!PagesOf(Placed(r)) = PagesOf(Placed(r))
    BY <2>3, SamePages
  <2>5. Store!PagesOf(Placed(s)) = PagesOf(Placed(s))
    BY <2>3, SamePages
  <2> QED
    BY <2>2, <2>4, <2>5 DEF Meet, Store!Meet
<1>5. held' = {Placed(r) : r \in held}
  BY <1>1, <1>3
<1> QED
  BY <1>1, <1>2, <1>4, <1>5 DEF Store!Move

LEMMA StepRefines == Inv /\ [Next]_vars => [Store!Next]_(Store!storeVars)
PROOF
<1> SUFFICES ASSUME Inv, [Next]_vars PROVE Store!Next \/ UNCHANGED Store!storeVars
  OBVIOUS
<1>1. ASSUME UNCHANGED <<held, peiMemoryInstalled>>
      PROVE  UNCHANGED Store!storeVars
  BY <1>1 DEF Store!storeVars
<1>2. CASE UNCHANGED vars
  BY <1>1, <1>2 DEF vars
<1>3. ASSUME NEW q \in Requests, AllocateBelowTop(q) PROVE Store!Next
  <2>1. GivesNew(q) /\ UNCHANGED phases
    BY <1>3, AllocateBelowTopInv DEF AllocateBelowTop
  <2> QED
    BY <2>1, GivesNewRefines DEF Store!Next
<1>4. ASSUME NEW q \in Requests, SearchHobs(q) PROVE UNCHANGED Store!storeVars
  BY <1>1, <1>4 DEF SearchHobs, phases
<1>5. ASSUME NEW b \in Page, NEW n \in 1 .. MaxFreed, PeiFreePages(Block(b, n))
      PROVE  Store!Next \/ UNCHANGED Store!storeVars
  <2>1. CASE NotFound(Block(b, n))
    BY <1>1, <2>1 DEF NotFound, vars
  <2>2. CASE FreeFound(Block(b, n))
    <3>1. TakesBack(Block(b, n)) /\ UNCHANGED phases
      BY <1>5, <2>2, FreeFoundInv DEF PeiFreePages, FreeFound
    <3> QED
      BY <3>1, TakesBackRefines DEF Store!Next
  <2> QED
    BY <1>5, <2>1, <2>2 DEF PeiFreePages
<1>6. CASE PeiAllocatePool \/ PeiInstallPeiMemory
  BY <1>1, <1>6 DEF PeiAllocatePool, PeiInstallPeiMemory, phases
<1>7. CASE SwitchStack
  BY <1>7, SwitchStackRefines DEF Store!Next
<1>8. CASE FindFreeMemory
  <2>1. request \in Requests /\ GivesNew(request) /\ UNCHANGED phases
    BY <1>8, FindFreeMemoryInv DEF FindFreeMemory
  <2> QED
    BY <2>1, GivesNewRefines DEF Store!Next
<1>9. CASE NothingFits \/ MergeStep \/ FindAgain \/ OutOfResources \/ JoinNext
           \/ JoinEnds
  BY <1>1, <1>9
  DEF NothingFits, MergeStep, FindAgain, OutOfResources, MergeEnds, JoinNext,
      JoinEnds, phases
<1> QED
  BY <1>2, <1>3, <1>4, <1>5, <1>6, <1>7, <1>8, <1>9
  DEF Next, Core, PeiAllocatePages

(* The memory services implement the store of pages their callers rely on:  *)
(* AllocatePages gives pages nobody holds, FreePages takes back just the     *)
(* range it is given, and the change to permanent memory moves everything    *)
(* in temporary memory by one distance, with nothing landing on another.     *)
THEOREM StoreImplemented == Spec => ImplementsPageStore
PROOF
<1>1. Init => Store!Init
  BY DEF Init, Store!Init
<1>2. Inv /\ [Next]_vars => [Store!Next]_(Store!storeVars)
  BY StepRefines
<1> QED
  BY <1>1, <1>2, MemoryInvariant, PTL DEF Spec, ImplementsPageStore, Store!Spec

=============================================================================
