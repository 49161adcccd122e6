-------------------------- MODULE MCPeiMigration ---------------------------
(***************************************************************************)
(* Eleven machines for PeiMigration: the board's temporary RAM service and *)
(* the core's own copies, temporary memory in three layouts, permanent     *)
(* memory above and below, with and without migration of volumes.          *)
(***************************************************************************)
EXTENDS PeiMigration

Cells  == 110
Points(guid, ppi, fv) == [guid |-> guid, ppi |-> ppi, fv |-> fv]

(* Flash, from address o: volume 1 (core image 2-5, file 6-7, volume 2 at  *)
(* 8 with file 9-10), volume 3 at 13 with file 14-15.  Temporary memory    *)
(* from o + 17.  h, s, g: heap, stack and a gap.                           *)
Layout(o, heap, stack, gap, pages) ==
  LET p(a) == IF a = 0 THEN 0 ELSE a + o
      static == (2 :> Points(3, 3, 0)) @@ (5 :> Points(3, 5, 0)) @@ (6 :> Points(7, 7, 0))
             @@ (14 :> Points(15, 15, 0))
             @@ ((heap + 1) :> Points(10, heap + 2, 0))
             @@ ((heap + 3) :> Points(4, heap + 4, 0)) @@ ((heap + 4) :> Points(0, 0, 8))
             @@ ((stack + 1) :> Points(7, stack + 2, 0))
             @@ (IF pages = 0 THEN (heap + 1) :> Points(10, heap + 2, 0)
                 ELSE (heap + 5) :> Points(3, heap + 5, 0))
             @@ (IF gap = 0 THEN (heap + 1) :> Points(10, heap + 2, 0)
                 ELSE gap :> Points(gap, gap, 0))
  IN  [memory |-> [a \in 0 .. Cells |->
         IF a = 0 THEN Gone
         ELSE IF a - o \in DOMAIN static
           THEN [id |-> a - o, guid |-> p(static[a - o].guid), ppi |-> p(static[a - o].ppi),
                 fv |-> p(static[a - o].fv)]
           ELSE [Gone EXCEPT !.id = a - o]],
       ppis |-> {p(a) : a \in {5, 6, 14, heap + 1, heap + 3, stack + 1}}
                \cup (IF pages = 0 THEN {} ELSE {p(heap + 5)})
                \cup (IF gap = 0 THEN {} ELSE {p(gap)})]

Machine(o, begin, length, support, temp, heap, stack, gap, pages, migrate, plan, raw, cached,
        fixed, hs, stripped) ==
  LET l == Layout(o, heap, stack, gap, pages)
      at(b, n) == [base |-> b + o, size |-> n]
      image(b, n, assigned) == [base |-> b + o, size |-> n, assigned |-> assigned,
                                stripped |-> stripped]
      volume(h, n, fs) == [header |-> h + o, length |-> n, files |-> fs, service |-> 3 + o]
  IN  [support |-> support, temp |-> at(17, temp), heap |-> at(heap, 6), stack |-> at(stack, 6),
       heapUsed |-> 5, pages |-> pages, begin |-> begin, length |-> length, maxStack |-> 7,
       memory |-> l.memory, ppis |-> l.ppis,
       volumes |-> <<volume(1, 12, <<6 + o>>), volume(8, 4, <<9 + o>>), volume(13, 5, <<14 + o>>)>>,
       pointers |-> [Fv |-> heap + o, HobList |-> heap + o, UnknownFvInfo |-> 0,
                     TempFileGuid |-> heap + 2 + o],
       service |-> 2 + o, coreFv |-> 1, image |-> image(2, 4, IF fixed > 0 THEN fixed - 6 ELSE -6),
       images |-> {image(6, 2, IF fixed > 0 THEN fixed - 6 ELSE -6),
                   image(14, 2, IF fixed > 0 THEN fixed - 3 ELSE -4), image(9, 2, 0)},
       migrate |-> migrate, shadow |-> TRUE, plan |-> plan, raw |-> raw, cached |-> cached,
       fixedFiles |-> {}, fileSize |-> 2, fixed |-> fixed, hobs |-> hs]

All   == <<"late", "late", "late">>
Some  == <<"no", "early", "early">>
Early == <<"late", "no", "early">>

Res(b, n, kind)  == Resource(b, n, TRUE, kind)
Alloc(b, n)      == [Resource(b, n, FALSE, "memory") EXCEPT !.type = "allocation"]
Device(b, n)     == [Resource(b, n, FALSE, "device") EXCEPT !.memory = FALSE]

MCMachines == {
  Machine(0, 36, 60, TRUE, 12, 17, 23, 0, 1, TRUE, All, TRUE, {1, 2, 3}, 0, <<>>, FALSE),
  Machine(70, 2, 60, TRUE, 12, 17, 23, 0, 0, TRUE, Early, FALSE, {3}, 0, <<>>, FALSE),
  Machine(0, 36, 60, TRUE, 12, 17, 23, 0, 1, FALSE, All, FALSE, {}, 0, <<>>, FALSE),
  Machine(0, 36, 60, FALSE, 15, 25, 18, 31, 1, TRUE, All, TRUE, {1, 2, 3}, 0, <<>>, FALSE),
  Machine(70, 2, 60, FALSE, 15, 25, 18, 24, 1, TRUE, Some, FALSE, {3}, 0, <<>>, FALSE),
  Machine(0, 36, 60, FALSE, 14, 17, 25, 24, 1, FALSE, All, FALSE, {}, 0, <<>>, TRUE),
  Machine(0, 36, 18, FALSE, 14, 17, 25, 24, 0, FALSE, All, FALSE, {}, 0, <<>>, FALSE),
  Machine(0, 36, 22, TRUE, 12, 17, 23, 0, 1, FALSE, All, FALSE, {}, -1,
          <<Res(32, 20, "a"), Device(100, 4), Res(52, 48, "a")>>, FALSE),
  Machine(0, 36, 22, TRUE, 12, 17, 23, 0, 1, FALSE, All, FALSE, {}, 80,
          <<Res(60, 36, "a"), Alloc(95, 1), Res(32, 27, "b"), Res(58, 2, "a")>>, FALSE),
  Machine(0, 36, 22, FALSE, 15, 25, 18, 17, 0, FALSE, All, FALSE, {}, 80,
          <<Res(32, 20, "a"), Alloc(70, 2), Res(45, 55, "a")>>, FALSE),
  Machine(0, 36, 22, FALSE, 15, 25, 18, 17, 1, FALSE, All, FALSE, {}, -1,
          <<Alloc(61, 39), Res(32, 28, "b"), Res(60, 40, "a")>>, TRUE)
}
=============================================================================
