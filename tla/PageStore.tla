----------------------------- MODULE PageStore -----------------------------
(***************************************************************************)
(* What the callers of AllocatePages and FreePages may rely on, whatever   *)
(* the memory services do inside: ranges of pages that somebody holds      *)
(* never meet, they stay where they are until they are given back, and     *)
(* move once, all together, when permanent memory replaces the temporary   *)
(* one.                                                                    *)
(***************************************************************************)
EXTENDS Integers

CONSTANT Address,    \* Page numbers.
         Sizes       \* Numbers of pages that may be asked for.

VARIABLES held,      \* The ranges of pages that callers hold.
          moved      \* The temporary memory was replaced.

storeVars == <<held, moved>>

Block(b, n) == [base |-> b, pages |-> n]
PagesOf(r) == r.base .. r.base + r.pages - 1
Meet(r, s) == PagesOf(r) \cap PagesOf(s) # {}
Within(r, s) == PagesOf(r) \subseteq PagesOf(s)

\* What is left of a range that is given back in part.
Remains(r, s) ==
  {q \in {Block(r.base, s.base - r.base),
          Block(s.base + s.pages, r.base + r.pages - s.base - s.pages)} :
     q.pages > 0}

Init == held = {} /\ moved = FALSE

Allocate == \E b \in Address, n \in Sizes :
              /\ \A r \in held : ~ Meet(r, Block(b, n))
              /\ held' = held \cup {Block(b, n)}
              /\ UNCHANGED moved

Free == \E r \in held : \E b \in PagesOf(r), n \in 1 .. r.pages :
          /\ Within(Block(b, n), r)
          /\ held' = (held \ {r}) \cup Remains(r, Block(b, n))
          /\ UNCHANGED moved

(* Those that lie below some limit move by the same distance; ranges keep  *)
(* their length and stay apart.                                            *)
Move == /\ ~ moved
        /\ moved' = TRUE
        /\ \E limit, distance \in Address :
             LET Placed(r) == IF r.base < limit
                                THEN Block(r.base + distance, r.pages) ELSE r
             IN  /\ \A r, s \in held : r # s => ~ Meet(Placed(r), Placed(s))
                 /\ held' = {Placed(r) : r \in held}

Next == Allocate \/ Free \/ Move

Spec == Init /\ [][Next]_storeVars
=============================================================================
