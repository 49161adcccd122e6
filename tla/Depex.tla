------------------------------- MODULE Depex -------------------------------
(****************************************************************************)
(* PeimDispatchReadiness (Dependency.c): the dependency expression of a     *)
(* file, in postfix, evaluated on a stack of fixed size.  An entry holds    *)
(* the GUID of a PPI, which is looked for only when the entry is used, or a *)
(* result.                                                                  *)
(****************************************************************************)
EXTENDS Integers, Sequences, SequencesExt

CONSTANT MAX_GRAMMAR_SIZE

(* An opcode is [op, ppi]; ppi is NoPpi for all but PUSH. *)
NoPpi     == "none"
Push(ppi) == [op |-> "PUSH", ppi |-> ppi]
Op(name)  == [op |-> name, ppi |-> NoPpi]

Result(b) == [operator |-> NoPpi, result |-> b]

IsPpiInstalled(entry, installed) ==
    IF entry.operator = NoPpi THEN entry.result ELSE entry.operator \in installed

Refuse(s) == [s EXCEPT !.verdict = "FALSE"]

Pushed(s, entry) ==
    IF Len(s.stack) >= MAX_GRAMMAR_SIZE THEN Refuse(s)
    ELSE [s EXCEPT !.stack = Append(@, entry)]

\* Mutant: the last entry decides for OR only.
JoinedTopForOr(s, absorbing, installed) ==
    IF Len(s.stack) < 2 THEN Refuse(s)
    ELSE [s EXCEPT !.stack = IF absorbing /\ IsPpiInstalled(Last(@), installed)
                               THEN Append(Front(Front(@)), Result(TRUE)) ELSE Front(@)]

(* AND and OR: the last entry decides, or the one before it is the result.  *)
JoinedTop(s, absorbing, installed) ==
    IF Len(s.stack) < 2 THEN Refuse(s)
    ELSE [s EXCEPT !.stack = IF IsPpiInstalled(Last(@), installed) = absorbing
                               THEN Append(Front(Front(@)), Result(absorbing)) ELSE Front(@)]

Negated(s, installed) ==
    IF s.stack = <<>> THEN Refuse(s)
    ELSE [s EXCEPT !.stack = Append(Front(@), Result(~ IsPpiInstalled(Last(@), installed)))]

Ended(s, installed) ==
    IF Len(s.stack) = 1 /\ IsPpiInstalled(s.stack[1], installed)
      THEN [s EXCEPT !.verdict = "TRUE"] ELSE Refuse(s)

Executed(s, code, installed) ==
    IF s.verdict # "none" THEN s ELSE
    CASE code.op = "PUSH"   -> Pushed(s, [operator |-> code.ppi, result |-> FALSE])
      [] code.op = "TRUE"   -> Pushed(s, Result(TRUE))
      [] code.op = "FALSE"  -> Pushed(s, Result(FALSE))
      [] code.op = "AND"    -> JoinedTop(s, FALSE, installed)
      [] code.op = "OR"     -> JoinedTop(s, TRUE, installed)
      [] code.op = "NOT"    -> Negated(s, installed)
      [] code.op = "END"    -> Ended(s, installed)
      [] OTHER              -> Refuse(s)

PeimDispatchReadiness(codes, installed) ==
    FoldLeft(LAMBDA s, code: Executed(s, code, installed),
             [stack |-> <<>>, verdict |-> "none"], codes).verdict = "TRUE"

=============================================================================
