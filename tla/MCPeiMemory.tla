---------------------------- MODULE MCPeiMemory ----------------------------
(***************************************************************************)
(* A small instance of PeiMemory for TLC.                                  *)
(***************************************************************************)
EXTENDS PeiMemory

MCRequests == {[type |-> "boot", pages |-> 1], [type |-> "runtime", pages |-> 1],
               [type |-> "boot", pages |-> 2]}
=============================================================================
