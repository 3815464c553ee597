----------------------------- MODULE MCCallGraph -----------------------------
(***************************************************************************)
(* CallGraph on every call graph of a few functions.                       *)
(***************************************************************************)
EXTENDS CallGraph, TLC

(* A name decides nothing but the order in which it is met, and every      *)
(* order is tried.                                                         *)
Symmetry == Permutations(Func)
=============================================================================
