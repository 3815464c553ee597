----------------------------- MODULE MCCollector -----------------------------
(***************************************************************************)
(* Collector on small heaps, driven by every sequence of instructions.     *)
(***************************************************************************)
EXTENDS Collector, TLC

(* Addresses are interchangeable: where they are model values, permuting   *)
(* them changes nothing.                                                   *)
Symmetry == Permutations(Node)

=============================================================================
