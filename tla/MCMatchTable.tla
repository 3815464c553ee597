---------------------------- MODULE MCMatchTable ----------------------------
(***************************************************************************)
(* MatchTable for a type of three constructors and every match of at most  *)
(* four branches: room for a duplicate, and for a variable in any place.   *)
(***************************************************************************)
EXTENDS MatchTable
=============================================================================
