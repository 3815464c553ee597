------------------------------- MODULE Syntax -------------------------------
(***************************************************************************)
(* Programs as src/src/fun.lalrpop builds them in src/src/ast.rs.          *)
(*                                                                         *)
(* A program is a record                                                   *)
(*   types:   type -> its constructors, sequence of [name, fields], fields *)
(*            being the names of types                                     *)
(*   externs: function -> [decl, fn], its declared type and the C function *)
(*   funs:    function -> [params, body]                                   *)
(* There is one definition per name: the parser keeps the last.            *)
(***************************************************************************)
EXTENDS Integers, Sequences, SequencesExt, FiniteSets

(* Expressions.  Int, String, Id and Constr are the leaves of AppBase.     *)
IntE(i)      == [e |-> "int", i |-> i]
StrE(s)      == [e |-> "str", s |-> s]
Id(x)        == [e |-> "id", x |-> x]
Ap(l, r)     == [e |-> "app", l |-> l, r |-> r]
Bin(op, l, r) == [e |-> "bin", op |-> op, l |-> l, r |-> r]

(* A match, with the type that the checker records in it (input_type); its *)
(* branches; a branch whose pattern is a variable.                         *)
Match(ty, s, branches) == [e |-> "match", type |-> ty, scrut |-> s, branches |-> branches]
Case(c, params, b) == [var |-> FALSE, con |-> c, params |-> params, body |-> b]
Var(x, b)          == [var |-> TRUE, con |-> x, params |-> <<x>>, body |-> b]

(* Application to several arguments.                                       *)
Aps(f, args) == FoldLeft(Ap, f, args)

(* Declared types: terms separated by arrows, which may be nested.         *)
Named(n)    == [term |-> "base", name |-> n]
Nested(decl) == [term |-> "nested", decl |-> decl]

-----------------------------------------------------------------------------
Operators == {"plus", "minus", "times", "divide"}
Constructors(p) == UNION {Range(p.types[t]) : t \in DOMAIN p.types}
ConstructorNames(p) == {c.name : c \in Constructors(p)}
ConstructorNamed(p, n) == CHOOSE c \in Constructors(p) : c.name = n

(* The branch of a match for a constructor: the first that covers it.      *)
BranchOf(m, c) ==
  m.branches[CHOOSE i \in DOMAIN m.branches :
               /\ m.branches[i].var \/ m.branches[i].con = c
               /\ \A j \in 1..i - 1 : ~m.branches[j].var /\ m.branches[j].con # c]

=============================================================================
