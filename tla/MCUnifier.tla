----------------------------- MODULE MCUnifier -----------------------------
(***************************************************************************)
(* Unifier on every sequence of a few equations between small types, with  *)
(* the substitutions of ground types as solutions.                         *)
(***************************************************************************)
EXTENDS Unifier

a == Placeholder("a")
b == Placeholder("b")
int == Base("Int")
bool == Base("Bool")

MCType == {a, b, int, bool, Function(a, b), Function(b, int)}

Ground == {int, bool, Function(int, int), Function(bool, int),
           Function(int, Function(int, int)), Function(Function(int, int), int)}

RECURSIVE Apply(_, _)
Apply(s, t) == CASE IsFree(t)     -> s[t.id]
                 [] IsBase(t)     -> t
                 [] IsFunction(t) -> Function(Apply(s, t.l), Apply(s, t.r))

MCSolutions == {[t \in Type |-> Apply(s, t)] : s \in [Ids -> Ground]}

=============================================================================
