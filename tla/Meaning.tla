------------------------------- MODULE Meaning -------------------------------
(***************************************************************************)
(* What a program means, without heap, stack or instructions: the value of *)
(* main under call by name, where a match evaluates its scrutinee and an   *)
(* operator its operands.  The compiled program is measured against this.  *)
(*                                                                         *)
(* A value in weak head normal form is a record: "num" or "str" with what  *)
(* it is, "con" with the constructor's name and its arguments, "fun" with  *)
(* a function's name and too few arguments; or "error", a division without *)
(* a result; or "stuck", a computation that makes no sense.  An argument   *)
(* is a thunk: an expression with the environment it stands in.            *)
(***************************************************************************)
EXTENDS Syntax, TLC

CONSTANT Half    \* integers are -Half .. Half - 1: 2^31 in the code

NumV(i)    == [v |-> "num", is |-> i]
StrV(s)    == [v |-> "str", is |-> s]
ConV(c, a) == [v |-> "con", is |-> c, args |-> a]
FunV(f, a) == [v |-> "fun", is |-> f, args |-> a]
Error      == [v |-> "error"]
Stuck      == [v |-> "stuck"]

(* What keeps a computation from its result is its result.                 *)
Failed(value) == value.v \in {"error", "stuck"}

Thunk(x, env) == [expr |-> x, env |-> env]
Binding(params, thunks, env) ==
  [n \in Range(params) |-> thunks[CHOOSE i \in DOMAIN params : params[i] = n]] @@ env

(* The integer congruent to i that has room.                               *)
InRange(i) == CHOOSE r \in -Half .. Half - 1 : (r - i) % (2 * Half) = 0

Distance(i) == IF i < 0 THEN -i ELSE i

(* Division rounds towards zero: what remains has the dividend's sign.     *)
Truncated(a, b) ==
  CHOOSE q \in -Half .. Half :
    /\ Distance(a - q * b) < Distance(b)
    /\ (a - q * b) * a >= 0

Compute(op, a, b) ==
  CASE op = "plus"   -> NumV(InRange(a + b))
    [] op = "minus"  -> NumV(InRange(a - b))
    [] op = "times"  -> NumV(InRange(a * b))
    [] op = "divide" -> IF b = 0 \/ Truncated(a, b) = Half THEN Error
                                                           ELSE NumV(Truncated(a, b))

(* The external functions: a sum, and one string behind the other.         *)
Sum4(args) == args[1].is + args[2].is + args[3].is + args[4].is
Outside(fn, args) ==
  CASE fn = "extern_easyadd"   -> IF \A i \in 1..4 : args[i].v = "num"
                                  THEN NumV(InRange(Sum4(args))) ELSE Stuck
    [] fn = "extern_strconcat" -> IF \A i \in 1..2 : args[i].v = "str"
                                  THEN StrV(args[1].is \o args[2].is) ELSE Stuck

(* The number of arguments a global waits for.                             *)
Wants(p, f) ==
  CASE f \in DOMAIN p.externs -> Len(p.externs[f].decl) - 1
    [] f \in DOMAIN p.funs    -> Len(p.funs[f].params)
    [] OTHER                  -> Len(ConstructorNamed(p, f).fields)

FirstFailed(values) ==
  values[CHOOSE i \in DOMAIN values : Failed(values[i]) /\ \A j \in 1..i - 1 : ~Failed(values[j])]

RECURSIVE Value(_, _, _)

Force(p, thunk) == Value(p, thunk.expr, thunk.env)

(* A function once it has all its arguments, and before.                   *)
Applied(p, f, args) ==
  CASE Len(args) < Wants(p, f) -> FunV(f, args)
    [] Len(args) = Wants(p, f) /\ f \in DOMAIN p.externs ->
         LET values == [i \in DOMAIN args |-> Force(p, args[i])]
         IN  IF \E i \in DOMAIN values : Failed(values[i]) THEN FirstFailed(values)
                                                          ELSE Outside(p.externs[f].fn, values)
    [] Len(args) = Wants(p, f) /\ f \in DOMAIN p.funs ->
         Value(p, p.funs[f].body, Binding(p.funs[f].params, args, <<>>))
    [] OTHER -> ConV(f, args)

Value(p, x, env) ==
  CASE x.e = "int" -> NumV(x.i)
    [] x.e = "str" -> StrV(<<x.s>>)
    [] x.e = "id"  -> IF x.x \in DOMAIN env THEN Force(p, env[x.x]) ELSE Applied(p, x.x, <<>>)
    [] x.e = "app" -> LET f == Value(p, x.l, env)
                      IN  IF Failed(f) THEN f
                          ELSE IF f.v # "fun" THEN Stuck
                          ELSE Applied(p, f.is, Append(f.args, Thunk(x.r, env)))
    [] x.e = "bin" -> LET a == Value(p, x.l, env)
                          b == Value(p, x.r, env)
                      IN  IF Failed(a) \/ Failed(b) THEN FirstFailed(<<a, b>>)
                          ELSE IF a.v # "num" \/ b.v # "num" THEN Stuck
                          ELSE Compute(x.op, a.is, b.is)
    [] x.e = "match" ->
         LET s == Value(p, x.scrut, env)
             b == BranchOf(x, s.is)
         IN  IF Failed(s) THEN s
             ELSE IF s.v # "con" THEN Stuck
             ELSE Value(p, b.body,
                        IF b.var THEN Binding(b.params, <<Thunk(x.scrut, env)>>, env)
                                 ELSE Binding(b.params, s.args, env))

MeaningOf(p) == Value(p, Id("main"), <<>>)

=============================================================================
