------------------------------ MODULE Compiler ------------------------------
(***************************************************************************)
(* From programs to G-machine instructions: the visitor of                 *)
(* src/src/graph/compile_visit.rs over the syntax trees of src/src/ast.rs, *)
(* and the functions src/src/codegen/llvm_gen.rs writes by hand for the    *)
(* constructors, the four operators and the external functions.            *)
(*                                                                         *)
(* The program has passed the type checker: the names in it are bound.  A  *)
(* match is exhaustive and no constructor follows a variable in it: module *)
(* MatchTable is about the others.                                         *)
(***************************************************************************)
EXTENDS Syntax, Machine

-----------------------------------------------------------------------------
(* Names.                                                                  *)

(* custom_funcs maps a name to what was declared last under it: operators, *)
(* then constructors, then functions, then external functions.             *)
ArityOf(p, f) ==
  CASE f \in DOMAIN p.externs -> Len(p.externs[f].decl) - 1
    [] f \in DOMAIN p.funs \ DOMAIN p.externs -> Len(p.funs[f].params)
    [] f \in ConstructorNames(p) -> Len(ConstructorNamed(p, f).fields)
    [] OTHER -> 2

(* A slip: tags are counted from one, cases from zero.                     *)
TagFromOne(constructors, c) ==
  CHOOSE t \in 1..Len(constructors) : constructors[t].name = c

TagIn(constructors, c) ==
  CHOOSE t \in 0..Len(constructors) - 1 : constructors[t + 1].name = c

(* The tag travels as an i8.                                               *)
ToI8(t) == ((t + 128) % 256) - 128

ConstructorAt(constructors, t) ==
  constructors[CHOOSE i \in DOMAIN constructors : ToI8(i - 1) = t].name

-----------------------------------------------------------------------------
(* The stack environment: the names of the slots from the top down, NULL   *)
(* for a slot an OffsetEnv(1) accounts for.                                *)

(* A slip: the slot that holds the right operand is not accounted for.     *)
NoOffset(env) == env

PushOffset(env) == <<NULL>> \o env
PushVars(params, env) == params \o env

GetOffset(env, x) ==
  (CHOOSE i \in DOMAIN env : env[i] = x /\ \A j \in 1..i - 1 : env[j] # x) - 1

-----------------------------------------------------------------------------
(* The visitor.                                                            *)

PushG(p, f) == <<[op |-> "PushGlobal", val |-> FunVal(f, ArityOf(p, f))]>>
MkAppI == <<[op |-> "MkApp"]>>
EvalI  == <<[op |-> "Eval"]>>
Op(op, n) == <<[op |-> op, n |-> n]>>

(* A slip: the fields stay on the stack beneath the result of the branch.  *)
BranchUnslid(n, body) == Op("Split", n) \o body

ConstrBranch(n, body) == Op("Split", n) \o body \o Op("Slide", n)

RECURSIVE Visit_(_, _, _)

VisitBranch(p, b, env) ==
  IF b.var THEN Visit_(p, b.body, PushOffset(env))
           ELSE ConstrBranch(Len(b.params), Visit_(p, b.body, PushVars(b.params, env)))

Visit_(p, x, env) ==
  CASE x.e = "int" -> <<[op |-> "PushInt", val |-> IntVal(x.i)]>>
    [] x.e = "str" -> <<[op |-> "PushString", val |-> Chars(<<x.s>>)]>>
    [] x.e = "id"  -> IF x.x \in Range(env) THEN Op("Push", GetOffset(env, x.x))
                                            ELSE PushG(p, x.x)
    [] x.e = "app" -> Visit_(p, x.r, env) \o Visit_(p, x.l, PushOffset(env)) \o MkAppI
    [] x.e = "bin" -> Visit_(p, x.r, env) \o Visit_(p, x.l, PushOffset(env))
                        \o PushG(p, x.op) \o MkAppI \o MkAppI
    [] x.e = "match" ->
         Visit_(p, x.scrut, env) \o EvalI \o
         LET cs == p.types[x.type]
         IN  <<[op |-> "Jump",
                branches |-> [t \in {ToI8(i - 1) : i \in DOMAIN cs} |->
                                VisitBranch(p, BranchOf(x, ConstructorAt(cs, t)), env)]]>>

-----------------------------------------------------------------------------
(* Whole functions.                                                        *)

FunctionCode(p, f) ==
  LET n == Len(p.funs[f].params)
  IN  Visit_(p, p.funs[f].body, PushVars(p.funs[f].params, <<>>))
        \o Op("Update", n) \o Op("Pop", n)

ConstructorCode(p, c) ==
  LET constructors == CHOOSE cs \in Range(p.types) : \E d \in Range(cs) : d.name = c
      tag == ToI8(TagIn(constructors, c))
  IN  <<[op |-> "Pack", n |-> ArityOf(p, c), val |-> TagVal(tag)]>> \o Op("Update", 0)

(* A slip: the result replaces the second operand, not the redex.          *)
OperatorUpdatesOperand(op) ==
  Op("Push", 1) \o EvalI \o Op("Push", 1) \o EvalI
    \o <<[op |-> "BinOp", fn |-> op]>> \o Op("Update", 1) \o Op("Pop", 2)

OperatorCode(op) ==
  Op("Push", 1) \o EvalI \o Op("Push", 1) \o EvalI
    \o <<[op |-> "BinOp", fn |-> op]>> \o Op("Update", 2) \o Op("Pop", 2)

(* The arguments are evaluated from the last to the first, each on top of *)
(* the stack in its turn; the C function pops them and pushes its result.  *)
ExternCode(p, f) ==
  LET n == ArityOf(p, f)
  IN  FlattenSeq([i \in 1..n |-> Op("Push", n - 1) \o EvalI])
        \o <<[op |-> "Extern", fn |-> p.externs[f].fn]>> \o Op("Update", n) \o Op("Pop", n)

(* The object file: a name that is not defined has no instructions.        *)
Compile(p) ==
  [f \in Fun |-> CASE f \in DOMAIN p.externs -> ExternCode(p, f)
                   [] f \in DOMAIN p.funs \ DOMAIN p.externs -> FunctionCode(p, f)
                   [] f \in ConstructorNames(p) -> ConstructorCode(p, f)
                   [] f \in Operators \ DOMAIN p.funs -> OperatorCode(f)
                   [] OTHER -> <<>>]

=============================================================================
