----------------------------- MODULE TypeChecker -----------------------------
(***************************************************************************)
(* Type inference: src/src/types/typecheck.rs, the visitor of              *)
(* type_visit.rs with the scopes of free_var_visit.rs and type_env.rs, and *)
(* the type schemes of mod.rs, on the solver of module Unification.        *)
(*                                                                         *)
(* The recursion of the visitor is on todo, with frames of its own among   *)
(* the solver's; what the calls of type_accept and substitute return is on *)
(* the stack vals.  An environment is a function from names to types: the  *)
(* visitor's environments are chains, whose innermost binding wins.        *)
(*                                                                         *)
(* The order of the groups is any that module Schedule allows, and within  *)
(* a group the order is the one a HashSet happens to have.                 *)
(***************************************************************************)
EXTENDS Unification, Syntax, TLC

CONSTANT Source      \* name -> program

VARIABLES
  program,   \* the name of the program that is checked
  edges,     \* its call graph: <<caller, callee>>
  checked,   \* the functions checked, or being checked
  globals,   \* the outermost environment: name -> [forall, mono]
  fresh,     \* <<f, n>>: the last placeholder made, the n-th of function f
  vals,      \* what calls have returned and their callers have still to take
  inputs     \* the types recorded in matches: <<match, name of the type>>

context == <<program, edges>>
cvars == <<solver, context, checked, globals, fresh, vals, inputs>>

P == Source[program]
FunctionNames == DOMAIN P.funs
Externs == DOMAIN P.externs
Names == FunctionNames \cup Externs

Plan == INSTANCE Schedule WITH funcs <- Names

-----------------------------------------------------------------------------
(* The outermost environment.                                              *)

Arrow(args, result) == FoldRight(Function, args, result)

IntType == Base("Int")
StringType == Base("String")
BinaryInt == Arrow(<<IntType, IntType>>, IntType)

RECURSIVE ToType(_)
ToType(decl) ==
  LET terms == [i \in DOMAIN decl |-> IF decl[i].term = "base" THEN Base(decl[i].name)
                                                               ELSE ToType(decl[i].decl)]
  IN  Arrow(Front(terms), Last(terms))

RECURSIVE TypesNamed(_)
TypesNamed(decl) ==
  UNION {IF t.term = "base" THEN {t.name} ELSE TypesNamed(t.decl) : t \in Range(decl)}

ConstructorType(p, c) ==
  LET t == CHOOSE n \in DOMAIN p.types : c \in Range(p.types[n])
  IN  Arrow([i \in DOMAIN c.fields |-> Base(c.fields[i])], Base(t))

(* The placeholders of a function: 0 is its result, then its parameters,   *)
(* then those made while it is checked.                                    *)
Result(f) == Placeholder(<<f, 0>>)
Params(f) == [i \in DOMAIN P.funs[f].params |-> Placeholder(<<f, i>>)]
New(n)    == Placeholder(<<fresh[1], fresh[2] + n>>)
Made(n)   == fresh' = <<fresh[1], fresh[2] + n>>

Mono(t) == [forall |-> {}, mono |-> t]

GlobalNames == Names \cup ConstructorNames(P) \cup {"int_to_string"}
GlobalType(n) ==
  CASE n \in FunctionNames \ Externs -> Arrow(Params(n), Result(n))
    [] n \in Externs                 -> ToType(P.externs[n].decl)
    [] n \in ConstructorNames(P)     -> ConstructorType(P, ConstructorNamed(P, n))
    [] n = "int_to_string"           -> Function(IntType, StringType)

(* Types are declared once and known where they are used.                  *)
TypesResolve ==
  LET known == {"Int", "String"} \cup DOMAIN P.types
  IN  /\ DOMAIN P.types \cap {"Int", "String"} = {}
      /\ \A c \in Constructors(P) : Range(c.fields) \subseteq known
      /\ \A f \in Externs : TypesNamed(P.externs[f].decl) \subseteq known

-----------------------------------------------------------------------------
(* Free variables: the names a function's body takes from outside, but for *)
(* those the outermost environment has when its functions are visited.     *)

RECURSIVE FreeVars(_, _)
FreeVars(x, bound) ==
  CASE x.e \in {"int", "str"} -> {}
    [] x.e = "id"             -> {x.x} \ bound
    [] x.e \in {"app", "bin"} -> FreeVars(x.l, bound) \cup FreeVars(x.r, bound)
    [] x.e = "match"          ->
         FreeVars(x.scrut, bound)
           \cup UNION {FreeVars(b.body, bound \cup Range(b.params)) : b \in Range(x.branches)}

DependenciesOf(f) ==
  FreeVars(P.funs[f].body,
           Range(P.funs[f].params) \cup ConstructorNames(P) \cup {"int_to_string"})

CallEdges == UNION {{<<f, d>> : d \in DependenciesOf(f)} : f \in FunctionNames}

-----------------------------------------------------------------------------
(* Frames.                                                                 *)

Visit(x, env)  == [do |-> "visit", x |-> x, env |-> env]
Check(f)       == [do |-> "function", f |-> f]
Equate(t)      == [do |-> "equate", t |-> t]
Panic(why)     == [do |-> "panic", why |-> why]
Free(f, t)     == [do |-> "free", f |-> f, curr |-> t, ctr |-> 0]
Subst(t, s)    == [do |-> "subst", t |-> t, s |-> s, curr |-> t, ctr |-> 0]

Top(n)   == vals[Len(vals) - n]
Below(n) == SubSeq(vals, 1, Len(vals) - n)
Gives(t) == vals' = Append(vals, t)

(* External functions are vertices of the call graph, and that is all.     *)
Init == /\ program \in DOMAIN Source
        /\ edges = CallEdges
        /\ checked = Externs
        /\ globals = [n \in GlobalNames |-> Mono(GlobalType(n))]
        /\ fresh = <<"", 0>>
        /\ types = << >> /\ todo = << >> /\ vals = << >> /\ inputs = {}
        /\ verdict = IF TypesResolve /\ \A e \in edges : e[2] \in Names THEN "ok"
                                                                        ELSE "unknown"

-----------------------------------------------------------------------------
(* A group: all its functions are visited, then all are generalised.       *)

(* A slip: each function is generalised once it has been visited.          *)
GeneraliseEach(order) ==
  FlattenSeq([i \in DOMAIN order |-> <<Check(order[i]), Free(order[i], globals[order[i]].mono)>>])

Group(order) == [i \in DOMAIN order |-> Check(order[i])]
                  \o [i \in DOMAIN order |-> Free(order[i], globals[order[i]].mono)]

Begin ==
  /\ verdict = "ok" /\ todo = << >>
  /\ \E v \in Names : /\ Plan!Ready(v)
                      /\ checked' = checked \cup Plan!Cycle(v)
                      /\ \E order \in SetToSeqs(Plan!Cycle(v) \ Externs) : todo' = Group(order)
  /\ UNCHANGED <<types, verdict, context, globals, fresh, vals, inputs>>

Accept ==
  /\ verdict = "ok" /\ todo = << >> /\ checked = Names
  /\ Stops("typed")
  /\ UNCHANGED <<context, checked, globals, fresh, vals, inputs>>

(* Of two parameters of one name the first is bound: they are bound from   *)
(* the last to the first.                                                  *)
FunctionEnv(f) ==
  LET ps == P.funs[f].params
  IN  [n \in Range(ps) |-> Params(f)[SelectInSeq(ps, LAMBDA p : p = n)]]

(* visit_func_defn.                                                        *)
CheckFunction ==
  /\ Doing("function")
  /\ Calls(<<Visit(P.funs[F.f].body, FunctionEnv(F.f)), Equate(Result(F.f))>>)
  /\ fresh' = <<F.f, Len(P.funs[F.f].params)>>
  /\ UNCHANGED <<types, verdict, context, checked, globals, vals, inputs>>

(* The type just returned is to be the same as one made before.            *)
EquateTop ==
  /\ Doing("equate")
  /\ Calls(<<Unify(F.t, Top(0))>>)
  /\ vals' = Below(1)
  /\ UNCHANGED <<types, verdict, context, checked, globals, fresh, inputs>>

(* find_free_vars: a placeholder left in the type of a function stands for *)
(* any type.                                                               *)
FindFree ==
  /\ Resolved("free")
  /\ Calls(IF IsFunction(F.curr) THEN <<Free(F.f, F.curr.l), Free(F.f, F.curr.r), Return>>
                                 ELSE << >>)
  /\ globals' = IF IsFree(F.curr) THEN [globals EXCEPT ![F.f].forall = @ \cup {F.curr.id}]
                                  ELSE globals
  /\ UNCHANGED <<types, verdict, context, checked, fresh, vals, inputs>>

-----------------------------------------------------------------------------
(* Expressions.                                                            *)

VisitLiteral ==
  /\ Doing("visit") /\ F.x.e \in {"int", "str"}
  /\ Gives(IF F.x.e = "int" THEN IntType ELSE StringType)
  /\ Calls(<< >>)
  /\ UNCHANGED <<types, verdict, context, checked, globals, fresh, inputs>>

(* A name of the function itself stands for its type as it is.             *)
VisitLocal ==
  /\ Doing("visit") /\ F.x.e = "id" /\ F.x.x \in DOMAIN F.env
  /\ Gives(F.env[F.x.x])
  /\ Calls(<< >>)
  /\ UNCHANGED <<types, verdict, context, checked, globals, fresh, inputs>>

(* A slip: all who use a function share the one instance of its scheme.    *)
OneInstance(scheme) == [i \in scheme.forall |-> Placeholder(i)]

(* A global name stands for a new instance of its scheme.                  *)
Instance(scheme) ==
  LET vars == SetToSeq(scheme.forall)
  IN  [i \in scheme.forall |-> New(SelectInSeq(vars, LAMBDA v : v = i))]

VisitGlobal ==
  /\ Doing("visit") /\ F.x.e = "id" /\ F.x.x \in DOMAIN globals \ DOMAIN F.env
  /\ LET scheme == globals[F.x.x]
     IN  IF scheme.forall = {}
         THEN Gives(scheme.mono) /\ Calls(<< >>) /\ UNCHANGED fresh
         ELSE /\ Calls(<<Subst(scheme.mono, Instance(scheme))>>)
              /\ Made(Cardinality(scheme.forall))
              /\ UNCHANGED vals
  /\ UNCHANGED <<types, verdict, context, checked, globals, inputs>>

VisitParts ==
  /\ Doing("visit") /\ F.x.e \in {"app", "bin", "match"}
  /\ Calls(CASE F.x.e = "app" -> <<Visit(F.x.l, F.env), Visit(F.x.r, F.env), [do |-> "apply"]>>
             [] F.x.e = "bin" -> <<Visit(F.x.l, F.env), Visit(F.x.r, F.env), [do |-> "operate"]>>
             [] OTHER -> <<Visit(F.x.scrut, F.env), [do |-> "match", m |-> F.x, env |-> F.env]>>)
  /\ UNCHANGED <<types, verdict, context, checked, globals, fresh, vals, inputs>>

(* The function is to take the argument's type to a new one, the result.   *)
Apply ==
  /\ Doing("apply")
  /\ Calls(<<Unify(Function(Top(0), New(1)), Top(1))>>)
  /\ vals' = Append(Below(2), New(1)) /\ Made(1)
  /\ UNCHANGED <<types, verdict, context, checked, globals, inputs>>

(* A slip: the right operand may be anything.                              *)
OperateLeft ==
  /\ Doing("operate")
  /\ Calls(<<Unify(Arrow(<<Top(1), IntType>>, New(1)), BinaryInt)>>)
  /\ vals' = Append(Below(2), New(1)) /\ Made(1)
  /\ UNCHANGED <<types, verdict, context, checked, globals, inputs>>

Operate ==
  /\ Doing("operate")
  /\ Calls(<<Unify(Arrow(<<Top(1), Top(0)>>, New(1)), BinaryInt)>>)
  /\ vals' = Append(Below(2), New(1)) /\ Made(1)
  /\ UNCHANGED <<types, verdict, context, checked, globals, inputs>>

-----------------------------------------------------------------------------
(* TypeScheme::substitute.  A part that is unchanged is handed on as it    *)
(* was given, unresolved.                                                  *)

SubstLeaf ==
  /\ Resolved("subst") /\ ~IsFunction(F.curr)
  /\ Gives(CASE IsBase(F.curr) -> F.t
             [] IsFree(F.curr) /\ F.curr.id \in DOMAIN F.s -> F.s[F.curr.id]
             [] OTHER -> F.curr)
  /\ Calls(<< >>)
  /\ UNCHANGED <<types, verdict, context, checked, globals, fresh, inputs>>

SubstFunction ==
  /\ Resolved("subst") /\ IsFunction(F.curr)
  /\ Calls(<<Subst(F.curr.l, F.s), Subst(F.curr.r, F.s),
             [do |-> "rebuild", t |-> F.t, given |-> <<F.curr.l, F.curr.r>>]>>)
  /\ UNCHANGED <<types, verdict, context, checked, globals, fresh, vals, inputs>>

Rebuild ==
  /\ Doing("rebuild")
  /\ vals' = Append(Below(2), IF F.given = <<Top(1), Top(0)>> THEN F.t
                                                              ELSE Function(Top(1), Top(0)))
  /\ Calls(<< >>)
  /\ UNCHANGED <<types, verdict, context, checked, globals, fresh, inputs>>

-----------------------------------------------------------------------------
(* visit_match and typecheck_match.                                        *)

Scrutinise ==
  /\ Doing("match")
  /\ Calls(<<[do |-> "scrutinee", m |-> F.m, env |-> F.env, curr |-> Top(0), ctr |-> 0]>>)
  /\ vals' = Below(1)
  /\ UNCHANGED <<types, verdict, context, checked, globals, fresh, inputs>>

(* A slip: the type recorded is what the match results in.                 *)
BeginBranchesForResult ==
  /\ Resolved("scrutinee")
  /\ Calls([i \in DOMAIN F.m.branches |->
              [do |-> "branch", b |-> F.m.branches[i], type |-> F.curr, result |-> New(1),
               env |-> F.env]]
             \o <<[do |-> "sum", m |-> F.m, curr |-> New(1), ctr |-> 0]>>)
  /\ Gives(New(1)) /\ Made(1)
  /\ UNCHANGED <<types, verdict, context, checked, globals, inputs>>

BeginBranches ==
  /\ Resolved("scrutinee")
  /\ Calls([i \in DOMAIN F.m.branches |->
              [do |-> "branch", b |-> F.m.branches[i], type |-> F.curr, result |-> New(1),
               env |-> F.env]]
             \o <<[do |-> "sum", m |-> F.m, curr |-> F.curr, ctr |-> 0]>>)
  /\ Gives(New(1)) /\ Made(1)
  /\ UNCHANGED <<types, verdict, context, checked, globals, inputs>>

(* What a pattern says of the type of the scrutinee and of its variables.  *)
PatternOf(b, type, env) ==
  IF b.var THEN <<Unify(env[b.con], type)>>
  ELSE IF b.con \notin ConstructorNames(P) THEN <<Panic("unknown")>>
  ELSE LET c == ConstructorNamed(P, b.con)
           n == Len(b.params)
           fields == [i \in 1..Len(c.fields) |-> Base(c.fields[i])]
           sum == Base(CHOOSE t \in DOMAIN P.types : c \in Range(P.types[t]))
           fit(k) == [i \in 1..k |-> Unify(env[b.params[i]], fields[i])]
       IN  IF n > Len(fields) THEN fit(Len(fields)) \o <<Panic("pattern")>>
           ELSE fit(n) \o <<Unify(type, Arrow(SubSeq(fields, n + 1, Len(fields)), sum))>>

(* Of two variables of one name in a pattern the last is bound.            *)
PatternEnv(ps, env) ==
  [n \in Range(ps) |-> New(SelectLastInSeq(ps, LAMBDA p : p = n))] @@ env

VisitBranch ==
  /\ Doing("branch")
  /\ LET env == PatternEnv(F.b.params, F.env)
     IN  Calls(PatternOf(F.b, F.type, env) \o <<Visit(F.b.body, env), Equate(F.result)>>)
  /\ Made(Len(F.b.params))
  /\ UNCHANGED <<types, verdict, context, checked, globals, vals, inputs>>

IsSum(t) == IsBase(t) /\ t.name \in DOMAIN P.types

RecordInput ==
  /\ Resolved("sum") /\ IsSum(F.curr)
  /\ inputs' = inputs \cup {<<F.m, F.curr.name>>}
  /\ Calls(<< >>)
  /\ UNCHANGED <<types, verdict, context, checked, globals, fresh, vals>>

Refuse ==
  /\ \/ Resolved("sum") /\ ~IsSum(F.curr) /\ Stops("nonsum")
     \/ Doing("panic") /\ Stops(F.why)
  /\ UNCHANGED <<context, checked, globals, fresh, vals, inputs>>

-----------------------------------------------------------------------------
Solving == Solve /\ UNCHANGED <<context, checked, globals, fresh, vals, inputs>>

Next == \/ Begin \/ Accept \/ CheckFunction \/ EquateTop \/ FindFree
        \/ VisitLiteral \/ VisitLocal \/ VisitGlobal \/ VisitParts \/ Apply \/ Operate
        \/ SubstLeaf \/ SubstFunction \/ Rebuild
        \/ Scrutinise \/ BeginBranches \/ VisitBranch \/ RecordInput \/ Refuse
        \/ Solving

Stopped == verdict # "ok" /\ UNCHANGED cvars

(* The compiler is one thread.                                             *)
Spec == Init /\ [][Next \/ Stopped]_cvars /\ WF_cvars(Next)

(* The compiler ends on every program, with an answer or a panic, although *)
(* bindings can form a cycle and a type can contain itself                 *)
(* (type_visit.rs:41, 90, 164).                                            *)
Decided == <>(verdict # "ok")

=============================================================================
