------------------------------- MODULE Typing -------------------------------
(***************************************************************************)
(* What it is for a program to have types, without inference: a function   *)
(* has a ground type if its body can be derived under it.  A function      *)
(* outside the cycle at hand has all its ground types; those in the cycle  *)
(* have one each.  Module TypeChecker is measured against this.            *)
(***************************************************************************)
EXTENDS TypeChecker

CONSTANT Candidates   \* program -> [function -> the ground types tried for it]

-----------------------------------------------------------------------------
(* The ground types a name can have: env gives the local names, and the    *)
(* functions of the cycle, one; known gives the functions before it all    *)
(* theirs.                                                                 *)
TypesOf(p, known, env, n) ==
  CASE n \in DOMAIN env           -> {env[n]}
    [] n \in DOMAIN known         -> known[n]
    [] n \in DOMAIN p.externs     -> {ToType(p.externs[n].decl)}
    [] n \in ConstructorNames(p)  -> {ConstructorType(p, ConstructorNamed(p, n))}
    [] OTHER                      -> {}

RECURSIVE HeadOf(_), ArgsOf(_)
HeadOf(x) == IF x.e = "app" THEN HeadOf(x.l) ELSE x
ArgsOf(x) == IF x.e = "app" THEN Append(ArgsOf(x.l), x.r) ELSE << >>

RECURSIVE HasType(_, _, _, _, _)

RECURSIVE TakesTo(_, _, _, _, _, _)
TakesTo(p, known, env, f, args, t) ==
  IF args = << >> THEN f = t
  ELSE /\ IsFunction(f)
       /\ HasType(p, known, env, Head(args), f.l)
       /\ TakesTo(p, known, env, f.r, Tail(args), t)

BranchHasType(p, known, env, b, s, t) ==
  IF b.var THEN HasType(p, known, b.con :> Base(s) @@ env, b.body, t)
  ELSE \E c \in Range(p.types[s]) :
         /\ c.name = b.con /\ Len(c.fields) = Len(b.params)
         /\ LET field(n) == c.fields[SelectInSeq(b.params, LAMBDA x : x = n)]
            IN  HasType(p, known, [n \in Range(b.params) |-> Base(field(n))] @@ env, b.body, t)

HasType(p, known, env, x, t) ==
  CASE x.e = "int" -> t = IntType
    [] x.e = "str" -> t = StringType
    [] x.e = "bin" -> /\ t = IntType
                      /\ HasType(p, known, env, x.l, IntType)
                      /\ HasType(p, known, env, x.r, IntType)
    [] x.e = "match" ->
         \E s \in DOMAIN p.types :
           /\ HasType(p, known, env, x.scrut, Base(s))
           /\ \A b \in Range(x.branches) : BranchHasType(p, known, env, b, s, t)
    [] OTHER ->
         /\ HeadOf(x).e = "id"
         /\ \E f \in TypesOf(p, known, env, HeadOf(x).x) : TakesTo(p, known, env, f, ArgsOf(x), t)

-----------------------------------------------------------------------------
(* Function by function.                                                   *)

RECURSIVE Arity(_), Unrolled(_, _)
Arity(t) == IF IsFunction(t) THEN 1 + Arity(t.r) ELSE 0
Unrolled(t, n) == IF n = 0 THEN <<t>> ELSE <<t.l>> \o Unrolled(t.r, n - 1)

FunctionHasType(p, known, cycle, f, t) ==
  LET ps == p.funs[f].params
      parts == Unrolled(t, Len(ps))
      local == [n \in Range(ps) |-> parts[SelectInSeq(ps, LAMBDA x : x = n)]]
  IN  Arity(t) >= Len(ps) /\ HasType(p, known, local @@ cycle, p.funs[f].body, Last(parts))

(* Who calls whom.  Functions that the same sets hold, of the sets that    *)
(* hold what their elements call, cannot be typed without each other.      *)
CallsOf(p) ==
  LET calls(f) == FreeVars(p.funs[f].body, Range(p.funs[f].params)) \cap DOMAIN p.funs
  IN  UNION {{<<f, g>> : g \in calls(f)} : f \in DOMAIN p.funs}

CycleOf(p, f) ==
  LET closed == {S \in SUBSET DOMAIN p.funs : \A e \in CallsOf(p) : e[1] \in S => e[2] \in S}
  IN  {g \in DOMAIN p.funs : \A S \in closed : f \in S <=> g \in S}

(* A cycle can be given its types once what it calls has them.             *)
TypingsOf(p, tried, cycle, known) ==
  LET choices == {c \in [cycle -> UNION {tried[f] : f \in cycle}] :
                    \A f \in cycle : c[f] \in tried[f] /\ FunctionHasType(p, known, c, f, c[f])}
  IN  [f \in cycle |-> {c[f] : c \in choices}]

RECURSIVE TypingsFrom(_, _, _)
TypingsFrom(p, tried, known) ==
  IF DOMAIN known = DOMAIN p.funs THEN known
  ELSE LET cycle == CHOOSE c \in {CycleOf(p, f) : f \in DOMAIN p.funs \ DOMAIN known} :
                      \A e \in CallsOf(p) : e[1] \in c => e[2] \in c \cup DOMAIN known
       IN  TypingsFrom(p, tried, TypingsOf(p, tried, cycle, known) @@ known)

Typings == [n \in DOMAIN Source |-> TypingsFrom(Source[n], Candidates[n], << >>)]

-----------------------------------------------------------------------------
(* The ground types a scheme stands for.                                   *)

RECURSIVE Substitutions(_, _, _)
Substitutions(vars, s, t) ==
  CASE Bound(s)  -> Substitutions(vars, types[s.id], t)
    [] IsBase(s) -> IF s = t THEN {<< >>} ELSE {}
    [] ~Bound(s) /\ IsFree(s) -> IF s.id \in vars THEN {s.id :> t} ELSE {}
    [] IsFunction(s) ->
         IF ~IsFunction(t) THEN {}
         ELSE {a @@ b : a \in Substitutions(vars, s.l, t.l),
                        b \in {c \in Substitutions(vars, s.r, t.r) :
                                 \A d \in Substitutions(vars, s.l, t.l) :
                                   \A i \in DOMAIN c \cap DOMAIN d : c[i] = d[i]}}

Covers(scheme, t) == Substitutions(scheme.forall, scheme.mono, t) # {}

(* The types inferred for the functions of an accepted program stand for   *)
(* exactly the ground types that can be derived: the inference loses none, *)
(* which would refuse a right use elsewhere, and adds none, whatever order *)
(* the functions are met in (typecheck.rs:97-108, mod.rs:72-112).          *)
InferredTypesExact ==
  verdict = "typed" =>
    \A f \in FunctionNames : \A t \in Candidates[program][f] :
      Covers(globals[f], t) <=> t \in Typings[program][f]

(* A panic of the type checker, with whatever message, means that some     *)
(* function of the program has no type: the examples the repository gives  *)
(* of programs are not refused (type_visit.rs:48, 90-97, 249-254).         *)
RefusedOnlyIfUntypable ==
  verdict \notin {"ok", "typed"} =>
    ~TypesResolve \/ \E f \in FunctionNames : Typings[program][f] = {}

RECURSIVE MatchesIn(_)
MatchesIn(x) ==
  CASE x.e \in {"int", "str", "id"} -> {}
    [] x.e \in {"app", "bin"}       -> MatchesIn(x.l) \cup MatchesIn(x.r)
    [] x.e = "match" -> {x} \cup MatchesIn(x.scrut)
                          \cup UNION {MatchesIn(b.body) : b \in Range(x.branches)}

(* Every match of an accepted program carries the type that the compiler   *)
(* makes its table of tags from, and no other (type_visit.rs:246-256).     *)
MatchesAnnotated ==
  verdict = "typed" =>
    inputs = UNION {{<<m, m.type>> : m \in MatchesIn(P.funs[f].body)} : f \in FunctionNames}

=============================================================================
