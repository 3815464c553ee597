------------------------------- MODULE MCTypes -------------------------------
(***************************************************************************)
(* The type checker on the programs of module Examples and on more,        *)
(* against their typings by the rules and against their meaning.           *)
(***************************************************************************)
EXTENDS Typing, Examples

CONSTANTS
  Selected,   \* the programs a run checks
  Half        \* integers are -Half .. Half - 1 in the meaning of a program

B(x, t, f) == Match("Bool", x, <<Case("True", <<>>, t), Case("False", <<>>, f)>>)
True_ == Id("True")
NatMatch(x, o, s) == Match("Nat", x, <<Case("O", <<>>, o), Case("S", <<"m">>, s)>>)
FirstFun == Def(<<"a", "b">>, Id("a"))
FoldLeftFun == Def(<<"l", "init", "f">>,
  Match("List", L, <<Case("Nil", <<>>, Id("init")),
    Case("Cons", <<"hd", "tl">>,
         On("fold_left", <<Id("tl"), On("f", <<Id("init"), Id("hd")>>), Id("f")>>))>>))

WellTyped == [
  compose |-> With_([compose |-> Def(<<"f", "g", "x">>, On("f", <<On("g", <<X>>)>>)), toInt |-> ToIntFun],
                On("compose", <<Id("toInt"), Id("S"), O>>)),
  (* incomplete.fun *)
  plain   |-> With_([foo |-> Def(<<"a", "b", "c">>, Plus(On("a", <<Id("b")>>), IntE(1))),
                     bar |-> Def(<<"b">>, Plus(Id("b"), IntE(1))),
                     id  |-> IdFun,
                     plain |-> Def(<<>>, On("foo", <<Id("bar"), IntE(5), Id("False")>>))],
                On("id", <<StrE("hello")>>)),
  (* types.fun: a constructor with too few arguments *)
  bah     |-> With_([my_bah |-> Def(<<>>, On("Bah", <<StrE("hello")>>)), blah |-> BlahFun],
                On("blah", <<On("my_bah", <<IntE(1), StrE("lol")>>)>>)),
  (* functions that call each other *)
  even    |-> With_([even |-> Def(<<"n">>, NatMatch(Id("n"), True_, On("odd", <<Id("m")>>))),
                     odd  |-> Def(<<"n">>, NatMatch(Id("n"), Id("False"), On("even", <<Id("m")>>)))],
                On("even", <<S(O)>>)),
  (* ... and have one type each while they are checked *)
  group   |-> With_([first |-> FirstFun,
                     f |-> Def(<<"x">>, On("g", <<X>>)),
                     g |-> Def(<<"y">>, On("first", <<IntE(1), On("f", <<True_>>)>>))],
                IntE(5)),
  (* min.fun *)
  min     |-> [With_([fold_left |-> FoldLeftFun], IntE(5)) EXCEPT !.types.List = ListOf("String")]
]

IllTyped == [
  left     |-> With_(<<>>, Plus(True_, IntE(1))),
  right    |-> With_(<<>>, Plus(IntE(1), True_)),
  branches |-> With_([f |-> Def(<<"b">>, B(Id("b"), IntE(1), StrE("hello")))], On("f", <<True_>>)),
  nonsum   |-> With_(<<>>, Match("Bool", IntE(1), <<Var("y", Id("y"))>>)),
  selfapp  |-> With_([w |-> Def(<<"x">>, On("x", <<X>>))], IntE(1)),
  loops    |-> With_([f |-> Def(<<"x">>, Id("f"))], IntE(1)),
  toomany  |-> With_([f |-> Def(<<"o">>, Match("Option", Id("o"), <<Case("Some", <<"x", "y">>, X),
                                                                     Case("None", <<>>, IntE(0))>>))],
                 IntE(1)),
  toofew   |-> With_([f |-> Def(<<"o">>, Match("Option", Id("o"), <<Case("Some", <<>>, IntE(1)),
                                                                     Case("None", <<>>, IntE(0))>>))],
                 IntE(1)),
  noconstr |-> With_([f |-> Def(<<"o">>, Match("Option", Id("o"), <<Case("Just", <<"x">>, X)>>))],
                 IntE(1)),
  noname   |-> With_(<<>>, On("fst", <<Nil>>)),
  notype   |-> [With_(<<>>, IntE(1)) EXCEPT !.types.List = ListOf("Int8")],
  twolists |-> With_([f |-> Def(<<"l">>, Match("List", L, <<Case("Nil", <<>>, IntE(0)),
                                                             Case("O", <<>>, IntE(1))>>))],
                 IntE(1)),
  concat   |-> WithConcat([f |-> Def(<<"s">>, Concat(Id("s"), IntE(1)))], IntE(1)),
  (* min.fun with a wrong main: what is met first ends the check *)
  folds    |-> With_([fold_left |-> FoldLeftFun], Plus(IntE(1), True_)),
  group    |-> With_([f |-> Def(<<"x">>, On("g", <<Plus(X, IntE(1))>>)),
                      g |-> Def(<<"y">>, B(Id("y"), IntE(0), On("f", <<IntE(1)>>)))],
                 IntE(1))
]

Prefixed(prefix, ps) == [n \in {prefix \o m : m \in DOMAIN ps} |->
                           ps[CHOOSE m \in DOMAIN ps : n = prefix \o m]]
All == Programs @@ WellTyped @@ Prefixed("bad_", IllTyped)

MCSource == [n \in Selected |-> All[n]]

-----------------------------------------------------------------------------
(* The ground types a run tries: shapes, filled with the program's types.  *)

Arrow2(a, b) == Arrow(<<a>>, b)
At(i) == Placeholder(i)

(* The shapes of functions that take or result in functions.               *)
HigherOrder ==
  [n \in {"foldr", "applyToList"} |-> {Arrow(<<Arrow(<<At(1), At(2)>>, At(3)), At(4), At(5)>>, At(6))}]
    @@ [map       |-> {Arrow(<<Arrow2(At(1), At(2)), At(3)>>, At(4))},
        fold_left |-> {Arrow(<<At(1), At(2), Arrow(<<At(3), At(4)>>, At(5))>>, At(6))},
        compose   |-> {Arrow(<<Arrow2(At(1), At(2)), Arrow2(At(3), At(4)), At(5)>>, At(6))},
        foo       |-> {Arrow(<<Arrow2(At(1), At(2)), At(3), At(4)>>, At(5))},
        id        |-> {Arrow2(At(1), At(2)),
                       Arrow2(Arrow(<<At(1), At(2)>>, At(3)), Arrow(<<At(4), At(5)>>, At(6)))},
        my_bah    |-> {Arrow(<<At(1), At(2)>>, At(3)), At(1)}]
    @@ [n \in {"blah", "main", "add3", "w", "f", "g"} |-> {At(1), Arrow2(At(1), At(2)), Arrow2(Arrow2(At(1), At(2)), At(3))}]

Shapes(p, f) ==
  IF f \in DOMAIN HigherOrder THEN HigherOrder[f]
  ELSE LET n == Len(p.funs[f].params)
       IN  {Arrow([i \in 1..n |-> At(i)], At(n + 1))}

RECURSIVE Slots(_), Fill(_, _), NamesIn(_)
Slots(s) == CASE IsFree(s) -> {s.id} [] IsFunction(s) -> Slots(s.l) \cup Slots(s.r)
Fill(s, b) == IF IsFree(s) THEN Base(b[s.id]) ELSE Function(Fill(s.l, b), Fill(s.r, b))

(* The types that values of the program can have.                          *)
NamesIn(x) ==
  CASE x.e = "id" -> {x.x}
    [] x.e = "str" -> {"String"}
    [] x.e = "int" -> {}
    [] x.e \in {"app", "bin"} -> NamesIn(x.l) \cup NamesIn(x.r)
    [] x.e = "match" -> NamesIn(x.scrut) \cup UNION {{b.con} \cup NamesIn(b.body) : b \in Range(x.branches)}

Bases(p) ==
  LET names == UNION {NamesIn(p.funs[f].body) : f \in DOMAIN p.funs}
      declared == {t \in DOMAIN p.types : \E c \in Range(p.types[t]) : c.name \in names}
      fields == UNION {UNION {Range(c.fields) : c \in Range(p.types[t])} : t \in declared}
  IN  {"Int"} \cup declared \cup fields \cup (names \cap {"String"})

(* Combined with nothing, a function is a table that TLC keeps.            *)
Table(f) == f @@ << >>

MCCandidates ==
  Table([n \in Selected |->
    Table([f \in DOMAIN Source[n].funs |->
      UNION {{Fill(s, b) : b \in [Slots(s) -> Bases(Source[n])]} : s \in Shapes(Source[n], f)}])])

-----------------------------------------------------------------------------
Reference == INSTANCE Meaning

(* A well-typed program does not go wrong: what is accepted never applies  *)
(* what is no function, matches what is no data or adds what is no number, *)
(* where the machine's assertions and unchecked loads take types for       *)
(* granted (typecheck.rs:97, compile_visit.rs:136).                        *)
WellTypedDoNotGoWrong ==
  verdict = "typed" => Reference!MeaningOf(P).v # "stuck"

=============================================================================
