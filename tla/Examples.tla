------------------------------ MODULE Examples ------------------------------
(***************************************************************************)
(* Programs: those of src/src/examples, cut down to lists of a few         *)
(* elements, and some that make the corners of compiler and runtime meet.  *)
(***************************************************************************)
EXTENDS Syntax, TLC

C(name, fields) == [name |-> name, fields |-> fields]
Def(params, body) == [params |-> params, body |-> body]
X == Id("x")
L == Id("l")
Plus(a, b) == Bin("plus", a, b)
On(f, args) == Aps(Id(f), args)
Cons_(a, b) == On("Cons", <<a, b>>)
Nil == Id("Nil")
S(n) == Ap(Id("S"), n)
O == Id("O")

ListOf(a) == <<C("Nil", <<>>), C("Cons", <<a, "List">>)>>

Types == [Bool   |-> <<C("True", <<>>), C("False", <<>>)>>,
          List   |-> ListOf("Int"),
          Nat    |-> <<C("O", <<>>), C("S", <<"Nat">>)>>,
          Option |-> <<C("Some", <<"Int">>), C("None", <<>>)>>,
          Foo    |-> <<C("Bar", <<"Int">>), C("Bah", <<"String", "Int", "String">>)>>,
          Holds3 |-> <<C("A", <<"Int", "String", "Int">>)>>]

IfFun == Def(<<"c", "t", "e">>,
  Match("Bool", Id("c"), <<Case("True", <<>>, Id("t")), Case("False", <<>>, Id("e"))>>))

NotFun == Def(<<"b">>,
  Match("Bool", Id("b"), <<Case("True", <<>>, Id("False")), Case("False", <<>>, Id("True"))>>))

AddFun == Def(<<"x", "y">>, Bin("plus", X, Id("y")))
MulFun == Def(<<"x", "y">>, Bin("times", X, Id("y")))

FoldrFun == Def(<<"f", "b", "l">>,
  Match("List", L,
    <<Case("Nil", <<>>, Id("b")),
      Case("Cons", <<"x", "xs">>,
           On("f", <<X, On("foldr", <<Id("f"), Id("b"), Id("xs")>>)>>))>>))

ToIntFun == Def(<<"n">>,
  Match("Nat", Id("n"), <<Case("O", <<>>, IntE(0)),
                          Case("S", <<"np">>, Bin("plus", IntE(1), On("toInt", <<Id("np")>>)))>>))

LteFun == Def(<<"n", "m">>,
  Match("Nat", Id("m"),
    <<Case("O", <<>>, Match("Nat", Id("n"), <<Case("O", <<>>, Id("True")),
                                              Case("S", <<"np">>, Id("False"))>>)),
      Case("S", <<"mp">>, Match("Nat", Id("n"),
             <<Case("O", <<>>, Id("True")),
               Case("S", <<"np">>, On("lte", <<Id("np"), Id("mp")>>))>>))>>))

MapFun == Def(<<"f", "l">>,
  Match("List", L, <<Case("Nil", <<>>, Nil),
                     Case("Cons", <<"x", "xs">>,
                          Cons_(On("f", <<X>>), On("map", <<Id("f"), Id("xs")>>)))>>))

ApplyToListFun == Def(<<"fn", "l", "i">>,
  Match("List", L, <<Case("Cons", <<"x", "xs">>, Cons_(On("fn", <<X, Id("i")>>), Id("xs"))),
                     Case("Nil", <<>>, Nil)>>))

FstFun == Def(<<"l">>,
  Match("List", L, <<Case("Cons", <<"x", "xs">>, On("Some", <<X>>)),
                     Case("Nil", <<>>, Id("None"))>>))

FromSomeFun == Def(<<"o">>,
  Match("Option", Id("o"), <<Case("Some", <<"x">>, X), Case("None", <<>>, IntE(0))>>))

BlahFun == Def(<<"a">>,
  Match("Foo", Id("a"), <<Case("Bah", <<"a", "b", "c">>, Id("c")),
                          Case("Bar", <<"foo">>, StrE("my_str"))>>))

IdFun == Def(<<"s">>, Id("s"))

Main(body) == [main |-> Def(<<>>, body)]
NoExterns == [f \in {} |-> 0]
With_(fs, body) == [types |-> Types, externs |-> NoExterns, funs |-> Main(body) @@ fs]

(* The external functions of types.fun.                                    *)
Arrows(names) == [i \in DOMAIN names |-> Named(names[i])]
StringConcat == [decl |-> Arrows(<<"String", "String", "String">>), fn |-> "extern_strconcat"]
EasyAddDecl  == [decl |-> Arrows(<<"Int", "Int", "Int", "Int", "Int">>), fn |-> "extern_easyadd"]

Concat(a, b) == On("string_concat", <<a, b>>)
Concat3Fun == Def(<<"a", "b", "c">>, Concat(Concat(Id("a"), Id("b")), Id("c")))

WithConcat(fs, body) ==
  [With_(fs, body) EXCEPT !.externs = [string_concat |-> StringConcat]]

Programs == [
  (* foldr.fun, with lists of two elements *)
  foldr |-> With_([foldr |-> FoldrFun, add |-> AddFun, mul |-> MulFun],
              Plus(On("foldr", <<Id("add"), IntE(0), Cons_(IntE(1), Cons_(IntE(2), Nil))>>),
                   On("foldr", <<Id("mul"), IntE(1), Cons_(IntE(1), Cons_(IntE(2), Nil))>>))),
  (* applytolist.fun: an infinite list, a function with too few arguments *)
  lazy |-> With_([applyToList |-> ApplyToListFun, add |-> AddFun, fst |-> FstFun,
                  fromSome |-> FromSomeFun,
                  ones |-> Def(<<>>, Cons_(IntE(1), Id("ones"))),
                  blah |-> Def(<<>>, On("applyToList", <<Id("add"), Id("ones")>>))],
              On("fromSome", <<On("fst", <<On("blah", <<IntE(2)>>)>>)>>)),
  (* primes.fun: nats, map S, matches within matches *)
  nats |-> [With_([nats |-> Def(<<>>, Cons_(O, On("map", <<Id("S"), Id("nats")>>))),
                  map |-> MapFun, toInt |-> ToIntFun,
                  second |-> Def(<<"l">>,
                    Match("List", L, <<Case("Nil", <<>>, O),
                      Case("Cons", <<"x", "xs">>,
                        Match("List", Id("xs"), <<Case("Nil", <<>>, O),
                                                  Case("Cons", <<"x", "ys">>, X)>>))>>))],
              On("toInt", <<On("second", <<Id("nats")>>)>>))
             EXCEPT !.types.List = ListOf("Nat")],
  lte |-> With_([lte |-> LteFun, if |-> IfFun],
              On("if", <<On("lte", <<S(S(O)), S(O)>>), IntE(1), IntE(2)>>)),
  (* a match that is an argument, and operands that share one node *)
  shared |-> With_([twice |-> Def(<<"x">>, Plus(X, X)),
                    pick |-> Def(<<"b", "x">>,
                      Plus(Match("Bool", Id("b"), <<Case("True", <<>>, X), Case("False", <<>>, IntE(1))>>),
                           X))],
              On("twice", <<On("pick", <<Id("True"), Plus(IntE(1), IntE(2))>>)>>)),
  (* types.fun: what is printed is data with unevaluated fields *)
  holds |-> With_([hold3 |-> Def(<<"a", "b", "c">>, On("A", <<Id("a"), Id("b"), Id("c")>>))],
              On("hold3", <<IntE(1), StrE("hello"), Plus(IntE(1), IntE(1))>>)),
  strings |-> With_([blah |-> BlahFun, skip |-> Def(<<"a", "b">>, Id("b"))],
              On("skip", <<StrE("my_str"),
                   On("blah", <<On("Bah", <<StrE("hello"), Plus(IntE(1), IntE(2)), StrE("lol")>>)>>)>>)),
  (* incomplete.fun *)
  greets |-> With_([id |-> IdFun], On("id", <<StrE("hello")>>)),
  (* one function, used as functions of several types *)
  poly   |-> With_([id |-> IdFun, add |-> AddFun],
               On("id", <<Id("add"), On("id", <<IntE(1)>>), IntE(2)>>)),
  (* integers that have no room, and divisions *)
  wraps   |-> With_(<<>>, Bin("times", Plus(IntE(7), IntE(3)), IntE(3))),
  rounds  |-> With_(<<>>, Bin("divide", Bin("minus", IntE(0), IntE(7)), IntE(2))),
  divzero |-> With_(<<>>, Bin("divide", IntE(1), Bin("minus", IntE(1), IntE(1)))),
  divmin  |-> With_(<<>>, Bin("divide", Bin("minus", Bin("minus", IntE(0), IntE(7)), IntE(1)),
                                        Bin("minus", IntE(0), IntE(1)))),
  (* a main that is a function: too few arguments, and a parameter *)
  partial |-> With_([add |-> AddFun], On("add", <<IntE(1)>>)),
  param   |-> [With_(<<>>, X) EXCEPT !.funs = [main |-> Def(<<"x">>, X)]],
  (* a variable as a pattern *)
  variable |-> With_([not   |-> NotFun,
                      const |-> Def(<<"x">>,
                        Match("Bool", On("not", <<X>>), <<Var("y", Id("False"))>>)),
                      same  |-> Def(<<"b">>,
                        Match("Bool", On("const", <<Id("b")>>), <<Case("True", <<>>, Id("b")),
                                                                  Case("False", <<>>, Id("b"))>>))],
              On("same", <<Id("True")>>)),
  (* types.fun: external functions, called with too few arguments too *)
  easy  |-> [With_([add3 |-> Def(<<>>, On("easy_add", <<IntE(1), Plus(IntE(1), IntE(1)), IntE(7)>>)),
                    both |-> Def(<<"x">>, Plus(On("add3", <<X>>), X))],
               On("both", <<On("add3", <<IntE(3)>>)>>))
             EXCEPT !.externs = [easy_add |-> EasyAddDecl]],
  join  |-> WithConcat([concat3 |-> Concat3Fun,
                        around |-> Def(<<"s">>, Concat(Id("s"), Concat(Id("s"), StrE("lol"))))],
               On("around", <<On("concat3", <<StrE("my_str"), StrE("hello"), StrE("lol")>>)>>)),
  (* primes.fun defines a minus of its own *)
  clash |-> With_([minus |-> Def(<<"n", "m">>, Id("n"))], Bin("minus", IntE(7), IntE(3)))
]

=============================================================================
