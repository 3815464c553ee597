------------------------------ MODULE MCMachine ------------------------------
(***************************************************************************)
(* The machine on compiled programs of module Examples.                    *)
(***************************************************************************)
EXTENDS Compiler, TypedCode, ExternMachine, Examples

CONSTANTS
  Selected,     \* the programs a run executes
  Thresholds    \* the thresholds of the first collection it tries

-----------------------------------------------------------------------------
(* What the constants of Machine are for these programs.                   *)

MCNode == 1..110

MCFun == UNION {DOMAIN Programs[n].funs \cup DOMAIN Programs[n].externs
                  \cup ConstructorNames(Programs[n]) : n \in DOMAIN Programs}
           \cup Operators
MCCode == [n \in Selected |-> Compile(Programs[n])]

RECURSIVE InstrsOf(_)
InstrsOf(code) ==
  Range(code) \cup UNION {UNION {InstrsOf(i.branches[t]) : t \in DOMAIN i.branches} :
                           i \in {j \in Range(code) : j.op = "Jump"}}
MCInstr == UNION {InstrsOf(code) : code \in UNION {Range(p) : p \in Range(Code)}}

MCLiteral == {i.val : i \in {j \in MCInstr : j.op = "PushString"}}
MCVal == IntVals \cup FunVals \cup MCLiteral
           \cup {i.val : i \in {j \in MCInstr : j.op = "Pack"}}
           \cup {NewChars(s) : s \in SeqOf({l[2][1] : l \in MCLiteral}, 5)}

(* The points of a piece of code that starts with d slots, each with its   *)
(* depth: what an instruction takes and leaves.                            *)
Growth(i) ==
  CASE i.op \in {"PushInt", "PushString", "PushGlobal", "Push"} -> 1
    [] i.op \in {"MkApp", "BinOp", "Update"} -> -1
    [] i.op = "Pack" -> 1 - i.n
    [] i.op = "Split" -> i.n - 1
    [] i.op \in {"Slide", "Pop"} -> -i.n
    [] i.op = "Extern" -> IF i.fn = "extern_easyadd" THEN -3 ELSE -1
    [] OTHER -> 0

Joined(fs) == FoldFunction(LAMBDA f, g : f @@ g, <<>>, fs)

RECURSIVE PointsOf(_, _)
PointsOf(c, d) ==
  c :> d @@
    IF c = <<>> THEN <<>>
    ELSE IF Head(c).op = "Jump"
    THEN Joined([t \in DOMAIN Head(c).branches |-> PointsOf(Head(c).branches[t] \o Tail(c), d)])
    ELSE PointsOf(Tail(c), d + Growth(Head(c)))

Defined(p) == DOMAIN p.funs \cup DOMAIN p.externs \cup ConstructorNames(p) \cup Operators

(* A depth for every point of a program's code, if they all agree on one.  *)
DepthOf(n) ==
  LET p == Programs[n]
  IN  Joined([f \in Defined(p) |-> PointsOf(MCCode[n][f], ArityOf(p, f) + 1)])
MCDepth == [n \in Selected |-> DepthOf(n)]

(* Signatures.  Those of functions are written down here, at the types the *)
(* programs use them at; main may have the type of any value.              *)
Arrow(types) == FoldRight(Function, Front(types), Last(types))
List_ == Base("List")
Nat_ == Base("Nat")
Binary == Arrow(<<IntType, IntType, IntType>>)

Uses == [
  add         |-> {Binary},
  mul         |-> {Binary},
  foldr       |-> {Arrow(<<Binary, IntType, List_, IntType>>)},
  applyToList |-> {Arrow(<<Binary, List_, IntType, List_>>)},
  fst         |-> {Arrow(<<List_, Base("Option")>>)},
  fromSome    |-> {Arrow(<<Base("Option"), IntType>>)},
  ones        |-> {List_},
  blah        |-> {Arrow(<<IntType, List_>>)},
  nats        |-> {List_},
  map         |-> {Arrow(<<Arrow(<<Nat_, Nat_>>), List_, List_>>)},
  toInt       |-> {Arrow(<<Nat_, IntType>>)},
  second      |-> {Arrow(<<List_, Nat_>>)},
  lte         |-> {Arrow(<<Nat_, Nat_, Base("Bool")>>)},
  if          |-> {Arrow(<<Base("Bool"), IntType, IntType, IntType>>)},
  twice       |-> {Arrow(<<IntType, IntType>>)},
  pick        |-> {Arrow(<<Base("Bool"), IntType, IntType>>)},
  hold3       |-> {Arrow(<<IntType, StringType, IntType, Base("Holds3")>>)},
  add3        |-> {Arrow(<<IntType, IntType>>)},
  both        |-> {Arrow(<<IntType, IntType>>)},
  id          |-> {Arrow(<<t, t>>) : t \in {IntType, StringType, Binary}}]

(* A node holds its fields from the last to the first.                     *)
FieldsOf(p) ==
  [b \in DOMAIN p.types |->
     [t \in {ToI8(i - 1) : i \in DOMAIN p.types[b]} |->
        LET fields == Reverse(ConstructorNamed(p, ConstructorAt(p.types[b], t)).fields)
        IN  [j \in DOMAIN fields |-> Base(fields[j])]]]

TypesOf(p, f) ==
  CASE f \in DOMAIN p.externs ->
         {Arrow([j \in DOMAIN p.externs[f].decl |-> Base(p.externs[f].decl[j].name)])}
    [] f \in DOMAIN p.funs \cap DOMAIN Uses -> Uses[f]
    [] f = "main" /\ p.funs[f].params = <<>> -> {Base(b) : b \in DOMAIN p.types \cup {"Int", "String"}}
    [] f \in ConstructorNames(p) ->
         {Arrow([j \in DOMAIN ConstructorNamed(p, f).fields |-> Base(ConstructorNamed(p, f).fields[j])]
                  \o <<Base(b)>>) : b \in {d \in DOMAIN p.types :
                                          ConstructorNamed(p, f) \in Range(p.types[d])}}
    [] f \in Operators \ DOMAIN p.funs -> {Binary}
    [] OTHER -> {}

RECURSIVE Spine(_, _)
Spine(type, arity) == IF arity = 0 THEN <<type>> ELSE Append(Spine(type.r, arity - 1), type)

Signatures(p) ==
  UNION {{[fun |-> FunVal(f, ArityOf(p, f)), spine |-> Spine(type, ArityOf(p, f))] :
            type \in TypesOf(p, f)} :
         f \in Defined(p)}

(* The points that code c passes from slots s on; none if it does not fit. *)
RECURSIVE PassedFrom(_, _, _)
PassedFrom(T, c, s) ==
  LET Cases(b) == {PassedFrom(T, Head(c).branches[t] \o Tail(c),
                              Append(Front(s), Built(b, t))) : t \in DOMAIN T.fields[b]}
      ways ==
        IF c = <<>> THEN {{}}
        ELSE IF Head(c).op = "Jump"
        THEN {IF {} \in Cases(b) THEN {} ELSE UNION Cases(b) :
                b \in {d \in DOMAIN T.fields : Last(s) = Value(Base(d))}}
        ELSE {PassedFrom(T, Tail(c), after) : after \in After(T, Head(c), s)}
  IN  IF ways \subseteq {{}} /\ c # <<>> THEN {} ELSE {<<c, s>>} \cup UNION ways

DerivationOf(n) ==
  LET p == Programs[n]
      T == [sigs |-> Signatures(p), fields |-> FieldsOf(p)]
      Points(g) == PassedFrom(T, MCCode[n][g.fun[2]], Entry(g))
      good == {g \in T.sigs : Points(g) # {}}
  IN  [sigs |-> good, fields |-> T.fields, points |-> UNION {Points(g) : g \in good}]

(* Only code with stack discipline has the slots that its instructions     *)
(* name.                                                                   *)
MCDerivation == [n \in Selected \cap Steady |-> DerivationOf(n)]

LeastFree ==
  \A n \in DOMAIN heap' \ DOMAIN heap : \A m \in Node \ DOMAIN heap : n <= m

(* A collection after extern_strconcat meets a list that is broken (run    *)
(* externals): its callers run without one.                                *)
Joins(p) == \E f \in DOMAIN Programs[p].externs : Programs[p].externs[f].fn = "extern_strconcat"

MCInit == \E t \in Thresholds : MachineInitWith(t) /\ gc_nodes = 1
MCSpec == MCInit /\ [][ExternNext]_mvars /\ WF_mvars(ExternNext)

ProgramsInit == MCInit /\ (Joins(program) => gc_node_thresh = 128)
ProgramsSpec == ProgramsInit /\ [][ExternNext]_mvars /\ WF_mvars(ExternNext)

-----------------------------------------------------------------------------
Reference == INSTANCE Meaning
MCMeaning == [n \in Selected |-> Reference!MeaningOf(Programs[n])]

(* What main prints: the node its result is, as the value it stands for.   *)
Shows(p, node, value) ==
  CASE value.v = "num" -> node.kind = "num" /\ node.val = IntVal(value.is)
    [] value.v = "str" -> node.kind = "str" /\ node.val[2] = value.is
    [] value.v = "con" -> /\ node.kind = "data"
                          /\ node.val = ConstructorCode(p, value.is)[1].val
                          /\ Len(node.kids) = Len(value.args)
    [] OTHER -> FALSE

(* The program prints what it means, whenever the collector runs; and it   *)
(* stops on an assertion or a trap only if it means nothing that can be    *)
(* printed: a division without a result, a function.                       *)
ResultCorrect ==
  /\ dump = <<>> /\ Running => /\ Count = 1
                                /\ Shows(Programs[program], heap[Peek(0)], MCMeaning[program])
  /\ phase = "abort" => MCMeaning[program].v \in {"error", "fun"}

(* Every program that means a value is compiled to code with stack         *)
(* discipline and with types: all that is proved of such code holds of     *)
(* what compile_visit.rs and llvm_gen.rs emit, calls of extern_easyadd     *)
(* included.  Not so for a branch of a variable pattern, which leaves a    *)
(* slot too many (run variable_pattern), and for extern_strconcat, which   *)
(* overwrites a value.                                                     *)
CompiledCodeFits ==
  ~Joins(program) /\ MCMeaning[program].v # "fun" => program \in Steady \cap Typed

=============================================================================
