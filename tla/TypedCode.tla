------------------------------ MODULE TypedCode ------------------------------
(***************************************************************************)
(* Types for compiled code: what the type checker owes the machine so that *)
(* every instruction finds what it needs (module Machine, UsesFit).        *)
(*                                                                         *)
(* A node is made once and has one ground type from then on, so nothing    *)
(* here is polymorphic: a function that is used at several types has       *)
(* several signatures, and whoever pushes its global picks one.            *)
(***************************************************************************)
EXTENDS Discipline

CONSTANT Derivation   \* program -> [points, sigs, fields], see WellTyped

Base(n)        == [kind |-> "Base", name |-> n]
Function(l, r) == [kind |-> "Function", l |-> l, r |-> r]
IntType    == Base("Int")
StringType == Base("String")

(* What is known of the node in a slot: its type; that it has been         *)
(* evaluated; that it is data with this tag.                               *)
Lazy(t)     == [type |-> t, form |-> "any", tag |-> 0]
Value(t)    == [type |-> t, form |-> "value", tag |-> 0]
Built(b, t) == [type |-> Base(b), form |-> "built", tag |-> t]

(* A signature has the types of a function with fewer and fewer arguments: *)
(* spine[1] is the type of its result, the last one its own.               *)
Whole(g) == g.spine[Len(g.spine)]
Entry(g) == [j \in 1..Len(g.spine) |-> Lazy(IF j = 1 THEN g.spine[1] ELSE g.spine[j].l)]

(* What slots s, from the redex up, can become by instruction i: nothing,  *)
(* if their types do not fit it.                                           *)
After(T, i, s) ==
  LET n        == Len(s)
      top      == s[n]
      Under(k) == SubSeq(s, 1, n - k)
      Makes(k, types) == {Append(Under(k), Lazy(t)) : t \in types}
  IN  CASE i.op = "PushInt"    -> Makes(0, {IntType})
        [] i.op = "PushString" -> Makes(0, {StringType})
        [] i.op = "PushGlobal" -> Makes(0, {Whole(g) : g \in {h \in T.sigs : h.fun = i.val}})
        [] i.op = "Push"       -> {Append(s, s[n - i.n])}
        [] i.op = "MkApp"      ->
             IF top.type.kind = "Function" /\ top.type = Function(s[n - 1].type, top.type.r)
               THEN Makes(2, {top.type.r}) ELSE {}
        [] i.op = "BinOp"      ->
             IF top = Value(IntType) /\ s[n - 1] = Value(IntType) THEN Makes(2, {IntType}) ELSE {}
        [] i.op = "Extern"     ->
             IF i.fn = "extern_easyadd" /\ \A k \in 0..3 : s[n - k] = Value(IntType)
               THEN Makes(4, {IntType}) ELSE {}
        [] i.op = "Pack"       ->
             Makes(i.n, {Base(b) : b \in {d \in DOMAIN T.fields : \E t \in DOMAIN T.fields[d] :
                           /\ i.val = TagVal(t)
                           /\ T.fields[d][t] = [j \in 1..i.n |-> s[n - i.n + j].type]}})
        [] i.op = "Split"      ->
             IF top.form = "built" /\ Len(T.fields[top.type.name][top.tag]) = i.n
               THEN {Under(1) \o [j \in 1..i.n |-> Lazy(T.fields[top.type.name][top.tag][j])]}
               ELSE {}
        [] i.op = "Slide"      -> {Append(Under(i.n + 1), top)}
        [] i.op = "Eval"       ->
             IF top.type.kind = "Base" THEN {Append(Under(1), Value(top.type))} ELSE {}
        [] i.op = "Update"     -> IF top.type = s[1].type THEN {Under(1)} ELSE {}
        [] i.op = "Pop"        -> {Under(i.n)}
        [] OTHER               -> {}

(* Code c and slots s fit each other if what the first instruction makes   *)
(* of the slots fits the rest; a switch has a case for every constructor   *)
(* of the type, and fits in each of them.                                  *)
Fit(T, c, s) ==
  IF Head(c).op = "Jump"
  THEN \E b \in DOMAIN T.fields :
         /\ s[Len(s)] = Value(Base(b))
         /\ \A t \in DOMAIN T.fields[b] :
              /\ t \in DOMAIN Head(c).branches
              /\ <<Head(c).branches[t] \o Tail(c),
                   Append(SubSeq(s, 1, Len(s) - 1), Built(b, t))>> \in T.points
  ELSE \E after \in After(T, Head(c), s) : <<Tail(c), after>> \in T.points

(* T types the code of p: points are pairs of code and slots that fit,     *)
(* sigs the signatures of functions, fields the types of the fields of     *)
(* each constructor, by type and tag.  main has the type of a value.       *)
WellTyped(p, T) ==
  /\ DOMAIN T.fields \cap {"Int", "String"} = {}
  /\ \A point \in T.points :
       LET c == point[1]
           s == point[2]
       IN  /\ c \in DOMAIN Depth[p] /\ s \in Seq(Range(s)) /\ Len(s) = Depth[p][c]
           /\ c # <<>> => Fit(T, c, s)
  /\ \A g \in T.sigs :
       /\ Len(g.spine) = g.fun[3] + 1
       /\ \A j \in 2..Len(g.spine) : g.spine[j] = Function(g.spine[j].l, g.spine[j - 1])
       /\ <<Code[p][g.fun[2]], Entry(g)>> \in T.points
  /\ \E g \in T.sigs : g.fun = FunVal("main", 0) /\ g.spine[1].kind = "Base"

Typed == {p \in DOMAIN Derivation : WellTyped(p, Derivation[p])}

-----------------------------------------------------------------------------
(* Typed code stops only where a division has no result: no assertion of   *)
(* stack.c or unwind fails, no instruction reads a field of another kind   *)
(* of node, no external function gets an argument of another kind, and no  *)
(* tag is without a case.                                                  *)
OnlyDivisionStops ==
  Running /\ dump # <<>> /\ ~Ready => At("BinOp") /\ Traps(I.fn, IntAt(0), IntAt(1))

=============================================================================
