---------------------------- MODULE Unification ----------------------------
(***************************************************************************)
(* The solver of type equations in src/src/types/type_visit.rs: resolve,   *)
(* unify and bind, call by call.                                           *)
(*                                                                         *)
(* The calls under way are the frames of todo, the innermost first.  A     *)
(* frame of a function that calls resolve carries the variables of that    *)
(* loop, curr and ctr.  There is one loop, hence one action, for all of    *)
(* them: module TypeChecker has frames of its own.                         *)
(***************************************************************************)
EXTENDS Integers, Sequences

CONSTANTS
  Limit,      \* the number resolve's counter must not exceed: 100 in the code
  MaxDepth    \* the frames the process has stack for

ASSUME LimitAssumption == Limit \in Nat
ASSUME MaxDepthAssumption == MaxDepth \in Nat \ {0}

VARIABLES
  types,      \* what placeholders are bound to: id -> type
  todo,       \* the calls under way and what they have still to call
  verdict     \* "ok", or why the compiler stopped

solver == <<types, todo, verdict>>

-----------------------------------------------------------------------------
(* Types.  A Base is a type with a name; which of them are sums, the       *)
(* program says.                                                           *)

Placeholder(i) == [kind |-> "Placeholder", id |-> i]
Base(n)        == [kind |-> "Base", name |-> n]
Function(l, r) == [kind |-> "Function", l |-> l, r |-> r]

IsFree(t)     == t.kind = "Placeholder"
IsFunction(t) == t.kind = "Function"
IsBase(t)     == t.kind = "Base"

-----------------------------------------------------------------------------
(* Frames.  unify resolves its left side, then its right side.             *)

Unify(l, r) == [do |-> "left", l |-> l, r |-> r, curr |-> l, ctr |-> 0]

(* A slip: the counter goes on from the left side.                         *)
RightCounting(f) == [do |-> "right", l |-> f.l, r |-> f.r, lres |-> f.curr,
                     curr |-> f.r, ctr |-> f.ctr]

Right(f) == [do |-> "right", l |-> f.l, r |-> f.r, lres |-> f.curr,
             curr |-> f.r, ctr |-> 0]

(* unify has called itself for both sides of a function and is to return.  *)
Return == [do |-> "return"]

F == Head(todo)
Going == verdict = "ok" /\ todo # <<>> /\ Len(todo) <= MaxDepth
Doing(what) == Going /\ F.do = what

Calls(frames) == todo' = frames \o Tail(todo)
Stops(why) == verdict' = why /\ UNCHANGED <<types, todo>>

-----------------------------------------------------------------------------
(* The loop of resolve.                                                    *)

Bound(t) == t.kind = "Placeholder" /\ t.id \in DOMAIN types

Follow(f, t, n) ==
  [x \in DOMAIN f |-> IF x = "curr" THEN t ELSE IF x = "ctr" THEN n ELSE f[x]]

(* A slip: the loop has no limit.                                          *)
HopOn ==
  /\ Going /\ "curr" \in DOMAIN F /\ Bound(F.curr)
  /\ Calls(<<Follow(F, types[F.curr.id], F.ctr)>>)
  /\ UNCHANGED <<types, verdict>>

Hop ==
  /\ Going /\ "curr" \in DOMAIN F /\ Bound(F.curr) /\ F.ctr <= Limit
  /\ Calls(<<Follow(F, types[F.curr.id], F.ctr + 1)>>)
  /\ UNCHANGED <<types, verdict>>

GiveUp ==
  /\ Going /\ "curr" \in DOMAIN F /\ Bound(F.curr) /\ F.ctr > Limit
  /\ Stops("limit")

Resolved(what) == Doing(what) /\ ~Bound(F.curr)

-----------------------------------------------------------------------------
(* unify, once it has resolved both sides.  What a placeholder is bound to *)
(* is the other side as it was given, not what it resolved to.             *)

(* A slip: what is bound is the left side itself, not the placeholder it   *)
(* stands for.                                                             *)
BindUnresolved ==
  /\ Resolved("right") /\ IsFree(F.lres)
  /\ types' = [i \in DOMAIN types \cup {F.l.id} |-> IF i = F.l.id THEN F.r ELSE types[i]]
  /\ Calls(<<>>)
  /\ UNCHANGED verdict

Bind(id, t) ==
  types' = IF IsFree(t) /\ t.id = id THEN types
           ELSE [i \in DOMAIN types \cup {id} |-> IF i = id THEN t ELSE types[i]]

ResolveRight ==
  /\ Resolved("left")
  /\ Calls(<<Right(F)>>)
  /\ UNCHANGED <<types, verdict>>

BindLeft ==
  /\ Resolved("right") /\ IsFree(F.lres)
  /\ Bind(F.lres.id, F.r)
  /\ Calls(<<>>)
  /\ UNCHANGED verdict

BindRight ==
  /\ Resolved("right") /\ ~IsFree(F.lres) /\ IsFree(F.curr)
  /\ Bind(F.curr.id, F.l)
  /\ Calls(<<>>)
  /\ UNCHANGED verdict

(* A slip: what the functions return is forgotten.                         *)
DescendLeft ==
  /\ Resolved("right") /\ IsFunction(F.lres) /\ IsFunction(F.curr)
  /\ Calls(<<Unify(F.lres.l, F.curr.l), Return>>)
  /\ UNCHANGED <<types, verdict>>

Descend ==
  /\ Resolved("right") /\ IsFunction(F.lres) /\ IsFunction(F.curr)
  /\ Calls(<<Unify(F.lres.l, F.curr.l), Unify(F.lres.r, F.curr.r), Return>>)
  /\ UNCHANGED <<types, verdict>>

Agree(s, t) == IsBase(s) /\ IsBase(t) /\ s.name = t.name

Same ==
  /\ Resolved("right") /\ Agree(F.lres, F.curr)
  /\ Calls(<<>>)
  /\ UNCHANGED <<types, verdict>>

(* A slip: types that are not the same to the letter are refused.         *)
Identical(s, t) == s = t

Compatible(s, t) == (IsFunction(s) /\ IsFunction(t)) \/ Agree(s, t)

Clash ==
  /\ Resolved("right") /\ ~IsFree(F.lres) /\ ~IsFree(F.curr)
  /\ ~Compatible(F.lres, F.curr)
  /\ Stops("clash")

Leave ==
  /\ Doing("return")
  /\ Calls(<<>>)
  /\ UNCHANGED <<types, verdict>>

(* The recursion has used up the stack.                                    *)
Overflow ==
  /\ verdict = "ok" /\ Len(todo) > MaxDepth
  /\ Stops("overflow")

Solve == \/ Hop \/ GiveUp \/ ResolveRight
         \/ BindLeft \/ BindRight \/ Descend \/ Same \/ Clash
         \/ Leave \/ Overflow

=============================================================================
