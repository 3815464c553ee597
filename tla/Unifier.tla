------------------------------ MODULE Unifier ------------------------------
(***************************************************************************)
(* Unification asked to make any types equal, one pair after the other:    *)
(* what the type checker may rely on, whatever it asks.                    *)
(*                                                                         *)
(* What an equation means is said without the algorithm, by its solutions: *)
(* a solution gives every type a value such that equal types are built     *)
(* alike from equal parts.                                                 *)
(***************************************************************************)
EXTENDS Unification, FiniteSets

CONSTANTS
  Type,        \* the types in the equations, and their parts
  Solutions,   \* functions from Type to values
  MaxAsked     \* the number of equations asked

Kinds == {"Placeholder", "Base", "Function"}

ASSUME TypeAssumption ==
  \A t \in Type : /\ t.kind \in Kinds
                  /\ IsFunction(t) => t.l \in Type /\ t.r \in Type

(* The values of types are built alike exactly if the types are.           *)
ASSUME SolutionsAssumption ==
  \A v \in Solutions : \A s, t \in Type :
    /\ IsFree(s) /\ IsFree(t) /\ s.id = t.id => v[s] = v[t]
    /\ IsBase(s) /\ IsBase(t) => (v[s] = v[t] <=> s.name = t.name)
    /\ IsFunction(s) /\ IsFunction(t) => (v[s] = v[t] <=> v[s.l] = v[t.l] /\ v[s.r] = v[t.r])
    /\ IsBase(s) /\ IsFunction(t) => v[s] # v[t]

ASSUME MaxAskedAssumption == MaxAsked \in Nat

VARIABLE asked    \* the equations asked so far: pairs of types

uvars == <<solver, asked>>

Ids == {t.id : t \in {u \in Type : IsFree(u)}}

Init == /\ types = [n \in {} |-> 0]
        /\ todo = <<>>
        /\ verdict = "ok"
        /\ asked = {}

(* A caller asks for the next equation once unify has returned Ok.         *)
Ask(l, r) ==
  /\ verdict = "ok" /\ todo = <<>> /\ Cardinality(asked) < MaxAsked
  /\ todo' = <<Unify(l, r)>>
  /\ asked' = asked \cup {<<l, r>>}
  /\ UNCHANGED <<types, verdict>>

Unifying == Solve /\ UNCHANGED asked

Idle == (todo = <<>> \/ verdict # "ok") /\ UNCHANGED uvars

Next == (\E l, r \in Type : Ask(l, r)) \/ Unifying \/ Idle

Spec == Init /\ [][Next]_uvars

(* unify is a call in a process of one thread.                             *)
FairSpec == Spec /\ WF_uvars(Unifying)

-----------------------------------------------------------------------------
Frames == [do : {"left"}, l : Type, r : Type, curr : Type, ctr : 0..Limit + 1]
            \cup [do : {"right"}, l : Type, r : Type, lres : Type, curr : Type,
                  ctr : 0..Limit + 1]
            \cup {Return}

Pairing(f) == f.do \in {"left", "right"}

(* The variables keep their types: only placeholders are bound, and to     *)
(* types that were there before; only the innermost call resolves its      *)
(* right side, and what its left side resolved to stays unbound.           *)
TypeOK == /\ DOMAIN types \subseteq Ids
          /\ \A n \in DOMAIN types : types[n] \in Type
          /\ todo \in Seq(Frames)
          /\ \A i \in DOMAIN todo :
               todo[i].do = "right" => i = 1 /\ ~Bound(todo[i].lres)
          /\ verdict \in {"ok", "clash", "limit", "overflow"}
          /\ asked \in SUBSET (Type \X Type)

-----------------------------------------------------------------------------
Solved(v) == \A e \in asked : v[e[1]] = v[e[2]]

(* A value respects the bindings if it gives each placeholder the value of *)
(* what it is bound to.                                                    *)
Respects(v) == \A t \in Type : Bound(t) => v[t] = v[types[t.id]]

Equal(v, f) == Pairing(f) => v[f.l] = v[f.r]
Pending(v)  == \A i \in DOMAIN todo : Equal(v, todo[i])

(* Once unify has returned Ok the bindings say what was asked, no more and *)
(* no less: they have the same solutions.  An answer that is too general   *)
(* lets a wrong program pass, one that is too special refuses a right one  *)
(* elsewhere (type_visit.rs:60-103).                                       *)
SolutionsKept ==
  verdict = "ok" /\ todo = <<>> => \A v \in Solutions : Solved(v) <=> Respects(v)

(* "could not resolve" and "cannot unify" are said only of equations that  *)
(* have no solution.                                                       *)
RefusalsJustified == verdict = "clash" => \A v \in Solutions : ~Solved(v)

(* "hit resolve limit" is said only where placeholders stand for each      *)
(* other in a ring, never of a chain that is merely long, if the limit     *)
(* allows for the placeholders there are (type_visit.rs:47-48).            *)
LimitMeansRing ==
  verdict = "limit" /\ IsFiniteSet(Ids) /\ Cardinality(Ids) <= Limit + 1 =>
    \E ring \in (SUBSET DOMAIN types) \ {{}} :
      \A n \in ring : IsFree(types[n]) /\ types[n].id \in ring

(* The parts of the invariant that the proofs need: at every moment the    *)
(* bindings and the equations left have the solutions of those asked, and  *)
(* resolve has gone from a type to one of the same value.                  *)
Kept == \A v \in Solutions : Solved(v) <=> Respects(v) /\ Pending(v)

Walked(v, f) == /\ f.do = "left"  => v[f.curr] = v[f.l]
                /\ f.do = "right" => v[f.curr] = v[f.r] /\ v[f.lres] = v[f.l]

WalkSound == \A v \in Solutions : Respects(v) => \A i \in DOMAIN todo : Walked(v, todo[i])

UInv == TypeOK /\ Kept /\ WalkSound /\ RefusalsJustified

(* Every call of unify ends: with an answer, with a panic or, on a type    *)
(* that contains itself, by using up the stack.  The bindings may have     *)
(* cycles; only resolve's limit keeps it from following one for ever.      *)
UnifyEnds == (todo # <<>>) ~> (todo = <<>> \/ verdict # "ok")

=============================================================================
