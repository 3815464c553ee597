-------------------------------- MODULE Heap --------------------------------
(***************************************************************************)
(* The nodes of the funlang runtime (src/src/runtime/node.h, node.c) and   *)
(* what a program can reach in a heap of them.                             *)
(*                                                                         *)
(* A heap is a function from the allocated addresses to nodes.  A node     *)
(* keeps the pointers gc_visit_node follows, in its order, as kids, and    *)
(* everything else it holds as val.                                        *)
(***************************************************************************)
EXTENDS Integers, Sequences, FiniteSets, Functions

CONSTANTS
  Node,   \* heap addresses malloc can return: bounds the heap
  NULL    \* the null pointer, and the val of a node that holds only pointers

ASSUME NodeAssumption == IsFiniteSet(Node) /\ NULL \notin Node

Kind == {"app", "num", "str", "global", "ind", "data"}

App(l, r)    == [kind |-> "app",    kids |-> <<l, r>>, val |-> NULL]
Num(i)       == [kind |-> "num",    kids |-> <<>>,     val |-> i]
Str(s)       == [kind |-> "str",    kids |-> <<>>,     val |-> s]
Global(f)    == [kind |-> "global", kids |-> <<>>,     val |-> f]
Ind(n)       == [kind |-> "ind",    kids |-> <<n>>,    val |-> NULL]
Data(t, arr) == [kind |-> "data",   kids |-> arr,      val |-> t]

(* The heap once n holds node, newly allocated or overwritten.             *)
With(heap, n, node) ==
  [m \in DOMAIN heap \cup {n} |-> IF m = n THEN node ELSE heap[m]]

(* The sets that hold the roots and whatever the nodes in them point at.   *)
Closures(roots, heap) ==
  {S \in SUBSET Node : /\ roots \subseteq S
                       /\ \A n \in S \cap DOMAIN heap : Range(heap[n].kids) \subseteq S}

(* What can be reached from the roots: the least such set.                 *)
Reachable(roots, heap) ==
  LET C == Closures(roots, heap) IN {n \in Node : \A S \in C : n \in S}

(* The same set, found by following pointers for as long as they lead to   *)
(* anything new: what TLC can compute of the heap of a whole program.      *)
Beyond(S, heap) == S \cup UNION {Range(heap[n].kids) : n \in S \cap DOMAIN heap}

Reached(roots, heap) ==
  LET follow[S \in SUBSET Node] ==
        LET next == Beyond(S, heap) IN IF next = S THEN S ELSE follow[next]
  IN  follow[roots]

(* What is left of the heap if nodes that point at none of the others are  *)
(* taken away for as long as there are any: its cycles and what leads to   *)
(* them.                                                                   *)
Inner(S, heap) == {n \in S : Range(heap[n].kids) \cap S # {}}

Knots(heap) ==
  LET peel[S \in SUBSET DOMAIN heap] ==
        LET inner == Inner(S, heap) IN IF inner = S THEN S ELSE peel[inner]
  IN  peel[DOMAIN heap]

=============================================================================
