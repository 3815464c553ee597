----------------------------- MODULE ObjectGraph -----------------------------
(***************************************************************************)
(* What the heap promises a running program: a graph of nodes in which     *)
(* nothing is ever lost, with no collector in it.  The graph holds the     *)
(* nodes the stack reaches and no others, so a node that becomes           *)
(* unreachable leaves it at once; its address may be used again.           *)
(***************************************************************************)
EXTENDS Heap

VARIABLES
  stack,   \* the pointers the program holds
  graph    \* the reachable addresses -> [kind, kids, val]

pvars == <<stack, graph>>

Trim(g, s) == Restrict(g, Reachable(Range(s), g))

(* The program gives up the top k pointers for one to a new node, which    *)
(* points at no node but those.                                            *)
Allocate ==
  \E n \in Node \ DOMAIN graph, k \in 0..Len(stack) :
    /\ stack' = Append(SubSeq(stack, 1, Len(stack) - k), n)
    /\ n \in DOMAIN graph'
    /\ Range(graph'[n].kids) \subseteq Range(SubSeq(stack, Len(stack) - k + 1, Len(stack)))
    /\ graph' = Trim(With(graph, n, graph'[n]), stack')

(* The program copies, drops or follows pointers.                          *)
Move ==
  /\ Range(stack') \subseteq DOMAIN graph
  /\ graph' = Trim(graph, stack')

(* One node becomes an indirection to the node on top of the stack, which  *)
(* is taken off.                                                           *)
Redirect ==
  \E n \in Range(stack) :
    /\ stack' = SubSeq(stack, 1, Len(stack) - 1)
    /\ graph' = Trim(With(graph, n, Ind(stack[Len(stack)])), stack')

Init == \E n \in Node :
          /\ stack = <<n>>
          /\ DOMAIN graph = {n}
          /\ graph[n].kind = "global" /\ graph[n].kids = <<>>

Next == Allocate \/ Move \/ Redirect

Spec == Init /\ [][Next]_pvars

=============================================================================
