------------------------------ MODULE Discipline ------------------------------
(***************************************************************************)
(* Stack discipline: what is required of compiled code so that its offsets *)
(* hit the slots they are meant for, and what follows from it.             *)
(*                                                                         *)
(* The offsets are computed at compile time, by the visitor of             *)
(* src/src/graph/compile_visit.rs, from what the stack will hold.  That a  *)
(* program's code has the discipline is said here without that visitor:    *)
(* there is a number for every point of the code, the slots from the redex *)
(* up, that all instructions agree on.                                     *)
(***************************************************************************)
EXTENDS Machine

CONSTANT Depth   \* program -> [instructions left -> slots from the redex up]

(* The rest of a function finds the slots that its first instruction       *)
(* leaves.  Nothing but Update gets at the redex, and Update at nothing    *)
(* else; behind it there is at most the Pop of the arguments.  Of the C    *)
(* functions, extern_easyadd takes four pointers and leaves one;           *)
(* extern_strconcat overwrites a value, and no code that calls it agrees.  *)
Agrees(D, c) ==
  LET i == Head(c)
      d == D[c]
      Leaves(rest, n) == rest \in DOMAIN D /\ D[rest] = n
      Then(n) == Leaves(Tail(c), n)
  IN  \/ i.op \in {"PushInt", "PushString", "PushGlobal"} /\ Then(d + 1)
      \/ i.op = "Push"   /\ i.n <= d - 2 /\ Then(d + 1)
      \/ i.op = "MkApp"  /\ d >= 3 /\ Then(d - 1)
      \/ i.op = "BinOp"  /\ d >= 3 /\ Then(d - 1)
      \/ i.op = "Extern" /\ i.fn = "extern_easyadd" /\ d >= 5 /\ Then(d - 3)
      \/ i.op = "Pack"   /\ i.n <= d - 1 /\ Then(d - i.n + 1)
      \/ i.op = "Split"  /\ d >= 2 /\ Then(d - 1 + i.n)
      \/ i.op = "Slide"  /\ i.n <= d - 2 /\ Then(d - i.n)
      \/ i.op = "Eval"   /\ d >= 2 /\ Then(d)
      \/ /\ i.op = "Jump" /\ d >= 2
         /\ \A t \in DOMAIN i.branches : Leaves(i.branches[t] \o Tail(c), d)
      \/ /\ i.op = "Update" /\ i.n = d - 2 /\ Then(d - 1)
         /\ Tail(c) = <<>> \/ Head(Tail(c)).op = "Pop"
      \/ i.op = "Pop"    /\ i.n = d - 1 /\ Tail(c) = <<>> /\ Then(1)

(* A function starts with its redex and its arguments above it, and ends   *)
(* with its redex on top.  The programs for which that is so:              *)
Disciplined(p, D) ==
  /\ p \in DOMAIN Code
  /\ \A c \in DOMAIN D : D[c] \in Nat \ {0}
  /\ <<>> \in DOMAIN D /\ D[<<>>] = 1
  /\ \A c \in DOMAIN D \ {<<>>} : Agrees(D, c)
  /\ \A g \in {Head(c).val : c \in {b \in DOMAIN D \ {<<>>} : Head(b).op = "PushGlobal"}} :
       LET code == Code[p][g[2]] IN code \in DOMAIN D /\ D[code] = g[3] + 1
  /\ Code[p]["main"] \in DOMAIN D /\ D[Code[p]["main"]] = 1

Steady == {p \in DOMAIN Depth : Disciplined(p, Depth[p])}

-----------------------------------------------------------------------------
(* No node reaches itself: the recursions that print and mark the graph    *)
(* come to an end.                                                         *)
Acyclic == \A n \in DOMAIN heap : n \notin Reachable(Range(heap[n].kids), heap)

(* The same, computed: unwind prints the graph beneath every stack slot at *)
(* every turn, by recursion, and so do the visits of the collector.        *)
HeapAcyclic == Knots(heap) = {}

(* Where the frames of the calls of unwind lie, the innermost first.  The  *)
(* slots of a call begin above those it found; its redex is the slot that  *)
(* the depth of its code says, or the top one while it is in its loop.     *)
Height(k) == IF k = 1 THEN Len(ProgramStack) ELSE Len(saved[k - 1]) + 1
Redex(k)  == Height(k) - Depth[program][dump[k]] + 1

FramesInv ==
  /\ saved \in Seq(Seq(Node)) /\ Len(saved) = Len(dump)
  /\ \A k \in DOMAIN dump :
       /\ dump[k] \in DOMAIN Depth[program]
       /\ Len(saved[k]) < Redex(k)
       /\ \A i \in DOMAIN saved[k] : ProgramStack[i] = saved[k][i]
       /\ \A j \in 1..k - 1 : Redex(k) <= Len(saved[j])

(* What lies above a redex, or above an application on its spine, has been *)
(* made from its parts and does not lead back to it.                       *)
Above(i) == Reachable({ProgramStack[j] : j \in i + 1..Len(ProgramStack)}, heap)
AboveInv ==
  \A k \in DOMAIN dump : \A i \in Len(saved[k]) + 1..Redex(k) : ProgramStack[i] \notin Above(i)

(* A redex is one until it is updated.                                     *)
RedexInv ==
  \A k \in DOMAIN dump : dump[k] # <<>> /\ Head(dump[k]).op # "Pop" =>
    heap[ProgramStack[Redex(k)]].kind \in {"app", "global"}

(* A global has the arity that its code expects.                           *)
HasArity(g) == /\ Code[program][g[2]] \in DOMAIN Depth[program]
               /\ Depth[program][Code[program][g[2]]] = g[3] + 1
ArityInv == \A n \in DOMAIN heap : heap[n].kind = "global" => HasArity(heap[n].val)

DInv == FramesInv /\ AboveInv /\ RedexInv /\ ArityInv /\ Acyclic

=============================================================================
