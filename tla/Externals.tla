------------------------------ MODULE Externals ------------------------------
(***************************************************************************)
(* The functions of gmachine.c that a program can declare as extern, on    *)
(* the heap and under the collector of module Collector.                   *)
(*                                                                         *)
(* The code llvm_gen.rs emits for an external function evaluates its       *)
(* arguments, pops them and pushes what the C function returns: nothing    *)
(* else has the result tracked.                                            *)
(***************************************************************************)
EXTENDS Collector

ArgumentsAre(n, kind) ==
  Running /\ Count >= n /\ \A i \in 0..n - 1 : heap[Peek(i)].kind = kind

(* extern_strconcat gives its right operand the new characters, and tracks *)
(* it once more.                                                           *)
StrConcat(s) ==
  /\ ArgumentsAre(2, "str")
  /\ heap' = With(heap, Peek(1), Str(s))
  /\ Track(Peek(1), Beneath(2))

(* A slip: the result is an indirection to one of the operands.            *)
EasyAddShared(i) ==
  /\ ArgumentsAre(4, "num")
  /\ \E n \in Node \ DOMAIN heap :
       /\ heap' = With(heap, n, Ind(Peek(0)))
       /\ gc_next' = With(gc_next, n, NULL)
       /\ stack' = Append(Beneath(4), n)
  /\ UNCHANGED <<gc_nodes, gc_node_cnt, gcVars>>

(* extern_easyadd allocates its result, and does not track it.             *)
EasyAdd(i) ==
  /\ ArgumentsAre(4, "num")
  /\ \E n \in Node \ DOMAIN heap :
       /\ heap' = With(heap, n, Num(i))
       /\ gc_next' = With(gc_next, n, NULL)
       /\ stack' = Append(Beneath(4), n)
  /\ UNCHANGED <<gc_nodes, gc_node_cnt, gcVars>>

-----------------------------------------------------------------------------
(* The sweep never meets a node that was not tracked, so the mark a        *)
(* collection put on it stays (gmachine.c:178, 140-143).  The next one     *)
(* stops at that mark: it must not hide a node.                            *)
StaleMarksHideNothing ==
  phase = "run" => \A n \in gc_reachable : heap[n].kids = <<>>

(* What is left of Collector's inductive invariant: some nodes may be      *)
(* loose.                                                                  *)
CollectorInv == \E loose : InvWith(loose)

=============================================================================
