---------------------------- MODULE ExternMachine ----------------------------
(***************************************************************************)
(* Module Machine with programs that call the external functions of        *)
(* src/src/runtime/gmachine.c.  The code around the call, which            *)
(* llvm_gen.rs lays out, is module Compiler's; the call itself is the      *)
(* instruction Extern.                                                     *)
(***************************************************************************)
EXTENDS Machine, Externals

(* Characters malloc has given room for, as opposed to Chars.              *)
NewChars(s) == <<"new", s>>

(* C leaves open what a sum is that has no room; the build adds modulo.    *)
CallEasyAdd ==
  /\ At("Extern") /\ I.fn = "extern_easyadd" /\ ArgumentsAre(4, "num")
  /\ EasyAdd(IntVal(Wrap(IntAt(0) + IntAt(1) + IntAt(2) + IntAt(3))))
  /\ Proceed

CallStrConcat ==
  /\ At("Extern") /\ I.fn = "extern_strconcat" /\ ArgumentsAre(2, "str")
  /\ StrConcat(NewChars(heap[Peek(0)].val[2] \o heap[Peek(1)].val[2]))
  /\ Proceed

ExternNext == MachineNext \/ CallEasyAdd \/ CallStrConcat

ExternSpec == MachineInit /\ [][ExternNext]_mvars

=============================================================================
