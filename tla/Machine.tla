------------------------------- MODULE Machine -------------------------------
(***************************************************************************)
(* Compiled funlang programs at work on the runtime: the instructions that *)
(* src/src/codegen/llvm_gen.rs lays out for each function, executed by the *)
(* calls unwind and f_<name> make to each other (src/src/runtime,          *)
(* runtime.c), on the heap and the stack of module Collector.              *)
(*                                                                         *)
(* The C call stack is the variable dump: for every call of unwind, the    *)
(* innermost first, the instructions that the function it has called has   *)
(* still to execute.  Where none are left, unwind goes round its loop.     *)
(***************************************************************************)
EXTENDS Collector, SequencesExt

CONSTANTS
  Fun,     \* the names of functions, constructors among them
  Code,    \* the compiled programs: name -> [function -> instructions]
  Instr,   \* the instructions that occur in them
  Half     \* integers are -Half .. Half - 1: 2^31 in the code

(* What a node holds beside pointers, tagged so that values of different   *)
(* sorts can be told apart.                                                *)
IntVal(i)     == <<"int", i>>
TagVal(t)     == <<"tag", t>>
FunVal(f, a)  == <<"fun", f, a>>
Chars(s)      == <<"lit", s>>

Ints == -Half .. Half - 1
IntVals == {IntVal(i) : i \in Ints}
FunVals == {FunVal(f, a) : f \in Fun, a \in 0..MaxStack}

ASSUME HalfAssumption == Half \in Nat \ {0}
ASSUME ValAssumption == IntVals \cup FunVals \cup Literal \subseteq Val
ASSUME MainAssumption == "main" \in Fun
ASSUME CodeAssumption == \A p \in DOMAIN Code : Code[p] \in [Fun -> Seq(Instr)]

(* The operands fit what the instruction puts in a node or on the stack.   *)
ASSUME InstrAssumption ==
  \A i \in Instr :
    /\ i.op = "PushInt"    => i.val \in IntVals
    /\ i.op = "PushString" => i.val \in Literal
    /\ i.op = "PushGlobal" => i.val \in FunVals
    /\ i.op = "Pack"       => i.val \in Val
    /\ i.op \in {"Push", "Pop", "Update", "Split", "Slide", "Pack"} => i.n \in 0..MaxStack
    /\ i.op = "BinOp"      => i.fn \in {"plus", "minus", "times", "divide"}
    /\ i.op = "Jump"       => \A t \in DOMAIN i.branches : i.branches[t] \in Seq(Instr)

VARIABLES
  program,   \* the program that runs
  dump,      \* the instructions left, for every call of unwind under way
  saved      \* history: for every unwind under way, what the stack held
             \* beneath its node when it was called; no action reads it

mvars == <<vars, program, dump, saved>>

-----------------------------------------------------------------------------
(* Arithmetic on i32, as LLVM's add, sub, mul and sdiv do it.              *)

(* A slip: the result is as wide as it has to be.                          *)
NoWrap(i) == i

Wrap(i) == ((i + Half) % (2 * Half)) - Half
Magnitude(i) == IF i < 0 THEN -i ELSE i
Quotient(a, b) == LET q == Magnitude(a) \div Magnitude(b)
                  IN  IF (a < 0) = (b < 0) THEN q ELSE -q

Arith(op, a, b) ==
  Wrap(CASE op = "plus"   -> a + b
         [] op = "minus"  -> a - b
         [] op = "times"  -> a * b
         [] op = "divide" -> Quotient(a, b))

(* idiv traps on a zero divisor and on the one quotient that has no room.  *)
Traps(op, a, b) == op = "divide" /\ (b = 0 \/ (a = -Half /\ b = -1))

-----------------------------------------------------------------------------
I == Head(Head(dump))
At(op) == Running /\ dump # <<>> /\ Head(dump) # <<>> /\ I.op = op
Unwinding == Running /\ dump # <<>> /\ Head(dump) = <<>>

GoOn(code) == dump' = [dump EXCEPT ![1] = code] /\ UNCHANGED <<program, saved>>
Proceed == GoOn(Tail(Head(dump)))

Kindred(o, k) == Count > o /\ heap[Peek(o)].kind = k
IntAt(o) == heap[Peek(o)].val[2]
TagAt(o) == heap[Peek(o)].val[2]
Arity == heap[Peek(0)].val[3]

(* The assertions of the runtime and what the generated code takes for     *)
(* granted: where it does not hold the process stops or computes with      *)
(* whatever it finds.                                                      *)
Enough ==
  CASE I.op \in {"PushInt", "PushString", "PushGlobal"} -> TRUE
    [] I.op \in {"Push", "Pop", "Slide", "Pack"} -> Count > I.n
    [] I.op = "Update" -> Count > I.n + 1
    [] I.op = "MkApp"  -> Count >= 2
    [] I.op = "Split"  -> Kindred(0, "data") /\ I.n <= Len(heap[Peek(0)].kids)
    [] I.op = "Jump"   -> Kindred(0, "data")
    [] I.op = "BinOp"  -> /\ Kindred(0, "num") /\ Kindred(1, "num")
                          /\ ~Traps(I.fn, IntAt(0), IntAt(1))
    [] I.op = "Eval"   -> Count > 0
    [] I.op = "Extern" -> \/ I.fn = "extern_easyadd"   /\ \A k \in 0..3 : Kindred(k, "num")
                          \/ I.fn = "extern_strconcat" /\ \A k \in 0..1 : Kindred(k, "str")

Ready ==
  IF Head(dump) # <<>> THEN Enough
  ELSE /\ Count > 0
       /\ Kindred(0, "global") => /\ Count > Arity
                                 /\ \A i \in 1..Arity : Kindred(i, "app")

-----------------------------------------------------------------------------
(* Instruction by instruction.                                             *)

ExecPushInt    == At("PushInt")    /\ PushInt(I.val)    /\ Proceed
ExecPushString == At("PushString") /\ PushString(I.val) /\ Proceed
ExecPushGlobal == At("PushGlobal") /\ PushGlobal(I.val) /\ Proceed
ExecPush       == At("Push")       /\ Push(I.n)         /\ Proceed
ExecPop        == At("Pop")        /\ Pop(I.n)          /\ Proceed
ExecMkApp      == At("MkApp")      /\ MkApp             /\ Proceed
ExecUpdate     == At("Update")     /\ Update(I.n)       /\ Proceed
ExecPack       == At("Pack")       /\ Pack(I.n, I.val)  /\ Proceed
ExecSplit      == At("Split")      /\ Split(I.n)        /\ Proceed
ExecSlide      == At("Slide")      /\ Slide(I.n)        /\ Proceed

(* The left operand is on top.                                             *)
ExecBinOp == /\ At("BinOp") /\ Ready
             /\ BinOp(IntVal(Arith(I.fn, IntAt(0), IntAt(1))))
             /\ Proceed

(* The switch on the tag; a tag without a case goes on behind the match.   *)
ExecJump ==
  /\ At("Jump") /\ Ready
  /\ LET branch == IF TagAt(0) \in DOMAIN I.branches THEN I.branches[TagAt(0)] ELSE <<>>
     IN  GoOn(branch \o Tail(Head(dump)))
  /\ UNCHANGED vars

ExecEval == /\ At("Eval") /\ Ready
            /\ dump' = <<<<>>, Tail(Head(dump))>> \o Tail(dump)
            /\ saved' = <<Beneath(1)>> \o saved
            /\ UNCHANGED <<vars, program>>

-----------------------------------------------------------------------------
(* One turn of unwind's loop.                                              *)

Follow == /\ Unwinding
          /\ UnwindApp \/ UnwindInd
          /\ UNCHANGED <<program, dump, saved>>

(* n->fn(s), after which the loop goes round again.                        *)
Call == /\ Unwinding /\ Kindred(0, "global") /\ Ready
        /\ UnwindGlobal(Arity)
        /\ GoOn(Code[program][heap[Peek(0)].val[2]])

(* A slip: a string does not end the loop.                                 *)
ReturnButForStrings ==
  /\ Unwinding /\ Count > 0 /\ heap[Peek(0)].kind \in {"data", "num"}
  /\ dump' = Tail(dump) /\ saved' = Tail(saved)
  /\ UNCHANGED <<vars, program>>

Evaluated == Count > 0 /\ heap[Peek(0)].kind \in {"data", "num", "str"}

Return == /\ Unwinding /\ Evaluated
          /\ dump' = Tail(dump) /\ saved' = Tail(saved)
          /\ UNCHANGED <<vars, program>>

-----------------------------------------------------------------------------
(* An assertion fails, a division traps, or a field of another kind of     *)
(* node is read: for the properties, the program has stopped.              *)
Fault == /\ dump # <<>> /\ ~Ready
         /\ Abort
         /\ UNCHANGED <<program, dump, saved>>

Collecting == Collect /\ UNCHANGED <<program, dump, saved>>

(* main has printed the result, or the process has aborted.                *)
Halted == (dump = <<>> /\ Running) \/ phase = "abort"
Idle == Halted /\ UNCHANGED mvars

(* main: alloc_global(f_main, 0), whatever the arity of main is.           *)
MachineInitWith(thresh) ==
  /\ program \in DOMAIN Code
  /\ dump = <<<<>>>>
  /\ saved = <<<<>>>>
  /\ InitWith(FunVal("main", 0), thresh)

MachineInit == MachineInitWith(GC_NODE_INIT_THRESH)

Execute ==
  \/ ExecPushInt \/ ExecPushString \/ ExecPushGlobal \/ ExecPush \/ ExecPop
  \/ ExecMkApp \/ ExecUpdate \/ ExecPack \/ ExecSplit \/ ExecSlide
  \/ ExecBinOp \/ ExecJump \/ ExecEval
  \/ Follow \/ Call \/ Return

MachineNext == Execute \/ Fault \/ Collecting \/ Idle

MachineSpec == MachineInit /\ [][MachineNext]_mvars

(* One thread runs the program: nothing keeps it from its next step.       *)
FairMachineSpec == MachineSpec /\ WF_mvars(MachineNext)

-----------------------------------------------------------------------------
(* A call of unwind finds the stack as it was when it returns, but for the *)
(* node it was called for; whatever its calls push, pop and update stays   *)
(* above.  The offsets that compile_visit.rs computes rest on this, and so *)
(* does the eval that llvm_gen.rs:97 once popped and pushed by itself.     *)
EvalKeepsStack ==
  /\ \A i \in DOMAIN saved : IsPrefix(saved[i], ProgramStack)
  /\ Unwinding /\ Evaluated => Beneath(1) = Head(saved)

(* A number in a node is one that 32 bits hold.                            *)
IntegersFit == \A n \in DOMAIN heap : heap[n].kind = "num" => heap[n].val \in IntVals

(* The only nodes compiled code overwrites are redexes, an application or  *)
(* the global of a function without parameters, and they become            *)
(* indirections: whoever shares a value keeps it.  C functions the program *)
(* calls do as they please, see module ExternMachine.                      *)
OnlyRedexesOverwritten ==
  [][\A n \in DOMAIN heap \cap DOMAIN heap' :
       heap'[n] # heap[n] => \/ heap[n].kind \in {"app", "global"} /\ heap'[n].kind = "ind"
                            \/ At("Extern")]_mvars

(* What the generated code and unwind leave to the type checker.  Only     *)
(* functions are applied.  A function that is evaluated finds its          *)
(* arguments in applications of its own: the assertion in unwind counts    *)
(* the whole stack, and would let it take those of whoever evaluates it    *)
(* (runtime.c:81-85).  And a tag has its case in the switch.               *)
UsesFit ==
  /\ Unwinding /\ Evaluated => Count = Len(Head(saved)) + 1
  /\ Unwinding /\ Kindred(0, "global") /\ Ready => Count - Arity > Len(Head(saved))
  /\ At("Jump") /\ Ready => TagAt(0) \in DOMAIN I.branches

(* Every evaluation that should end does: see MCMachine for the programs.  *)
Halts == <>Halted

=============================================================================
