---------------------------- MODULE MachineProofs ----------------------------
(***************************************************************************)
(* Every compiled program without external functions drives the collector  *)
(* as module Collector allows: what is proved of all sequences of          *)
(* instructions holds of every run of it, whatever code the compiler       *)
(* emits.  Of extern_easyadd there is here what one call of it does.       *)
(***************************************************************************)
EXTENDS ExternMachine, ObjectGraphProofs

(* What is left to execute are instructions with operands that fit, and    *)
(* numbers and globals hold what their kinds say.                          *)
GlobalsFit == \A n \in DOMAIN heap : heap[n].kind = "global" => heap[n].val \in FunVals
MInv == /\ CollectorInv
        /\ program \in DOMAIN Code
        /\ dump \in Seq(Seq(Instr))
        /\ IntegersFit /\ GlobalsFit

-----------------------------------------------------------------------------
(* The instruction that is next is one of the program's.                   *)
LEMMA HeadFits ==
  ASSUME MInv, NEW op, At(op)
  PROVE  /\ I \in Instr /\ I.op = op /\ Running
         /\ dump[1] \in Seq(Instr) /\ dump[1] # <<>> /\ I = Head(dump[1])
         /\ Tail(dump[1]) \in Seq(Instr) /\ Head(dump) = dump[1]
<1>1. dump \in Seq(Seq(Instr)) /\ dump # <<>> /\ I.op = op /\ Running /\ Head(dump) # <<>>
  BY DEF MInv, At
<1>2. dump[1] \in Seq(Instr) /\ Head(dump) = dump[1]
  BY <1>1
<1>3. I \in Instr /\ Tail(dump[1]) \in Seq(Instr)
  BY <1>1, <1>2 DEF I
<1> QED BY <1>1, <1>2, <1>3 DEF I

(* Arithmetic on numbers that fit yields a number that fits.               *)
LEMMA WrapFits ==
  ASSUME NEW i \in Int
  PROVE  Wrap(i) \in Ints
<1>1. Half \in Nat /\ Half > 0
  BY HalfAssumption
<1>2. (i + Half) \in Int /\ 2 * Half \in Nat /\ 2 * Half > 0
  BY <1>1
<1>3. (i + Half) % (2 * Half) \in 0..(2 * Half - 1)
  BY <1>2
<1> QED BY <1>1, <1>3 DEF Wrap, Ints

LEMMA ArithFits ==
  ASSUME NEW a \in Ints, NEW b \in Ints, NEW op \in {"plus", "minus", "times", "divide"},
         ~Traps(op, a, b)
  PROVE  IntVal(Arith(op, a, b)) \in IntVals
<1>1. a \in Int /\ b \in Int
  BY HalfAssumption DEF Ints
<1>2. op = "divide" => Quotient(a, b) \in Int
  <2> SUFFICES ASSUME op = "divide" PROVE Quotient(a, b) \in Int
    OBVIOUS
  <2>1. b # 0
    BY DEF Traps
  <2>2. Magnitude(a) \in Nat /\ Magnitude(b) \in Nat /\ Magnitude(b) > 0
    BY <1>1, <2>1 DEF Magnitude
  <2>3. Magnitude(a) \div Magnitude(b) \in Int
    BY <2>2
  <2> QED BY <2>3 DEF Quotient
<1>3. Arith(op, a, b) \in Ints
  <2>1. a + b \in Int /\ a - b \in Int /\ a * b \in Int
    BY <1>1
  <2> QED BY <1>2, <2>1, WrapFits DEF Arith
<1> QED BY <1>3 DEF IntVals

-----------------------------------------------------------------------------
(* The invariant's parts about nodes, when the heap changes.               *)
LEMMA PushNewFits ==
  ASSUME IntegersFit, GlobalsFit, NEW node, NEW rest, PushNew(node, rest),
         node.kind = "num" => node.val \in IntVals,
         node.kind = "global" => node.val \in FunVals
  PROVE  IntegersFit' /\ GlobalsFit'
BY DEF PushNew, With, IntegersFit, GlobalsFit

(* Each step of the machine is a step of the collector's specification,    *)
(* and what it leaves is code and nodes that fit.                          *)
LEMMA PushStep ==
  ASSUME MInv, ExecPushInt \/ ExecPushString \/ ExecPushGlobal
  PROVE  Instruction /\ IntegersFit' /\ GlobalsFit'
<1>1. CASE ExecPushInt
  <2>1. I.val \in IntVals /\ I.val \in Val /\ PushInt(I.val)
    BY <1>1, HeadFits, InstrAssumption, ValAssumption DEF ExecPushInt
  <2>2. Num(I.val).kind = "num" /\ Num(I.val).val = I.val
    BY DEF Num
  <2> QED BY <2>1, <2>2, PushNewFits DEF MInv, PushInt, Instruction
<1>2. CASE ExecPushString
  <2>1. I.val \in Val /\ PushString(I.val)
    BY <1>2, HeadFits, InstrAssumption, ValAssumption DEF ExecPushString
  <2>2. Str(I.val).kind = "str"
    BY DEF Str
  <2> QED BY <2>1, <2>2, PushNewFits DEF MInv, PushString, Instruction
<1>3. CASE ExecPushGlobal
  <2>1. I.val \in FunVals /\ I.val \in Val /\ PushGlobal(I.val)
    BY <1>3, HeadFits, InstrAssumption, ValAssumption DEF ExecPushGlobal
  <2>2. Global(I.val).kind = "global" /\ Global(I.val).val = I.val
    BY DEF Global
  <2> QED BY <2>1, <2>2, PushNewFits DEF MInv, PushGlobal, Instruction
<1> QED BY <1>1, <1>2, <1>3

LEMMA BuildStep ==
  ASSUME MInv, ExecMkApp \/ ExecPack
  PROVE  Instruction /\ IntegersFit' /\ GlobalsFit'
<1>1. CASE ExecMkApp
  <2>1. MkApp /\ App(Peek(0), Peek(1)).kind = "app"
    BY <1>1 DEF ExecMkApp, App
  <2> QED BY <2>1, PushNewFits DEF MInv, MkApp, Instruction
<1>2. CASE ExecPack
  <2>1. I.n \in 0..MaxStack /\ I.val \in Val /\ Pack(I.n, I.val)
    BY <1>2, HeadFits, InstrAssumption DEF ExecPack
  <2>2. Data(I.val, SubSeq(stack, Count - I.n + 1, Count)).kind = "data"
    BY DEF Data
  <2> QED BY <2>1, <2>2, PushNewFits DEF MInv, Pack, Instruction
<1> QED BY <1>1, <1>2

LEMMA BinOpStep ==
  ASSUME MInv, ExecBinOp
  PROVE  Instruction /\ IntegersFit' /\ GlobalsFit'
<1> DEFINE v == IntVal(Arith(I.fn, IntAt(0), IntAt(1)))
<1>1. /\ I.fn \in {"plus", "minus", "times", "divide"} /\ I.op = "BinOp" /\ Running
      /\ BinOp(v) /\ Ready
  BY HeadFits, InstrAssumption DEF ExecBinOp
<1>2. /\ Count > 0 /\ Count > 1
      /\ heap[Peek(0)].kind = "num" /\ heap[Peek(1)].kind = "num"
      /\ ~Traps(I.fn, IntAt(0), IntAt(1))
  BY <1>1 DEF Ready, Enough, Kindred, ExecBinOp, At
<1>3. Peek(0) \in DOMAIN heap /\ Peek(1) \in DOMAIN heap
  BY <1>1, <1>2, StackSlots DEF MInv, CollectorInv
<1>4. heap[Peek(0)].val \in IntVals /\ heap[Peek(1)].val \in IntVals
  BY <1>2, <1>3 DEF MInv, IntegersFit
<1>5. IntAt(0) \in Ints /\ IntAt(1) \in Ints
  BY <1>4 DEF IntAt, IntVals, IntVal
<1>6. v \in IntVals /\ v \in Val
  BY <1>1, <1>2, <1>5, ArithFits, ValAssumption
<1>7. Num(v).kind = "num" /\ Num(v).val = v
  BY DEF Num
<1>8. PushNew(Num(v), Beneath(2))
  BY <1>1 DEF BinOp
<1> HIDE DEF v
<1>9. IntegersFit' /\ GlobalsFit'
  BY <1>6, <1>7, <1>8, PushNewFits DEF MInv
<1> QED BY <1>1, <1>6, <1>9 DEF Instruction

LEMMA MoveStep ==
  ASSUME MInv, ExecPush \/ ExecPop \/ ExecSlide \/ ExecSplit \/ ExecUpdate
  PROVE  Instruction /\ IntegersFit' /\ GlobalsFit'
<1>1. /\ I.n \in 0..MaxStack
      /\ Push(I.n) \/ Pop(I.n) \/ Slide(I.n) \/ Split(I.n) \/ Update(I.n)
  BY HeadFits, InstrAssumption DEF ExecPush, ExecPop, ExecSlide, ExecSplit, ExecUpdate
<1>2. CASE heap' = heap
  BY <1>1, <1>2 DEF MInv, IntegersFit, GlobalsFit, Instruction
<1>3. CASE Update(I.n)
  <2>1. heap' = With(heap, Peek(I.n + 1), Ind(Peek(0))) /\ Ind(Peek(0)).kind = "ind"
    BY <1>3 DEF Update, Ind
  <2>2. Peek(I.n + 1) \in DOMAIN heap
    BY <1>1, <1>3, StackSlots DEF MInv, CollectorInv, Update
  <2> QED BY <1>1, <2>1, <2>2 DEF With, MInv, IntegersFit, GlobalsFit, Instruction
<1> QED BY <1>1, <1>2, <1>3 DEF Push, Pop, Slide, Split

LEMMA UnwindStep ==
  ASSUME MInv, Follow \/ Call
  PROVE  Instruction /\ IntegersFit' /\ GlobalsFit'
<1>1. CASE Follow
  BY <1>1 DEF Follow, UnwindApp, UnwindInd, MInv, IntegersFit, GlobalsFit, Instruction
<1>2. CASE Call
  <2> DEFINE a == heap[Peek(0)].val[3]
  <2>1. UnwindGlobal(a) /\ Running /\ Count > 0 /\ heap[Peek(0)].kind = "global"
    BY <1>2 DEF Call, UnwindGlobal, Kindred, Unwinding, Arity
  <2>2. Peek(0) \in DOMAIN heap
    BY <2>1, StackSlots DEF MInv, CollectorInv
  <2>3. a \in 0..MaxStack
    BY <2>1, <2>2 DEF MInv, GlobalsFit, FunVals, FunVal
  <2> QED BY <2>1, <2>3 DEF Instruction, UnwindGlobal, MInv, IntegersFit, GlobalsFit
<1> QED BY <1>1, <1>2

LEMMA CollectFits ==
  ASSUME MInv, Collect
  PROVE  IntegersFit' /\ GlobalsFit'
<1>1. CASE heap' = heap
  BY <1>1 DEF MInv, IntegersFit, GlobalsFit
<1>2. CASE SweepFree
  BY <1>2 DEF SweepFree, Unlink, Restrict, MInv, IntegersFit, GlobalsFit
<1> QED BY <1>1, <1>2 DEF Collect, Visit, VisitRoot, StartSweep, SweepKeep, SweepBadFree,
                          SweepDone, listVars

-----------------------------------------------------------------------------
(* What is left to execute after a step.                                   *)
LEMMA GoOnFits ==
  ASSUME MInv, dump # <<>>, NEW code \in Seq(Instr), GoOn(code)
  PROVE  /\ program' \in DOMAIN Code /\ dump' \in Seq(Seq(Instr))
         /\ Len(dump') = Len(dump) /\ dump'[1] = code
         /\ \A k \in 2..Len(dump) : dump'[k] = dump[k]
<1>1. dump \in Seq(Seq(Instr)) /\ Len(dump) \in Nat /\ 1 \in 1..Len(dump)
  BY DEF MInv
<1> QED BY <1>1 DEF GoOn, MInv

LEMMA DumpFits ==
  ASSUME MInv, [MachineNext \/ CallEasyAdd]_mvars
  PROVE  program' \in DOMAIN Code /\ dump' \in Seq(Seq(Instr))
<1> USE DEF MInv
<1>0. dump \in Seq(Seq(Instr)) /\ program \in DOMAIN Code
  OBVIOUS
<1>1. CASE dump' = dump /\ program' = program
  BY <1>0, <1>1
<1>2. CASE \E op : At(op) /\ Proceed
  <2>1. PICK op : At(op) /\ Proceed
    BY <1>2
  <2>2. dump # <<>> /\ Tail(Head(dump)) \in Seq(Instr)
    BY <2>1, HeadFits DEF At
  <2> QED BY <2>1, <2>2, GoOnFits DEF Proceed
<1>3. CASE ExecJump
  <2>1. I \in Instr /\ I.op = "Jump" /\ Tail(Head(dump)) \in Seq(Instr) /\ dump # <<>>
    BY <1>3, HeadFits DEF ExecJump, At
  <2>2. \A t \in DOMAIN I.branches : I.branches[t] \in Seq(Instr)
    BY <2>1, InstrAssumption
  <2> DEFINE branch == IF TagAt(0) \in DOMAIN I.branches THEN I.branches[TagAt(0)] ELSE <<>>
  <2>3. branch \in Seq(Instr)
    <3>1. <<>> \in Seq(Instr)
      OBVIOUS
    <3> QED BY <2>2, <3>1
  <2>4. GoOn(branch \o Tail(Head(dump)))
    BY <1>3 DEF ExecJump
  <2> HIDE DEF branch
  <2>5. branch \o Tail(Head(dump)) \in Seq(Instr)
    BY <2>1, <2>3
  <2> QED BY <2>1, <2>4, <2>5, GoOnFits
<1>4. CASE ExecEval
  <2>1. Tail(Head(dump)) \in Seq(Instr) /\ dump # <<>>
    BY <1>4, HeadFits DEF ExecEval, At
  <2>2. <<<<>>, Tail(Head(dump))>> \in Seq(Seq(Instr)) /\ Tail(dump) \in Seq(Seq(Instr))
    BY <1>0, <2>1
  <2> QED BY <1>0, <1>4, <2>2 DEF ExecEval
<1>5. CASE Call
  <2> DEFINE g == heap[Peek(0)].val
  <2>1. Running /\ Count > 0 /\ heap[Peek(0)].kind = "global" /\ dump # <<>>
    BY <1>5 DEF Call, Kindred, Unwinding
  <2>2. Peek(0) \in DOMAIN heap
    BY <2>1, StackSlots DEF CollectorInv
  <2>3. g[2] \in Fun
    BY <2>1, <2>2 DEF GlobalsFit, FunVals, FunVal
  <2>4. Code[program][g[2]] \in Seq(Instr)
    BY <1>0, <2>3, CodeAssumption
  <2> QED BY <1>5, <2>1, <2>4, GoOnFits DEF Call
<1>6. CASE Return
  BY <1>0, <1>6 DEF Return, Unwinding
<1> QED
  BY <1>1, <1>2, <1>3, <1>4, <1>5, <1>6
  DEF MachineNext, Execute, ExecPushInt, ExecPushString, ExecPushGlobal, ExecPush, ExecPop,
      ExecMkApp, ExecUpdate, ExecPack, ExecSplit, ExecSlide, ExecBinOp, CallEasyAdd,
      Follow, Fault, Collecting, Idle, mvars

LEMMA MachineStep ==
  ASSUME MInv, [MachineNext]_mvars
  PROVE  [Next]_vars /\ (CollectorInv' => MInv')
<1>1. [Next]_vars /\ IntegersFit' /\ GlobalsFit'
  <2>1. CASE UNCHANGED vars
    BY <2>1 DEF vars, MInv, IntegersFit, GlobalsFit
  <2>2. CASE Instruction /\ IntegersFit' /\ GlobalsFit'
    BY <2>2 DEF Next
  <2>3. CASE Fault
    BY <2>3 DEF Fault, Abort, Next, MInv, IntegersFit, GlobalsFit
  <2>4. CASE Collecting
    BY <2>4, CollectFits DEF Collecting, Next
  <2>5. CASE Execute
    BY <2>1, <2>2, <2>5, PushStep, BuildStep, BinOpStep, MoveStep, UnwindStep
    DEF Execute, ExecJump, ExecEval, Return
  <2> QED BY <2>1, <2>3, <2>4, <2>5 DEF MachineNext, Idle, mvars
<1> QED BY <1>1, DumpFits DEF MInv

(* extern_easyadd is called with four numbers that fit, and the sum is     *)
(* wrapped to one that does.                                               *)
LEMMA EasyAddStep ==
  ASSUME MInv, CallEasyAdd
  PROVE  /\ MInv'
         /\ \E v \in IntVals : v \in Val /\ EasyAdd(v)
<1> DEFINE sum == IntAt(0) + IntAt(1) + IntAt(2) + IntAt(3)
           v == IntVal(Wrap(sum))
<1>1. At("Extern") /\ ArgumentsAre(4, "num") /\ EasyAdd(v) /\ Proceed
  BY DEF CallEasyAdd
<1>2. PICK loose : InvWith(loose)
  BY DEF MInv, CollectorInv
<1>3. Running /\ Count \in Nat /\ Count >= 4
  BY <1>1, <1>2 DEF ArgumentsAre, Count, InvWith, TypeOK
<1>4. ASSUME NEW o \in 0..3 PROVE IntAt(o) \in Int
  <2>1. o \in Nat /\ Count > o /\ heap[Peek(o)].kind = "num"
    BY <1>1, <1>3 DEF ArgumentsAre
  <2>2. Peek(o) \in DOMAIN heap
    BY <1>2, <1>3, <2>1, StackSlots
  <2>3. heap[Peek(o)].val \in IntVals
    BY <2>1, <2>2 DEF MInv, IntegersFit
  <2> QED BY <2>3, HalfAssumption DEF IntAt, IntVals, IntVal, Ints
<1>5. sum \in Int
  <2>1. IntAt(0) \in Int /\ IntAt(1) \in Int /\ IntAt(2) \in Int /\ IntAt(3) \in Int
    BY <1>4
  <2> QED BY <2>1
<1> HIDE DEF sum
<1>6. v \in IntVals /\ v \in Val
  BY <1>5, WrapFits, ValAssumption DEF IntVals
<1> HIDE DEF v
<1>7. CollectorInv'
  BY <1>1, <1>2, <1>6, EasyAddKeepsInv
<1>8. IntegersFit' /\ GlobalsFit'
  <2>1. PICK n \in Node \ DOMAIN heap : heap' = With(heap, n, Num(v))
    BY <1>1 DEF EasyAdd
  <2>2. Num(v).kind = "num" /\ Num(v).val = v
    BY DEF Num
  <2> QED BY <1>6, <2>1, <2>2 DEF With, MInv, IntegersFit, GlobalsFit
<1> QED BY <1>1, <1>6, <1>7, <1>8, DumpFits DEF MInv

LEMMA MachineStart ==
  ASSUME MachineInit
  PROVE  Init /\ MInv
<1> DEFINE m == FunVal("main", 0)
<1>1. m \in FunVals
  <2>1. 0 \in 0..MaxStack
    BY MaxStackAssumption
  <2> QED BY <2>1, MainAssumption DEF FunVals
<1>2. Init
  <2>1. m \in Val
    BY <1>1, ValAssumption
  <2> QED BY <2>1 DEF Init, MachineInit, MachineInitWith
<1>3. PICK start \in Node : heap = [n \in {start} |-> Global(m)]
  BY DEF MachineInit, MachineInitWith, InitWith
<1>4. IntegersFit /\ GlobalsFit
  BY <1>1, <1>3 DEF IntegersFit, GlobalsFit, Global
<1>5. dump \in Seq(Seq(Instr)) /\ program \in DOMAIN Code
  <2>1. <<<<>>>> \in Seq(Seq(Instr))
    OBVIOUS
  <2> QED BY <2>1 DEF MachineInit, MachineInitWith
<1>6. CollectorInv
  BY <1>2, InitHasInv DEF IInv, CollectorInv
<1> QED BY <1>2, <1>4, <1>5, <1>6 DEF MInv

-----------------------------------------------------------------------------
(* The collector's own instructions leave no node untracked: what a        *)
(* program without external functions keeps is the sharper invariant.      *)
THEOREM MachineInvariant == MachineSpec => [](IInv /\ MInv)
<1>1. MachineInit => IInv /\ MInv
  BY MachineStart, InitHasInv
<1>2. IInv /\ MInv /\ [MachineNext]_mvars => (IInv /\ MInv)'
  <2> SUFFICES ASSUME IInv, MInv, [MachineNext]_mvars PROVE IInv' /\ MInv'
    OBVIOUS
  <2>1. [Next]_vars /\ (CollectorInv' => MInv')
    BY MachineStep
  <2>2. IInv'
    BY <2>1, StepKeepsInv
  <2> QED BY <2>1, <2>2 DEF IInv, CollectorInv
<1> QED BY <1>1, <1>2, PTL DEF MachineSpec

(* A compiled program is one of the drivers the Collector module allows,   *)
(* so that every theorem about Collector's Spec is one about programs.     *)
THEOREM ProgramsDriveTheCollector == MachineSpec => Spec
<1>1. MachineInit => Init
  BY MachineStart
<1>2. MInv /\ [MachineNext]_mvars => [Next]_vars
  BY MachineStep
<1> QED BY <1>1, <1>2, MachineInvariant, PTL DEF MachineSpec, Spec

(* No compiled program has a node freed that it can still reach.           *)
THEOREM ProgramsKeepLiveNodes == MachineSpec => []LiveNodesAllocated
BY ProgramsDriveTheCollector, NothingLiveIsFreed, PTL

(* None meets a freed node when it follows its pointers, as unwind and its *)
(* print_node do (runtime.c:16-55).                                        *)
THEOREM ProgramsMeetNoFreedNode == MachineSpec => []NothingLiveFreed
BY ProgramsDriveTheCollector, NothingMetIsFreed, PTL

(* No compiled program lets garbage outlive a collection.                  *)
THEOREM ProgramsKeepNoGarbage == MachineSpec => CollectsAllGarbage
BY ProgramsDriveTheCollector, NoGarbageSurvives, PTL

(* To a compiled program the collector does not exist: whenever it runs,   *)
(* the graph the program sees is the one without it.                       *)
THEOREM ProgramsSeeNoCollector == MachineSpec => ImplementsObjectGraph
BY ProgramsDriveTheCollector, CollectorIsInvisible, PTL

(* The numbers in a program's nodes fit their width.                       *)
THEOREM NumbersFit == MachineSpec => []IntegersFit
<1>1. MInv => IntegersFit
  BY DEF MInv
<1> QED BY <1>1, MachineInvariant, PTL

=============================================================================
