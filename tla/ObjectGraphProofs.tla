------------------------- MODULE ObjectGraphProofs -------------------------
(***************************************************************************)
(* Collector implements ObjectGraph, for every set of addresses, threshold *)
(* and bound on the stack: to a program the collector does not exist.      *)
(***************************************************************************)
EXTENDS CollectorProofs

-----------------------------------------------------------------------------
(* What the program can reach depends on the nodes it can reach alone.     *)

LEMMA ReachableAgree ==
  ASSUME NEW R \in SUBSET Node, NEW h, NEW k,
         \A n \in DOMAIN h : Range(h[n].kids) \subseteq Node,
         \A n \in Reachable(R, h) : n \in DOMAIN h /\ n \in DOMAIN k /\ k[n] = h[n]
  PROVE  Reachable(R, k) = Reachable(R, h)
<1> DEFINE A == Reachable(R, h)
<1>1. /\ R \subseteq A /\ A \subseteq Node
      /\ \A n \in A \cap DOMAIN h : Range(h[n].kids) \subseteq A
  BY ReachableClosed
<1>2. ASSUME NEW n \in Reachable(R, k) PROVE n \in A
  <2>1. A \in Closures(R, k)
    BY <1>1 DEF Closures
  <2> QED
    BY <1>2, <2>1 DEF Reachable
<1>3. ASSUME NEW n \in A, NEW S \in Closures(R, k) PROVE n \in S
  <2>1. S \cap A \in Closures(R, h)
    BY <1>1, <1>3 DEF Closures
  <2> QED
    BY <1>3, <2>1 DEF Reachable
<1>4. \A n \in A : n \in Reachable(R, k)
  BY <1>1, <1>3 DEF Reachable
<1> QED
  BY <1>2, <1>4

LEMMA TrimIs ==
  ASSUME NEW g, NEW s
  PROVE  Graph!Trim(g, s) = Restrict(g, Reachable(Range(s), g))
BY DEF Graph!Trim, Graph!Restrict, Graph!Range, Graph!Reachable, Graph!Closures,
       Restrict, Range, Reachable, Closures

(* The graph the program sees.                                             *)
View == Restrict(heap, Live \cap DOMAIN heap)

ViewInv ==
  /\ DOMAIN View = Live /\ Live \subseteq DOMAIN heap
  /\ \A n \in Live : View[n] = heap[n]
  /\ Range(ProgramStack) = Roots
  /\ Roots \subseteq Live /\ Roots \in SUBSET Node
  /\ \A n \in Live : Range(heap[n].kids) \subseteq Live
  /\ \A n \in DOMAIN heap : Range(heap[n].kids) \subseteq Node

LEMMA ViewHolds == CollectorInv => ViewInv
<1> SUFFICES ASSUME CollectorInv PROVE ViewInv
  OBVIOUS
<1>1. TypeOK
  BY DEF CollectorInv, InvWith
<1>2. Live \subseteq DOMAIN heap
  BY CollectorInvFacts DEF LiveNodesAllocated
<1>3. Range(ProgramStack) = Roots
  <2>1. stack \in Seq(Node) /\ (tracked # NULL => tracked \in Node)
    BY <1>1 DEF TypeOK
  <2> QED
    BY <2>1, RangeOfAppend DEF ProgramStack, Roots
<1>4. \A n \in DOMAIN heap : Range(heap[n].kids) \subseteq Node
  BY <1>1, RangeOfSeq DEF TypeOK
<1> QED
  BY <1>1, <1>2, <1>3, <1>4, LiveClosed DEF ViewInv, View, Restrict

(* A step to a stack and to a heap that the abstract step, on the nodes    *)
(* that can still be reached, has as well.                                 *)
LEMMA ViewAfter ==
  ASSUME CollectorInv', NEW h, \A n \in Live' : n \in DOMAIN h /\ h[n] = heap'[n]
  PROVE  View' = Graph!Trim(h, ProgramStack')
<1>1. ViewInv'
  BY ViewHolds, PTL
<1>2. Live' = Reachable(Roots', heap')
  BY DEF Live
<1>3. Reachable(Roots', h) = Live'
  BY <1>1, <1>2, ReachableAgree DEF ViewInv
<1> QED
  BY <1>1, <1>3, TrimIs DEF ViewInv, View, Restrict

LEMMA ReachableWithin ==
  ASSUME NEW R, NEW h, NEW S \in Closures(R, h)
  PROVE  Reachable(R, h) \subseteq S
BY DEF Reachable

-----------------------------------------------------------------------------
(* Steps of the collector.                                                 *)

(* If nothing changes for those that have roots, nothing has happened.     *)
LEMMA SameView ==
  ASSUME CollectorInv, CollectorInv', Roots' = Roots, ProgramStack' = ProgramStack,
         DOMAIN heap' \subseteq DOMAIN heap,
         \A n \in DOMAIN heap' : heap'[n] = heap[n]
  PROVE  UNCHANGED <<ProgramStack, View>>
<1>1. ViewInv /\ ViewInv'
  BY ViewHolds, PTL
<1>2. Live' \subseteq DOMAIN heap' /\ \A n \in DOMAIN heap' : Range(heap'[n].kids) \subseteq Node
  BY <1>1 DEF ViewInv
<1>3. Live' = Reachable(Roots, heap') /\ Live = Reachable(Roots, heap)
  BY DEF Live
<1>4. Live = Live'
  BY <1>1, <1>2, <1>3, ReachableAgree DEF ViewInv
<1> QED
  BY <1>2, <1>4 DEF View, Restrict

LEMMA CollectIsUnseen ==
  ASSUME CollectorInv, CollectorInv', Collect
  PROVE  UNCHANGED <<ProgramStack, View>>
<1> USE DEF listVars, gcVars
<1>1. CASE Visit \/ VisitRoot \/ StartSweep \/ SweepKeep \/ SweepBadFree
  <2>1. UNCHANGED <<stack, heap, tracked>>
    BY <1>1 DEF Visit, VisitRoot, StartSweep, SweepKeep, SweepBadFree
  <2> QED
    BY <2>1, SameView DEF Roots, ProgramStack
<1>2. CASE SweepFree
  <2>1. UNCHANGED <<stack, tracked>> /\ heap' = Restrict(heap, DOMAIN heap \ {Swept})
    BY <1>2 DEF SweepFree, Unlink
  <2>2. DOMAIN heap' \subseteq DOMAIN heap /\ \A n \in DOMAIN heap' : heap'[n] = heap[n]
    BY <2>1 DEF Restrict
  <2> QED
    BY <2>1, <2>2, SameView DEF Roots, ProgramStack
<1>3. CASE SweepDone
  <2>1. /\ stack' = Append(stack, tracked) /\ tracked' = NULL /\ UNCHANGED heap
        /\ phase = "sweep"
    BY <1>3 DEF SweepDone
  <2>2. tracked # NULL
    BY <2>1 DEF CollectorInv, InvWith, ListInv, SweepInv
  <2>3. ProgramStack' = ProgramStack
    BY <2>1, <2>2 DEF ProgramStack
  <2>4. Roots' = Roots
    <3>1. stack \in Seq(Node) /\ tracked \in Node
      BY <2>2 DEF CollectorInv, InvWith, TypeOK
    <3>2. Range(Append(stack, tracked)) = Range(stack) \cup {tracked}
      BY <3>1, RangeOfAppend
    <3> QED
      BY <2>1, <2>2, <3>2 DEF Roots
  <2> QED
    BY <2>1, <2>3, <2>4, SameView
<1> QED
  BY <1>1, <1>2, <1>3 DEF Collect

-----------------------------------------------------------------------------
(* Instructions that move pointers.                                        *)

LEMMA IsMove ==
  ASSUME CollectorInv, CollectorInv', Running, UNCHANGED <<heap, listVars, gcVars>>,
         \A i \in DOMAIN stack' : stack'[i] \in Live
  PROVE  Graph!Move
<1>1. ProgramStack' = stack' /\ Roots' = Range(stack')
  BY DEF Running, gcVars, CollectorInv, InvWith, RunInv, ProgramStack, Roots
<1>2. Range(ProgramStack') \subseteq DOMAIN View
  BY <1>1, ViewHolds DEF ViewInv, Range
<1>3. Live' \subseteq Live
  <2>1. Live \in Closures(Roots', heap')
    BY <1>1, <1>2, ViewHolds, LiveClosed DEF ViewInv, Closures, CollectorInv, InvWith
  <2> QED
    BY <2>1, ReachableWithin DEF Live
<1>4. \A n \in Live' : n \in DOMAIN View /\ View[n] = heap'[n]
  BY <1>3, ViewHolds DEF ViewInv
<1>5. View' = Graph!Trim(View, ProgramStack')
  BY <1>4, ViewAfter
<1> QED
  BY <1>2, <1>5 DEF Graph!Move, Graph!Range, Range, View

(* What is on the stack, and what that points at, can be reached.          *)
LEMMA LiveSlots ==
  ASSUME CollectorInv, Running
  PROVE  /\ stack \in Seq(Node) /\ Count \in Nat /\ Count = Len(stack)
         /\ \A i \in 1..Count : stack[i] \in Live /\ stack[i] \in DOMAIN heap
         /\ \A n \in Live : /\ heap[n].kids \in Seq(Node)
                            /\ \A i \in 1..Len(heap[n].kids) : heap[n].kids[i] \in Live
                            /\ heap[n].kind = "app" => Len(heap[n].kids) = 2
                            /\ heap[n].kind = "ind" => Len(heap[n].kids) = 1
<1>1. stack \in Seq(Node) /\ \A n \in DOMAIN heap : heap[n].kids \in Seq(Node)
  BY DEF CollectorInv, InvWith, TypeOK
<1>2. \A i \in 1..Len(stack) : stack[i] \in Roots
  BY <1>1 DEF Roots, Range
<1>3. \A n \in Live : \A i \in 1..Len(heap[n].kids) : heap[n].kids[i] \in Live
  <2> SUFFICES ASSUME NEW n \in Live, NEW i \in 1..Len(heap[n].kids)
               PROVE  heap[n].kids[i] \in Live
    OBVIOUS
  <2>1. n \in DOMAIN heap /\ Range(heap[n].kids) \subseteq Live
    BY ViewHolds DEF ViewInv
  <2>2. i \in DOMAIN heap[n].kids
    BY <1>1, <2>1
  <2> QED
    BY <2>1, <2>2 DEF Range
<1> QED
  BY <1>1, <1>2, <1>3, ViewHolds DEF ViewInv, Count, CollectorInv, InvWith, KidsInv

LEMMA PointerStepIsMove ==
  ASSUME CollectorInv, CollectorInv', NEW n \in Nat,
         Push(n) \/ Pop(n) \/ Slide(n) \/ Split(n) \/ UnwindApp \/ UnwindInd \/ UnwindGlobal(n)
  PROVE  Graph!Move
<1>1. Running /\ UNCHANGED <<heap, listVars, gcVars>>
  BY DEF Push, Pop, Slide, Split, UnwindApp, UnwindInd, UnwindGlobal
<1> SUFFICES \A i \in DOMAIN stack' : stack'[i] \in Live
  BY <1>1, IsMove
<1>2. /\ stack \in Seq(Node) /\ Count \in Nat /\ Count = Len(stack)
      /\ \A i \in 1..Count : stack[i] \in Live
  BY <1>1, LiveSlots
<1>3. \A m \in 0..Count : /\ Beneath(m) \in Seq(Node) /\ Len(Beneath(m)) = Count - m
                          /\ \A i \in 1..Count - m : Beneath(m)[i] \in Live
  BY <1>2 DEF Beneath
<1>4. \A o \in 0..Count - 1 : Peek(o) \in Live /\ Peek(o) \in Node
  BY <1>2 DEF Peek
<1>5. CASE Push(n)
  <2>1. stack' = Append(stack, Peek(n)) /\ n \in 0..Count - 1
    BY <1>2, <1>5 DEF Push
  <2> QED
    BY <1>2, <1>4, <2>1
<1>6. CASE Pop(n)
  <2>1. stack' = Beneath(n) /\ n \in 0..Count
    BY <1>2, <1>6 DEF Pop
  <2> QED
    BY <1>2, <1>3, <2>1
<1>7. CASE Slide(n)
  <2>1. stack' = Append(Beneath(n + 1), Peek(0)) /\ n + 1 \in 0..Count /\ 0 \in 0..Count - 1
    BY <1>2, <1>7 DEF Slide
  <2> QED
    BY <1>2, <1>3, <1>4, <2>1
<1>8. CASE Split(n)
  <2> DEFINE kids == heap[Peek(0)].kids
  <2>1. /\ stack' = Beneath(1) \o SubSeq(kids, 1, n) /\ n \in 0..Len(kids)
        /\ 1 \in 0..Count /\ 0 \in 0..Count - 1
    BY <1>1, <1>2, <1>8, <1>4, LiveSlots DEF Split
  <2>2. kids \in Seq(Node) /\ \A i \in 1..Len(kids) : kids[i] \in Live
    BY <1>1, <1>4, <2>1, LiveSlots
  <2> HIDE DEF kids
  <2>3. /\ SubSeq(kids, 1, n) \in Seq(Node) /\ Len(SubSeq(kids, 1, n)) = n
        /\ \A i \in 1..n : SubSeq(kids, 1, n)[i] \in Live
    BY <2>1, <2>2
  <2> QED
    BY <1>2, <1>3, <2>1, <2>3
<1>9. CASE UnwindApp
  <2>1. stack' = Append(stack, heap[Peek(0)].kids[1]) /\ 0 \in 0..Count - 1
        /\ heap[Peek(0)].kind = "app"
    BY <1>2, <1>9 DEF UnwindApp
  <2>2. heap[Peek(0)].kids[1] \in Live
    BY <1>1, <1>4, <2>1, LiveSlots
  <2> QED
    BY <1>2, <2>1, <2>2
<1>10. CASE UnwindInd
  <2>1. stack' = Append(Beneath(1), heap[Peek(0)].kids[1]) /\ 0 \in 0..Count - 1 /\ 1 \in 0..Count
        /\ heap[Peek(0)].kind = "ind"
    BY <1>2, <1>10 DEF UnwindInd
  <2>2. heap[Peek(0)].kids[1] \in Live
    BY <1>1, <1>4, <2>1, LiveSlots
  <2> QED
    BY <1>2, <1>3, <2>1, <2>2
<1>11. CASE UnwindGlobal(n)
  <2>1. /\ stack' = [j \in 1..Count |->
                       IF j > Count - n THEN heap[stack[j - 1]].kids[2] ELSE stack[j]]
        /\ Count > n /\ \A i \in 1..n : heap[Peek(i)].kind = "app"
    BY <1>11 DEF UnwindGlobal
  <2>2. ASSUME NEW j \in 1..Count, j > Count - n PROVE heap[stack[j - 1]].kids[2] \in Live
    <3>1. j - 1 \in 1..Count /\ Count - (j - 1) \in 1..n /\ stack[j - 1] = Peek(Count - (j - 1))
      BY <1>2, <2>1, <2>2 DEF Peek
    <3>2. heap[stack[j - 1]].kind = "app" /\ stack[j - 1] \in Live
      BY <1>2, <2>1, <3>1
    <3> QED
      BY <1>1, <3>2, LiveSlots
  <2> QED
    BY <1>2, <2>1, <2>2
<1> QED
  BY <1>5, <1>6, <1>7, <1>8, <1>9, <1>10, <1>11

-----------------------------------------------------------------------------
(* Update.                                                                 *)

LEMMA UpdateIsRedirect ==
  ASSUME CollectorInv, CollectorInv', NEW o \in Nat, Update(o)
  PROVE  Graph!Redirect
<1> DEFINE n == Peek(o + 1)
           p == Peek(0)
<1>1. /\ Running /\ Count > o + 1 /\ heap' = With(heap, n, Ind(p)) /\ stack' = Beneath(1)
      /\ UNCHANGED <<listVars, gcVars>>
  BY DEF Update
<1>2. /\ stack \in Seq(Node) /\ Count \in Nat /\ Count = Len(stack)
      /\ \A i \in 1..Count : stack[i] \in Live
  BY <1>1, LiveSlots
<1>3. ProgramStack = stack /\ ProgramStack' = stack' /\ Roots' = Range(stack')
  BY <1>1 DEF Running, gcVars, CollectorInv, InvWith, RunInv, ProgramStack, Roots
<1>4. n \in Live /\ p \in Live /\ n \in Range(stack) /\ p = stack[Len(stack)]
  BY <1>1, <1>2 DEF Peek, Range
<1>5. stack' = SubSeq(stack, 1, Len(stack) - 1) /\ Range(stack') \subseteq Live
  <2>1. stack' = SubSeq(stack, 1, Len(stack) - 1)
    BY <1>1, <1>2 DEF Beneath
  <2>2. \A i \in DOMAIN stack' : stack'[i] \in Live
    BY <1>1, <1>2, <2>1
  <2> QED
    BY <2>1, <2>2 DEF Range
<1> HIDE DEF n, p
<1>6. Live' \subseteq Live
  <2>1. Range(Ind(p).kids) = {p}
    <3>1. Ind(p).kids = <<p>>
      BY DEF Ind
    <3> QED
      BY <3>1 DEF Range
  <2>2. \A m \in Live : Range(heap'[m].kids) \subseteq Live
    BY <1>1, <1>4, <2>1, ViewHolds DEF ViewInv, With
  <2>3. Live \in Closures(Roots', heap')
    BY <1>3, <1>5, <2>2, LiveClosed DEF Closures, CollectorInv, InvWith
  <2> QED
    BY <2>3, ReachableWithin DEF Live
<1> DEFINE h == With(View, n, Ind(p))
<1>7. \A m \in Live' : m \in DOMAIN h /\ h[m] = heap'[m]
  BY <1>1, <1>4, <1>6, ViewHolds DEF ViewInv, With
<1>8. View' = Graph!Trim(h, ProgramStack')
  <2> HIDE DEF h
  <2> QED
    BY <1>7, ViewAfter
<1> QED
  BY <1>3, <1>4, <1>5, <1>8 DEF Graph!Redirect, Graph!Range, Graph!With, Graph!Ind, Range, With, Ind, View

-----------------------------------------------------------------------------
(* Instructions that allocate, whether they start a collection or not.     *)

LEMMA IsAllocate ==
  ASSUME CollectorInv, CollectorInv', Running, NEW k \in 0..Count, NEW node,
         \A x \in Range(node.kids) : x \in Range(SubSeq(stack, Count - k + 1, Count)),
         NEW n \in Node \ DOMAIN heap, heap' = With(heap, n, node),
         ProgramStack' = Append(Beneath(k), n)
  PROVE  Graph!Allocate
<1> DEFINE rest == Beneath(k)
<1>1. heap' = With(heap, n, node) /\ ProgramStack' = Append(rest, n)
  OBVIOUS
<1>2. /\ stack \in Seq(Node) /\ Count \in Nat /\ Count = Len(stack)
      /\ \A i \in 1..Count : stack[i] \in Live
      /\ tracked = NULL /\ n # NULL
  BY LiveSlots, NodeAssumption DEF CollectorInv, InvWith, RunInv, Running
<1>3. rest \in Seq(Node) /\ \A i \in DOMAIN rest : rest[i] \in Live
  BY <1>2 DEF Beneath
<1> HIDE DEF rest
<1>4. ProgramStack = stack
  BY <1>2 DEF ProgramStack
<1>5. Roots' = Range(rest) \cup {n}
  <2>1. Range(Append(rest, n)) = Range(rest) \cup {n}
    BY <1>3, RangeOfAppend
  <2>2. ViewInv'
    BY ViewHolds, PTL
  <2> QED
    BY <1>1, <2>1, <2>2 DEF ViewInv
<1>6. Range(SubSeq(stack, Count - k + 1, Count)) \subseteq Live
  <2>1. \A i \in DOMAIN SubSeq(stack, Count - k + 1, Count) :
          SubSeq(stack, Count - k + 1, Count)[i] \in Live
    BY <1>2
  <2> QED
    BY <2>1 DEF Range
<1>7. Live' \subseteq Live \cup {n}
  <2>1. \A m \in Live : Range(heap'[m].kids) \subseteq Live
    BY <1>1, ViewHolds DEF ViewInv, With
  <2>2. Range(heap'[n].kids) \subseteq Live
    BY <1>1, <1>6 DEF With
  <2>3. Range(rest) \subseteq Live /\ Live \subseteq Node
    BY <1>3, LiveClosed DEF Range, CollectorInv, InvWith
  <2>4. Live \cup {n} \in Closures(Roots', heap')
    BY <1>1, <1>5, <2>1, <2>2, <2>3 DEF Closures
  <2> QED
    BY <2>4, ReachableWithin DEF Live
<1> DEFINE h == With(View, n, node)
<1>8. \A m \in Live' : m \in DOMAIN h /\ h[m] = heap'[m]
  BY <1>1, <1>7, ViewHolds DEF ViewInv, With
<1>9. View' = Graph!Trim(h, ProgramStack')
  <2> HIDE DEF h
  <2> QED
    BY <1>8, ViewAfter
<1>10. n \in DOMAIN View' /\ View'[n] = node /\ n \notin DOMAIN View
  <2>1. ViewInv' /\ ViewInv
    BY ViewHolds, PTL
  <2> QED
    BY <1>1, <1>5, <2>1 DEF ViewInv, With
<1>11. /\ n \in Node \ DOMAIN View
       /\ k \in 0..Len(ProgramStack)
       /\ ProgramStack' = Append(SubSeq(ProgramStack, 1, Len(ProgramStack) - k), n)
       /\ n \in DOMAIN View'
       /\ Range(View'[n].kids)
            \subseteq Range(SubSeq(ProgramStack, Len(ProgramStack) - k + 1, Len(ProgramStack)))
       /\ View' = Graph!Trim(With(View, n, View'[n]), ProgramStack')
  BY <1>1, <1>2, <1>4, <1>9, <1>10 DEF rest, Beneath
<1> QED
  BY <1>11 DEF Graph!Allocate, Graph!Range, Graph!With, Range, With, View

(* The pointer to it is on the program's stack from the start, though the  *)
(* collector may have to be done with first.                               *)
LEMMA PushNewIsAllocate ==
  ASSUME CollectorInv, CollectorInv', Running, NEW k \in 0..Count, NEW node,
         \A x \in Range(node.kids) : x \in Range(SubSeq(stack, Count - k + 1, Count)),
         PushNew(node, Beneath(k))
  PROVE  Graph!Allocate
<1>1. PICK n \in Node \ DOMAIN heap : heap' = With(heap, n, node) /\ Track(n, Beneath(k))
  BY DEF PushNew
<1>2. tracked = NULL /\ n # NULL
  BY NodeAssumption DEF CollectorInv, InvWith, RunInv, Running
<1>3. ProgramStack' = Append(Beneath(k), n)
  BY <1>1, <1>2 DEF Track, ProgramStack
<1> QED
  BY <1>1, <1>3, IsAllocate

LEMMA AllocationIsAllocate ==
  ASSUME CollectorInv, CollectorInv', NEW n \in Nat, NEW v,
         PushInt(v) \/ PushString(v) \/ PushGlobal(v) \/ BinOp(v) \/ MkApp \/ Pack(n, v)
  PROVE  Graph!Allocate
<1>1. Running
  BY DEF PushInt, PushString, PushGlobal, BinOp, MkApp, Pack
<1>2. stack \in Seq(Node) /\ Count \in Nat /\ Count = Len(stack)
  BY <1>1, LiveSlots
<1>3. Beneath(0) = stack
  BY <1>2 DEF Beneath
<1>4. Range(<<>>) = {}
  BY DEF Range
<1>5. CASE PushInt(v)
  <2>1. PushNew(Num(v), Beneath(0)) /\ Range(Num(v).kids) = {} /\ 0 \in 0..Count
    BY <1>2, <1>3, <1>4, <1>5 DEF PushInt, Num
  <2> QED
    BY <1>1, <2>1, PushNewIsAllocate
<1>6. CASE PushString(v)
  <2>1. PushNew(Str(v), Beneath(0)) /\ Range(Str(v).kids) = {} /\ 0 \in 0..Count
    BY <1>2, <1>3, <1>4, <1>6 DEF PushString, Str
  <2> QED
    BY <1>1, <2>1, PushNewIsAllocate
<1>7. CASE PushGlobal(v)
  <2>1. PushNew(Global(v), Beneath(0)) /\ Range(Global(v).kids) = {} /\ 0 \in 0..Count
    BY <1>2, <1>3, <1>4, <1>7 DEF PushGlobal, Global
  <2> QED
    BY <1>1, <2>1, PushNewIsAllocate
<1>8. CASE BinOp(v)
  <2>1. PushNew(Num(v), Beneath(2)) /\ Range(Num(v).kids) = {} /\ 2 \in 0..Count
    BY <1>2, <1>4, <1>8 DEF BinOp, Num
  <2> QED
    BY <1>1, <2>1, PushNewIsAllocate
<1>9. CASE MkApp
  <2> DEFINE top == SubSeq(stack, Count - 2 + 1, Count)
  <2>1. PushNew(App(Peek(0), Peek(1)), Beneath(2)) /\ 2 \in 0..Count
    BY <1>2, <1>9 DEF MkApp
  <2>2. DOMAIN top = 1..2 /\ top[1] = Peek(1) /\ top[2] = Peek(0)
    BY <1>2, <2>1 DEF Peek
  <2>3. Range(App(Peek(0), Peek(1)).kids) = {Peek(0), Peek(1)}
    <3>1. App(Peek(0), Peek(1)).kids = <<Peek(0), Peek(1)>>
      BY DEF App
    <3> QED
      BY <3>1 DEF Range
  <2>4. Peek(0) \in Range(top) /\ Peek(1) \in Range(top)
    <3> HIDE DEF top
    <3> QED
      BY <2>2 DEF Range
  <2> QED
    BY <1>1, <2>1, <2>3, <2>4, PushNewIsAllocate
<1>10. CASE Pack(n, v)
  <2>1. /\ PushNew(Data(v, SubSeq(stack, Count - n + 1, Count)), Beneath(n)) /\ n \in 0..Count
        /\ Data(v, SubSeq(stack, Count - n + 1, Count)).kids = SubSeq(stack, Count - n + 1, Count)
    BY <1>2, <1>10 DEF Pack, Data
  <2> QED
    BY <1>1, <2>1, PushNewIsAllocate
<1> QED
  BY <1>5, <1>6, <1>7, <1>8, <1>9, <1>10

-----------------------------------------------------------------------------
LEMMA InitIsGraph ==
  ASSUME Init
  PROVE  Graph!Init
<1>1. PICK f_main \in Val, start \in Node :
        /\ stack = <<start>> /\ heap = [n \in {start} |-> Global(f_main)] /\ tracked = NULL
  BY DEF Init, InitWith
<1>2. ProgramStack = <<start>> /\ Roots = {start}
  BY <1>1 DEF ProgramStack, Roots, Range
<1>3. heap[start].kind = "global" /\ heap[start].kids = <<>> /\ DOMAIN heap = {start}
  BY <1>1 DEF Global
<1>4. Live = {start}
  <2>1. {start} \in Closures(Roots, heap)
    BY <1>2, <1>3 DEF Closures, Range
  <2>2. start \in Live
    BY <1>2 DEF Live, Reachable, Closures
  <2> QED
    BY <2>1, <2>2, ReachableWithin DEF Live
<1>5. DOMAIN View = {start} /\ View[start] = heap[start]
  BY <1>3, <1>4 DEF View, Restrict
<1> QED
  BY <1>2, <1>3, <1>5 DEF Graph!Init, View

(* The result of extern_easyadd comes on the stack at once.                *)
LEMMA EasyAddIsAllocate ==
  ASSUME CollectorInv, CollectorInv', NEW i \in Val, EasyAdd(i)
  PROVE  Graph!Allocate
<1>1. Running /\ 4 <= Count /\ tracked' = tracked
  BY DEF EasyAdd, ArgumentsAre, gcVars
<1>2. PICK n \in Node \ DOMAIN heap : heap' = With(heap, n, Num(i)) /\ stack' = Append(Beneath(4), n)
  BY DEF EasyAdd
<1>3. tracked = NULL
  BY <1>1 DEF CollectorInv, InvWith, RunInv, Running
<1>4. ProgramStack' = Append(Beneath(4), n)
  BY <1>1, <1>2, <1>3 DEF ProgramStack
<1>5. Range(Num(i).kids) = {}
  BY DEF Num, Range
<1>6. 4 \in 0..Count
  BY <1>1, LiveSlots
<1> QED
  BY <1>1, <1>2, <1>4, <1>5, <1>6, IsAllocate

LEMMA StepIsGraph ==
  ASSUME CollectorInv, CollectorInv', [Next]_vars
  PROVE  [Graph!Next]_<<ProgramStack, View>>
<1>1. ASSUME Abort \/ Stopped \/ UNCHANGED vars PROVE UNCHANGED <<ProgramStack, View>>
  <2>1. UNCHANGED <<stack, heap, tracked>>
    BY <1>1 DEF Abort, Stopped, vars, gcVars
  <2> QED
    BY <2>1, SameView DEF Roots, ProgramStack
<1>2. ASSUME NEW v \in Val, PushInt(v) \/ PushString(v) \/ PushGlobal(v) \/ BinOp(v)
      PROVE  Graph!Next
  BY <1>2, AllocationIsAllocate, 0 \in Nat DEF Graph!Next
<1>3. ASSUME MkApp PROVE Graph!Next
  BY <1>3, AllocationIsAllocate, 0 \in Nat DEF Graph!Next
<1>4. ASSUME NEW n \in 0..MaxStack, NEW v \in Val, Pack(n, v) PROVE Graph!Next
  BY <1>4, AllocationIsAllocate, MaxStackAssumption, n \in Nat DEF Graph!Next
<1>5. ASSUME NEW n \in 0..MaxStack, Update(n) PROVE Graph!Next
  BY <1>5, UpdateIsRedirect, MaxStackAssumption, n \in Nat DEF Graph!Next
<1>6. ASSUME NEW n \in 0..MaxStack,
             Push(n) \/ Pop(n) \/ Slide(n) \/ Split(n) \/ UnwindGlobal(n)
      PROVE  Graph!Next
  BY <1>6, PointerStepIsMove, MaxStackAssumption, n \in Nat DEF Graph!Next
<1>7. ASSUME UnwindApp \/ UnwindInd PROVE Graph!Next
  BY <1>7, PointerStepIsMove, 0 \in Nat DEF Graph!Next
<1>8. CASE Instruction
  BY <1>2, <1>3, <1>4, <1>5, <1>6, <1>7, <1>8 DEF Instruction
<1>9. CASE Collect
  BY <1>9, CollectIsUnseen
<1> QED
  BY <1>1, <1>8, <1>9 DEF Next

(* To a program the collector does not exist: every allocation, move and   *)
(* update does to the graph it can reach what it says and nothing else,    *)
(* and a collection, wherever it starts, cannot be told from a stutter     *)
(* (gmachine.c:88-149).                                                    *)
THEOREM CollectorIsInvisible == Spec => ImplementsObjectGraph
<1>1. Init => Graph!Init
  BY InitIsGraph
<1>2. IInv => CollectorInv
  BY DEF IInv, CollectorInv
<1>3. CollectorInv /\ CollectorInv' /\ [Next]_vars => [Graph!Next]_<<ProgramStack, Restrict(heap, Live \cap DOMAIN heap)>>
  BY StepIsGraph DEF View
<1> QED
  BY <1>1, <1>2, <1>3, InvariantHolds, PTL DEF Spec, ImplementsObjectGraph, Graph!Spec, Graph!pvars

=============================================================================
